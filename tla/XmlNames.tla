------------------------------- MODULE XmlNames -------------------------------
(* The name spaces of the XML that the WebDAV server reads and writes            *)
(* (server/webdav/internal/xml): the printer, which chooses a prefix for each    *)
(* name it writes, and the Decoder, which finds what a prefix stands for.  The   *)
(* Decoder reads what the printer writes, or what a client does.  Text, local    *)
(* names and characters are left out; a token is what a name space depends on.   *)
EXTENDS Naturals, Sequences, SequencesExt, FiniteSetsExt

CONSTANTS
  Urls,       \* name spaces
  Bases,      \* what prefixes are made of
  Base,       \* the base a name space suggests: the end of its path
  MaxSeq,     \* bound: numbered prefixes
  MaxDepth    \* bound: elements open

ASSUME XmlAssumption == Base \in [Urls -> Bases] /\ MaxSeq \in Nat /\ MaxDepth \in Nat

VARIABLES
  writer,     \* who writes: the "printer", or a "client"
  names,      \* the name spaces of the elements that are open, as the writer means them
  meant,      \* those of the attributes of the last
  enc,        \* the printer
  openTags,        \* the start tags of the elements that are open, as they are written
  wire,       \* the token that is written and not yet read
  dec,        \* the Decoder: ns, stk
  got,        \* the name spaces of the attributes it has read last
  lent        \* the depths of the elements it reads for an Unmarshaler

xmlVars == <<writer, names, meant, enc, openTags, wire, dec, got, lent>>

NoPrefix == <<>>
PrefixSet == Bases \X (0..MaxSeq)          \* base, base_1, ...
NoSpace == <<"none">>
Spaces == Urls \cup {NoSpace}
NoUrl == <<"unset">>
Mark == [mark |-> TRUE, prefix |-> NoPrefix, url |-> NoSpace]
\* An attribute: a declaration of a prefix (or of the default), or one of a name space.
Declares == [prefix : PrefixSet \cup {NoPrefix}, url : Spaces]
NoStart == [prefix |-> NoPrefix, decls |-> <<>>, attrs |-> <<>>]

NewPrinter == [default |-> NoSpace, ns |-> [p \in PrefixSet |-> NoSpace], as |-> [u \in Spaces |-> NoPrefix], undo |-> <<>>, seq |-> 0]
NewDecoder == [ns |-> [p \in PrefixSet \cup {NoPrefix} |-> NoUrl], stk |-> <<>>]

XmlInit ==
  /\ writer \in {"printer", "client"} /\ names = <<>> /\ meant = <<>> /\ openTags = <<>>
  /\ enc = NewPrinter /\ wire = <<>> /\ dec = NewDecoder /\ got = <<>> /\ lent = <<>>
-----------------------------------------------------------------------------
(* The printer.                                                                *)

SetAttrPrefix(e, p, u) ==
  IF p = NoPrefix THEN [e EXCEPT !.default = u]
  ELSE IF u = NoSpace THEN [e EXCEPT !.as[e.ns[p]] = NoPrefix, !.ns[p] = NoSpace]
  ELSE [e EXCEPT !.as = [[@ EXCEPT ![e.ns[p]] = NoPrefix] EXCEPT ![u] = p], !.ns[p] = u]

NsForPrefix(e, p) == IF p = NoPrefix THEN e.default ELSE e.ns[p]

PushPrefix(e, p, u) ==
  SetAttrPrefix([e EXCEPT !.undo = Append(@, [mark |-> FALSE, prefix |-> p, url |-> NsForPrefix(e, p)])], p, u)

\* A declaration the caller gives is a hint: a prefix is not taken away, no name space
\* gets two, and an element in none keeps the default from being set.
DefineNS(e, d, plain) ==
  CASE d.prefix = NoPrefix -> IF d.url = e.default \/ (d.url # NoSpace /\ plain) THEN e ELSE PushPrefix(e, NoPrefix, d.url)
    [] OTHER -> IF d.url = NoSpace \/ e.as[d.url] # NoPrefix THEN e ELSE PushPrefix(e, d.prefix, d.url)

FreeSeq(e, b) == CHOOSE n \in (e.seq + 1)..MaxSeq : e.ns[<<b, n>>] = NoSpace /\ \A m \in (e.seq + 1)..(n - 1) : e.ns[<<b, m>>] # NoSpace
HasFreeSeq(e, b) == \E n \in (e.seq + 1)..MaxSeq : e.ns[<<b, n>>] = NoSpace

CreateNSPrefix(e, u, isAttr) ==
  CASE e.as[u] # NoPrefix \/ (~isAttr /\ u = e.default) -> e
    [] u = NoSpace -> IF e.default # NoSpace THEN PushPrefix(e, NoPrefix, NoSpace) ELSE e
    [] OTHER -> IF e.ns[<<Base[u], 0>>] = NoSpace THEN PushPrefix(e, <<Base[u], 0>>, u)
                ELSE LET n == FreeSeq(e, Base[u]) IN PushPrefix([e EXCEPT !.seq = n], <<Base[u], n>>, u)

\* Mutant: the default is used for attributes too.
PrefixForAny(e, u, isAttr) == IF u = e.default THEN NoPrefix ELSE e.as[u]
PrefixForNS(e, u, isAttr) == IF ~isAttr /\ u = e.default THEN NoPrefix ELSE e.as[u]

\* The records since the mark, the last first.
Undone(s) == LET i == Max({0} \cup {j \in 1..Len(s) : s[j].mark}) IN Reverse(SubSeq(s, i + 1, Len(s)))
WriteNamespaces(e) == [i \in 1..Len(Undone(e.undo)) |-> [prefix |-> Undone(e.undo)[i].prefix, url |-> NsForPrefix(e, Undone(e.undo)[i].prefix)]]

PopPrefix(e) ==
  LET f == FoldLeft(LAMBDA a, r : SetAttrPrefix(a, r.prefix, r.url), e, Undone(e.undo)) IN
  [f EXCEPT !.undo = SubSeq(@, 1, Max({j \in 1..Len(@) : @[j].mark}) - 1)]

\* setDefaultNamespace, which marshalValue calls: an element's name space becomes the
\* default in it.
SetDefault(u, decls) ==
  IF u = NoSpace \/ \E i \in 1..Len(decls) : decls[i].prefix = NoPrefix THEN decls
  ELSE Append(decls, [prefix |-> NoPrefix, url |-> u])

\* writeStart.  The number of prefixes is bounded.
WriteStart(u, decls, attrs) ==
  LET marked == [enc EXCEPT !.undo = Append(@, Mark)]
      hinted == FoldLeft(LAMBDA e, d : DefineNS(e, d, u = NoSpace), marked, decls)
      put == FoldLeft(LAMBDA e, a : CreateNSPrefix(e, a, TRUE), hinted, SelectSeq(attrs, LAMBDA a : a # NoSpace))
      last == CreateNSPrefix(put, u, FALSE)
  IN /\ writer = "printer" /\ wire = <<>> /\ Len(names) < MaxDepth
     /\ \A b \in Bases : HasFreeSeq(enc, b)
     /\ enc' = last
     /\ wire' = << [prefix |-> PrefixForNS(last, u, FALSE), decls |-> WriteNamespaces(last),
                    attrs |-> [i \in 1..Len(attrs) |-> PrefixForNS(last, attrs[i], TRUE)]] >>
     /\ openTags' = Append(openTags, wire'[1]) /\ names' = Append(names, u) /\ meant' = attrs
     /\ UNCHANGED <<writer, dec, got, lent>>

\* writeEnd, of the element that is open: any other name is an error.
WriteEnd ==
  /\ writer = "printer" /\ wire = <<>> /\ names # <<>>
  /\ wire' = << [end |-> PrefixForNS(enc, Last(names), FALSE)] >>
  /\ enc' = PopPrefix(enc) /\ names' = Front(names) /\ openTags' = Front(openTags) /\ meant' = <<>>
  /\ UNCHANGED <<writer, dec, got, lent>>
-----------------------------------------------------------------------------
(* A client, and what its tags mean: a prefix stands for what the innermost      *)
(* element that declares it says; one that none declares, for itself.            *)

Stands(d, p) ==
  LET In(i) == {j \in 1..Len(d[i].decls) : d[i].decls[j].prefix = p}
      at == {i \in 1..Len(d) : In(i) # {}}
  IN IF at = {} THEN NoUrl ELSE d[Max(at)].decls[Max(In(Max(at)))].url
ElementSpace(d, p) == IF Stands(d, p) # NoUrl THEN Stands(d, p) ELSE IF p = NoPrefix THEN NoSpace ELSE p
AttrSpace(d, p) == IF p = NoPrefix THEN NoSpace ELSE ElementSpace(d, p)

ClientStart(t) ==
  /\ writer = "client" /\ wire = <<>> /\ Len(names) < MaxDepth
  /\ wire' = <<t>> /\ openTags' = Append(openTags, t)
  /\ names' = Append(names, ElementSpace(openTags', t.prefix))
  /\ meant' = [i \in 1..Len(t.attrs) |-> AttrSpace(openTags', t.attrs[i])]
  /\ UNCHANGED <<writer, enc, dec, got, lent>>

ClientEnd ==
  /\ writer = "client" /\ wire = <<>> /\ names # <<>>
  /\ wire' = << [end |-> Last(openTags).prefix] >>
  /\ names' = Front(names) /\ openTags' = Front(openTags) /\ meant' = <<>>
  /\ UNCHANGED <<writer, enc, dec, got, lent>>
-----------------------------------------------------------------------------
(* The Decoder; the last record of stk is its top.                              *)

Start(u) == [kind |-> "start", of |-> u]
Eof == [kind |-> "eof"]
Ns(p, u) == [kind |-> "ns", prefix |-> p, url |-> u]

PushNs(d, c) == [ns |-> [d.ns EXCEPT ![c.prefix] = c.url], stk |-> Append(d.stk, Ns(c.prefix, d.ns[c.prefix]))]
Translate(d, p, isElement) ==
  IF p = NoPrefix /\ ~isElement THEN NoSpace
  ELSE IF d.ns[p] # NoUrl THEN d.ns[p] ELSE IF p = NoPrefix THEN NoSpace ELSE p

AtEOF == dec.stk # <<>> /\ Last(dec.stk).kind = "eof"

\* Token, of a start tag: its declarations first, for they hold for its own names.
ReadStart ==
  /\ wire # <<>> /\ "end" \notin DOMAIN wire[1] /\ ~AtEOF
  /\ LET t == wire[1]
         d == FoldLeft(PushNs, dec, t.decls)
     IN /\ dec' = [d EXCEPT !.stk = Append(@, Start(Translate(d, t.prefix, TRUE)))]
        /\ got' = [i \in 1..Len(t.attrs) |-> Translate(d, t.attrs[i], FALSE)]
  /\ wire' = <<>>
  /\ UNCHANGED <<writer, names, meant, enc, openTags, lent>>

\* The records below a start belong to it: down to the next start, or EOF.
Below(s) == LET i == Max({0} \cup {j \in 1..Len(s) : s[j].kind # "ns"}) IN Reverse(SubSeq(s, i + 1, Len(s)))

Undo(d) ==
  [ns |-> FoldLeft(LAMBDA n, r : [n EXCEPT ![r.prefix] = r.url], d.ns, Below(d.stk)),
   stk |-> SubSeq(d.stk, 1, Len(d.stk) - Len(Below(d.stk)))]

\* Token, of an end tag: it must match the start, in its name space.
Matches(t) == Last(dec.stk).kind = "start" /\ Last(dec.stk).of = Translate(dec, t.end, TRUE)
ReadEnd ==
  /\ wire # <<>> /\ "end" \in DOMAIN wire[1] /\ dec.stk # <<>> /\ ~AtEOF /\ Matches(wire[1])
  /\ dec' = Undo([dec EXCEPT !.stk = Front(@)])
  /\ got' = <<>> /\ wire' = <<>>
  /\ UNCHANGED <<writer, names, meant, enc, openTags, lent>>

\* unmarshalInterface: the element on top is for an Unmarshaler; Token answers EOF at
\* its end.
Lend ==
  /\ wire = <<>> /\ dec.stk # <<>> /\ Last(dec.stk).kind = "start"
  /\ Len(names) \notin ToSet(lent)
  /\ LET i == Max({0} \cup {j \in 1..(Len(dec.stk) - 1) : dec.stk[j].kind # "ns"}) IN
     dec' = [dec EXCEPT !.stk = SubSeq(@, 1, i) \o <<Eof>> \o SubSeq(@, i + 1, Len(@))]
  /\ lent' = Append(lent, Len(names))
  /\ UNCHANGED <<writer, names, meant, enc, openTags, wire, got>>

\* popEOF, when the Unmarshaler has returned; it fails unless its element is finished.
TakeBack ==
  /\ AtEOF
  /\ dec' = [dec EXCEPT !.stk = Front(@)] /\ lent' = Front(lent)
  /\ UNCHANGED <<writer, names, meant, enc, openTags, wire, got>>

Starts == {i \in 1..Len(dec.stk) : dec.stk[i].kind = "start"}
XmlReads == ReadStart \/ ReadEnd \/ Lend \/ TakeBack
-----------------------------------------------------------------------------
\* The type invariant; the mark of each open element is on the printer's stack.
XmlTypeOK ==
  /\ writer \in {"printer", "client"} /\ Len(names) = Len(openTags) /\ Len(names) <= MaxDepth
  /\ enc.default \in Spaces /\ enc.ns \in [PrefixSet -> Spaces] /\ enc.as \in [Spaces -> PrefixSet \cup {NoPrefix}]
  /\ (writer = "printer" => Cardinality({i \in 1..Len(enc.undo) : enc.undo[i].mark}) = Len(names))
  /\ Len(wire) <= 1 /\ DOMAIN dec.ns = PrefixSet \cup {NoPrefix}

\* A prefix of the printer stands for one name space, and a name space has one prefix.
OneToOne ==
  /\ \A p \in PrefixSet : enc.ns[p] # NoSpace => enc.as[enc.ns[p]] = p
  /\ \A u \in Spaces : enc.as[u] # NoPrefix => enc.ns[enc.as[u]] = u

\* The names that are read are the ones that were meant, of elements and of attributes,
\* and every end tag is accepted.
ReadAsMeant ==
  /\ wire = <<>> => /\ [i \in 1..Len(names) |-> dec.stk[SetToSortSeq(Starts, <)[i]].of] = names
                    /\ Cardinality(Starts) = Len(names)
                    /\ (names # <<>> /\ Last(dec.stk).kind = "start" /\ got # <<>> => got = meant)
  /\ wire # <<>> /\ "end" \in DOMAIN wire[1] /\ ~AtEOF => Matches(wire[1])

\* The Decoder knows of the prefixes what the elements that are open declare, and what
\* the printer takes them for.
ScopesMatch ==
  wire = <<>> /\ ~AtEOF =>
    /\ \A p \in PrefixSet \cup {NoPrefix} : dec.ns[p] = Stands(openTags, p)
    /\ writer = "printer" => \A p \in PrefixSet : enc.ns[p] # NoSpace => dec.ns[p] = enc.ns[p]

\* An Unmarshaler gets no token beyond its element: when that has ended, the Decoder
\* answers EOF until it is taken back.
LentInside == wire = <<>> /\ lent # <<>> => Len(names) >= Last(lent) \/ AtEOF

\* A name is read as the name that was written.
NamesHold == XmlTypeOK /\ OneToOne /\ ReadAsMeant /\ ScopesMatch /\ LentInside
=============================================================================
