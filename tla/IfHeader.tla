------------------------------- MODULE IfHeader -------------------------------
(* The If header of WebDAV requests (server/webdav/if.go): lists of conditions,   *)
(* either of the request's resource or each after the tag of its own, read token  *)
(* by token.  A token's text is left out.                                         *)
EXTENDS Naturals, Sequences, SequencesExt, FiniteSetsExt

CONSTANTS
  IfTags,     \* what stands between < and >: a resource, or a lock's token
  Kinds,      \* of the other tokens
  MaxTokens   \* bound: tokens of a header

ASSUME IfAssumption == MaxTokens \in Nat /\ Kinds \subseteq {"(", ")", "not", "string", "square", "error", "end"}

VARIABLES
  header,     \* the tokens that have been read
  mode,       \* what the parser is about to read
  tag,        \* resourceTag
  count,      \* n: lists since the tag
  lists,      \* h.lists
  conds,      \* the conditions of the list that is read
  verdict     \* what parseIfHeader answers

ifVars == <<header, mode, tag, count, lists, conds, verdict>>

Angles == {[kind |-> "angle", of |-> t] : t \in IfTags}
Word(k) == [kind |-> k, of |-> "none"]
HeaderTokens == Angles \cup {Word(k) : k \in Kinds}
NoTag == "none"
NoValue == Word("none")
IsValue(t) == t.kind \in {"string", "square"} \/ t \in Angles

IfInit ==
  header = <<>> /\ mode = "first" /\ tag = NoTag /\ count = 0 /\ lists = <<>> /\ conds = <<>> /\ verdict = "none"

\* lex, one token.
ReadsToken(t) == verdict = "none" /\ Len(header) < MaxTokens /\ header' = Append(header, t)
RefuseHeader(t) == ReadsToken(t) /\ verdict' = "refused" /\ UNCHANGED <<mode, tag, count, lists, conds>>

\* A tag opens a header of tagged lists, and stands where a list could, if the last one
\* had a list.
MayTag == mode = "first" \/ (mode = "tagged" /\ count > 0)

\* parseTaggedLists, a tag.
ReadTag(t) ==
  /\ t \in Angles /\ MayTag /\ ReadsToken(t)
  /\ mode' = "tagged" /\ tag' = t.of /\ count' = 0
  /\ UNCHANGED <<lists, conds, verdict>>

InList == mode \in {"list", "taggedList"}

\* parseList begins.
OpenList(t) ==
  /\ t.kind = "(" /\ ~InList /\ ReadsToken(t)
  /\ mode' = (IF tag = NoTag THEN "list" ELSE "taggedList")
  /\ count' = count + 1
  /\ UNCHANGED <<tag, lists, conds, verdict>>

Negated == conds # <<>> /\ Last(conds).is = NoValue

\* parseCondition.
ReadNot(t) ==
  /\ t.kind = "not" /\ InList /\ ~Negated /\ ReadsToken(t)
  /\ conds' = Append(conds, [no |-> TRUE, is |-> NoValue])
  /\ UNCHANGED <<mode, tag, count, lists, verdict>>
ReadCondition(t) ==
  /\ IsValue(t) /\ InList /\ ReadsToken(t)
  /\ conds' = IF Negated THEN Append(Front(conds), [no |-> TRUE, is |-> t]) ELSE Append(conds, [no |-> FALSE, is |-> t])
  /\ UNCHANGED <<mode, tag, count, lists, verdict>>

Listed == [tag |-> tag, conds |-> conds]

\* The list's end; an empty one is an error.
CloseList(t) ==
  /\ t.kind = ")" /\ InList /\ conds # <<>> /\ ~Negated /\ ReadsToken(t)
  /\ lists' = Append(lists, Listed) /\ conds' = <<>>
  /\ mode' = IF mode = "list" THEN "untagged" ELSE "tagged"
  /\ UNCHANGED <<tag, count, verdict>>

\* Nothing remains after a list.
Accept(t) ==
  /\ t.kind = "end" /\ mode \in {"untagged", "tagged"} /\ count > 0 /\ ReadsToken(t)
  /\ verdict' = "accepted" /\ UNCHANGED <<mode, tag, count, lists, conds>>

\* Any other token is an error.
Fits(t) ==
  CASE t.kind = "(" -> ~InList
    [] t \in Angles -> MayTag \/ InList
    [] t.kind = "not" -> InList /\ ~Negated
    [] t.kind = ")" -> InList /\ conds # <<>> /\ ~Negated
    [] t.kind = "end" -> mode \in {"untagged", "tagged"} /\ count > 0
    [] OTHER -> InList /\ IsValue(t)

IfNext ==
  \E t \in HeaderTokens :
    ReadTag(t) \/ OpenList(t) \/ ReadNot(t) \/ ReadCondition(t) \/ CloseList(t) \/ Accept(t) \/ (~Fits(t) /\ RefuseHeader(t))
IfSpec == IfInit /\ [][IfNext]_ifVars
-----------------------------------------------------------------------------
(* What RFC 4918, 10.4 allows, and means by it.                                  *)

InsideAt(h, i) == Cardinality({j \in 1..(i - 1) : h[j].kind = "("}) > Cardinality({j \in 1..(i - 1) : h[j].kind = ")"})
TagAt(h, i) == h[i] \in Angles /\ ~InsideAt(h, i)
WellFormed(h) ==
  /\ h # <<>> /\ Last(h).kind = ")"
  /\ \A i \in 1..Len(h) :
       CASE h[i].kind = "(" -> ~InsideAt(h, i)
         [] h[i].kind = ")" -> InsideAt(h, i) /\ IsValue(h[i - 1])
         [] h[i].kind = "not" -> InsideAt(h, i) /\ i < Len(h) /\ IsValue(h[i + 1])
         [] h[i] \in Angles -> InsideAt(h, i) \/ (TagAt(h, 1) /\ h[i + 1].kind = "(")
         [] OTHER -> InsideAt(h, i) /\ IsValue(h[i])

\* The list that ends at the i-th token.
Meant(h, i) ==
  LET from == Max({j \in 1..i : h[j].kind = "("})
      values == {j \in from..i : IsValue(h[j])}
      tags == {j \in 1..i : TagAt(h, j)}
  IN [tag |-> IF tags = {} THEN NoTag ELSE h[Max(tags)].of,
      conds |-> [k \in 1..Cardinality(values) |-> LET j == SetToSortSeq(values, <)[k] IN [no |-> h[j - 1].kind = "not", is |-> h[j]]]]
EndsHeader(h) == SetToSortSeq({i \in 1..Len(h) : h[i].kind = ")"}, <)

\* The type invariant.
IfTypeOK ==
  /\ verdict \in {"none", "accepted", "refused"} /\ tag \in IfTags \cup {NoTag} /\ count \in 0..MaxTokens
  /\ (InList => Len(conds) <= Len(header)) /\ (verdict = "accepted" => lists # <<>>)

\* A header is accepted if it is well formed, and read as it is meant: each list with the
\* tag before it, each condition with the Not before it.
ReadAsWritten ==
  verdict = "accepted" =>
    LET h == Front(header) IN WellFormed(h) /\ lists = [k \in 1..Len(EndsHeader(h)) |-> Meant(h, EndsHeader(h)[k])]

\* It is refused no sooner than it has to be: no way to go on makes it well formed.
RefusedIsWrong ==
  verdict = "refused" =>
    LET v == Word("string")  close == Word(")") IN
    IF Last(header).kind = "end" THEN ~WellFormed(Front(header))
    ELSE \A rest \in {<<>>, <<close>>, <<v, close>>, <<Word("("), v, close>>} : ~WellFormed(header \o rest)

\* The header is read as RFC 4918 means it.
HeaderHolds == IfTypeOK /\ ReadAsWritten /\ RefusedIsWrong
=============================================================================
