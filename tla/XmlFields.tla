------------------------------- MODULE XmlFields -------------------------------
(* How the XML package (server/webdav/internal/xml) lays a struct out as          *)
(* elements and finds its fields again: the table of a type's fields, built once  *)
(* (typeinfo.go), the elements that marshalStruct writes, with the parents of a   *)
(* field such as lockscope>exclusive, and the reading of them (read.go).  Types   *)
(* are chosen freely.                                                             *)
EXTENDS Naturals, Sequences, SequencesExt, FiniteSetsExt

CONSTANTS
  FieldNames,      \* of elements
  Places,     \* fields' paths: parents, and the name
  FieldSpaces,\* the name spaces of fields, NoXmlns among them
  NoXmlns,    \* a field whose tag has no name space
  Outer,      \* the default name space where a struct is written
  MaxFields   \* bound: fields a type declares

ASSUME FieldsAssumption == NoXmlns \in FieldSpaces /\ MaxFields \in Nat

VARIABLES
  declared,   \* the number of fields the type has declared so far
  fields,     \* the ones in its table, or Failed
  values,     \* what a struct that is written holds: how often each field is there
  doc,        \* the tokens of a document: an element's start, or End
  pos,        \* how many of them have been read
  frames,     \* what the reader is in
  read        \* the elements each field was read from, by their place in doc

fieldVars == <<declared, fields, values, doc, pos, frames, read>>

Unwritten == <<>>
End == [end |-> TRUE]
Element(n, s) == [end |-> FALSE, name |-> n, space |-> s]
\* A field: many is TRUE of a slice, deep of one of an embedded struct.
Failed == <<[path |-> <<>>, space |-> NoXmlns, many |-> FALSE, deep |-> FALSE]>>
FieldTypes == [path : Places, space : FieldSpaces, many : BOOLEAN, deep : BOOLEAN]
Struct(path) == [kind |-> "struct", path |-> path]
Leaf == [kind |-> "leaf", path |-> <<>>]
Skip == [kind |-> "skip", path |-> <<>>]

FieldsInit ==
  /\ declared = 0 /\ fields = <<>> /\ values = Unwritten /\ doc = <<>> /\ pos = 0 /\ frames = <<>> /\ read = <<>>
-----------------------------------------------------------------------------
(* The table.                                                                  *)

Apart(f, g) == f.space # NoXmlns /\ g.space # NoXmlns /\ f.space # g.space
Conflict(f, g) == ~Apart(f, g) /\ (IsPrefix(f.path, g.path) \/ IsPrefix(g.path, f.path))

\* addFieldInfo: a conflict with a shallower field drops the new one, with one of its
\* depth is an error, and with deeper ones drops those.
AddFieldInfo(t, f) ==
  LET against == {i \in 1..Len(t) : Conflict(t[i], f)} IN
  IF against = {} THEN Append(t, f)
  ELSE IF \E i \in against : ~t[i].deep /\ f.deep THEN t
  ELSE IF \E i \in against : t[i].deep = f.deep THEN Failed
  ELSE Append(SelectSeq(t, LAMBDA g : ~Conflict(g, f)), f)

\* getTypeInfo, one field.
Declare(f) ==
  /\ declared < MaxFields /\ fields # Failed /\ values = Unwritten /\ doc = <<>>
  /\ declared' = declared + 1 /\ fields' = AddFieldInfo(fields, f)
  /\ UNCHANGED <<values, doc, pos, frames, read>>
-----------------------------------------------------------------------------
(* Writing.  out: the tokens, open: the parents that are, in: their name space. *)

Parents(f) == Front(f.path)
Common(p, q) == Max({n \in 0..Len(p) : n <= Len(q) /\ SubSeq(p, 1, n) = SubSeq(q, 1, n)})
EndsOf(n) == [i \in 1..n |-> End]

\* setParents: those that are not common are closed, and new ones opened, unless the
\* field is a nil pointer.
SetParents(w, parents, space, absent) ==
  LET kept == IF space = w.in THEN Common(parents, w.open) ELSE 0
      opened == IF absent THEN <<>> ELSE SubSeq(parents, kept + 1, Len(parents))
  IN [out |-> w.out \o EndsOf(Len(w.open) - kept) \o [i \in 1..Len(opened) |-> Element(opened[i], space)],
      open |-> IF absent THEN SubSeq(parents, 1, kept) ELSE parents, in |-> space]

\* An open parent has made its name space the default.
SpaceIn(w, f) == IF f.space # NoXmlns THEN f.space ELSE IF w.open # <<>> THEN w.in ELSE Outer
\* marshalStruct, one field, with n elements; a slice without any still opens parents.
WriteField(w, f, n) ==
  LET at == SetParents(w, Parents(f), SpaceIn(w, f), n = 0 /\ ~f.many) IN
  [at EXCEPT !.out = @ \o FlattenSeq([i \in 1..n |-> <<Element(Last(f.path), SpaceIn(at, f)), End>>])]

Marshalled(t, ns) ==
  LET w[i \in 0..Len(t)] == IF i = 0 THEN [out |-> <<>>, open |-> <<>>, in |-> Outer] ELSE WriteField(w[i - 1], t[i], ns[i])
  IN SetParents(w[Len(t)], <<>>, Outer, TRUE).out

\* Encode, of a struct that holds each field ns[i] times.
Write(ns) ==
  /\ fields \notin {<<>>, Failed} /\ values = Unwritten /\ doc = <<>>
  /\ \A i \in 1..Len(fields) : ns[i] <= 1 \/ fields[i].many
  /\ values' = ns /\ doc' = Append(Marshalled(fields, ns), End)
  /\ frames' = <<Struct(<<>>)>> /\ read' = [i \in 1..Len(fields) |-> <<>>]
  /\ UNCHANGED <<declared, fields, pos>>

\* A document of a client.
Given(d) ==
  /\ fields \notin {<<>>, Failed} /\ values = Unwritten /\ doc = <<>>
  /\ doc' = Append(d, End) /\ frames' = <<Struct(<<>>)>> /\ read' = [i \in 1..Len(fields) |-> <<>>]
  /\ UNCHANGED <<declared, fields, values, pos>>
-----------------------------------------------------------------------------
(* Reading.                                                                    *)

Admits(f, s) == f.space = NoXmlns \/ f.space = s
\* unmarshalPath: the first field whose path, or a parent of it, the element is.
Interested(path, e) ==
  {i \in 1..Len(fields) : Admits(fields[i], e.space) /\ IsPrefix(Append(path, e.name), fields[i].path)}

ReadElement ==
  /\ pos < Len(doc) /\ frames # <<>> /\ ~doc[pos + 1].end
  /\ pos' = pos + 1
  /\ LET e == doc[pos']
         who == IF Last(frames).kind = "struct" THEN Interested(Last(frames).path, e) ELSE {}
         i == Min(who)
     IN IF who = {} THEN frames' = Append(frames, Skip) /\ UNCHANGED read
        ELSE IF Len(fields[i].path) = Len(Last(frames).path) + 1
             THEN /\ read' = [read EXCEPT ![i] = IF fields[i].many THEN Append(@, pos') ELSE <<pos'>>]
                  /\ frames' = Append(frames, Leaf)
             ELSE frames' = Append(frames, Struct(Append(Last(frames).path, e.name))) /\ UNCHANGED read
  /\ UNCHANGED <<declared, fields, values, doc>>

ReadEndTag ==
  /\ pos < Len(doc) /\ frames # <<>> /\ doc[pos + 1].end
  /\ pos' = pos + 1 /\ frames' = Front(frames)
  /\ UNCHANGED <<declared, fields, values, doc, read>>
-----------------------------------------------------------------------------
\* The elements around the i-th token, and it, from the outermost.
Around(i) ==
  LET open[k \in 0..i] == IF k = 0 THEN <<>> ELSE IF doc[k].end THEN Front(open[k - 1]) ELSE Append(open[k - 1], k)
  IN open[i]
PathOf(i) == [k \in 1..Len(Around(i)) |-> doc[Around(i)[k]].name]
\* What a field's tag asks for: the elements at its path, in its name space, in parents
\* that some field has.
Wanted(f) ==
  {i \in 1..pos : /\ ~doc[i].end /\ PathOf(i) = f.path /\ Admits(f, doc[i].space)
                  /\ \A k \in 1..(Len(f.path) - 1) :
                       \E g \in ToSet(fields) : Len(g.path) > k /\ SubSeq(g.path, 1, k) = SubSeq(f.path, 1, k)
                                                /\ Admits(g, doc[Around(i)[k]].space)}

\* The type invariant; the reader is as deep as the document.
FieldsTypeOK ==
  /\ declared \in 0..MaxFields /\ pos \in 0..Len(doc) /\ Len(fields) <= MaxFields
  /\ pos > 0 /\ pos < Len(doc) => Len(frames) = Len(Around(pos)) + 1
  /\ pos > 0 /\ pos = Len(doc) => frames = <<>>

\* No field's path is another's, or leads to it: what an element is for is unambiguous.
PathsApart ==
  fields # Failed =>
    \A i, j \in 1..Len(fields) : i # j /\ ~Apart(fields[i], fields[j]) => ~IsPrefix(fields[i].path, fields[j].path)

\* A field is read from the elements that its tag asks for: a slice from all, another
\* from the last.
ReadWhatIsAsked ==
  doc # <<>> =>
    \A i \in 1..Len(fields) :
      IF fields[i].many THEN ToSet(read[i]) = Wanted(fields[i]) /\ Len(read[i]) = Cardinality(ToSet(read[i]))
      ELSE read[i] = IF Wanted(fields[i]) = {} THEN <<>> ELSE <<Max(Wanted(fields[i]))>>

\* What was written is read: every field as often as the struct held it.
ReadBack == values # Unwritten /\ pos = Len(doc) => \A i \in 1..Len(fields) : Len(read[i]) = values[i]

\* A struct is read from what it was written as, and from nothing else.
FieldsHold == FieldsTypeOK /\ PathsApart /\ ReadWhatIsAsked /\ ReadBack
=============================================================================
