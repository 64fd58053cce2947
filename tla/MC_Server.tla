------------------------------- MODULE MC_Server -------------------------------
(* An instance of each part of the server that need not be fair: part is the *)
(* one a behaviour is of. They share no state, and the others stay as they   *)
(* were at the start.                                                        *)
EXTENDS DavServer, XmlNames, XmlFields, DavProps, IfHeader, XmlText, Searching, Serving, TLC

CONSTANTS a, ab, aa, u1, u2, b, x1, x2, x3, u, vv, live, file, dead, dd, df
VARIABLE part

Parts == {"dav", "names", "fields", "props", "header", "text", "search", "pages", "api", "thumbs"}
-----------------------------------------------------------------------------
(* WebDAV: a collection a with a member ab, and a resource c beside it.         *)

AboveOf == (a :> {}) @@ (ab :> {a}) @@ (aa :> {})

\* One request of each method, whose other fields its handler does not read.
Ask1(m, p) == [method |-> m, path |-> p, dest |-> aa, body |-> "full",
              overwrite |-> TRUE, zero |-> TRUE, finite |-> FALSE]

DavRequests ==
  {Ask1("PUT", ab), [Ask1("PUT", ab) EXCEPT !.body = "broken"], [Ask1("PUT", aa) EXCEPT !.body = "empty"],
   Ask1("PUT", a), Ask1("DELETE", a), Ask1("DELETE", ab), Ask1("MKCOL", a), Ask1("PROPPATCH", ab),
   Ask1("MOVE", ab), [Ask1("MOVE", ab) EXCEPT !.overwrite = FALSE], [Ask1("MOVE", aa) EXCEPT !.dest = ab],
   Ask1("COPY", ab), Ask1("COPY", a), Ask1("LOCK", ab), [Ask1("LOCK", a) EXCEPT !.zero = FALSE],
   [Ask1("LOCK", a) EXCEPT !.zero = FALSE, !.finite = TRUE], Ask1("LOCK", aa),
   Ask1("UNLOCK", a), [Ask1("REFRESH", a) EXCEPT !.finite = TRUE]}
-----------------------------------------------------------------------------
(* XML: two name spaces that suggest one prefix.                               *)

BaseOfAll == [url \in {u1, u2} |-> b]
Declaring(p, url) == [prefix |-> p, url |-> url]
SomeDecls ==
  {<<>>, <<Declaring(NoPrefix, u1)>>, <<Declaring(NoPrefix, NoSpace)>>, <<Declaring(<<b, 0>>, u1)>>,
   <<Declaring(<<b, 0>>, u2)>>, <<Declaring(<<b, 1>>, u2)>>, <<Declaring(NoPrefix, u2), Declaring(<<b, 0>>, u1)>>}
SomeAttrs == {<<>>, <<u1>>}
ClientTags == [prefix : {NoPrefix, <<b, 0>>}, decls : SomeDecls, attrs : {<<>>, <<<<b, 0>>>>}]
XmlNext ==
  \/ \E s \in Spaces, h \in SomeDecls, at \in SomeAttrs : WriteStart(s, h, at) \/ WriteStart(s, SetDefault(s, h), at)
  \/ WriteEnd
  \/ \E t \in ClientTags : ClientStart(t)
  \/ ClientEnd \/ XmlReads

FieldPlaces == {<<x1>>, <<x1, x2>>, <<x1, x3>>, <<x2, x1>>}
Elements(s) == {Element(n, s) : n \in FieldNames}
AnyElement == Elements(u) \cup Elements(vv)
\* A field of an embedded struct has no name space here.
SomeFields == {t \in FieldTypes : t.space = NoXmlns \/ (~t.deep /\ ~t.many)}
\* Two in a row, one in the other, or two in one.
Docs ==
  {<<x, End, y, End>> : x \in AnyElement, y \in AnyElement} \cup {<<x, y, End, End>> : x \in AnyElement, y \in AnyElement}
  \cup {<<x, y, End, y, End, End>> : x \in Elements(u), y \in AnyElement}
  \cup {<<x, y, End, End, z, End>> : x \in Elements(vv), y \in Elements(u), z \in Elements(u)}
Counts == UNION {[1..n -> 0..2] : n \in 1..MaxFields}
FieldsNext ==
  \/ \E t \in SomeFields : Declare(t)
  \/ \E ns \in Counts : Len(fields) = Len(ns) /\ Write(ns)
  \/ \E t \in Docs : Given(t)
  \/ ReadElement \/ ReadEndTag

AllForms == {"text", "attr", "comment", "inst", "directive", "rawText", "rawAttr", "cdata"}
Each(cs) == {<<s>> : s \in cs}
SomePieces == [w \in AllForms |->
  CASE w \in {"text", "attr"} -> Each({"a", "<", "&", "quot", "cr", "nl", "bad"}) \cup {<<"]", "]", ">">>}
    [] w \in {"rawText", "rawAttr"} -> Each({"quot", "<", ">", "cr", "nl", "&gt", "&0", "&"}) \cup {<<"]", "]">>}
    [] w = "cdata" -> Each({"<", ">", "]", "cr", "nl", "bad"})
    [] w = "comment" -> Each({"-", ">", "a"})
    [] w = "inst" -> Each({"?", ">", "sp"}) \cup {<<"version=", "quot", "1.0", "quot">>, <<"version=", "apos", "else", "apos">>, <<"encoding=", "apos", "utf-8", "apos">>}
    [] OTHER -> Each({"a", "<", ">", "quot", "-", "!"}) \cup {<<"!", "-", "-">>, <<"-", "-", ">">>}]
SomeTargets == {<<"a", "1">>, <<"1">>, <<"xml">>, <<"a", "odd">>, <<>>}
-----------------------------------------------------------------------------
(* Bodies of PROPFIND and PROPPATCH.                                           *)

DavNodes == {<<>>, <<dd>>, <<dd, df>>, <<df>>}
DavDirs == {<<>>, <<dd>>}
El(t, ns) == [tag |-> t, names |-> ns, valued |-> FALSE]
PropEls ==
  {El("allprop", <<>>), El("propname", <<>>), El("prop", <<live, dead>>), El("prop", <<>>), El("include", <<dead>>),
   El("text", <<>>), El("torn", <<>>)}
PatchEl(t, ns, val) == [tag |-> t, names |-> ns, valued |-> val]
PatchEls ==
  {PatchEl("set", <<dead>>, TRUE), PatchEl("set", <<dead, live>>, FALSE), PatchEl("remove", <<file>>, FALSE),
   PatchEl("remove", <<dead>>, TRUE), PatchEl("text", <<>>, FALSE), PatchEl("prop", <<>>, FALSE)}
UpToTwo(S) == {<<>>} \cup {<<x>> : x \in S} \cup {<<x, y>> : x \in S, y \in S}
SomeBodies == UpToTwo(PropEls)
SomePatches == UpToTwo(PatchEls)
-----------------------------------------------------------------------------
(* The search's entries and filters.                                          *)

SomeEntries == {<<"_">>, <<"_", "f">>, <<"e">>, <<"e", "f">>, <<"x">>}
SomeFolders == {<<"_">>, <<"e">>}
SomeLikes == {<<<<"e", "f">>, <<"_">>>>}
SomeFilters == <<[sign |-> "+", paths |-> {<<"_", "f">>}], [sign |-> "-", paths |-> {<<"x">>, <<"_", "f">>}],
                 [sign |-> "+", paths |-> SomeEntries]>>
-----------------------------------------------------------------------------
PartInit ==
  /\ part \in Parts
  /\ DavInit /\ FieldsInit /\ IfInit /\ SearchInit /\ ApiInit /\ ThumbsInit
  /\ XmlInit /\ (part = "names" \/ writer = "printer")
  /\ DavPropsInit /\ (part = "props" \/ davTree = {<<>>})
  /\ TextInit /\ (part = "text" \/ form = "text")
  /\ PagesInit /\ (part = "pages" \/ hits = 0)

DavPart == part = "dav" /\ DavNext
NamesPart == part = "names" /\ XmlNext
FieldsPart == part = "fields" /\ FieldsNext
PropsPart == part = "props" /\ DavPropsNext
HeaderPart == part = "header" /\ IfNext
TextPart == part = "text" /\ TextNext
SearchPart == part = "search" /\ SearchNext
PagesPart == part = "pages" /\ ReadPage
ApiPart == part = "api" /\ ApiNext
ThumbsPart == part = "thumbs" /\ ThumbsNext

PartNext ==
  /\ UNCHANGED part
  /\ \/ DavPart /\ UNCHANGED <<xmlVars, fieldVars, propVars, ifVars, textVars, searchVars, pageVars, apiVars, thumbVars>>
     \/ NamesPart /\ UNCHANGED <<davVars, fieldVars, propVars, ifVars, textVars, searchVars, pageVars, apiVars, thumbVars>>
     \/ FieldsPart /\ UNCHANGED <<davVars, xmlVars, propVars, ifVars, textVars, searchVars, pageVars, apiVars, thumbVars>>
     \/ PropsPart /\ UNCHANGED <<davVars, xmlVars, fieldVars, ifVars, textVars, searchVars, pageVars, apiVars, thumbVars>>
     \/ HeaderPart /\ UNCHANGED <<davVars, xmlVars, fieldVars, propVars, textVars, searchVars, pageVars, apiVars, thumbVars>>
     \/ TextPart /\ UNCHANGED <<davVars, xmlVars, fieldVars, propVars, ifVars, searchVars, pageVars, apiVars, thumbVars>>
     \/ SearchPart /\ UNCHANGED <<davVars, xmlVars, fieldVars, propVars, ifVars, textVars, pageVars, apiVars, thumbVars>>
     \/ PagesPart /\ UNCHANGED <<davVars, xmlVars, fieldVars, propVars, ifVars, textVars, searchVars, apiVars, thumbVars>>
     \/ ApiPart /\ UNCHANGED <<davVars, xmlVars, fieldVars, propVars, ifVars, textVars, searchVars, pageVars, thumbVars>>
     \/ ThumbsPart /\ UNCHANGED <<davVars, xmlVars, fieldVars, propVars, ifVars, textVars, searchVars, pageVars, apiVars>>

partVars == <<part, davVars, xmlVars, fieldVars, propVars, ifVars, textVars, searchVars, pageVars, apiVars, thumbVars>>

PartSpec == PartInit /\ [][PartNext]_partVars

-----------------------------------------------------------------------------
\* Each is said of the part it is about; the others are as at the start.

\* What a WebDAV client sends is read as it is meant, and what it is sent is what there is.
WireHolds ==
  /\ part = "names" => NamesHold
  /\ part = "fields" => FieldsHold
  /\ part = "text" => TextHolds
  /\ part = "props" => PropsHold
  /\ part = "header" => HeaderHolds
=============================================================================
