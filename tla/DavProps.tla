------------------------------- MODULE DavProps -------------------------------
(* PROPFIND and PROPPATCH of the WebDAV server: the reading of their bodies      *)
(* (server/webdav/xml.go), the grouping of properties (prop.go), the walk of the *)
(* tree (walkFS) while other clients change it, and the multistatus document     *)
(* that is begun with the first answer.  Values and names are left out.          *)
EXTENDS Integers, Sequences, SequencesExt, FiniteSetsExt

CONSTANTS
  Props,      \* names of properties
  LiveProps,  \* those the server protects
  FileProps,  \* those it knows how to find
  DirProps,   \* ... of a directory as well
  PropNodes,  \* places: sequences of names
  PropDirs,   \* those that are directories
  Bodies,     \* what a client may send with PROPFIND
  PatchBodies,\* ... with PROPPATCH
  MaxChanges  \* bound: changes to the tree

ASSUME PropsAssumption ==
  DirProps \subseteq FileProps /\ FileProps \subseteq LiveProps /\ LiveProps \subseteq Props
  /\ PropDirs \subseteq PropNodes /\ <<>> \in PropDirs

VARIABLES
  davTree,       \* the places there are
  changes,    \* how often they have changed
  ask,        \* the request: what it is, of which place, how deep, and its body
  found,      \* the body, as it is read
  walk,       \* what walkFS still has to visit, in order; a directory once more to be opened
  opened,     \* ghost: what was there when a directory was listed, and how deep
  written,    \* the responses of the document: a place and its propstats
  sent,       \* the status that is sent, or NotSent
  closed,     \* the document's end is written
  tail        \* a status text is written after it

propVars == <<davTree, changes, ask, found, walk, opened, written, sent, closed, tail>>

NotSent == 0
Infinite == 3       \* infiniteDepth: deeper than any tree
NoAsk == [what |-> "none", at |-> <<>>, depth |-> 0, body |-> <<>>]
NoBody == [all |-> FALSE, only |-> FALSE, prop |-> <<>>, include |-> <<>>, ops |-> <<>>, bad |-> FALSE]
ChildrenIn(t, n) == {m \in t : m # <<>> /\ Front(m) = n}

DavPropsInit ==
  /\ davTree \in {t \in SUBSET PropNodes : <<>> \in t /\ \A n \in t \ {<<>>} : Front(n) \in t \cap PropDirs}
  /\ changes = 0 /\ ask = NoAsk /\ found = NoBody /\ walk = <<>> /\ opened = {} /\ written = <<>>
  /\ sent = NotSent /\ closed = FALSE /\ tail = FALSE
-----------------------------------------------------------------------------
(* Bodies: a sequence of elements, each with names; torn, of XML that is not       *)
(* whole; of PROPPATCH, set and remove, with the names that have a value.          *)

\* propfindProps.UnmarshalXML: the names are added to those of an earlier element.
Added(old, e) == IF old \o e.names = <<>> THEN "empty" ELSE old \o e.names

ReadElementOf(pf, e) ==
  CASE pf.bad -> pf
    [] e.tag = "allprop" -> [pf EXCEPT !.all = TRUE]
    [] e.tag = "propname" -> [pf EXCEPT !.only = TRUE]
    [] e.tag = "prop" -> IF Added(pf.prop, e) = "empty" THEN [pf EXCEPT !.bad = TRUE] ELSE [pf EXCEPT !.prop = Added(@, e)]
    [] e.tag = "include" -> IF Added(pf.include, e) = "empty" THEN [pf EXCEPT !.bad = TRUE] ELSE [pf EXCEPT !.include = Added(@, e)]
    [] e.tag = "torn" -> [pf EXCEPT !.bad = TRUE]
    [] OTHER -> pf

\* readPropfind; no body asks for all.
ReadPropfind(b) ==
  LET pf == FoldLeft(ReadElementOf, NoBody, b)
      wrong == \/ ~pf.all /\ pf.include # <<>>
               \/ pf.all /\ (pf.prop # <<>> \/ pf.only)
               \/ pf.prop # <<>> /\ pf.only
               \/ ~pf.only /\ ~pf.all /\ pf.prop = <<>>
  IN IF b = <<>> THEN [NoBody EXCEPT !.all = TRUE] ELSE [pf EXCEPT !.bad = @ \/ wrong]

\* readProppatch: a removed property has no value; an empty prop is an error, a missing
\* one is not.
ReadProppatch(b) ==
  [NoBody EXCEPT !.ops = SelectSeq(b, LAMBDA e : e.tag \in {"set", "remove"}),
                 !.bad = b = <<>> \/ \E i \in 1..Len(b) : \/ b[i].tag \notin {"set", "remove", "text"}
                                                          \/ b[i].tag = "remove" /\ b[i].valued]
-----------------------------------------------------------------------------
(* Propstats.                                                                   *)

Propstat(s, ps) == [status |-> s, props |-> ps]
MakePropstats(x, y) ==
  LET some == SelectSeq(<<x, y>>, LAMBDA s : s.props # <<>>) IN IF some = <<>> THEN <<Propstat(200, <<>>)>> ELSE some

Known(n, p) == p \in FileProps /\ (p \in DirProps \/ n \notin PropDirs)
PropsOf(n, names) ==
  MakePropstats(Propstat(200, SelectSeq(names, LAMBDA p : Known(n, p))), Propstat(404, SelectSeq(names, LAMBDA p : ~Known(n, p))))
Propnames(n) == SetToSeq({p \in Props : Known(n, p)})
AllProp(n, include) == PropsOf(n, Propnames(n) \o SelectSeq(include, LAMBDA p : ~Known(n, p)))

\* The handler gives allprop the names of prop, which are none, for those of include.
StatsOf(n) ==
  IF found.only THEN <<Propstat(200, Propnames(n))>>
  ELSE IF found.all THEN AllProp(n, found.prop)
  ELSE PropsOf(n, found.prop)

AskedOf(ops) == FlattenSeq([i \in 1..Len(ops) |-> ops[i].names])
\* patch, of a file system whose files hold no dead properties.
Patch(ops) ==
  LET names == AskedOf(ops) IN
  IF \E i \in 1..Len(names) : names[i] \in LiveProps
  THEN MakePropstats(Propstat(403, SelectSeq(names, LAMBDA p : p \in LiveProps)), Propstat(424, SelectSeq(names, LAMBDA p : p \notin LiveProps)))
  ELSE <<Propstat(403, names)>>
-----------------------------------------------------------------------------
(* The handlers.                                                                *)

Ask(what, n, d, b) ==
  /\ ask = NoAsk
  /\ ask' = [what |-> what, at |-> n, depth |-> d, body |-> b]
  /\ IF n \notin davTree
     THEN sent' = 404 /\ UNCHANGED <<found, walk>>
     ELSE LET r == IF what = "propfind" THEN ReadPropfind(b) ELSE ReadProppatch(b) IN
          /\ found' = r
          /\ IF r.bad THEN sent' = 400 /\ UNCHANGED walk
             ELSE walk' = << [at |-> n, depth |-> d, list |-> FALSE] >> /\ UNCHANGED sent
  /\ UNCHANGED <<davTree, changes, opened, written, closed, tail>>

\* Mutants: the status is taken for sent; the document is left open.
FailAgain == walk' = <<>> /\ closed' = (sent = 207) /\ sent' = 500 /\ tail' = (sent = 207)
FailOpen == walk' = <<>> /\ closed' = FALSE /\ sent' = (IF sent = NotSent THEN 500 ELSE sent) /\ tail' = (sent = 207)

\* An error ends the walk.  The document, if it is begun, is closed first, and the
\* status that ServeHTTP sends then only adds its text.
Fail == walk' = <<>> /\ closed' = (sent = 207) /\ sent' = (IF sent = NotSent THEN 500 ELSE sent) /\ tail' = (sent = 207)

\* walkFn: the first response sends the header.
Visit ==
  /\ ask.what = "propfind" /\ walk # <<>> /\ ~Head(walk).list
  /\ LET v == Head(walk) IN
     /\ written' = Append(written, [at |-> v.at, stats |-> StatsOf(v.at)])
     /\ sent' = 207
     /\ walk' = (IF v.at \in PropDirs /\ v.depth > 0 THEN << [v EXCEPT !.list = TRUE] >> ELSE <<>>) \o Tail(walk)
  /\ UNCHANGED <<davTree, changes, ask, found, opened, closed, tail>>

DepthBelow(d) == IF d = 1 THEN 0 ELSE d

ListDir ==
  /\ ask.what = "propfind" /\ walk # <<>> /\ Head(walk).list
  /\ LET v == Head(walk)
         below == ChildrenIn(davTree, v.at)
         orders == {s \in [1..Cardinality(below) -> below] : IsInjective(s)}
     IN IF v.at \notin davTree
        THEN Fail /\ UNCHANGED opened
        ELSE /\ \E s \in orders : walk' = [i \in 1..Len(s) |-> [at |-> s[i], depth |-> DepthBelow(v.depth), list |-> FALSE]] \o Tail(walk)
             /\ opened' = opened \cup {v.at}
             /\ UNCHANGED <<sent, closed, tail>>
  /\ UNCHANGED <<davTree, changes, ask, found, written>>

\* The drive, or the client's connection, fails.
FailWalk == ask.what = "propfind" /\ walk # <<>> /\ Fail /\ UNCHANGED <<davTree, changes, ask, found, opened, written>>

EndPropWalk ==
  /\ ask.what = "propfind" /\ walk = <<>> /\ sent = 207 /\ ~closed /\ ~tail
  /\ closed' = TRUE
  /\ UNCHANGED <<davTree, changes, ask, found, walk, opened, written, sent, tail>>

\* handleProppatch: the place is opened only if nothing protected is named.
PatchProps ==
  /\ ask.what = "proppatch" /\ walk # <<>>
  /\ LET opens == \A i \in 1..Len(AskedOf(found.ops)) : AskedOf(found.ops)[i] \notin LiveProps IN
     IF opens /\ ask.at \notin davTree THEN Fail /\ UNCHANGED written
     ELSE /\ written' = << [at |-> ask.at, stats |-> Patch(found.ops)] >>
          /\ sent' = 207 /\ closed' = TRUE /\ walk' = <<>> /\ UNCHANGED tail
  /\ UNCHANGED <<davTree, changes, ask, found, opened>>

\* Another client adds a place, or removes one and what is in it.
Change(n) ==
  /\ changes < MaxChanges /\ ask # NoAsk /\ n # <<>> /\ changes' = changes + 1
  /\ IF n \in davTree THEN davTree' = {m \in davTree : ~IsPrefix(n, m)}
     ELSE Front(n) \in davTree \cap PropDirs /\ davTree' = davTree \cup {n}
  /\ UNCHANGED <<ask, found, walk, opened, written, sent, closed, tail>>

DavPropsNext ==
  \/ \E n \in PropNodes, d \in {0, 1, Infinite}, b \in Bodies : Ask("propfind", n, d, b)
  \/ \E n \in PropNodes, b \in PatchBodies : Ask("proppatch", n, 0, b)
  \/ Visit \/ ListDir \/ FailWalk \/ EndPropWalk \/ PatchProps
  \/ \E n \in PropNodes : Change(n)
DavPropsSpec == DavPropsInit /\ [][DavPropsNext]_propVars
-----------------------------------------------------------------------------
Answered == {written[i].at : i \in 1..Len(written)}
NamesIn(stats) == FlattenSeq([i \in 1..Len(stats) |-> stats[i].props])
Times(p, s) == Cardinality({i \in 1..Len(s) : s[i] = p})
Done == sent # NotSent /\ walk = <<>> /\ (sent = 207 => closed \/ tail)
WithinDepth(n, d, m) == IsPrefix(n, m) /\ Len(m) - Len(n) <= d

\* The type invariant; a status is only ever sent once.
DavPropsTypeOK ==
  /\ <<>> \in davTree /\ changes \in 0..MaxChanges /\ sent \in {NotSent, 207, 400, 404, 500}
  /\ Answered \subseteq PropNodes /\ opened \subseteq PropDirs /\ (written # <<>> => sent = 207)

\* A PROPFIND is read by the grammar: propname, prop, or allprop with or without
\* include, none of them empty; no body is allprop.
ReadByGrammar ==
  ask.what = "propfind" /\ sent # 404 =>
    LET tags == {ask.body[i].tag : i \in 1..Len(ask.body)} \ {"text"}
        empty == \E i \in 1..Len(ask.body) : ask.body[i].tag \in {"prop", "include"} /\ ask.body[i].names = <<>>
        fits == ask.body = <<>> \/ tags \in {{"propname"}, {"prop"}, {"allprop"}, {"allprop", "include"}}
    IN (~found.bad => fits) /\ (found.bad => ~fits \/ empty)

\* A response answers what is asked, as often as it is asked, and under the status it has;
\* no status comes twice.
AskedAreAnswered ==
  ask.what = "propfind" =>
    \A i \in 1..Len(written) :
      LET s == written[i].stats  at == written[i].at IN
      /\ \A p \in Props : Times(p, NamesIn(s)) =
            IF found.only \/ found.all THEN (IF Known(at, p) THEN 1 ELSE 0) ELSE Times(p, found.prop)
      /\ \A j \in 1..Len(s) : /\ (Len(s) > 1 => s[j].props # <<>>)
                              /\ \A p \in ToSet(s[j].props) : s[j].status = (IF Known(at, p) THEN 200 ELSE 404)
                              /\ \A k \in 1..Len(s) : s[k].status = s[j].status => k = j

\* A PROPPATCH is refused as a whole: if a protected property is named, by it alone, and
\* every property that is named is answered.
RefusedTogether ==
  ask.what = "proppatch" /\ written # <<>> =>
    LET s == written[1].stats  names == AskedOf(found.ops) IN
    /\ \A p \in Props : Times(p, NamesIn(s)) = Times(p, names)
    /\ \A j \in 1..Len(s) : \A p \in ToSet(s[j].props) :
         s[j].status = IF ToSet(names) \cap LiveProps = {} \/ p \in LiveProps THEN 403 ELSE 424

\* The document of a walk that did not fail holds every place it reached once, after its
\* parent, and what a directory that had to be opened held; all within the depth when
\* nothing changed.
WalkIsWhole ==
  ask.what = "propfind" /\ sent = 207 =>
    /\ \A i, j \in 1..Len(written) : written[i].at = written[j].at => i = j
    /\ \A i \in 1..Len(written) : /\ WithinDepth(ask.at, ask.depth, written[i].at)
                                  /\ (i = 1 \/ \E j \in 1..(i - 1) : written[j].at = Front(written[i].at))
    /\ Done /\ ~tail =>
         /\ \A m \in Answered \cap PropDirs : WithinDepth(ask.at, ask.depth - 1, m) => m \in opened
         /\ changes = 0 => Answered = {m \in davTree : WithinDepth(ask.at, ask.depth, m)}

\* A document that is begun is ended, and nothing is sent after an error.
DocumentIsWhole == Done => (sent = 207 <=> written # <<>>) /\ (closed <=> sent = 207)

\* What is asked of properties is answered, in one document.
PropsHold ==
  DavPropsTypeOK /\ ReadByGrammar /\ AskedAreAnswered /\ RefusedTogether /\ WalkIsWhole /\ DocumentIsWhole
=============================================================================
