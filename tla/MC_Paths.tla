------------------------------- MODULE MC_Paths -------------------------------
(* An instance of each part that says what a path leads to and who may use it:  *)
(* part is the one a behaviour is of.  They share no state, and the others stay *)
(* as they were at the start.                                                   *)
EXTENDS Mounts, Access, PathMetas, Sessions, TLC

CONSTANTS drv, dir, mnt, one, two   \* names
VARIABLE part

Parts == {"mounts", "access", "metas", "sessions"}
-----------------------------------------------------------------------------
MountAsk(op, from, to, override) == [op |-> op, from |-> from, to |-> to, override |-> override]

MountFiles == {<<drv>>, <<drv, one>>, <<drv, one, two>>, <<drv, dir>>}
MountRows == {[id |-> 1, place |-> <<drv, one, mnt>>, target |-> <<drv, dir>>]}
MountAsks ==
  {MountAsk("move", <<drv, one>>, <<drv, two>>, FALSE), MountAsk("move", <<mnt>>, <<drv, one, mnt>>, TRUE),
   MountAsk("move", <<drv, one, mnt>>, <<mnt>>, TRUE), MountAsk("move", <<drv, dir>>, <<drv, one, mnt>>, FALSE),
   MountAsk("delete", <<drv, one>>, <<>>, FALSE), MountAsk("delete", <<mnt>>, <<>>, FALSE),
   MountAsk("delete", <<drv, dir>>, <<>>, FALSE),
   MountAsk("mount", <<mnt>>, <<drv, one>>, FALSE), MountAsk("mount", <<drv, one, mnt>>, <<>>, FALSE),
   MountAsk("cleanup", <<>>, <<>>, FALSE), MountAsk("make", <<>>, <<mnt, one, two>>, FALSE)}

SomePlaces == {<<>>, <<"d">>, <<"d", "e">>, <<"d", "f">>}
SomeSaved == {[whom |-> "user", path |-> <<"d">>, bits |-> {"read", "write"}, policy |-> "accept"],
              [whom |-> "any", path |-> <<"d", "e">>, bits |-> {"write"}, policy |-> "reject"],
              [whom |-> "group", path |-> <<"d", "f">>, bits |-> {"read", "write"}, policy |-> "accept"]}
SomeRules ==
  [whom : {"user", "group", "team", "any"}, path : {<<"d">>, <<"d", "e">>}, bits : {{"read"}, {"read", "write"}},
   policy : {"accept", "reject"}] \cup SomeSaved
SomeJail == <<"d">>
MetaPlacesOf == {<<>>, <<"d">>}
\* The rules that no save writes are one at most.
FewRules == Cardinality((ruleRows \cup ruleMem) \ Saved) <= 1
-----------------------------------------------------------------------------
PartInit ==
  /\ part \in Parts
  /\ MountsInit /\ MetasInit /\ AccessInit /\ SessionsInit
  /\ part = "access" \/ ruleRows = {}

MountsPart == part = "mounts" /\ MountsNext
AccessPart == part = "access" /\ FewRules /\ AccessNext
MetasPart == part = "metas" /\ MetasNext
SessionsPart == part = "sessions" /\ SessionsNext

PartNext ==
  /\ UNCHANGED part
  /\ \/ MountsPart /\ UNCHANGED <<accessVars, metaVars, sessionVars>>
     \/ AccessPart /\ UNCHANGED <<mountVars, metaVars, sessionVars>>
     \/ MetasPart /\ UNCHANGED <<mountVars, accessVars, sessionVars>>
     \/ SessionsPart /\ UNCHANGED <<mountVars, accessVars, metaVars>>

partVars == <<part, mountVars, accessVars, metaVars, sessionVars>>

PartSpec == PartInit /\ [][PartNext]_partVars

Symmetry == Permutations(MountClients) \cup Permutations(Visits) \cup Permutations(MetaCalls)
-----------------------------------------------------------------------------
\* Who may use a path is what the rules and metas in the tables say, as soon as nobody is
\* changing them; but for a meta changed between the read and the caching of another call.
RulesHold ==
  /\ part = "access" => GrantedByPriority /\ MoveIsCovered /\ ListedCanBeGot /\ RulesInForce
  /\ part = "metas" => MergedIsSettled
=============================================================================
