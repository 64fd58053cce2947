-------------------------------- MODULE Access ---------------------------------
(* Who may do what where: the permission rows and their map in memory            *)
(* (drive/access.go, common/utils/permission_resolver.go), the drive a request   *)
(* gets, which is a chroot of a permission wrapper of the dispatcher             *)
(* (drive/chroot.go, permission_wrapper.go).  The admin group has every permission *)
(* and is left out.                                                              *)
EXTENDS Integers, Sequences, FiniteSets, SequencesExt

CONSTANTS
  Places,    \* paths, as sequences of names, with their parents
  Groups,    \* the groups of the user
  Rules,     \* the rows: [whom |-> "user", a group or "any", path, bits, policy |-> "accept" or "reject"]
  Saved,     \* bound: those of them that a save writes
  MaxSaves,  \* bound: calls that change the table
  Jail,      \* the root path of the sessions that have one
  Admins     \* calls of the administration

Whoms == {"user", "any"} \cup Groups
PlaceNames == UNION {{p[i] : i \in DOMAIN p} : p \in Places}

\* A place 128 or more below the root would have a negative depth.
ASSUME AccessAssumption ==
  /\ Places \subseteq Seq(PlaceNames) /\ \A p \in Places : Len(p) < 128
  /\ \A r \in Rules : /\ r.path \in Places /\ r.whom \in Whoms
                      /\ r.policy \in {"accept", "reject"}
  /\ {"user", "any"} \cap Groups = {} /\ Jail \in Places /\ Saved \subseteq Rules /\ IsFiniteSet(Saved) /\ MaxSaves \in Nat

VARIABLES
  ruleRows,   \* the table
  ruleMem,    \* Access.perms
  forgotten,  \* what the memory has of rows that were deleted without a reload
  admin,      \* what a call does: "idle", "reload" or "clean"
  saves

accessVars == <<ruleRows, ruleMem, forgotten, admin, saves>>

\* One row of a subject and a path counts (PathTreeNode.Add).
OneOfEach(rs) == \A a, b \in rs : a.whom = b.whom /\ a.path = b.path => a = b
\* Bound: two rows to begin with.
RuleSets == {rs \in {{}} \cup {{r, s} : r, s \in Rules} : OneOfEach(rs)}
Sessions == {"user", "anonymous"}
Parent(p) == IF p = <<>> THEN p ELSE Front(p)

AccessInit ==
  /\ ruleRows \in RuleSets /\ ruleMem = ruleRows /\ forgotten = {}
  /\ admin = [a \in Admins |-> "idle"]
  /\ saves = 0
-----------------------------------------------------------------------------
\* makeSubjects: anybody, the user and each of the user's groups.
Subjects(who) == IF who = "user" THEN Whoms ELSE {"any"}

Rank == [w \in Whoms |-> IF w = "user" THEN 1 ELSE IF w = "any" THEN 3 ELSE 2]

\* An int8.
Depth(p) == ((Len(p) + 128) % 256) - 128

\* pathPermissionLess: the deeper one first, then users, groups, anybody, then rejects, of
\* whatever group they are.
Precedes(a, b) ==
  IF Depth(a.path) # Depth(b.path) THEN Depth(a.path) > Depth(b.path)
  ELSE IF Rank[a.whom] # Rank[b.whom] THEN Rank[a.whom] < Rank[b.whom]
  ELSE a.policy = "reject" /\ b.policy = "accept"

\* resolveAcceptedPermissions: the items one after the other; of two that neither
\* precedes the other, either may come first (sort.Slice).
LastOf(items) == CHOOSE r \in items : \A s \in items : ~Precedes(r, s)
TakeRule(acc, r) ==
  IF r.policy = "accept" THEN [acc EXCEPT !.yes = @ \cup (r.bits \ acc.no)]
  ELSE [acc EXCEPT !.no = @ \cup r.bits]
ResolveRules(items) ==
  LET taken[s \in SUBSET items] ==
        IF s = {} THEN [yes |-> {}, no |-> {}] ELSE TakeRule(taken[s \ {LastOf(s)}], LastOf(s))
  IN  taken[items].yes

ItemsAt(who, p) == {r \in ruleMem : r.whom \in Subjects(who) /\ IsPrefix(r.path, p)}
ItemsFrom(who, p) == {r \in ruleMem : r.whom \in Subjects(who) /\ IsPrefix(p, r.path)}

ResolvePath(who, p) == ResolveRules(ItemsAt(who, p))
\* requireDescendantPermission with ResolveDescendant.
DescendantsAllow(who, p, bits) ==
  /\ bits \subseteq ResolvePath(who, p)
  /\ ItemsFrom(who, p) # {} => bits \subseteq ResolveRules(ItemsFrom(who, p))

SelfAndParentWritable(who, p) ==
  {"read", "write"} \subseteq ResolvePath(who, p) \cap ResolvePath(who, Parent(p))

\* The checks of Move.
MayMove(who, from, to) ==
  /\ SelfAndParentWritable(who, to) /\ SelfAndParentWritable(who, from)
  /\ DescendantsAllow(who, from, {"read", "write"}) /\ DescendantsAllow(who, to, {"read", "write"})
-----------------------------------------------------------------------------
\* Chroot: a path of the request, and one of an entry.
WrapPath(p) == Jail \o p
UnwrapPath(p) == IF IsPrefix(Jail, p) THEN SubSeq(p, Len(Jail) + 1, Len(p)) ELSE p

\* What a request sees: Get, and List of the chroot of the wrapper.
CanGet(who, p) == WrapPath(p) \in Places /\ "read" \in ResolvePath(who, WrapPath(p))

ListOf(who, p) ==
  IF WrapPath(p) # <<>> /\ "read" \notin ResolvePath(who, WrapPath(p)) THEN {}
  ELSE {UnwrapPath(q) : q \in {r \in Places : r # <<>> /\ Parent(r) = WrapPath(p) /\ "read" \in ResolvePath(who, r)}}
-----------------------------------------------------------------------------
(* The calls of the administration.                                            *)

\* SavePathPermissions, one transaction, and then ReloadPerm.
SaveRules(a, p) ==
  /\ admin[a] = "idle" /\ saves < MaxSaves /\ saves' = saves + 1
  /\ \E rs \in SUBSET {r \in Saved : r.path = p} :
       OneOfEach(rs) /\ ruleRows' = {r \in ruleRows : r.path # p} \cup rs
  /\ admin' = [admin EXCEPT ![a] = "reload"]
  /\ UNCHANGED <<ruleMem, forgotten>>

\* cleanupInvalidPathPermissionsAndMounts of one path that is gone; then the next, or
\* the reload, or an error and no reload.
CleanRules(a, p) ==
  /\ admin[a] \in {"idle", "clean"} /\ saves < MaxSaves
  /\ saves' = saves + 1 /\ \E r \in ruleRows : r.path = p
  /\ ruleRows' = {r \in ruleRows : r.path # p}
  /\ \/ admin' = [admin EXCEPT ![a] = "clean"] /\ UNCHANGED forgotten
     \/ admin' = [admin EXCEPT ![a] = "reload"] /\ UNCHANGED forgotten
     \/ admin' = [admin EXCEPT ![a] = "idle"] /\ forgotten' = forgotten \cup ruleMem
  /\ UNCHANGED ruleMem

\* DeleteUser and DeleteGroup take the rows along, and nothing reloads them.
DeleteSubject(whom) ==
  /\ whom # "any" /\ saves < MaxSaves
  /\ saves' = saves + 1 /\ \E r \in ruleRows : r.whom = whom
  /\ ruleRows' = {r \in ruleRows : r.whom # whom}
  /\ forgotten' = forgotten \cup {r \in ruleMem : r.whom = whom}
  /\ UNCHANGED <<ruleMem, admin>>

\* ReloadPerm reads the table under the lock it sets perms under, or fails to read it.
ReloadRules(a) ==
  /\ admin[a] \in {"reload", "clean"}
  /\ admin' = [admin EXCEPT ![a] = "idle"]
  /\ \/ ruleMem' = ruleRows /\ forgotten' = {}
     \/ UNCHANGED ruleMem /\ forgotten' = forgotten \cup ruleMem \cup ruleRows
  /\ UNCHANGED <<ruleRows, saves>>
AdminStep(a) ==
  \/ \E p \in Places : SaveRules(a, p) \/ CleanRules(a, p)
  \/ ReloadRules(a)

AccessNext ==
  \/ \E a \in Admins : AdminStep(a)
  \/ \E whom \in Whoms : DeleteSubject(whom)

AccessSpec == AccessInit /\ [][AccessNext]_accessVars
-----------------------------------------------------------------------------
\* A permission is granted when a rule accepts it that goes before every rule that
\* rejects it: the deeper path, then the user, the group, anybody, and a reject before
\* an accept (drive/permission_wrapper.go).
GrantedByPriority ==
  \A who \in Sessions, p \in Places : \A b \in {"read", "write"} :
    b \in ResolvePath(who, p) <=>
      \E r \in ItemsAt(who, p) :
        /\ r.policy = "accept" /\ b \in r.bits
        /\ \A s \in ItemsAt(who, p) : s.policy = "reject" /\ b \in s.bits =>
             Len(s.path) < Len(r.path) \/ (Len(s.path) = Len(r.path) /\ Rank[r.whom] < Rank[s.whom])

\* ResolveDescendant takes the rules of all places below for one list.  So a move takes
\* along what its user may not read and write only where a rule for a place elsewhere
\* below goes before every rule below that rejects it: a deeper one or, at the same depth,
\* one for a narrower subject.
MoveIsCovered ==
  \A who \in Sessions, from, to \in Places : MayMove(who, from, to) =>
    \A q \in Places, b \in {"read", "write"} : IsPrefix(from, q) /\ b \notin ResolvePath(who, q) =>
      \E r \in ItemsFrom(who, from) :
        /\ r.policy = "accept" /\ b \in r.bits /\ ~IsPrefix(r.path, q)
        /\ \A s \in ItemsFrom(who, from) : s.policy = "reject" /\ b \in s.bits => Precedes(r, s)

\* "requireDescendant semantics: path itself and all descendants must satisfy the
\* permission" (common/utils/permission_resolver_test.go:444).
DescendantsSatisfy ==
  \A who \in Sessions, p \in Places : DescendantsAllow(who, p, {"write"}) =>
    \A q \in Places : IsPrefix(p, q) => "write" \in ResolvePath(who, q)

\* What a listing shows can be asked for by the path it is shown with, and a listed
\* directory can be listed, whatever the root of the session.
ListedCanBeGot ==
  \A who \in Sessions, p \in Places : WrapPath(p) \in Places =>
    \A q \in ListOf(who, p) : CanGet(who, q) /\ IsPrefix(p, q)

\* When no call is under way the memory has the rows of the table, whatever calls ran
\* at once, but for subjects that were deleted and for calls that failed half-way.
RulesInForce ==
  (\A a \in Admins : admin[a] = "idle") =>
    \/ ruleMem = ruleRows
    \/ forgotten # {} /\ ruleMem \subseteq ruleRows \cup forgotten
=============================================================================
