------------------------------- MODULE Mounts --------------------------------
(* DispatcherDrive (drive/dispatcher.go): paths, the mounts they lead through, *)
(* and the calls that change mounts, which write the table path_mount and then *)
(* load it into memory.  A statement or transaction of the database, a load    *)
(* and a call of a drive are one step each.  A path is a sequence of names; a  *)
(* real path begins with the name of a drive.                                  *)
EXTENDS Naturals, Sequences, FiniteSets, SequencesExt, FiniteSetsExt

CONSTANTS
  Drives, Names,       \* the first names of real paths, and all names
  MaxMountDepth,       \* maxMountDepth
  MountClients, MountCalls,
  FirstFiles, FirstRows,
  MaxMountCalls        \* bound: the calls of all clients

ASSUME MountsAssumption ==
  /\ Drives \subseteq Names /\ MaxMountDepth \in Nat /\ MaxMountCalls \in Nat
  /\ MountCalls # {}
  /\ \A r \in MountCalls :
       /\ r.op \in {"move", "delete", "mount", "cleanup", "make"}
       /\ r.from \in Seq(Names) /\ r.to \in Seq(Names)
       /\ r.op = "mount" => r.from # <<>>

VARIABLES
  rows,     \* path_mount: records [id, place, target]
  lastId,   \* the last id it gave out
  mounts,   \* _mounts: the row of each place
  files,    \* the real paths of what there is in the drives
  call, step,   \* what each client asks, and how far it is
  plan,     \* what it read: [del: places, new: rows, self, src, dst]
  outdated, \* a load has failed since the last one that did not
  calls     \* how many calls so far

mountVars == <<rows, lastId, mounts, files, call, step, plan, outdated, calls>>

NoPlan == [del |-> {}, new |-> {}, self |-> FALSE, src |-> <<>>, dst |-> <<>>]

\* What rows and files are: everything lies in a directory that is there.
RealPath(p) == p \in Seq(Names) /\ p # <<>> /\ Head(p) \in Drives
RowsOK(R) ==
  /\ IsFiniteSet(R)
  /\ R \subseteq [id : Nat \ {0}, place : Seq(Names) \ {<<>>}, target : Seq(Names) \ {<<>>}]
  /\ \A r, s \in R : r.id = s.id => r = s
TreeOK(F) == (\A n \in Drives : <<n>> \in F) /\ \A p \in F : RealPath(p) /\ (Len(p) > 1 => Front(p) \in F)

ASSUME FirstAssumption == RowsOK(FirstRows) /\ TreeOK(FirstFiles)

\* The rows come in the order of their ids; of two with one place the last is kept.
Loaded(R) ==
  [p \in {r.place : r \in R} |->
     CHOOSE r \in R : r.place = p /\ \A s \in R : s.place = p => s.id <= r.id]

MountsInit ==
  /\ rows = FirstRows /\ files = FirstFiles
  /\ lastId = Max({r.id : r \in rows} \cup {0})
  /\ mounts = Loaded(rows)
  /\ call = [c \in MountClients |-> CHOOSE r \in MountCalls : TRUE]
  /\ step = [c \in MountClients |-> "idle"]
  /\ plan = [c \in MountClients |-> NoPlan]
  /\ outdated = FALSE /\ calls = 0
-----------------------------------------------------------------------------
(* Paths under the mounts m.                                                   *)

After(p, n) == SubSeq(p, n + 1, Len(p))

\* resolveMount: the mount nearest to the path, or the path itself.
ResolveMount(m, p) ==
  LET above == {q \in DOMAIN m : IsPrefix(q, p)}
      q == CHOOSE q \in above : \A r \in above : Len(r) <= Len(q)
  IN IF above = {} THEN p ELSE m[q].target \o After(p, Len(q))

\* The path after k mounts, if there are as many.
Along(m, p) ==
  LET f[k \in 0 .. MaxMountDepth + 1] == IF k = 0 THEN p ELSE ResolveMount(m, f[k - 1]) IN f

Covered(m, p) == \E q \in DOMAIN m : IsPrefix(q, p)
TooDeep(m, p) == Covered(m, Along(m, p)[MaxMountDepth])

\* resolve: the real path, <<>> when there is none or the mounts go on too long.
Resolve(m, p) ==
  LET q == Along(m, p)[MaxMountDepth] IN
  IF ~TooDeep(m, p) /\ q # <<>> /\ Head(q) \in Drives THEN q ELSE <<>>

Exists(m, p) == p = <<>> \/ Resolve(m, p) \in files

\* resolveMountedChildren.
MountedChildren(m, p) == {q \in DOMAIN m : IsPrefix(p, q)}

ChildNames(dir) == {Last(f) : f \in {g \in files : Front(g) = dir}}

\* List: the names in a directory that is found.
ListMounted(m, p) ==
  (IF p = <<>> THEN Drives ELSE ChildNames(Resolve(m, p)))
    \cup {Last(q) : q \in {r \in DOMAIN m : Front(r) = p /\ Resolve(m, m[r].target) \in files}}

\* FindNonExistsEntryName: the path, or a sibling's name nobody has, or an error, when
\* Get fails with another error than that nothing is found, or List fails.
FreeName(m, p) ==
  IF TooDeep(m, p) THEN {}
  ELSE IF ~Exists(m, p) THEN {p}
  ELSE {Append(Front(p), n) : n \in {x \in Names \ ListMounted(m, Front(p)) : Exists(m, Front(p))}}

Below(p) == {f \in files : IsPrefix(p, f)}
-----------------------------------------------------------------------------
Goto(c, s) == step' = [step EXCEPT ![c] = s]
Planned(c, p) == plan' = [plan EXCEPT ![c] = p]

Ask(c, r) ==
  /\ step[c] = "idle" /\ calls < MaxMountCalls
  /\ call' = [call EXCEPT ![c] = r] /\ calls' = calls + 1
  /\ Planned(c, [NoPlan EXCEPT !.src = Resolve(mounts, r.from)])
  /\ Goto(c, r.op)
  /\ UNCHANGED <<rows, lastId, mounts, files, outdated>>

\* Move looks at the destination and at the mounts it has to take along, each to a
\* place that is free unless it may override.
PlanMove(c) ==
  LET r == call[c]
      dst == Resolve(mounts, r.to)
      taken == MountedChildren(mounts, r.from)
      To(q) == r.to \o After(q, Len(r.from))
  IN
  /\ step[c] = "move"
  /\ IF plan[c].src \notin files \/ (dst = <<>> /\ (Len(r.to) # 1 \/ taken = {}))
     THEN Goto(c, "idle") /\ UNCHANGED plan
     ELSE IF taken = {} THEN Goto(c, "drive") /\ Planned(c, [plan[c] EXCEPT !.dst = dst])
     ELSE \/ ~r.override /\ Goto(c, "idle") /\ UNCHANGED plan
          \/ \E at \in [taken -> {To(q) : q \in taken} \cup UNION {FreeName(mounts, To(q)) : q \in taken}] :
               /\ \A q \in taken : at[q] \in IF r.override THEN {To(q)} ELSE FreeName(mounts, To(q))
               /\ Planned(c, [plan[c] EXCEPT !.dst = dst, !.self = r.from \in taken, !.del = taken,
                                !.new = {[mounts[q] EXCEPT !.place = at[q]] : q \in taken}])
               /\ Goto(c, "store")
  /\ UNCHANGED <<rows, lastId, mounts, files, call, outdated, calls>>

\* Delete: the mounts at and below the path go first.
PlanDelete(c) ==
  LET taken == MountedChildren(mounts, call[c].from) IN
  /\ step[c] = "delete"
  /\ Planned(c, [plan[c] EXCEPT !.self = call[c].from \in taken, !.del = taken])
  /\ Goto(c, IF taken = {} THEN "resolve" ELSE "store")
  /\ UNCHANGED <<rows, lastId, mounts, files, call, outdated, calls>>

\* savePathMounts mounts the entry `from' in the directory `to'.
PlanMount(c) ==
  LET r == call[c] IN
  /\ step[c] = "mount"
  /\ \/ Goto(c, "idle") /\ UNCHANGED plan
     \/ /\ \E p \in FreeName(mounts, Append(r.to, Last(r.from))) :
             Planned(c, [plan[c] EXCEPT !.self = TRUE, !.new = {[id |-> 0, place |-> p, target |-> r.from]}])
        /\ Goto(c, "store")
  /\ UNCHANGED <<rows, lastId, mounts, files, call, outdated, calls>>

\* cleanupInvalidPathPermissionsAndMounts: mounts whose target is not found; any other
\* error ends it.
PlanCleanup(c) ==
  /\ step[c] = "cleanup"
  /\ IF \E r \in rows : TooDeep(mounts, r.target)
     THEN Goto(c, "idle") /\ UNCHANGED plan
     ELSE /\ Planned(c, [plan[c] EXCEPT !.self = TRUE,
                          !.del = {r.place : r \in {s \in rows : ~Exists(mounts, s.target)}}])
          /\ Goto(c, "store")
  /\ UNCHANGED <<rows, lastId, mounts, files, call, outdated, calls>>

\* saveMounts with override: a row is written under its id when there is a row of the
\* place, whichever, and is created otherwise, which fails when its id is taken;
\* without an id it is a new one.
Storable(R, new) == \A s \in new : (\E r \in R : r.id = s.id) => \E r \in R \cup (new \ {s}) : r.place = s.place
Stored(R, new) ==
  LET Numbered == {IF r.id = 0 THEN [r EXCEPT !.id = lastId + 1] ELSE r : r \in new}
  IN {r \in R : \A s \in Numbered : s.id # r.id} \cup Numbered

\* Cleanup deletes by the target, the others by the place.
Deleted(R, c) ==
  IF call[c].op = "cleanup" THEN {r \in R : \A s \in R : s.place \in plan[c].del => s.target # r.target}
  ELSE {r \in R : r.place \notin plan[c].del}

\* The transaction, which may fail.
Store(c) ==
  /\ step[c] = "store"
  /\ \/ /\ Storable(Deleted(rows, c), plan[c].new)
        /\ rows' = Stored(Deleted(rows, c), plan[c].new)
        /\ lastId' = Max({r.id : r \in rows'} \cup {lastId})
        /\ Goto(c, "load")
     \/ UNCHANGED <<rows, lastId>> /\ Goto(c, "idle")
  /\ UNCHANGED <<mounts, files, call, plan, outdated, calls>>

AfterLoad(c) == Goto(c, IF plan[c].self THEN "idle" ELSE IF call[c].op = "delete" THEN "resolve" ELSE "drive")

\* Mutant: the rows are read before the mutex is taken.
LoadWhatWasPlanned(c) ==
  /\ step[c] = "load" /\ AfterLoad(c)
  /\ mounts' = [p \in (DOMAIN mounts \ plan[c].del) \cup {r.place : r \in plan[c].new} |->
                  IF \E r \in plan[c].new : r.place = p THEN CHOOSE r \in plan[c].new : r.place = p
                  ELSE mounts[p]]
  /\ outdated' = FALSE
  /\ UNCHANGED <<rows, lastId, files, call, plan, calls>>

\* reloadMounts reads the table with _mountsMux held; its error is ignored.
Load(c) ==
  /\ step[c] = "load" /\ AfterLoad(c)
  /\ \/ mounts' = Loaded(rows) /\ outdated' = FALSE
     \/ UNCHANGED mounts /\ outdated' = TRUE
  /\ UNCHANGED <<rows, lastId, files, call, plan, calls>>

\* The path of a Delete is resolved when the mounts have gone.
ResolveDelete(c) ==
  /\ step[c] = "resolve"
  /\ Planned(c, [plan[c] EXCEPT !.src = Resolve(mounts, call[c].from)])
  /\ Goto(c, "drive")
  /\ UNCHANGED <<rows, lastId, mounts, files, call, outdated, calls>>

\* drive.Delete; nobody deletes a whole drive.
DriveDelete(c) ==
  /\ step[c] = "drive" /\ call[c].op = "delete"
  /\ files' = IF Len(plan[c].src) > 1 THEN files \ Below(plan[c].src) ELSE files
  /\ Goto(c, "idle")
  /\ UNCHANGED <<rows, lastId, mounts, call, plan, outdated, calls>>

\* driveTo.Move, within one drive: unless it may override, to a name that is free.
DriveMove(c) ==
  LET src == plan[c].src
      at == {p \in {plan[c].dst} \cup {Append(Front(plan[c].dst), n) : n \in Names} :
               \/ p = plan[c].dst
               \/ plan[c].dst \in files /\ ~call[c].override /\ p \notin files}
      Movable(p) == /\ src \in files /\ Len(src) > 1 /\ Len(p) > 1 /\ ~IsPrefix(src, p)
                    /\ Head(p) = Head(src) /\ Front(p) \in files
                    /\ p \in files => call[c].override
  IN
  /\ step[c] = "drive" /\ call[c].op = "move"
  /\ \/ \E p \in at : /\ plan[c].dst # <<>> /\ Movable(p)
                      /\ files' = (files \ (Below(src) \cup Below(p)))
                                    \cup {p \o After(f, Len(src)) : f \in Below(src)}
     \/ UNCHANGED files
  /\ Goto(c, "idle")
  /\ UNCHANGED <<rows, lastId, mounts, call, plan, outdated, calls>>

\* Save and MakeDir: what is missing on the way is made (ensureDir).
Make(c) ==
  LET p == Resolve(mounts, call[c].to) IN
  /\ step[c] = "make"
  /\ files' = IF p = <<>> THEN files ELSE files \cup {SubSeq(p, 1, k) : k \in 1 .. Len(p)}
  /\ Goto(c, "idle")
  /\ UNCHANGED <<rows, lastId, mounts, call, plan, outdated, calls>>

MountStep(c) ==
  \/ \E r \in MountCalls : Ask(c, r)
  \/ PlanMove(c) \/ PlanDelete(c) \/ PlanMount(c) \/ PlanCleanup(c)
  \/ Store(c) \/ Load(c) \/ ResolveDelete(c) \/ DriveDelete(c) \/ DriveMove(c) \/ Make(c)

MountsNext == \E c \in MountClients : MountStep(c)

MountsSpec == MountsInit /\ [][MountsNext]_mountVars
-----------------------------------------------------------------------------
\* Rows and files are whole, and a call is at one of its steps.
MountsTypeOK ==
  /\ RowsOK(rows) /\ TreeOK(files)
  /\ step \in [MountClients -> {"idle", "move", "delete", "mount", "cleanup", "make",
                                "store", "load", "resolve", "drive"}]

\* The mounts in memory are those of the table, whichever calls wrote the table and
\* loaded it at once, unless the last load failed or is still to come.
MemoryFollowsTable ==
  outdated \/ mounts = Loaded(rows) \/ \E c \in MountClients : step[c] = "load"

\* What List shows of a directory that no mount leads to, Get finds: an entry of the
\* drive, or a mount whose target is there.  The exceptions are an entry that a mount
\* without a target covers, and a mount whose target takes as many mounts as may be:
\* they are listed and cannot be found.
ListedIsFound ==
  \A p \in files \cup {<<>>} :
    ~Covered(mounts, p) =>
      \A n \in ListMounted(mounts, p) :
        LET q == Append(p, n) IN
        \/ Exists(mounts, q)
        \/ q \in DOMAIN mounts /\ TooDeep(mounts, q)
        \/ q \in files \cap DOMAIN mounts /\ ~Exists(mounts, mounts[q].target)

\* A path that is found leads to an entry of a drive that no mount covers, the same
\* by each of the mounts it leads through.
ResolvedIsReal ==
  \A p \in files \cup DOMAIN mounts :
    LET q == Resolve(mounts, p) IN
    q # <<>> => RealPath(q) /\ ResolveMount(mounts, q) = q /\ Resolve(mounts, ResolveMount(mounts, p)) = q

\* The mounts in memory are right, and so is every path that is found through them.
MountsHold == MountsTypeOK /\ MemoryFollowsTable /\ ListedIsFound /\ ResolvedIsReal
=============================================================================
