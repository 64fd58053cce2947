----------------------------- MODULE DriveReload ------------------------------
(* RootDrive.ReloadDrive (drive/root.go) against requests that make their      *)
(* parent directory (ensureDir, drive/dispatcher.go) under a KeyLock of        *)
(* common/utils/key_lock.go, which setDrives replaces together with the drives.*)
(* A drive is the generation that made it and its name; the generations of one *)
(* name work on one directory tree, of which one directory matters.            *)
EXTENDS Naturals

CONSTANTS
  DriveNames,    \* the drives of the configuration
  Writers,       \* requests that save, make a directory or upload
  Reloaders,     \* requests that reload
  MaxReloads     \* bound: reloads, with the one at the start

ASSUME DriveReloadAssumption == MaxReloads \in Nat /\ "free" \notin Writers \cup Reloaders

VARIABLES
  gen,        \* the generation of _drives and drivesLock
  installed,  \* the names in _drives
  alive,      \* the drives created and not disposed of
  mutex,      \* the holder of RootDrive.mux, or "free"
  creating,   \* the drives of the reload under way
  reloads,
  stage,         \* what a request does
  name,       \* its drive's name
  ref, undo,  \* the generations of the KeyLocks it locks and will unlock
  holder,     \* who holds the mutex of a name in the KeyLock of a generation
  made,       \* how often the directory was made
  crossed,    \* where in ensureDir requests were when the drives were replaced
  crashed     \* a mutex was unlocked that nobody held: the runtime ends the process

reloadVars == <<gen, installed, alive, mutex, creating, reloads>>
writerVars == <<stage, name, ref, undo, holder, made, crashed>>
driveVars == <<reloadVars, writerVars, crossed>>

Generations == 0 .. MaxReloads

DrivesInit ==
  /\ gen = 0 /\ installed = {} /\ alive = {} /\ mutex = "free" /\ creating = {} /\ reloads = 0
  /\ stage = [w \in Writers |-> "idle"]
  /\ name \in [Writers -> DriveNames] /\ ref = [w \in Writers |-> 0]
  /\ undo = ref
  /\ holder = [g \in Generations |-> [n \in DriveNames |-> "free"]]
  /\ made = [n \in DriveNames |-> 0]
  /\ crossed = {} /\ crashed = FALSE

Inside(w) == stage[w] \in {"locking", "look", "make", "leave"}
GoTo(w, s) == stage' = [stage EXCEPT ![w] = s]
-----------------------------------------------------------------------------
(* ReloadDrive, with RootDrive.mux held from beginning to end.                 *)

StartReload(r) ==
  /\ ~crashed /\ mutex = "free" /\ reloads < MaxReloads
  /\ mutex' = r /\ reloads' = reloads + 1 /\ creating' = {}
  /\ UNCHANGED <<gen, installed, alive, writerVars, crossed>>

\* factory.Create of a drive of the configuration; at the start, and only then, one
\* that fails is left out (CompleteReload with fewer drives).
InstallDrive(r, n) ==
  /\ ~crashed /\ mutex = r /\ n \notin creating
  /\ creating' = creating \cup {n}
  /\ alive' = alive \cup {<<reloads, n>>}
  /\ UNCHANGED <<gen, installed, mutex, reloads, writerVars, crossed>>

\* Mutant: the drives created before the one that failed are forgotten.
FailReloadOnly(r) ==
  /\ ~crashed /\ mutex = r /\ reloads > 1
  /\ mutex' = "free" /\ creating' = {}
  /\ UNCHANGED <<gen, installed, alive, reloads, writerVars, crossed>>

\* The deferred call disposes of them.
FailReload(r) ==
  /\ ~crashed /\ mutex = r /\ reloads > 1
  /\ mutex' = "free" /\ creating' = {}
  /\ alive' = alive \ {<<reloads, n>> : n \in creating}
  /\ UNCHANGED <<gen, installed, reloads, writerVars, crossed>>

\* setDrives: the old drives are disposed of, whoever uses them, and the KeyLock is a
\* new one.
CompleteReload(r) ==
  /\ ~crashed /\ mutex = r /\ (creating = DriveNames \/ reloads = 1)
  /\ alive' = alive \ {<<gen, n>> : n \in installed}
  /\ gen' = reloads /\ installed' = creating
  /\ mutex' = "free" /\ creating' = {}
  /\ crossed' = crossed \cup {stage[w] : w \in {v \in Writers : Inside(v)}}
  /\ UNCHANGED <<reloads, writerVars>>
-----------------------------------------------------------------------------
(* Save, MakeDir and Upload: resolve, then ensureDir of the parent.            *)

ResolveDrive(w) ==
  /\ ~crashed /\ stage[w] = "idle" /\ name[w] \in installed
  /\ GoTo(w, "resolved")
  /\ UNCHANGED <<reloadVars, name, ref, undo, holder, made, crashed, crossed>>

\* The KeyLock is read, and then waited for.
ReadLock(w) ==
  /\ ~crashed /\ stage[w] = "resolved"
  /\ ref' = [ref EXCEPT ![w] = gen]
  /\ GoTo(w, "locking")
  /\ UNCHANGED <<reloadVars, name, undo, holder, made, crashed, crossed>>

\* defer d.drivesLock.UnLock takes the KeyLock of this moment, maybe another one.
Enter(w) ==
  /\ ~crashed /\ stage[w] = "locking" /\ holder[ref[w]][name[w]] = "free"
  /\ holder' = [holder EXCEPT ![ref[w]][name[w]] = w]
  /\ undo' = [undo EXCEPT ![w] = gen]
  /\ GoTo(w, "look")
  /\ UNCHANGED <<reloadVars, name, ref, made, crashed, crossed>>

Look(w) ==
  /\ ~crashed /\ stage[w] = "look"
  /\ \/ GoTo(w, IF made[name[w]] = 0 THEN "make" ELSE "leave")
     \/ GoTo(w, "leave")                              \* Get fails
  /\ UNCHANGED <<reloadVars, name, ref, undo, holder, made, crashed, crossed>>

MakeParent(w) ==
  /\ ~crashed /\ stage[w] = "make"
  /\ made' = [made EXCEPT ![name[w]] = @ + 1] \/ UNCHANGED made
  /\ GoTo(w, "leave")
  /\ UNCHANGED <<reloadVars, name, ref, undo, holder, crashed, crossed>>

\* Mutant: the lock is left locked when the parent was there.
LeaveLocked(w) ==
  /\ ~crashed /\ stage[w] = "leave"
  /\ holder' = [holder EXCEPT ![undo[w]][name[w]] = IF made[name[w]] > 0 THEN @ ELSE "free"]
  /\ GoTo(w, "idle")
  /\ UNCHANGED <<reloadVars, name, ref, undo, made, crashed, crossed>>

\* Whatever the outcome, the deferred call unlocks.
LeaveDir(w) ==
  /\ ~crashed /\ stage[w] = "leave"
  /\ IF holder[undo[w]][name[w]] = "free" THEN crashed' = TRUE /\ UNCHANGED holder
     ELSE holder' = [holder EXCEPT ![undo[w]][name[w]] = "free"] /\ UNCHANGED crashed
  /\ GoTo(w, "idle")
  /\ UNCHANGED <<reloadVars, name, ref, undo, made, crossed>>

EnsureDir(w) == ReadLock(w) \/ Look(w) \/ MakeParent(w) \/ LeaveDir(w)

DrivesNext ==
  \/ \E r \in Reloaders : \/ StartReload(r) \/ FailReload(r) \/ CompleteReload(r)
                          \/ \E n \in DriveNames : InstallDrive(r, n)
  \/ \E w \in Writers : ResolveDrive(w) \/ EnsureDir(w) \/ Enter(w)

\* Requests go on, and Go's mutexes do not starve.
DrivesFairness == \A w \in Writers : WF_driveVars(EnsureDir(w)) /\ SF_driveVars(Enter(w))

DrivesSpec == DrivesInit /\ [][DrivesNext]_driveVars /\ DrivesFairness
-----------------------------------------------------------------------------
\* The generations, the requests and the locks have their types.
DrivesTypeOK ==
  /\ gen \in Generations /\ installed \subseteq DriveNames /\ alive \subseteq Generations \X DriveNames
  /\ mutex \in Reloaders \cup {"free"} /\ creating \subseteq DriveNames /\ reloads \in Generations
  /\ stage \in [Writers -> {"idle", "resolved", "locking", "look", "make", "leave"}]
  /\ holder \in [Generations -> [DriveNames -> Writers \cup {"free"}]]
  /\ made \in [DriveNames -> Nat] /\ ref \in [Writers -> Generations] /\ undo \in [Writers -> Generations]
  /\ crossed \subseteq {"locking", "look", "make", "leave"} /\ crashed \in BOOLEAN

\* Every drive is in use, or is being created by the reload under way, or has been
\* disposed of: a reload that fails half-way leaves nothing behind and keeps the old
\* drives (ReloadDrive, setDrives).
NoDriveLeaks ==
  alive = {<<gen, n>> : n \in installed} \cup {<<reloads, n>> : n \in creating}

\* Requests that miss one parent directory at once make it once (ensureDir), unless
\* the drives were replaced in the middle of one: the KeyLock goes with them.
ParentMadeOnce == crossed # {} \/ \A n \in DriveNames : made[n] <= 1

\* No mutex is unlocked that nobody holds, and none is held that its holder will not
\* unlock, unless the drives were replaced while a request waited in ensureDir, which
\* reads drivesLock before and after the wait.
LocksBalance ==
  "locking" \in crossed \/
    (~crashed /\ \A g \in Generations, n \in DriveNames : holder[g][n] # "free" =>
       stage[holder[g][n]] \in {"look", "make", "leave"} /\ undo[holder[g][n]] = g)

\* A request that waits for its turn gets it, under the same proviso.
ParentsSettle ==
  \A w \in Writers : stage[w] = "locking" ~> (stage[w] # "locking" \/ "locking" \in crossed)

\* Reloads and the requests that make directories meanwhile leave nothing behind.
ReloadHolds == DrivesTypeOK /\ NoDriveLeaks /\ ParentMadeOnce /\ LocksBalance
=============================================================================
