---------------------------- MODULE Drives_proofs ----------------------------
(***************************************************************************)
(* What works on drives, for any number of requests, reloads, token        *)
(* sources, VMs and edits: the reload of the drives against requests that  *)
(* make directories (DriveReload), the tokens of a drive that signs in     *)
(* with OAuth (OAuth), the VMs and streams of a script drive (ScriptPool), *)
(* the secrets of the configurations (DriveConfig), an open file of a      *)
(* drive (DriveFile), copies of a directory (TreeCopy), and the caches of  *)
(* the drives (DriveCache).                                                *)
(***************************************************************************)
EXTENDS DriveReload, OAuth, ScriptPool, DriveConfig, DriveFile, TreeCopy, DriveCache,
  FiniteSetTheorems, FunctionTheorems, SequenceTheorems, WellFoundedInduction, TLAPS

(* The reload of the drives.                                              *)

\* The drives of the reload under way are of a generation of their own.
GenerationsInv ==
  /\ name \in [Writers -> DriveNames]
  /\ gen <= reloads
  /\ mutex = "free" => creating = {}
  /\ mutex # "free" => gen < reloads

\* As long as no reload met a request that waits, each unlocks what it locked, and
\* holds it until then.
HoldersInv ==
  "locking" \notin crossed =>
    /\ ~crashed
    /\ \A w \in Writers : stage[w] = "locking" => ref[w] = gen
    /\ \A w \in Writers : stage[w] \in {"look", "make", "leave"} => holder[undo[w]][name[w]] = w
    /\ \A g \in Generations, n \in DriveNames : holder[g][n] # "free" =>
         /\ stage[holder[g][n]] \in {"look", "make", "leave"}
         /\ undo[holder[g][n]] = g /\ name[holder[g][n]] = n

\* As long as none met a request in ensureDir, whoever makes the directory has looked
\* under the lock of the present generation, and alone.
MadeInv ==
  crossed = {} =>
    \A w \in Writers :
      /\ stage[w] \in {"look", "make", "leave"} => undo[w] = gen
      /\ stage[w] = "make" => made[name[w]] = 0

ReloadInv ==
  /\ DrivesTypeOK /\ GenerationsInv /\ NoDriveLeaks /\ HoldersInv /\ MadeInv /\ ParentMadeOnce
-----------------------------------------------------------------------------
\* Each part of the invariant is kept by every step.
LEMMA ReloadTypeStep == ReloadInv /\ [DrivesNext]_driveVars => DrivesTypeOK'
PROOF
<1> SUFFICES ASSUME ReloadInv, [DrivesNext]_driveVars PROVE DrivesTypeOK'
  OBVIOUS
<1> USE DriveReloadAssumption
<1>a. /\ stage \in [Writers -> {"idle", "resolved", "locking", "look", "make", "leave"}]
      /\ name \in [Writers -> DriveNames]
      /\ ref \in [Writers -> Generations] /\ undo \in [Writers -> Generations]
      /\ made \in [DriveNames -> Nat]
  BY DEF ReloadInv, DrivesTypeOK, GenerationsInv
<1>b. /\ holder \in [Generations -> [DriveNames -> Writers \cup {"free"}]]
      /\ gen \in Generations
  BY DEF ReloadInv, DrivesTypeOK
<1>1. ASSUME NEW r \in Reloaders, StartReload(r) PROVE DrivesTypeOK'
  BY <1>1 DEF ReloadInv, DrivesTypeOK, Generations, reloadVars, writerVars,
     StartReload
<1>2. ASSUME NEW r \in Reloaders, FailReload(r) PROVE DrivesTypeOK'
  BY <1>2 DEF ReloadInv, DrivesTypeOK, Generations, reloadVars, writerVars, FailReload
<1>3. ASSUME NEW r \in Reloaders, CompleteReload(r) PROVE DrivesTypeOK'
  BY <1>3, <1>b, <1>a DEF ReloadInv, DrivesTypeOK, Generations, reloadVars, writerVars, Inside,
     CompleteReload
<1>4. ASSUME NEW r \in Reloaders, NEW n \in DriveNames, InstallDrive(r,n)
     PROVE  DrivesTypeOK'
  BY <1>4 DEF ReloadInv, DrivesTypeOK, Generations, reloadVars, writerVars,
     InstallDrive
<1>5. ASSUME NEW w \in Writers, ResolveDrive(w) PROVE DrivesTypeOK'
  BY <1>5 DEF ReloadInv, DrivesTypeOK, Generations, reloadVars, GoTo, ResolveDrive
<1>6. ASSUME NEW w \in Writers, ReadLock(w) PROVE DrivesTypeOK'
  BY <1>6 DEF ReloadInv, DrivesTypeOK, Generations, reloadVars, GoTo, ReadLock
<1>7. ASSUME NEW w \in Writers, Look(w) PROVE DrivesTypeOK'
  <2>1. CASE GoTo(w, "make") /\ made[name[w]] = 0
    BY <1>7, <2>1 DEF ReloadInv, DrivesTypeOK, Generations, reloadVars, GoTo, Look
  <2>2. CASE GoTo(w, "leave")
    BY <1>7, <2>2 DEF ReloadInv, DrivesTypeOK, Generations, reloadVars, GoTo, Look
  <2> QED
    BY <1>7, <2>1, <2>2 DEF Look
<1>8. ASSUME NEW w \in Writers, MakeParent(w) PROVE DrivesTypeOK'
  <2>1. CASE UNCHANGED made
    BY <1>8, <2>1, <1>a DEF ReloadInv, DrivesTypeOK, Generations, reloadVars, GoTo, MakeParent
  <2>2. CASE made' = [made EXCEPT ![name[w]] = @ + 1]
    BY <1>8, <2>2, <1>a DEF ReloadInv, DrivesTypeOK, Generations, reloadVars, GoTo, MakeParent
  <2> QED
    BY <1>8, <2>1, <2>2 DEF MakeParent
<1>9. ASSUME NEW w \in Writers, LeaveDir(w) PROVE DrivesTypeOK'
  <2>1. /\ stage' = [stage EXCEPT ![w] = "idle"]
        /\ UNCHANGED <<gen, installed, alive, mutex, creating, reloads, name, ref, undo, made, crossed>>
    BY <1>9 DEF LeaveDir, GoTo, reloadVars
  <2>2. \/ crashed' = TRUE /\ holder' = holder
        \/ holder' = [holder EXCEPT ![undo[w]][name[w]] = "free"] /\ crashed' = crashed
    BY <1>9 DEF LeaveDir
  <2>3. holder' \in [Generations -> [DriveNames -> Writers \cup {"free"}]] /\ crashed' \in BOOLEAN
    <3>1. holder \in [Generations -> [DriveNames -> Writers \cup {"free"}]] /\ crashed \in BOOLEAN
      BY DEF ReloadInv, DrivesTypeOK
    <3>2. CASE holder' = holder /\ crashed' = TRUE
      BY <3>1, <3>2
    <3>3. CASE holder' = [holder EXCEPT ![undo[w]][name[w]] = "free"] /\ crashed' = crashed
      <4>1. [holder[undo[w]] EXCEPT ![name[w]] = "free"] \in [DriveNames -> Writers \cup {"free"}]
        BY <3>1 DEF ReloadInv, DrivesTypeOK, GenerationsInv
      <4> QED
        BY <3>1, <3>3, <4>1
    <3> QED
      BY <2>2, <3>2, <3>3
  <2> QED
    BY <2>1, <2>3 DEF ReloadInv, DrivesTypeOK
<1>10. ASSUME NEW w \in Writers, Enter(w) PROVE DrivesTypeOK'
  BY <1>10, <1>a DEF ReloadInv, DrivesTypeOK, Generations, reloadVars, GoTo, Enter
<1>11. CASE UNCHANGED driveVars
  BY <1>11 DEF ReloadInv, DrivesTypeOK, Generations, driveVars, reloadVars, writerVars
<1> QED
  BY <1>1, <1>2, <1>3, <1>4, <1>5, <1>6, <1>7, <1>8, <1>9, <1>10,
     <1>11 DEF DrivesNext, EnsureDir

LEMMA GenerationsStep == ReloadInv /\ [DrivesNext]_driveVars => GenerationsInv'
PROOF
<1> SUFFICES ASSUME ReloadInv, [DrivesNext]_driveVars PROVE GenerationsInv'
  OBVIOUS
<1> USE DriveReloadAssumption
<1>1. ASSUME NEW r \in Reloaders, StartReload(r) PROVE GenerationsInv'
  BY <1>1 DEF ReloadInv, GenerationsInv, reloadVars, writerVars, Generations,
     DrivesTypeOK, StartReload
<1>2. ASSUME NEW r \in Reloaders, FailReload(r) PROVE GenerationsInv'
  BY <1>2 DEF ReloadInv, GenerationsInv, reloadVars, writerVars, FailReload
<1>3. ASSUME NEW r \in Reloaders, CompleteReload(r) PROVE GenerationsInv'
  BY <1>3 DEF ReloadInv, GenerationsInv, reloadVars, writerVars, Inside, Generations,
     DrivesTypeOK, CompleteReload
<1>4. ASSUME NEW r \in Reloaders, NEW n \in DriveNames, InstallDrive(r,n)
     PROVE  GenerationsInv'
  BY <1>4 DEF ReloadInv, GenerationsInv, reloadVars, writerVars, InstallDrive
<1>5. ASSUME NEW w \in Writers, ResolveDrive(w) PROVE GenerationsInv'
  BY <1>5 DEF ReloadInv, GenerationsInv, reloadVars, GoTo, ResolveDrive
<1>6. ASSUME NEW w \in Writers, ReadLock(w) PROVE GenerationsInv'
  BY <1>6 DEF ReloadInv, GenerationsInv, reloadVars, GoTo, ReadLock
<1>7. ASSUME NEW w \in Writers, Look(w) PROVE GenerationsInv'
  <2>1. CASE GoTo(w, "make") /\ made[name[w]] = 0
    BY <1>7, <2>1 DEF ReloadInv, GenerationsInv, reloadVars, GoTo, Look
  <2>2. CASE GoTo(w, "leave")
    BY <1>7, <2>2 DEF ReloadInv, GenerationsInv, reloadVars, GoTo, Look
  <2> QED
    BY <1>7, <2>1, <2>2 DEF Look
<1>8. ASSUME NEW w \in Writers, MakeParent(w) PROVE GenerationsInv'
  <2>1. CASE UNCHANGED made
    BY <1>8, <2>1 DEF ReloadInv, GenerationsInv, reloadVars, GoTo, MakeParent
  <2>2. CASE made' = [made EXCEPT ![name[w]] = @ + 1]
    BY <1>8, <2>2 DEF ReloadInv, GenerationsInv, reloadVars, GoTo, MakeParent
  <2> QED
    BY <1>8, <2>1, <2>2 DEF MakeParent
<1>9. ASSUME NEW w \in Writers, LeaveDir(w) PROVE GenerationsInv'
  <2>1. CASE holder[undo[w]][name[w]] = "free"
    BY <1>9, <2>1 DEF ReloadInv, GenerationsInv, reloadVars, GoTo, LeaveDir
  <2>2. CASE holder[undo[w]][name[w]] # "free"
    BY <1>9, <2>2 DEF ReloadInv, GenerationsInv, reloadVars, GoTo, LeaveDir
  <2> QED
    BY <1>9, <2>1, <2>2 DEF LeaveDir
<1>10. ASSUME NEW w \in Writers, Enter(w) PROVE GenerationsInv'
  BY <1>10 DEF ReloadInv, GenerationsInv, reloadVars, GoTo, Enter
<1>11. CASE UNCHANGED driveVars
  BY <1>11 DEF ReloadInv, GenerationsInv, driveVars, reloadVars, writerVars
<1> QED
  BY <1>1, <1>2, <1>3, <1>4, <1>5, <1>6, <1>7, <1>8, <1>9, <1>10,
     <1>11 DEF DrivesNext, EnsureDir

LEMMA NoLeakStep == ReloadInv /\ [DrivesNext]_driveVars => NoDriveLeaks'
PROOF
<1> SUFFICES ASSUME ReloadInv, [DrivesNext]_driveVars PROVE NoDriveLeaks'
  OBVIOUS
<1> USE DriveReloadAssumption
<1>b. /\ holder \in [Generations -> [DriveNames -> Writers \cup {"free"}]]
      /\ gen \in Generations
  BY DEF ReloadInv, DrivesTypeOK
<1>1. ASSUME NEW r \in Reloaders, StartReload(r) PROVE NoDriveLeaks'
  BY <1>1 DEF ReloadInv, NoDriveLeaks, reloadVars, writerVars, GenerationsInv,
     StartReload
<1>2. ASSUME NEW r \in Reloaders, FailReload(r) PROVE NoDriveLeaks'
  BY <1>2, <1>b DEF ReloadInv, NoDriveLeaks, reloadVars, writerVars, GenerationsInv,
     Generations, FailReload
<1>3. ASSUME NEW r \in Reloaders, CompleteReload(r) PROVE NoDriveLeaks'
  BY <1>3, <1>b DEF ReloadInv, NoDriveLeaks, reloadVars, writerVars, Inside,
     GenerationsInv, Generations, CompleteReload
<1>4. ASSUME NEW r \in Reloaders, NEW n \in DriveNames, InstallDrive(r,n)
     PROVE  NoDriveLeaks'
  BY <1>4 DEF ReloadInv, NoDriveLeaks, reloadVars, writerVars, InstallDrive
<1>5. ASSUME NEW w \in Writers, ResolveDrive(w) PROVE NoDriveLeaks'
  BY <1>5 DEF ReloadInv, NoDriveLeaks, reloadVars, GoTo, ResolveDrive
<1>6. ASSUME NEW w \in Writers, ReadLock(w) PROVE NoDriveLeaks'
  BY <1>6 DEF ReloadInv, NoDriveLeaks, reloadVars, GoTo, ReadLock
<1>7. ASSUME NEW w \in Writers, Look(w) PROVE NoDriveLeaks'
  <2>1. CASE GoTo(w, "make") /\ made[name[w]] = 0
    BY <1>7, <2>1 DEF ReloadInv, NoDriveLeaks, reloadVars, GoTo, Look
  <2>2. CASE GoTo(w, "leave")
    BY <1>7, <2>2 DEF ReloadInv, NoDriveLeaks, reloadVars, GoTo, Look
  <2> QED
    BY <1>7, <2>1, <2>2 DEF Look
<1>8. ASSUME NEW w \in Writers, MakeParent(w) PROVE NoDriveLeaks'
  <2>1. CASE UNCHANGED made
    BY <1>8, <2>1 DEF ReloadInv, NoDriveLeaks, reloadVars, GoTo, MakeParent
  <2>2. CASE made' = [made EXCEPT ![name[w]] = @ + 1]
    BY <1>8, <2>2 DEF ReloadInv, NoDriveLeaks, reloadVars, GoTo, MakeParent
  <2> QED
    BY <1>8, <2>1, <2>2 DEF MakeParent
<1>9. ASSUME NEW w \in Writers, LeaveDir(w) PROVE NoDriveLeaks'
  <2>1. CASE holder[undo[w]][name[w]] = "free"
    BY <1>9, <2>1 DEF ReloadInv, NoDriveLeaks, reloadVars, GoTo, LeaveDir
  <2>2. CASE holder[undo[w]][name[w]] # "free"
    BY <1>9, <2>2 DEF ReloadInv, NoDriveLeaks, reloadVars, GoTo, LeaveDir
  <2> QED
    BY <1>9, <2>1, <2>2 DEF LeaveDir
<1>10. ASSUME NEW w \in Writers, Enter(w) PROVE NoDriveLeaks'
  BY <1>10 DEF ReloadInv, NoDriveLeaks, reloadVars, GoTo, Enter
<1>11. CASE UNCHANGED driveVars
  BY <1>11 DEF ReloadInv, NoDriveLeaks, driveVars, reloadVars, writerVars
<1> QED
  BY <1>1, <1>2, <1>3, <1>4, <1>5, <1>6, <1>7, <1>8, <1>9, <1>10,
     <1>11 DEF DrivesNext, EnsureDir

LEMMA HoldersStep == ReloadInv /\ [DrivesNext]_driveVars => HoldersInv'
PROOF
<1> SUFFICES ASSUME ReloadInv, [DrivesNext]_driveVars PROVE HoldersInv'
  OBVIOUS
<1> USE DriveReloadAssumption
<1>a. /\ stage \in [Writers -> {"idle", "resolved", "locking", "look", "make", "leave"}]
      /\ name \in [Writers -> DriveNames]
      /\ ref \in [Writers -> Generations] /\ undo \in [Writers -> Generations]
      /\ made \in [DriveNames -> Nat]
  BY DEF ReloadInv, DrivesTypeOK, GenerationsInv
<1>b. /\ holder \in [Generations -> [DriveNames -> Writers \cup {"free"}]]
      /\ gen \in Generations
  BY DEF ReloadInv, DrivesTypeOK
<1>1. ASSUME NEW r \in Reloaders, StartReload(r) PROVE HoldersInv'
  BY <1>1 DEF ReloadInv, HoldersInv, reloadVars, writerVars, StartReload
<1>2. ASSUME NEW r \in Reloaders, FailReload(r) PROVE HoldersInv'
  BY <1>2 DEF ReloadInv, HoldersInv, reloadVars, writerVars, FailReload
<1>3. ASSUME NEW r \in Reloaders, CompleteReload(r) PROVE HoldersInv'
  BY <1>3 DEF ReloadInv, HoldersInv, reloadVars, writerVars, Inside, CompleteReload
<1>4. ASSUME NEW r \in Reloaders, NEW n \in DriveNames, InstallDrive(r,n)
     PROVE  HoldersInv'
  BY <1>4 DEF ReloadInv, HoldersInv, reloadVars, writerVars, InstallDrive
<1>5. ASSUME NEW w \in Writers, ResolveDrive(w) PROVE HoldersInv'
  BY <1>5 DEF ReloadInv, HoldersInv, reloadVars, GoTo, ResolveDrive
<1>6. ASSUME NEW w \in Writers, ReadLock(w) PROVE HoldersInv'
  BY <1>6, <1>a DEF ReloadInv, HoldersInv, reloadVars, GoTo, ReadLock
<1>7. ASSUME NEW w \in Writers, Look(w) PROVE HoldersInv'
  <2>1. CASE GoTo(w, "make") /\ made[name[w]] = 0
    BY <1>7, <2>1 DEF ReloadInv, HoldersInv, reloadVars, GoTo, Look
  <2>2. CASE GoTo(w, "leave")
    BY <1>7, <2>2 DEF ReloadInv, HoldersInv, reloadVars, GoTo, Look
  <2> QED
    BY <1>7, <2>1, <2>2 DEF Look
<1>8. ASSUME NEW w \in Writers, MakeParent(w) PROVE HoldersInv'
  <2>1. CASE UNCHANGED made
    BY <1>8, <2>1 DEF ReloadInv, HoldersInv, reloadVars, GoTo, MakeParent
  <2>2. CASE made' = [made EXCEPT ![name[w]] = @ + 1]
    BY <1>8, <2>2 DEF ReloadInv, HoldersInv, reloadVars, GoTo, MakeParent
  <2> QED
    BY <1>8, <2>1, <2>2 DEF MakeParent
<1>9. ASSUME NEW w \in Writers, LeaveDir(w) PROVE HoldersInv'
  <2>1. CASE "locking" \in crossed
    BY <1>9, <2>1 DEF LeaveDir, HoldersInv
  <2>2. CASE "locking" \notin crossed
    <3>1. /\ holder[undo[w]][name[w]] = w /\ ~crashed /\ w # "free"
          /\ undo[w] \in Generations /\ name[w] \in DriveNames
      BY <1>9, <2>2 DEF LeaveDir, ReloadInv, DrivesTypeOK, GenerationsInv, HoldersInv
    <3>2. /\ holder' = [holder EXCEPT ![undo[w]][name[w]] = "free"]
          /\ stage' = [stage EXCEPT ![w] = "idle"]
          /\ UNCHANGED <<crashed, crossed, ref, undo, name, gen>>
      BY <1>9, <3>1 DEF LeaveDir, GoTo, reloadVars
    <3>3. ASSUME NEW v \in Writers, stage'[v] \in {"look", "make", "leave"}
          PROVE  holder'[undo'[v]][name'[v]] = v
      BY <2>2, <3>1, <3>2, <3>3 DEF ReloadInv, DrivesTypeOK, GenerationsInv, HoldersInv
    <3>4. ASSUME NEW g \in Generations, NEW n \in DriveNames, holder'[g][n] # "free"
          PROVE  /\ stage'[holder'[g][n]] \in {"look", "make", "leave"}
                 /\ undo'[holder'[g][n]] = g /\ name'[holder'[g][n]] = n
      <4>1. holder'[g][n] = holder[g][n] /\ holder[g][n] \in Writers \cup {"free"}
        BY <3>1, <3>2, <3>4 DEF ReloadInv, DrivesTypeOK
      <4>2. holder[g][n] # w
        BY <2>2, <3>1, <3>2, <3>4, <4>1 DEF ReloadInv, DrivesTypeOK, HoldersInv
      <4> QED
        BY <2>2, <3>2, <3>4, <4>1, <4>2 DEF ReloadInv, DrivesTypeOK, HoldersInv
    <3>5. \A v \in Writers : stage'[v] = "locking" => ref'[v] = gen'
      BY <2>2, <3>2 DEF ReloadInv, DrivesTypeOK, HoldersInv
    <3> QED
      BY <3>1, <3>2, <3>3, <3>4, <3>5 DEF HoldersInv
  <2> QED
    BY <2>1, <2>2
<1>10. ASSUME NEW w \in Writers, Enter(w) PROVE HoldersInv'
  BY <1>10, <1>b, <1>a DEF ReloadInv, HoldersInv, reloadVars, GoTo, Enter
<1>11. CASE UNCHANGED driveVars
  BY <1>11 DEF ReloadInv, HoldersInv, driveVars, reloadVars, writerVars
<1> QED
  BY <1>1, <1>2, <1>3, <1>4, <1>5, <1>6, <1>7, <1>8, <1>9, <1>10,
     <1>11 DEF DrivesNext, EnsureDir

LEMMA MadeStep == ReloadInv /\ [DrivesNext]_driveVars => MadeInv'
PROOF
<1> SUFFICES ASSUME ReloadInv, [DrivesNext]_driveVars PROVE MadeInv'
  OBVIOUS
<1> USE DriveReloadAssumption
<1>a. /\ stage \in [Writers -> {"idle", "resolved", "locking", "look", "make", "leave"}]
      /\ name \in [Writers -> DriveNames]
      /\ ref \in [Writers -> Generations] /\ undo \in [Writers -> Generations]
      /\ made \in [DriveNames -> Nat]
  BY DEF ReloadInv, DrivesTypeOK, GenerationsInv
<1>1. ASSUME NEW r \in Reloaders, StartReload(r) PROVE MadeInv'
  BY <1>1 DEF ReloadInv, MadeInv, reloadVars, writerVars, StartReload
<1>2. ASSUME NEW r \in Reloaders, FailReload(r) PROVE MadeInv'
  BY <1>2 DEF ReloadInv, MadeInv, reloadVars, writerVars, FailReload
<1>3. ASSUME NEW r \in Reloaders, CompleteReload(r) PROVE MadeInv'
  BY <1>3 DEF ReloadInv, MadeInv, reloadVars, writerVars, Inside, DrivesTypeOK,
     CompleteReload
<1>4. ASSUME NEW r \in Reloaders, NEW n \in DriveNames, InstallDrive(r,n)
     PROVE  MadeInv'
  BY <1>4 DEF ReloadInv, MadeInv, reloadVars, writerVars, InstallDrive
<1>5. ASSUME NEW w \in Writers, ResolveDrive(w) PROVE MadeInv'
  BY <1>5 DEF ReloadInv, MadeInv, reloadVars, GoTo, ResolveDrive
<1>6. ASSUME NEW w \in Writers, ReadLock(w) PROVE MadeInv'
  BY <1>6 DEF ReloadInv, MadeInv, reloadVars, GoTo, ReadLock
<1>7. ASSUME NEW w \in Writers, Look(w) PROVE MadeInv'
  <2>1. CASE GoTo(w, "make") /\ made[name[w]] = 0
    BY <1>7, <2>1 DEF ReloadInv, MadeInv, reloadVars, GoTo, Look
  <2>2. CASE GoTo(w, "leave")
    BY <1>7, <2>2 DEF ReloadInv, MadeInv, reloadVars, GoTo, Look
  <2> QED
    BY <1>7, <2>1, <2>2 DEF Look
<1>8. ASSUME NEW w \in Writers, MakeParent(w) PROVE MadeInv'
  <2>1. CASE UNCHANGED made
    BY <1>8, <2>1, <1>a DEF ReloadInv, MadeInv, reloadVars, GoTo, HoldersInv, MakeParent
  <2>2. CASE made' = [made EXCEPT ![name[w]] = @ + 1]
    BY <1>8, <2>2, <1>a DEF ReloadInv, MadeInv, reloadVars, GoTo, HoldersInv, MakeParent
  <2> QED
    BY <1>8, <2>1, <2>2 DEF MakeParent
<1>9. ASSUME NEW w \in Writers, LeaveDir(w) PROVE MadeInv'
  <2>1. CASE holder[undo[w]][name[w]] = "free"
    BY <1>9, <2>1 DEF ReloadInv, MadeInv, reloadVars, GoTo, LeaveDir
  <2>2. CASE holder[undo[w]][name[w]] # "free"
    BY <1>9, <2>2 DEF ReloadInv, MadeInv, reloadVars, GoTo, LeaveDir
  <2> QED
    BY <1>9, <2>1, <2>2 DEF LeaveDir
<1>10. ASSUME NEW w \in Writers, Enter(w) PROVE MadeInv'
  BY <1>10, <1>a DEF ReloadInv, MadeInv, reloadVars, GoTo, Enter
<1>11. CASE UNCHANGED driveVars
  BY <1>11 DEF ReloadInv, MadeInv, driveVars, reloadVars, writerVars
<1> QED
  BY <1>1, <1>2, <1>3, <1>4, <1>5, <1>6, <1>7, <1>8, <1>9, <1>10,
     <1>11 DEF DrivesNext, EnsureDir

LEMMA ParentStep == ReloadInv /\ [DrivesNext]_driveVars => ParentMadeOnce'
PROOF
<1> SUFFICES ASSUME ReloadInv, [DrivesNext]_driveVars PROVE ParentMadeOnce'
  OBVIOUS
<1> USE DriveReloadAssumption
<1>1. ASSUME NEW r \in Reloaders, StartReload(r) PROVE ParentMadeOnce'
  BY <1>1 DEF ReloadInv, ParentMadeOnce, reloadVars, writerVars, StartReload
<1>2. ASSUME NEW r \in Reloaders, FailReload(r) PROVE ParentMadeOnce'
  BY <1>2 DEF ReloadInv, ParentMadeOnce, reloadVars, writerVars, FailReload
<1>3. ASSUME NEW r \in Reloaders, CompleteReload(r) PROVE ParentMadeOnce'
  BY <1>3 DEF ReloadInv, ParentMadeOnce, reloadVars, writerVars, Inside,
     CompleteReload
<1>4. ASSUME NEW r \in Reloaders, NEW n \in DriveNames, InstallDrive(r,n)
     PROVE  ParentMadeOnce'
  BY <1>4 DEF ReloadInv, ParentMadeOnce, reloadVars, writerVars, InstallDrive
<1>5. ASSUME NEW w \in Writers, ResolveDrive(w) PROVE ParentMadeOnce'
  BY <1>5 DEF ReloadInv, ParentMadeOnce, reloadVars, GoTo, ResolveDrive
<1>6. ASSUME NEW w \in Writers, ReadLock(w) PROVE ParentMadeOnce'
  BY <1>6 DEF ReloadInv, ParentMadeOnce, reloadVars, GoTo, ReadLock
<1>7. ASSUME NEW w \in Writers, Look(w) PROVE ParentMadeOnce'
  <2>1. CASE GoTo(w, "make") /\ made[name[w]] = 0
    BY <1>7, <2>1 DEF ReloadInv, ParentMadeOnce, reloadVars, GoTo, Look
  <2>2. CASE GoTo(w, "leave")
    BY <1>7, <2>2 DEF ReloadInv, ParentMadeOnce, reloadVars, GoTo, Look
  <2> QED
    BY <1>7, <2>1, <2>2 DEF Look
<1>8. ASSUME NEW w \in Writers, MakeParent(w) PROVE ParentMadeOnce'
  <2>1. CASE UNCHANGED made
    BY <1>8, <2>1 DEF ReloadInv, ParentMadeOnce, reloadVars, GoTo, MadeInv, MakeParent
  <2>2. CASE made' = [made EXCEPT ![name[w]] = @ + 1]
    BY <1>8, <2>2 DEF ReloadInv, ParentMadeOnce, reloadVars, GoTo, MadeInv, MakeParent
  <2> QED
    BY <1>8, <2>1, <2>2 DEF MakeParent
<1>9. ASSUME NEW w \in Writers, LeaveDir(w) PROVE ParentMadeOnce'
  <2>1. CASE holder[undo[w]][name[w]] = "free"
    BY <1>9, <2>1 DEF ReloadInv, ParentMadeOnce, reloadVars, GoTo, LeaveDir
  <2>2. CASE holder[undo[w]][name[w]] # "free"
    BY <1>9, <2>2 DEF ReloadInv, ParentMadeOnce, reloadVars, GoTo, LeaveDir
  <2> QED
    BY <1>9, <2>1, <2>2 DEF LeaveDir
<1>10. ASSUME NEW w \in Writers, Enter(w) PROVE ParentMadeOnce'
  BY <1>10 DEF ReloadInv, ParentMadeOnce, reloadVars, GoTo, Enter
<1>11. CASE UNCHANGED driveVars
  BY <1>11 DEF ReloadInv, ParentMadeOnce, driveVars, reloadVars, writerVars
<1> QED
  BY <1>1, <1>2, <1>3, <1>4, <1>5, <1>6, <1>7, <1>8, <1>9, <1>10,
     <1>11 DEF DrivesNext, EnsureDir
-----------------------------------------------------------------------------
LEMMA ReloadInitially == DrivesInit => ReloadInv
PROOF
<1> SUFFICES ASSUME DrivesInit PROVE ReloadInv
  OBVIOUS
<1>1. 0 \in Generations
  BY DriveReloadAssumption DEF Generations
<1>2. DrivesTypeOK
  BY <1>1 DEF DrivesInit, DrivesTypeOK
<1>3. GenerationsInv /\ NoDriveLeaks
  BY DEF DrivesInit, GenerationsInv, NoDriveLeaks
<1>4. HoldersInv /\ MadeInv /\ ParentMadeOnce
  BY DEF DrivesInit, HoldersInv, MadeInv, ParentMadeOnce
<1> QED
  BY <1>2, <1>3, <1>4 DEF ReloadInv

\* The invariant of reloads and requests, for any number of either.
THEOREM ReloadInvariant == DrivesSpec => []ReloadInv
PROOF
<1>1. ReloadInv /\ [DrivesNext]_driveVars => ReloadInv'
  BY ReloadTypeStep, GenerationsStep, NoLeakStep, HoldersStep, MadeStep, ParentStep DEF ReloadInv
<1> QED
  BY ReloadInitially, <1>1, PTL DEF DrivesSpec

\* However reloads and requests interleave and whatever fails, no drive is left behind
\* (ReloadDrive, setDrives), a missing parent is made once (ensureDir), and each mutex of
\* the KeyLock is unlocked by who holds it, unless a reload met a request half-way.
THEOREM ReloadHoldsCorrect == DrivesSpec => []ReloadHolds
PROOF
<1>1. ReloadInv => ReloadHolds
  BY DEF ReloadInv, HoldersInv, ReloadHolds, LocksBalance
<1> QED
  BY <1>1, ReloadInvariant, PTL
-----------------------------------------------------------------------------
(* The tokens of a drive that signs in with OAuth.                        *)

\* Whoever has a token to store has it from a source that lives.
HandsInv ==
  /\ \A c \in Clients : IF hand[c].of = "none" THEN hand[c].token = 0 ELSE hand[c].token # 0
  /\ \A s \in Sources : source[s].alive => source[s].has # 0

\* What is stored was issued since the drive was last deleted.
ErasedInv == ~apart /\ token # 0 => exists /\ token > erased

\* A token that cannot be refreshed any more was refreshed, over and over, to one that
\* can, which is stored, or was before the drive was deleted, or is about to be.
AboutToStore(g) ==
  \E c \in Clients : hand[c].token = g /\ hand[c].of # "none" /\ source[hand[c].of].knows # g

SuccessorInv ==
  ~apart => \A t \in 1..issued : t \notin good =>
    \E g \in good : g > t /\ (g <= token \/ g <= erased \/ AboutToStore(g))

OAuthInv == OAuthTypeOK /\ HandsInv /\ ErasedInv /\ DeletedIsForgotten /\ SuccessorInv
-----------------------------------------------------------------------------
\* What storeToken leaves without a mark was stored over nothing newer.
LEMMA StoreTokenMarks ==
  ASSUME OAuthInv, NEW t \in 0..issued, StoreToken(t)
  PROVE  /\ apart' \in BOOLEAN /\ token' \in 0..issued /\ erased' = erased
         /\ ~apart' => ~apart /\ exists /\ token' = t /\ t > erased /\ t >= token
PROOF
<1>1. /\ apart \in BOOLEAN /\ exists \in BOOLEAN /\ issued \in Nat
      /\ token \in 0..issued /\ erased \in 0..issued
  BY OAuthAssumption DEF OAuthInv, OAuthTypeOK
<1>2. CASE token' = t /\ apart' = (apart \/ ~exists \/ t <= erased \/ t < token)
  <2>1. ~apart' => ~apart /\ exists /\ ~(t <= erased) /\ ~(t < token)
    BY <1>2
  <2> QED
    BY <1>1, <1>2, <2>1 DEF StoreToken
<1>3. CASE token' = token /\ apart' = TRUE
  BY <1>1, <1>3 DEF StoreToken
<1> QED
  BY <1>2, <1>3 DEF StoreToken
-----------------------------------------------------------------------------
\* Each part of the invariant is kept by every step.
LEMMA OAuthTypeStep == OAuthInv /\ [OAuthNext]_oauthVars => OAuthTypeOK'
PROOF
<1> SUFFICES ASSUME OAuthInv, [OAuthNext]_oauthVars PROVE OAuthTypeOK'
  OBVIOUS
<1> USE OAuthAssumption
<1>a. /\ exists \in BOOLEAN /\ issued \in 0..MaxTokens /\ token \in 0..issued /\ good \subseteq 1..issued
      /\ pages \in 0..MaxPages /\ state \in 0..pages /\ apart \in BOOLEAN /\ erased \in 0..issued
  BY DEF OAuthInv, OAuthTypeOK
<1>b. /\ source \in [Sources -> [has : 0..issued, knows : 0..issued, alive : BOOLEAN]]
      /\ hand \in [Clients -> [token : 0..issued, of : Sources \cup {"none"}]]
      /\ page \in [Grantors -> [state : 0..pages, does : {"none", "shown", "exchange", "store"}, token : 0..issued]]
      /\ \A c \in Clients : hand[c].of # "none" => source[hand[c].of].has # 0
  BY DEF OAuthInv, OAuthTypeOK
<1>1. ASSUME NEW a \in Grantors, ShowPage(a) PROVE OAuthTypeOK'
  <2>1. pages' \in 0..MaxPages /\ 0..pages \subseteq 0..pages' /\ pages' \in 0..pages' /\ state' = pages'
    BY <1>a, <1>1 DEF ShowPage
  <2>2. page' \in [Grantors -> [state : 0..pages', does : {"none", "shown", "exchange", "store"}, token : 0..issued]]
    <3>1. [state |-> pages', does |-> "shown", token |-> 0]
            \in [state : 0..pages', does : {"none", "shown", "exchange", "store"}, token : 0..issued]
      <4>1. 0 \in 0..issued
        BY <1>a
      <4> QED
        BY <2>1, <4>1
    <3>2. \A b \in Grantors :
            page[b] \in [state : 0..pages', does : {"none", "shown", "exchange", "store"}, token : 0..issued]
      BY <1>b, <2>1
    <3> QED
      BY <1>b, <1>1, <3>1, <3>2 DEF ShowPage
  <2> QED
    BY <1>a, <1>b, <1>1, <2>1, <2>2 DEF ShowPage, OAuthTypeOK, markVars
<1>2. ASSUME NEW a \in Grantors, CheckState(a) PROVE OAuthTypeOK'
  BY <1>2 DEF OAuthInv, OAuthTypeOK, dataVars, markVars, NoSource, EmptyHand, NoPage,
     CheckState
<1>3. ASSUME NEW a \in Grantors, Exchange(a) PROVE OAuthTypeOK'
  <2>1. issued' \in 0..MaxTokens /\ 0..issued \subseteq 0..issued' /\ issued' \in 1..issued'
    BY <1>a, <1>3 DEF Exchange
  <2>2. page' \in [Grantors -> [state : 0..pages, does : {"none", "shown", "exchange", "store"}, token : 0..issued']]
    <3>1. [state |-> page[a].state, does |-> "store", token |-> issued']
            \in [state : 0..pages, does : {"none", "shown", "exchange", "store"}, token : 0..issued']
      <4>1. page[a].state \in 0..pages /\ issued' \in 0..issued'
        BY <1>b, <2>1
      <4> QED
        BY <4>1
    <3>2. \A b \in Grantors :
            page[b] \in [state : 0..pages, does : {"none", "shown", "exchange", "store"}, token : 0..issued']
      BY <1>b, <2>1
    <3>3. page' = [page EXCEPT ![a] = [state |-> page[a].state, does |-> "store", token |-> issued']]
      BY <1>b, <1>3 DEF Exchange
    <3> QED
      BY <1>b, <3>1, <3>2, <3>3
  <2>3. good' \subseteq 1..issued'
    BY <1>a, <1>3, <2>1 DEF Exchange
  <2>4. /\ source \in [Sources -> [has : 0..issued', knows : 0..issued', alive : BOOLEAN]]
        /\ hand \in [Clients -> [token : 0..issued', of : Sources \cup {"none"}]]
    BY <1>b, <2>1
  <2> QED
    BY <1>a, <1>b, <1>3, <2>1, <2>2, <2>3, <2>4 DEF Exchange, OAuthTypeOK, dataVars, markVars
<1>4. ASSUME NEW a \in Grantors, StoreExchanged(a) PROVE OAuthTypeOK'
  <2>1. page[a].token \in 0..issued
    BY <1>b
  <2>2. apart' \in BOOLEAN /\ token' \in 0..issued /\ erased' = erased
    BY <1>4, <2>1, StoreTokenMarks DEF StoreExchanged
  <2>3. UNCHANGED <<exists, state, issued, good, source, hand, pages>> /\ page' = [page EXCEPT ![a] = NoPage]
    BY <1>4 DEF StoreExchanged
  <2> QED
    BY <1>a, <1>b, <2>2, <2>3 DEF OAuthTypeOK, NoPage
<1>5. ASSUME NEW s \in Sources, MakeSource(s) PROVE OAuthTypeOK'
  BY <1>5 DEF OAuthInv, OAuthTypeOK, dataVars, markVars, MakeSource
<1>6. ASSUME NEW s \in Sources, DropSource(s) PROVE OAuthTypeOK'
  BY <1>6 DEF OAuthInv, OAuthTypeOK, dataVars, markVars, NoSource, EmptyHand, NoPage,
     DropSource
<1>7. ASSUME NEW s \in Sources, AccessExpires(s) PROVE OAuthTypeOK'
  BY <1>7, <1>b, <1>a DEF OAuthInv, OAuthTypeOK, dataVars, markVars, DeletedIsForgotten,
     SuccessorInv, AboutToStore, ErasedInv, HandsInv, NoSource,
     EmptyHand, NoPage, AccessExpires
<1>8. ASSUME NEW c \in Clients, NEW s \in Sources, TakeToken(c,s) PROVE OAuthTypeOK'
  BY <1>8 DEF OAuthInv, OAuthTypeOK, dataVars, markVars, HandsInv, TakeToken
<1>9. ASSUME NEW c \in Clients, NEW s \in Sources, Refresh(c,s) PROVE OAuthTypeOK'
  BY <1>9 DEF OAuthInv, OAuthTypeOK, dataVars, markVars, Refresh
<1>10. ASSUME NEW c \in Clients, KeepToken(c) PROVE OAuthTypeOK'
  <2>1. /\ hand[c].token \in 0..issued /\ hand[c].of \in Sources
        /\ UNCHANGED <<exists, state, issued, good, page, pages>> /\ hand' = [hand EXCEPT ![c] = EmptyHand]
    BY <1>b, <1>10 DEF KeepToken, EmptyHand, OAuthInv, HandsInv
  <2>2. CASE StoreToken(hand[c].token) /\ source' = [source EXCEPT ![hand[c].of].knows = hand[c].token]
    <3>1. apart' \in BOOLEAN /\ token' \in 0..issued /\ erased' = erased
      BY <2>1, <2>2, StoreTokenMarks
    <3>2. /\ source' \in [Sources -> [has : 0..issued, knows : 0..issued, alive : BOOLEAN]]
          /\ \A s \in Sources : source'[s].has = source[s].has
      BY <1>b, <2>1, <2>2
    <3> QED
      BY <1>a, <1>b, <2>1, <3>1, <3>2 DEF OAuthTypeOK, EmptyHand
  <2>3. CASE UNCHANGED <<token, markVars, source>>
    BY <1>a, <1>b, <2>1, <2>3 DEF OAuthTypeOK, EmptyHand, markVars
  <2> QED
    BY <1>10, <2>2, <2>3 DEF KeepToken
<1>11. CASE DeleteDriveData
  BY <1>11 DEF OAuthInv, OAuthTypeOK, dataVars, markVars, DeleteDriveData
<1>12. CASE AddDriveAnew
  BY <1>12 DEF OAuthInv, OAuthTypeOK, dataVars, markVars, AddDriveAnew
<1>13. CASE CrashOAuth
  BY <1>13 DEF OAuthInv, OAuthTypeOK, dataVars, markVars, NoSource, EmptyHand, NoPage,
     CrashOAuth
<1>14. CASE UNCHANGED oauthVars
  BY <1>14 DEF OAuthInv, OAuthTypeOK, oauthVars, dataVars, markVars
<1> QED
  BY <1>1, <1>2, <1>3, <1>4, <1>5, <1>6, <1>7, <1>8, <1>9, <1>10,
     <1>11, <1>12, <1>13, <1>14 DEF OAuthNext

LEMMA HandsStep == OAuthInv /\ [OAuthNext]_oauthVars => HandsInv'
PROOF
<1> SUFFICES ASSUME OAuthInv, [OAuthNext]_oauthVars PROVE HandsInv'
  OBVIOUS
<1> USE OAuthAssumption
<1>b. /\ source \in [Sources -> [has : 0..issued, knows : 0..issued, alive : BOOLEAN]]
      /\ hand \in [Clients -> [token : 0..issued, of : Sources \cup {"none"}]]
      /\ page \in [Grantors -> [state : 0..pages, does : {"none", "shown", "exchange", "store"}, token : 0..issued]]
      /\ \A c \in Clients : hand[c].of # "none" => source[hand[c].of].has # 0
  BY DEF OAuthInv, OAuthTypeOK
<1>1. ASSUME NEW a \in Grantors, ShowPage(a) PROVE HandsInv'
  BY <1>1 DEF OAuthInv, HandsInv, dataVars, markVars, ShowPage
<1>2. ASSUME NEW a \in Grantors, CheckState(a) PROVE HandsInv'
  BY <1>2 DEF OAuthInv, HandsInv, dataVars, markVars, CheckState
<1>3. ASSUME NEW a \in Grantors, Exchange(a) PROVE HandsInv'
  BY <1>3 DEF OAuthInv, HandsInv, dataVars, markVars, Exchange
<1>4. ASSUME NEW a \in Grantors, StoreExchanged(a) PROVE HandsInv'
  <2>1. CASE token' = page[a].token
    BY <1>4, <2>1 DEF OAuthInv, HandsInv, dataVars, markVars, StoreToken, StoreExchanged
  <2>2. CASE apart' = TRUE /\ token' = token
    BY <1>4, <2>2 DEF OAuthInv, HandsInv, dataVars, markVars, StoreToken, StoreExchanged
  <2> QED
    BY <1>4, <2>1, <2>2 DEF StoreExchanged, StoreToken
<1>5. ASSUME NEW s \in Sources, MakeSource(s) PROVE HandsInv'
  BY <1>5 DEF OAuthInv, HandsInv, dataVars, markVars, MakeSource
<1>6. ASSUME NEW s \in Sources, DropSource(s) PROVE HandsInv'
  BY <1>6 DEF OAuthInv, HandsInv, dataVars, markVars, NoSource, EmptyHand, NoPage,
     DropSource
<1>7. ASSUME NEW s \in Sources, AccessExpires(s) PROVE HandsInv'
  BY <1>7 DEF OAuthInv, HandsInv, dataVars, markVars, AccessExpires
<1>8. ASSUME NEW c \in Clients, NEW s \in Sources, TakeToken(c,s) PROVE HandsInv'
  BY <1>8 DEF OAuthInv, HandsInv, dataVars, markVars, TakeToken
<1>9. ASSUME NEW c \in Clients, NEW s \in Sources, Refresh(c,s) PROVE HandsInv'
  BY <1>9, <1>b DEF OAuthInv, HandsInv, dataVars, markVars, Refresh
<1>10. ASSUME NEW c \in Clients, KeepToken(c) PROVE HandsInv'
  <2>1. CASE source[hand[c].of].knows = hand[c].token
    BY <1>10, <2>1, <1>b DEF OAuthInv, HandsInv, dataVars, markVars, StoreToken, DeletedIsForgotten,
       NoSource, EmptyHand, NoPage, KeepToken
  <2>2. CASE source[hand[c].of].knows # hand[c].token /\ token' = hand[c].token
    BY <1>10, <2>2, <1>b DEF OAuthInv, HandsInv, dataVars, markVars, StoreToken, DeletedIsForgotten,
       NoSource, EmptyHand, NoPage, KeepToken
  <2>3. CASE source[hand[c].of].knows # hand[c].token /\ apart' = TRUE /\ token' = token
    BY <1>10, <2>3, <1>b DEF OAuthInv, HandsInv, dataVars, markVars, StoreToken, DeletedIsForgotten,
       NoSource, EmptyHand, NoPage, KeepToken
  <2> QED
    BY <1>10, <2>1, <2>2, <2>3 DEF KeepToken, StoreToken
<1>11. CASE DeleteDriveData
  BY <1>11 DEF OAuthInv, HandsInv, dataVars, markVars, DeleteDriveData
<1>12. CASE AddDriveAnew
  BY <1>12 DEF OAuthInv, HandsInv, dataVars, markVars, AddDriveAnew
<1>13. CASE CrashOAuth
  BY <1>13 DEF OAuthInv, HandsInv, dataVars, markVars, NoSource, EmptyHand, NoPage,
     CrashOAuth
<1>14. CASE UNCHANGED oauthVars
  BY <1>14 DEF OAuthInv, HandsInv, oauthVars, dataVars, markVars
<1> QED
  BY <1>1, <1>2, <1>3, <1>4, <1>5, <1>6, <1>7, <1>8, <1>9, <1>10,
     <1>11, <1>12, <1>13, <1>14 DEF OAuthNext

LEMMA ErasedStep == OAuthInv /\ [OAuthNext]_oauthVars => ErasedInv'
PROOF
<1> SUFFICES ASSUME OAuthInv, [OAuthNext]_oauthVars PROVE ErasedInv'
  OBVIOUS
<1> USE OAuthAssumption
<1>a. /\ exists \in BOOLEAN /\ issued \in 0..MaxTokens /\ token \in 0..issued /\ good \subseteq 1..issued
      /\ pages \in 0..MaxPages /\ state \in 0..pages /\ apart \in BOOLEAN /\ erased \in 0..issued
  BY DEF OAuthInv, OAuthTypeOK
<1>b. /\ source \in [Sources -> [has : 0..issued, knows : 0..issued, alive : BOOLEAN]]
      /\ hand \in [Clients -> [token : 0..issued, of : Sources \cup {"none"}]]
      /\ page \in [Grantors -> [state : 0..pages, does : {"none", "shown", "exchange", "store"}, token : 0..issued]]
      /\ \A c \in Clients : hand[c].of # "none" => source[hand[c].of].has # 0
  BY DEF OAuthInv, OAuthTypeOK
<1>1. ASSUME NEW a \in Grantors, ShowPage(a) PROVE ErasedInv'
  BY <1>1 DEF OAuthInv, ErasedInv, dataVars, markVars, ShowPage
<1>2. ASSUME NEW a \in Grantors, CheckState(a) PROVE ErasedInv'
  BY <1>2 DEF OAuthInv, ErasedInv, dataVars, markVars, CheckState
<1>3. ASSUME NEW a \in Grantors, Exchange(a) PROVE ErasedInv'
  BY <1>3 DEF OAuthInv, ErasedInv, dataVars, markVars, Exchange
<1>4. ASSUME NEW a \in Grantors, StoreExchanged(a) PROVE ErasedInv'
  <2>1. page[a].token \in 0..issued
    BY <1>b
  <2> QED
    BY <1>4, <2>1, StoreTokenMarks DEF StoreExchanged, ErasedInv
<1>5. ASSUME NEW s \in Sources, MakeSource(s) PROVE ErasedInv'
  BY <1>5 DEF OAuthInv, ErasedInv, dataVars, markVars, MakeSource
<1>6. ASSUME NEW s \in Sources, DropSource(s) PROVE ErasedInv'
  BY <1>6 DEF OAuthInv, ErasedInv, dataVars, markVars, DropSource
<1>7. ASSUME NEW s \in Sources, AccessExpires(s) PROVE ErasedInv'
  BY <1>7 DEF OAuthInv, ErasedInv, dataVars, markVars, AccessExpires
<1>8. ASSUME NEW c \in Clients, NEW s \in Sources, TakeToken(c,s) PROVE ErasedInv'
  BY <1>8 DEF OAuthInv, ErasedInv, dataVars, markVars, TakeToken
<1>9. ASSUME NEW c \in Clients, NEW s \in Sources, Refresh(c,s) PROVE ErasedInv'
  BY <1>9 DEF OAuthInv, ErasedInv, dataVars, markVars, Refresh
<1>10. ASSUME NEW c \in Clients, KeepToken(c) PROVE ErasedInv'
  <2>1. hand[c].token \in 0..issued /\ exists' = exists
    BY <1>b, <1>10 DEF KeepToken
  <2>2. CASE StoreToken(hand[c].token)
    BY <2>1, <2>2, StoreTokenMarks DEF ErasedInv
  <2>3. CASE UNCHANGED <<token, markVars, source>>
    BY <2>1, <2>3 DEF OAuthInv, ErasedInv, markVars
  <2> QED
    BY <1>10, <2>2, <2>3 DEF KeepToken
<1>11. CASE DeleteDriveData
  BY <1>11 DEF OAuthInv, ErasedInv, dataVars, markVars, DeleteDriveData
<1>12. CASE AddDriveAnew
  BY <1>12 DEF OAuthInv, ErasedInv, dataVars, markVars, AddDriveAnew
<1>13. CASE CrashOAuth
  BY <1>13, <1>a DEF OAuthInv, ErasedInv, dataVars, markVars, CrashOAuth
<1>14. CASE UNCHANGED oauthVars
  BY <1>14 DEF OAuthInv, ErasedInv, oauthVars, dataVars, markVars
<1> QED
  BY <1>1, <1>2, <1>3, <1>4, <1>5, <1>6, <1>7, <1>8, <1>9, <1>10,
     <1>11, <1>12, <1>13, <1>14 DEF OAuthNext

LEMMA DeletedStep == OAuthInv /\ [OAuthNext]_oauthVars => DeletedIsForgotten'
PROOF
<1> SUFFICES ASSUME OAuthInv, [OAuthNext]_oauthVars PROVE DeletedIsForgotten'
  OBVIOUS
<1> USE OAuthAssumption
<1>a. /\ exists \in BOOLEAN /\ issued \in 0..MaxTokens /\ token \in 0..issued /\ good \subseteq 1..issued
      /\ pages \in 0..MaxPages /\ state \in 0..pages /\ apart \in BOOLEAN /\ erased \in 0..issued
  BY DEF OAuthInv, OAuthTypeOK
<1>b. /\ source \in [Sources -> [has : 0..issued, knows : 0..issued, alive : BOOLEAN]]
      /\ hand \in [Clients -> [token : 0..issued, of : Sources \cup {"none"}]]
      /\ page \in [Grantors -> [state : 0..pages, does : {"none", "shown", "exchange", "store"}, token : 0..issued]]
      /\ \A c \in Clients : hand[c].of # "none" => source[hand[c].of].has # 0
  BY DEF OAuthInv, OAuthTypeOK
<1>1. ASSUME NEW a \in Grantors, ShowPage(a) PROVE DeletedIsForgotten'
  BY <1>1 DEF OAuthInv, DeletedIsForgotten, dataVars, markVars, ShowPage
<1>2. ASSUME NEW a \in Grantors, CheckState(a) PROVE DeletedIsForgotten'
  BY <1>2 DEF OAuthInv, DeletedIsForgotten, dataVars, markVars, CheckState
<1>3. ASSUME NEW a \in Grantors, Exchange(a) PROVE DeletedIsForgotten'
  BY <1>3 DEF OAuthInv, DeletedIsForgotten, dataVars, markVars, Exchange
<1>4. ASSUME NEW a \in Grantors, StoreExchanged(a) PROVE DeletedIsForgotten'
  <2>1. CASE token' = page[a].token
    BY <1>4, <2>1, <1>b, <1>a DEF OAuthInv, DeletedIsForgotten, dataVars, markVars, StoreToken,
       SuccessorInv, AboutToStore, ErasedInv, HandsInv, NoSource,
       EmptyHand, NoPage, StoreExchanged
  <2>2. CASE apart' = TRUE /\ token' = token
    BY <1>4, <2>2, <1>b, <1>a DEF OAuthInv, DeletedIsForgotten, dataVars, markVars, StoreToken,
       SuccessorInv, AboutToStore, ErasedInv, HandsInv, NoSource,
       EmptyHand, NoPage, StoreExchanged
  <2> QED
    BY <1>4, <2>1, <2>2 DEF StoreExchanged, StoreToken
<1>5. ASSUME NEW s \in Sources, MakeSource(s) PROVE DeletedIsForgotten'
  BY <1>5 DEF OAuthInv, DeletedIsForgotten, dataVars, markVars, MakeSource
<1>6. ASSUME NEW s \in Sources, DropSource(s) PROVE DeletedIsForgotten'
  BY <1>6 DEF OAuthInv, DeletedIsForgotten, dataVars, markVars, DropSource
<1>7. ASSUME NEW s \in Sources, AccessExpires(s) PROVE DeletedIsForgotten'
  BY <1>7 DEF OAuthInv, DeletedIsForgotten, dataVars, markVars, AccessExpires
<1>8. ASSUME NEW c \in Clients, NEW s \in Sources, TakeToken(c,s)
     PROVE  DeletedIsForgotten'
  BY <1>8 DEF OAuthInv, DeletedIsForgotten, dataVars, markVars, TakeToken
<1>9. ASSUME NEW c \in Clients, NEW s \in Sources, Refresh(c,s)
     PROVE  DeletedIsForgotten'
  BY <1>9 DEF OAuthInv, DeletedIsForgotten, dataVars, markVars, Refresh
<1>10. ASSUME NEW c \in Clients, KeepToken(c) PROVE DeletedIsForgotten'
  <2>1. CASE source[hand[c].of].knows = hand[c].token
    BY <1>10, <2>1, <1>b, <1>a DEF OAuthInv, DeletedIsForgotten, dataVars, markVars, StoreToken,
       SuccessorInv, AboutToStore, ErasedInv, HandsInv, NoSource,
       EmptyHand, NoPage, KeepToken
  <2>2. CASE source[hand[c].of].knows # hand[c].token /\ token' = hand[c].token
    BY <1>10, <2>2, <1>b, <1>a DEF OAuthInv, DeletedIsForgotten, dataVars, markVars, StoreToken,
       SuccessorInv, AboutToStore, ErasedInv, HandsInv, NoSource,
       EmptyHand, NoPage, KeepToken
  <2>3. CASE source[hand[c].of].knows # hand[c].token /\ apart' = TRUE /\ token' = token
    BY <1>10, <2>3, <1>b, <1>a DEF OAuthInv, DeletedIsForgotten, dataVars, markVars, StoreToken,
       SuccessorInv, AboutToStore, ErasedInv, HandsInv, NoSource,
       EmptyHand, NoPage, KeepToken
  <2> QED
    BY <1>10, <2>1, <2>2, <2>3 DEF KeepToken, StoreToken
<1>11. CASE DeleteDriveData
  BY <1>11 DEF OAuthInv, DeletedIsForgotten, dataVars, markVars, DeleteDriveData
<1>12. CASE AddDriveAnew
  BY <1>12 DEF OAuthInv, DeletedIsForgotten, dataVars, markVars, AddDriveAnew
<1>13. CASE CrashOAuth
  BY <1>13, <1>a DEF OAuthInv, DeletedIsForgotten, dataVars, markVars, CrashOAuth
<1>14. CASE UNCHANGED oauthVars
  BY <1>14 DEF OAuthInv, DeletedIsForgotten, oauthVars, dataVars, markVars
<1> QED
  BY <1>1, <1>2, <1>3, <1>4, <1>5, <1>6, <1>7, <1>8, <1>9, <1>10,
     <1>11, <1>12, <1>13, <1>14 DEF OAuthNext

LEMMA SuccessorStep == OAuthInv /\ [OAuthNext]_oauthVars => SuccessorInv'
PROOF
<1> SUFFICES ASSUME OAuthInv, [OAuthNext]_oauthVars PROVE SuccessorInv'
  OBVIOUS
<1> USE OAuthAssumption
<1>a. /\ exists \in BOOLEAN /\ issued \in 0..MaxTokens /\ token \in 0..issued /\ good \subseteq 1..issued
      /\ pages \in 0..MaxPages /\ state \in 0..pages /\ apart \in BOOLEAN /\ erased \in 0..issued
  BY DEF OAuthInv, OAuthTypeOK
<1>b. /\ source \in [Sources -> [has : 0..issued, knows : 0..issued, alive : BOOLEAN]]
      /\ hand \in [Clients -> [token : 0..issued, of : Sources \cup {"none"}]]
      /\ page \in [Grantors -> [state : 0..pages, does : {"none", "shown", "exchange", "store"}, token : 0..issued]]
      /\ \A c \in Clients : hand[c].of # "none" => source[hand[c].of].has # 0
  BY DEF OAuthInv, OAuthTypeOK
<1>1. ASSUME NEW a \in Grantors, ShowPage(a) PROVE SuccessorInv'
  BY <1>1 DEF OAuthInv, SuccessorInv, AboutToStore, dataVars, markVars, ShowPage
<1>2. ASSUME NEW a \in Grantors, CheckState(a) PROVE SuccessorInv'
  BY <1>2 DEF OAuthInv, SuccessorInv, AboutToStore, dataVars, markVars, CheckState
<1>3. ASSUME NEW a \in Grantors, Exchange(a) PROVE SuccessorInv'
  BY <1>3, <1>a DEF OAuthInv, SuccessorInv, AboutToStore, dataVars, markVars, Exchange
<1>4. ASSUME NEW a \in Grantors, StoreExchanged(a) PROVE SuccessorInv'
  <2>1. CASE token' = page[a].token
    BY <1>4, <2>1, <1>b, <1>a DEF OAuthInv, SuccessorInv, AboutToStore, dataVars, markVars, StoreToken,
       ErasedInv, StoreExchanged
  <2>2. CASE apart' = TRUE /\ token' = token
    BY <1>4, <2>2, <1>b, <1>a DEF OAuthInv, SuccessorInv, AboutToStore, dataVars, markVars, StoreToken,
       ErasedInv, StoreExchanged
  <2> QED
    BY <1>4, <2>1, <2>2 DEF StoreExchanged, StoreToken
<1>5. ASSUME NEW s \in Sources, MakeSource(s) PROVE SuccessorInv'
  BY <1>5 DEF OAuthInv, SuccessorInv, AboutToStore, dataVars, markVars, MakeSource
<1>6. ASSUME NEW s \in Sources, DropSource(s) PROVE SuccessorInv'
  BY <1>6 DEF OAuthInv, SuccessorInv, AboutToStore, dataVars, markVars, DropSource
<1>7. ASSUME NEW s \in Sources, AccessExpires(s) PROVE SuccessorInv'
  BY <1>7 DEF OAuthInv, SuccessorInv, AboutToStore, dataVars, markVars, AccessExpires
<1>8. ASSUME NEW c \in Clients, NEW s \in Sources, TakeToken(c,s) PROVE SuccessorInv'
  BY <1>8 DEF OAuthInv, SuccessorInv, AboutToStore, dataVars, markVars, NoSource,
     EmptyHand, NoPage, TakeToken
<1>9. ASSUME NEW c \in Clients, NEW s \in Sources, Refresh(c,s) PROVE SuccessorInv'
  BY <1>9, <1>b DEF OAuthInv, SuccessorInv, AboutToStore, dataVars, markVars, Refresh
<1>10. ASSUME NEW c \in Clients, KeepToken(c) PROVE SuccessorInv'
  <2> DEFINE t == hand[c].token
  <2>1. /\ t \in 0..issued /\ hand[c].of \in Sources
        /\ UNCHANGED <<issued, good>> /\ hand' = [hand EXCEPT ![c] = EmptyHand]
    BY <1>b, <1>10 DEF KeepToken, EmptyHand, OAuthInv, HandsInv
  <2>2. CASE /\ source[hand[c].of].knows # t
             /\ StoreToken(t) /\ source' = [source EXCEPT ![hand[c].of].knows = t]
    <3> SUFFICES ASSUME ~apart', NEW u \in 1..issued, u \notin good
                 PROVE  \E g \in good : g > u /\ (g <= token' \/ g <= erased' \/ AboutToStore(g)')
      BY <2>1 DEF SuccessorInv
    <3>1. ~apart /\ token' = t /\ t >= token /\ erased' = erased
      BY <2>1, <2>2, StoreTokenMarks
    <3>2. PICK g \in good : g > u /\ (g <= token \/ g <= erased \/ AboutToStore(g))
      BY <1>a, <3>1 DEF OAuthInv, SuccessorInv
    <3>3. CASE g <= token \/ g <= erased \/ g = t
      BY <1>a, <2>1, <3>1, <3>2, <3>3
    <3>4. CASE AboutToStore(g) /\ g # t
      <4>1. PICK d \in Clients : hand[d].token = g /\ hand[d].of # "none" /\ source[hand[d].of].knows # g
        BY <3>4 DEF AboutToStore
      <4>2. d # c /\ hand'[d] = hand[d] /\ hand[d].of \in Sources
        BY <1>b, <2>1, <3>4, <4>1
      <4>3. source'[hand[d].of].knows # g
        BY <1>b, <2>1, <2>2, <3>4, <4>1, <4>2
      <4>4. AboutToStore(g)'
        BY <4>1, <4>2, <4>3 DEF AboutToStore
      <4> QED
        BY <3>2, <4>4
    <3> QED
      BY <3>2, <3>3, <3>4
  <2>3. CASE source[hand[c].of].knows = t /\ UNCHANGED <<token, markVars, source>>
    <3>1. \A g \in good : AboutToStore(g) => AboutToStore(g)'
      BY <1>b, <2>1, <2>3 DEF AboutToStore
    <3> QED
      BY <1>a, <2>1, <2>3, <3>1 DEF OAuthInv, SuccessorInv, markVars
  <2> QED
    BY <1>10, <2>2, <2>3 DEF KeepToken
<1>11. CASE DeleteDriveData
  BY <1>11, <1>a DEF OAuthInv, SuccessorInv, AboutToStore, dataVars, markVars,
     DeleteDriveData
<1>12. CASE AddDriveAnew
  BY <1>12 DEF OAuthInv, SuccessorInv, AboutToStore, dataVars, markVars, AddDriveAnew
<1>13. CASE CrashOAuth
  <2>1. /\ ~apart' => ~apart /\ \A c \in Clients : hand[c] = EmptyHand
        /\ UNCHANGED <<exists, token, issued, good, erased>>
    BY <1>13 DEF CrashOAuth, dataVars
  <2>2. ASSUME ~apart' PROVE \A g \in good : ~AboutToStore(g)
    BY <2>1, <2>2 DEF AboutToStore, EmptyHand
  <2> QED
    BY <1>a, <2>1, <2>2 DEF OAuthInv, SuccessorInv
<1>14. CASE UNCHANGED oauthVars
  BY <1>14 DEF OAuthInv, SuccessorInv, AboutToStore, oauthVars, dataVars, markVars
<1> QED
  BY <1>1, <1>2, <1>3, <1>4, <1>5, <1>6, <1>7, <1>8, <1>9, <1>10,
     <1>11, <1>12, <1>13, <1>14 DEF OAuthNext
-----------------------------------------------------------------------------
LEMMA OAuthInitially == OAuthInit => OAuthInv
PROOF
<1> SUFFICES ASSUME OAuthInit PROVE OAuthInv
  OBVIOUS
<1>1. 0 \in 0..MaxTokens /\ 0 \in 0..MaxPages /\ 0 \in 0..0 /\ 1..0 = {}
  BY OAuthAssumption
<1>2. OAuthTypeOK
  BY <1>1 DEF OAuthInit, OAuthTypeOK, NoSource, EmptyHand, NoPage
<1>3. HandsInv /\ ErasedInv /\ DeletedIsForgotten /\ SuccessorInv
  BY <1>1 DEF OAuthInit, HandsInv, ErasedInv, DeletedIsForgotten, SuccessorInv, NoSource, EmptyHand
<1> QED
  BY <1>2, <1>3 DEF OAuthInv

\* The invariant of the tokens, for any number of sources, requests and set-up pages.
THEOREM OAuthInvariant == OAuthSpec => []OAuthInv
PROOF
<1>1. OAuthInv /\ [OAuthNext]_oauthVars => OAuthInv'
  BY OAuthTypeStep, HandsStep, ErasedStep, DeletedStep, SuccessorStep DEF OAuthInv
<1> QED
  BY OAuthInitially, <1>1, PTL DEF OAuthSpec

\* Whatever sources refresh, store, crash or are replaced, the token that is stored can
\* be refreshed once nobody is about to store another, unless one was lost, put over a
\* newer one, or stored by a drive that was deleted; and a deleted drive leaves none
\* (tokenSource.Token and storeToken, deleteDrive).
THEOREM TokensHoldCorrect == OAuthSpec => []TokensHold
PROOF
<1>1. OAuthInv => TokensHold
  <2> SUFFICES ASSUME OAuthInv PROVE TokensHold
    OBVIOUS
  <2>1. ASSUME ~apart, token # 0, \A c \in Clients : hand[c] = EmptyHand
        PROVE  token \in good
    <3>1. token > erased
      BY <2>1 DEF OAuthInv, ErasedInv
    <3>2. /\ token \in 1..issued /\ issued \in Nat /\ good \subseteq 1..issued
          /\ erased \in 0..issued
      BY <2>1, OAuthAssumption DEF OAuthInv, OAuthTypeOK
    <3>3. ASSUME NEW g PROVE ~AboutToStore(g)
      BY <2>1 DEF AboutToStore, EmptyHand
    <3>4. SUFFICES ASSUME token \notin good PROVE FALSE
      OBVIOUS
    <3>5. PICK g \in good : g > token /\ (g <= token \/ g <= erased)
      BY <2>1, <3>2, <3>3, <3>4 DEF OAuthInv, SuccessorInv
    <3> QED
      BY <3>1, <3>2, <3>5
  <2> QED
    BY <2>1 DEF OAuthInv, TokensHold, StoredRefreshes
<1> QED
  BY <1>1, OAuthInvariant, PTL
-----------------------------------------------------------------------------
(* The VMs and streams of a script drive.                                 *)

\* An operation has a VM while its script runs; the script of one waits for those it
\* calls.
CallsInv ==
  /\ IsFiniteSet(idle)
  /\ \A k \in ScriptCalls :
       /\ vmOf[k] # Nobody <=> pc[k] \in {"run", "back"}
       /\ k[2] = 1 /\ pc[k] # "run" => pc[Nested(k)] \in {"new", "end"}
       /\ k[2] = 2 => pc[k] # "hold"

\* What an operation answers is a stream of its own, or of the operation it called.
AnswersInv ==
  \A k \in ScriptCalls :
    /\ got[k] \in Has(k) \cup {NoCall} /\ (got[k] = Nested(k) => got[Nested(k)] = Nested(k))
    /\ pc[k] \in {"new", "wait", "run"} => got[k] = NoCall
    /\ pc[k] = "hold" => got[k] # NoCall

\* A VM closes the streams of the call it serves, and the base VM those of nested calls
\* that have ended.
ClosersInv ==
  \A s \in ScriptCalls :
    /\ closer[s] \in VMs => closer[s] = vmOf[s]
    /\ closer[s] = BaseVM => s[2] = 2 /\ pc[s] = "end"

\* What is answered is open, and no VM closes it, unless it is in a plain reader: then
\* somebody does.
AnsweredInv ==
  \A k \in ScriptCalls : pc[k] \in {"back", "hold"} /\ got[k] # NoCall =>
    IF got[k] \in wrapped THEN stream[got[k]] = "open" => closer[got[k]] # Nobody
    ELSE /\ closer[got[k]] \notin VMs
         /\ stream[got[k]] = "open" \/ (disposed /\ got[k] # k)

ScriptInv ==
  /\ ScriptTypeOK /\ CallsInv /\ AnswersInv /\ ClosersInv /\ AnsweredInv /\ NothingStaysOpen
-----------------------------------------------------------------------------
\* Calls and the ones they make.
LEMMA CallPairs ==
  ASSUME NEW k \in ScriptCalls
  PROVE  /\ k[2] \in {1, 2} /\ k # NoCall
         /\ Nested(k) \in ScriptCalls /\ Nested(k)[2] = 2
         /\ k[2] = 2 => Nested(k) = k
         /\ \A j \in ScriptCalls : Nested(j) = Nested(k) /\ j[2] = k[2] => j = k
PROOF
  BY DEF ScriptCalls, Nested, NoCall

\* The pool keeps finitely many VMs, and no more than it may.
LEMMA IdleBounded ==
  ASSUME ScriptInv, ScriptNext
  PROVE  IsFiniteSet(idle') /\ Cardinality(idle') <= MaxIdle
PROOF
<1> USE ScriptAssumption
<1>1. IsFiniteSet(idle) /\ Cardinality(idle) <= MaxIdle /\ Cardinality(idle) \in Nat
  BY FS_CardinalityType DEF ScriptInv, ScriptTypeOK, CallsInv
<1>2. CASE idle' \subseteq idle
  BY <1>1, <1>2, FS_Subset, FS_CardinalityType
<1>3. ASSUME NEW k \in ScriptCalls, ReturnVM(k), ~(idle' \subseteq idle)
      PROVE  IsFiniteSet(idle') /\ Cardinality(idle') <= MaxIdle
  <2>1. idle' = idle \cup {vmOf[k]} /\ ~(Cardinality(idle) >= MaxIdle)
    BY <1>3 DEF ReturnVM, GiveBack
  <2>2. /\ IsFiniteSet(idle')
        /\ Cardinality(idle') = Cardinality(idle) \/ Cardinality(idle') = Cardinality(idle) + 1
    BY <1>1, <2>1, FS_AddElement
  <2> QED
    BY <1>1, <2>1, <2>2
<1>4. ASSUME NEW k \in ScriptCalls,
             \/ Borrow(k) \/ GiveUp(k) \/ OpenStream(k) \/ CallSelf(k) \/ FinishCall(k) \/ CloseReader(k)
             \/ \E s \in ScriptCalls, w \in BOOLEAN : FinishWith(k, s, w)
             \/ \E s \in ScriptCalls : CloseStream(k, s)
      PROVE  idle' \subseteq idle
  BY <1>4 DEF Borrow, GiveUp, OpenStream, CallSelf, FinishCall, CloseReader, FinishWith, CloseStream
<1>5. CASE DisposeDrive
  BY <1>2, <1>5 DEF DisposeDrive
<1> QED
  BY <1>2, <1>3, <1>4, <1>5 DEF ScriptNext
-----------------------------------------------------------------------------
\* Each part of the invariant is kept by every step.
LEMMA ScriptTypeStep == ScriptInv /\ [ScriptNext]_scriptVars => ScriptTypeOK'
PROOF
<1> SUFFICES ASSUME ScriptInv, [ScriptNext]_scriptVars PROVE ScriptTypeOK'
  OBVIOUS
<1> USE ScriptAssumption
<1>a. /\ pc \in [ScriptCalls -> {"new", "wait", "run", "back", "hold", "end"}]
      /\ vmOf \in [ScriptCalls -> VMs \cup {Nobody}] /\ disposed \in BOOLEAN
      /\ \A j, k \in ScriptCalls : vmOf[j] = vmOf[k] /\ vmOf[j] # Nobody => j = k
  BY DEF ScriptInv, ScriptTypeOK
<1>b. /\ stream \in [ScriptCalls -> {"none", "open", "closed"}]
      /\ closer \in [ScriptCalls -> VMs \cup {BaseVM, Nobody}] /\ BaseVM # Nobody
      /\ got \in [ScriptCalls -> ScriptCalls \cup {NoCall}] /\ wrapped \subseteq ScriptCalls
  BY DEF ScriptInv, ScriptTypeOK, BaseVM, Nobody
<1>c. \A k \in ScriptCalls :
        /\ k[2] \in {1, 2} /\ k # NoCall /\ Nested(k) \in ScriptCalls /\ Nested(k)[2] = 2
        /\ k[2] = 2 => Nested(k) = k
        /\ \A j \in ScriptCalls : Nested(j) = Nested(k) /\ j[2] = k[2] => j = k
  BY CallPairs
<1>1. ASSUME NEW k \in ScriptCalls, Borrow(k) PROVE ScriptTypeOK'
  <2>1. Cardinality(idle') <= MaxIdle
    BY <1>1, IdleBounded DEF ScriptNext
  <2>2. PICK v \in VMs \ Out : vmOf' = [vmOf EXCEPT ![k] = v] /\ idle' = idle \ {v}
    BY <1>1 DEF Borrow
  <2>3. vmOf[k] = Nobody
    BY <1>1 DEF ScriptInv, CallsInv, Borrow
  <2>4. \A i, j \in ScriptCalls : vmOf'[i] = vmOf'[j] /\ vmOf'[i] # Nobody => i = j
    BY <1>a, <2>2, <2>3 DEF Out
  <2>5. idle' \subseteq VMs \ Out'
    BY <1>a, <2>2, <2>3 DEF Out, ScriptInv, ScriptTypeOK
  <2> QED
    BY <1>a, <1>b, <1>1, <2>1, <2>2, <2>4, <2>5 DEF ScriptTypeOK, Borrow, PutCall
<1>2. ASSUME NEW k \in ScriptCalls, GiveUp(k) PROVE ScriptTypeOK'
  BY <1>2 DEF ScriptInv, ScriptTypeOK, Out, PutCall, GiveUp
<1>3. ASSUME NEW k \in ScriptCalls, OpenStream(k) PROVE ScriptTypeOK'
  BY <1>3 DEF ScriptInv, ScriptTypeOK, Out, Runs, OpenStream
<1>4. ASSUME NEW k \in ScriptCalls, NEW s \in ScriptCalls, CloseStream(k,s)
     PROVE  ScriptTypeOK'
  BY <1>4 DEF ScriptInv, ScriptTypeOK, Out, Runs, CloseStream
<1>5. ASSUME NEW k \in ScriptCalls, CallSelf(k) PROVE ScriptTypeOK'
  BY <1>5, <1>c DEF ScriptInv, ScriptTypeOK, Out, PutCall, Runs, CallSelf
<1>6. ASSUME NEW k \in ScriptCalls, NEW s \in ScriptCalls, NEW w \in BOOLEAN, FinishWith(k,s,w)
     PROVE  ScriptTypeOK'
  <2>1. CASE w
    BY <1>6, <2>1 DEF ScriptInv, ScriptTypeOK, Out, PutCall, Runs, FinishWith
  <2>2. CASE ~w /\ closer[s] = vmOf[k]
    BY <1>6, <2>2 DEF ScriptInv, ScriptTypeOK, Out, PutCall, Runs, FinishWith
  <2>3. CASE ~w /\ closer[s] # vmOf[k]
    BY <1>6, <2>3 DEF ScriptInv, ScriptTypeOK, Out, PutCall, Runs, FinishWith
  <2> QED
    BY <1>6, <2>1, <2>2, <2>3 DEF FinishWith
<1>7. ASSUME NEW k \in ScriptCalls, FinishCall(k) PROVE ScriptTypeOK'
  BY <1>7 DEF ScriptInv, ScriptTypeOK, Out, PutCall, Runs, FinishCall
<1>8. ASSUME NEW k \in ScriptCalls, ReturnVM(k) PROVE ScriptTypeOK'
  <2>1. Cardinality(idle') <= MaxIdle
    BY <1>8, IdleBounded DEF ScriptNext
  <2>2. /\ vmOf' = [vmOf EXCEPT ![k] = Nobody] /\ vmOf[k] \in VMs
        /\ idle' \subseteq idle \cup {vmOf[k]}
    BY <1>a, <1>8 DEF ReturnVM, GiveBack, ScriptInv, CallsInv
  <2>3. idle' \subseteq VMs \ Out'
    BY <1>a, <2>2 DEF Out, ScriptInv, ScriptTypeOK
  <2>4. closer' \in [ScriptCalls -> VMs \cup {BaseVM, Nobody}]
    BY <1>b, <1>8 DEF ReturnVM, GiveBack
  <2>5. /\ stream' \in [ScriptCalls -> {"none", "open", "closed"}]
        /\ pc' \in [ScriptCalls -> {"new", "wait", "run", "back", "hold", "end"}]
    BY <1>a, <1>b, <1>8 DEF ReturnVM, GiveBack, Closing, PutCall
  <2>6. /\ vmOf' \in [ScriptCalls -> VMs \cup {Nobody}]
        /\ \A i, j \in ScriptCalls : vmOf'[i] = vmOf'[j] /\ vmOf'[i] # Nobody => i = j
    BY <1>a, <2>2
  <2>7. UNCHANGED <<got, wrapped, disposed>>
    BY <1>8 DEF ReturnVM, GiveBack
  <2> QED
    BY <1>a, <1>b, <2>1, <2>3, <2>4, <2>5, <2>6, <2>7 DEF ScriptTypeOK
<1>9. ASSUME NEW k \in ScriptCalls, CloseReader(k) PROVE ScriptTypeOK'
  <2>1. CASE got[k] \in wrapped
    BY <1>9, <2>1 DEF ScriptInv, ScriptTypeOK, Out, PutCall, Closing, CloseReader
  <2>2. CASE got[k] \notin wrapped
    BY <1>9, <2>2 DEF ScriptInv, ScriptTypeOK, Out, PutCall, Closing, CloseReader
  <2> QED
    BY <1>9, <2>1, <2>2 DEF CloseReader
<1>10. CASE DisposeDrive
  <2>1. Cardinality(idle') <= MaxIdle
    BY <1>10, IdleBounded DEF ScriptNext
  <2>2. stream' \in [ScriptCalls -> {"none", "open", "closed"}]
    BY <1>b, <1>10 DEF DisposeDrive, Closing
  <2>3. closer' \in [ScriptCalls -> VMs \cup {BaseVM, Nobody}] /\ idle' = {} /\ disposed' = TRUE
    BY <1>b, <1>10 DEF DisposeDrive
  <2> QED
    BY <1>a, <1>b, <1>10, <2>1, <2>2, <2>3 DEF ScriptTypeOK, DisposeDrive, Out
<1>11. CASE UNCHANGED scriptVars
  BY <1>11 DEF ScriptInv, ScriptTypeOK, Out, scriptVars
<1> QED
  BY <1>1, <1>2, <1>3, <1>4, <1>5, <1>6, <1>7, <1>8, <1>9, <1>10,
     <1>11 DEF ScriptNext

LEMMA CallsStep == ScriptInv /\ [ScriptNext]_scriptVars => CallsInv'
PROOF
<1> SUFFICES ASSUME ScriptInv, [ScriptNext]_scriptVars PROVE CallsInv'
  OBVIOUS
<1> USE ScriptAssumption
<1>a. /\ pc \in [ScriptCalls -> {"new", "wait", "run", "back", "hold", "end"}]
      /\ vmOf \in [ScriptCalls -> VMs \cup {Nobody}] /\ disposed \in BOOLEAN
      /\ \A j, k \in ScriptCalls : vmOf[j] = vmOf[k] /\ vmOf[j] # Nobody => j = k
  BY DEF ScriptInv, ScriptTypeOK
<1>c. \A k \in ScriptCalls :
        /\ k[2] \in {1, 2} /\ k # NoCall /\ Nested(k) \in ScriptCalls /\ Nested(k)[2] = 2
        /\ k[2] = 2 => Nested(k) = k
        /\ \A j \in ScriptCalls : Nested(j) = Nested(k) /\ j[2] = k[2] => j = k
  BY CallPairs
<1>1. ASSUME NEW k \in ScriptCalls, Borrow(k) PROVE CallsInv'
  <2>1. IsFiniteSet(idle')
    BY <1>1, IdleBounded DEF ScriptNext
  <2>2. PICK v \in VMs : vmOf' = [vmOf EXCEPT ![k] = v]
    BY <1>1 DEF Borrow
  <2> QED
    BY <1>a, <1>c, <1>1, <2>1, <2>2 DEF ScriptInv, CallsInv, Borrow, PutCall
<1>2. ASSUME NEW k \in ScriptCalls, GiveUp(k) PROVE CallsInv'
  BY <1>2 DEF ScriptInv, CallsInv, PutCall, GiveUp
<1>3. ASSUME NEW k \in ScriptCalls, OpenStream(k) PROVE CallsInv'
  BY <1>3 DEF ScriptInv, CallsInv, Runs, OpenStream
<1>4. ASSUME NEW k \in ScriptCalls, NEW s \in ScriptCalls, CloseStream(k,s)
     PROVE  CallsInv'
  BY <1>4 DEF ScriptInv, CallsInv, Runs, CloseStream
<1>5. ASSUME NEW k \in ScriptCalls, CallSelf(k) PROVE CallsInv'
  BY <1>5, <1>c DEF ScriptInv, CallsInv, PutCall, Runs, CallSelf
<1>6. ASSUME NEW k \in ScriptCalls, NEW s \in ScriptCalls, NEW w \in BOOLEAN, FinishWith(k,s,w)
     PROVE  CallsInv'
  <2>1. CASE w
    BY <1>6, <2>1 DEF ScriptInv, CallsInv, PutCall, Runs, FinishWith
  <2>2. CASE ~w /\ closer[s] = vmOf[k]
    BY <1>6, <2>2 DEF ScriptInv, CallsInv, PutCall, Runs, FinishWith
  <2>3. CASE ~w /\ closer[s] # vmOf[k]
    BY <1>6, <2>3 DEF ScriptInv, CallsInv, PutCall, Runs, FinishWith
  <2> QED
    BY <1>6, <2>1, <2>2, <2>3 DEF FinishWith
<1>7. ASSUME NEW k \in ScriptCalls, FinishCall(k) PROVE CallsInv'
  BY <1>7 DEF ScriptInv, CallsInv, PutCall, Runs, FinishCall
<1>8. ASSUME NEW k \in ScriptCalls, ReturnVM(k) PROVE CallsInv'
  <2>1. IsFiniteSet(idle')
    BY <1>8, IdleBounded DEF ScriptNext
  <2>2. /\ vmOf' = [vmOf EXCEPT ![k] = Nobody] /\ pc[k] = "back"
        /\ pc' = [pc EXCEPT ![k] = IF k[2] = 1 /\ got[k] # NoCall THEN "hold" ELSE "end"]
    BY <1>8 DEF ReturnVM, GiveBack, PutCall
  <2> QED
    BY <1>a, <1>c, <2>1, <2>2 DEF ScriptInv, CallsInv
<1>9. ASSUME NEW k \in ScriptCalls, CloseReader(k) PROVE CallsInv'
  <2>1. CASE got[k] \in wrapped
    BY <1>9, <2>1 DEF ScriptInv, CallsInv, PutCall, Closing, CloseReader
  <2>2. CASE got[k] \notin wrapped
    BY <1>9, <2>2 DEF ScriptInv, CallsInv, PutCall, Closing, CloseReader
  <2> QED
    BY <1>9, <2>1, <2>2 DEF CloseReader
<1>10. CASE DisposeDrive
  <2>1. IsFiniteSet(idle')
    BY <1>10, IdleBounded DEF ScriptNext
  <2> QED
    BY <1>10, <2>1 DEF ScriptInv, CallsInv, DisposeDrive
<1>11. CASE UNCHANGED scriptVars
  BY <1>11 DEF ScriptInv, CallsInv, scriptVars
<1> QED
  BY <1>1, <1>2, <1>3, <1>4, <1>5, <1>6, <1>7, <1>8, <1>9, <1>10,
     <1>11 DEF ScriptNext

LEMMA AnswersStep == ScriptInv /\ [ScriptNext]_scriptVars => AnswersInv'
PROOF
<1> SUFFICES ASSUME ScriptInv, [ScriptNext]_scriptVars PROVE AnswersInv'
  OBVIOUS
<1> USE ScriptAssumption
<1>a. /\ pc \in [ScriptCalls -> {"new", "wait", "run", "back", "hold", "end"}]
      /\ vmOf \in [ScriptCalls -> VMs \cup {Nobody}] /\ disposed \in BOOLEAN
      /\ \A j, k \in ScriptCalls : vmOf[j] = vmOf[k] /\ vmOf[j] # Nobody => j = k
  BY DEF ScriptInv, ScriptTypeOK
<1>c. \A k \in ScriptCalls :
        /\ k[2] \in {1, 2} /\ k # NoCall /\ Nested(k) \in ScriptCalls /\ Nested(k)[2] = 2
        /\ k[2] = 2 => Nested(k) = k
        /\ \A j \in ScriptCalls : Nested(j) = Nested(k) /\ j[2] = k[2] => j = k
  BY CallPairs
<1>1. ASSUME NEW k \in ScriptCalls, Borrow(k) PROVE AnswersInv'
  BY <1>1 DEF ScriptInv, AnswersInv, Has, PutCall, Borrow
<1>2. ASSUME NEW k \in ScriptCalls, GiveUp(k) PROVE AnswersInv'
  BY <1>2 DEF ScriptInv, AnswersInv, Has, PutCall, GiveUp
<1>3. ASSUME NEW k \in ScriptCalls, OpenStream(k) PROVE AnswersInv'
  BY <1>3 DEF ScriptInv, AnswersInv, Has, Runs, OpenStream
<1>4. ASSUME NEW k \in ScriptCalls, NEW s \in ScriptCalls, CloseStream(k,s)
     PROVE  AnswersInv'
  BY <1>4 DEF ScriptInv, AnswersInv, Has, Runs, CloseStream
<1>5. ASSUME NEW k \in ScriptCalls, CallSelf(k) PROVE AnswersInv'
  BY <1>5 DEF ScriptInv, AnswersInv, Has, PutCall, Runs, CallSelf
<1>6. ASSUME NEW k \in ScriptCalls, NEW s \in ScriptCalls, NEW w \in BOOLEAN, FinishWith(k,s,w)
     PROVE  AnswersInv'
  <2>1. CASE w
    BY <1>6, <2>1, <1>c, <1>a DEF ScriptInv, AnswersInv, Has, PutCall, Runs, FinishWith
  <2>2. CASE ~w /\ closer[s] = vmOf[k]
    BY <1>6, <2>2, <1>c, <1>a DEF ScriptInv, AnswersInv, Has, PutCall, Runs, FinishWith
  <2>3. CASE ~w /\ closer[s] # vmOf[k]
    BY <1>6, <2>3, <1>c, <1>a DEF ScriptInv, AnswersInv, Has, PutCall, Runs, FinishWith
  <2> QED
    BY <1>6, <2>1, <2>2, <2>3 DEF FinishWith
<1>7. ASSUME NEW k \in ScriptCalls, FinishCall(k) PROVE AnswersInv'
  BY <1>7 DEF ScriptInv, AnswersInv, Has, PutCall, Runs, FinishCall
<1>8. ASSUME NEW k \in ScriptCalls, ReturnVM(k) PROVE AnswersInv'
  BY <1>8 DEF ScriptInv, AnswersInv, Has, PutCall, GiveBack, Closing, ClosedBy,
     ReturnVM
<1>9. ASSUME NEW k \in ScriptCalls, CloseReader(k) PROVE AnswersInv'
  <2>1. CASE got[k] \in wrapped
    BY <1>9, <2>1, <1>c, <1>a DEF ScriptInv, AnswersInv, Has, PutCall, Closing, CallsInv, CloseReader
  <2>2. CASE got[k] \notin wrapped
    BY <1>9, <2>2, <1>c, <1>a DEF ScriptInv, AnswersInv, Has, PutCall, Closing, CallsInv, CloseReader
  <2> QED
    BY <1>9, <2>1, <2>2 DEF CloseReader
<1>10. CASE DisposeDrive
  BY <1>10 DEF ScriptInv, AnswersInv, Has, Closing, ClosedBy, DisposeDrive
<1>11. CASE UNCHANGED scriptVars
  BY <1>11 DEF ScriptInv, AnswersInv, Has, scriptVars
<1> QED
  BY <1>1, <1>2, <1>3, <1>4, <1>5, <1>6, <1>7, <1>8, <1>9, <1>10,
     <1>11 DEF ScriptNext

LEMMA ClosersStep == ScriptInv /\ [ScriptNext]_scriptVars => ClosersInv'
PROOF
<1> SUFFICES ASSUME ScriptInv, [ScriptNext]_scriptVars PROVE ClosersInv'
  OBVIOUS
<1> USE ScriptAssumption
<1>a. /\ pc \in [ScriptCalls -> {"new", "wait", "run", "back", "hold", "end"}]
      /\ vmOf \in [ScriptCalls -> VMs \cup {Nobody}] /\ disposed \in BOOLEAN
      /\ \A j, k \in ScriptCalls : vmOf[j] = vmOf[k] /\ vmOf[j] # Nobody => j = k
  BY DEF ScriptInv, ScriptTypeOK
<1>b. /\ stream \in [ScriptCalls -> {"none", "open", "closed"}]
      /\ closer \in [ScriptCalls -> VMs \cup {BaseVM, Nobody}] /\ BaseVM # Nobody
      /\ got \in [ScriptCalls -> ScriptCalls \cup {NoCall}] /\ wrapped \subseteq ScriptCalls
  BY DEF ScriptInv, ScriptTypeOK, BaseVM, Nobody
<1>c. \A k \in ScriptCalls :
        /\ k[2] \in {1, 2} /\ k # NoCall /\ Nested(k) \in ScriptCalls /\ Nested(k)[2] = 2
        /\ k[2] = 2 => Nested(k) = k
        /\ \A j \in ScriptCalls : Nested(j) = Nested(k) /\ j[2] = k[2] => j = k
  BY CallPairs
<1>1. ASSUME NEW k \in ScriptCalls, Borrow(k) PROVE ClosersInv'
  BY <1>1 DEF ScriptInv, ClosersInv, PutCall, CallsInv, Borrow
<1>2. ASSUME NEW k \in ScriptCalls, GiveUp(k) PROVE ClosersInv'
  BY <1>2 DEF ScriptInv, ClosersInv, PutCall, GiveUp
<1>3. ASSUME NEW k \in ScriptCalls, OpenStream(k) PROVE ClosersInv'
  BY <1>3, <1>b, <1>a DEF ScriptInv, ClosersInv, Runs, OpenStream
<1>4. ASSUME NEW k \in ScriptCalls, NEW s \in ScriptCalls, CloseStream(k,s)
     PROVE  ClosersInv'
  BY <1>4, <1>b DEF ScriptInv, ClosersInv, Runs, CloseStream
<1>5. ASSUME NEW k \in ScriptCalls, CallSelf(k) PROVE ClosersInv'
  BY <1>5 DEF ScriptInv, ClosersInv, PutCall, Runs, CallSelf
<1>6. ASSUME NEW k \in ScriptCalls, NEW s \in ScriptCalls, NEW w \in BOOLEAN, FinishWith(k,s,w)
     PROVE  ClosersInv'
  <2>1. CASE w
    BY <1>6, <2>1, <1>b DEF ScriptInv, ClosersInv, PutCall, Runs, FinishWith
  <2>2. CASE ~w /\ closer[s] = vmOf[k]
    BY <1>6, <2>2, <1>b DEF ScriptInv, ClosersInv, PutCall, Runs, FinishWith
  <2>3. CASE ~w /\ closer[s] # vmOf[k]
    BY <1>6, <2>3, <1>b DEF ScriptInv, ClosersInv, PutCall, Runs, FinishWith
  <2> QED
    BY <1>6, <2>1, <2>2, <2>3 DEF FinishWith
<1>7. ASSUME NEW k \in ScriptCalls, FinishCall(k) PROVE ClosersInv'
  BY <1>7 DEF ScriptInv, ClosersInv, PutCall, Runs, FinishCall
<1>8. ASSUME NEW k \in ScriptCalls, ReturnVM(k) PROVE ClosersInv'
  BY <1>8, <1>c, <1>b, <1>a DEF ScriptInv, ClosersInv, PutCall, GiveBack, Closing, ClosedBy,
     AnswersInv, Has, ReturnVM
<1>9. ASSUME NEW k \in ScriptCalls, CloseReader(k) PROVE ClosersInv'
  <2>1. CASE got[k] \in wrapped
    BY <1>9, <2>1 DEF ScriptInv, ClosersInv, PutCall, Closing, CloseReader
  <2>2. CASE got[k] \notin wrapped
    BY <1>9, <2>2 DEF ScriptInv, ClosersInv, PutCall, Closing, CloseReader
  <2> QED
    BY <1>9, <2>1, <2>2 DEF CloseReader
<1>10. CASE DisposeDrive
  BY <1>10 DEF ScriptInv, ClosersInv, Closing, ClosedBy, DisposeDrive
<1>11. CASE UNCHANGED scriptVars
  BY <1>11 DEF ScriptInv, ClosersInv, scriptVars
<1> QED
  BY <1>1, <1>2, <1>3, <1>4, <1>5, <1>6, <1>7, <1>8, <1>9, <1>10,
     <1>11 DEF ScriptNext

LEMMA AnsweredStep == ScriptInv /\ [ScriptNext]_scriptVars => AnsweredInv'
PROOF
<1> SUFFICES ASSUME ScriptInv, [ScriptNext]_scriptVars PROVE AnsweredInv'
  OBVIOUS
<1> USE ScriptAssumption
<1>a. /\ pc \in [ScriptCalls -> {"new", "wait", "run", "back", "hold", "end"}]
      /\ vmOf \in [ScriptCalls -> VMs \cup {Nobody}] /\ disposed \in BOOLEAN
      /\ \A j, k \in ScriptCalls : vmOf[j] = vmOf[k] /\ vmOf[j] # Nobody => j = k
  BY DEF ScriptInv, ScriptTypeOK
<1>b. /\ stream \in [ScriptCalls -> {"none", "open", "closed"}]
      /\ closer \in [ScriptCalls -> VMs \cup {BaseVM, Nobody}] /\ BaseVM # Nobody
      /\ got \in [ScriptCalls -> ScriptCalls \cup {NoCall}] /\ wrapped \subseteq ScriptCalls
  BY DEF ScriptInv, ScriptTypeOK, BaseVM, Nobody
<1>c. \A k \in ScriptCalls :
        /\ k[2] \in {1, 2} /\ k # NoCall /\ Nested(k) \in ScriptCalls /\ Nested(k)[2] = 2
        /\ k[2] = 2 => Nested(k) = k
        /\ \A j \in ScriptCalls : Nested(j) = Nested(k) /\ j[2] = k[2] => j = k
  BY CallPairs
<1>1. ASSUME NEW k \in ScriptCalls, Borrow(k) PROVE AnsweredInv'
  BY <1>1 DEF ScriptInv, AnsweredInv, PutCall, Borrow
<1>2. ASSUME NEW k \in ScriptCalls, GiveUp(k) PROVE AnsweredInv'
  BY <1>2 DEF ScriptInv, AnsweredInv, PutCall, GiveUp
<1>3. ASSUME NEW k \in ScriptCalls, OpenStream(k) PROVE AnsweredInv'
  BY <1>3, <1>c DEF ScriptInv, AnsweredInv, Runs, AnswersInv, Has, OpenStream
<1>4. ASSUME NEW k \in ScriptCalls, NEW s \in ScriptCalls, CloseStream(k,s)
     PROVE  AnsweredInv'
  BY <1>4, <1>c DEF ScriptInv, AnsweredInv, Runs, AnswersInv, Has, CloseStream
<1>5. ASSUME NEW k \in ScriptCalls, CallSelf(k) PROVE AnsweredInv'
  BY <1>5 DEF ScriptInv, AnsweredInv, PutCall, Runs, CallSelf
<1>6. ASSUME NEW k \in ScriptCalls, NEW s \in ScriptCalls, NEW w \in BOOLEAN, FinishWith(k,s,w)
     PROVE  AnsweredInv'
  <2>1. CASE w
    BY <1>6, <2>1, <1>c, <1>b DEF ScriptInv, AnsweredInv, PutCall, Runs, ClosersInv, NothingStaysOpen,
       Out, AnswersInv, Has, CallsInv, FinishWith
  <2>2. CASE ~w /\ closer[s] = vmOf[k]
    BY <1>6, <2>2, <1>c, <1>b DEF ScriptInv, AnsweredInv, PutCall, Runs, ClosersInv, NothingStaysOpen,
       Out, AnswersInv, Has, CallsInv, FinishWith
  <2>3. CASE ~w /\ closer[s] # vmOf[k]
    BY <1>6, <2>3, <1>c, <1>b DEF ScriptInv, AnsweredInv, PutCall, Runs, ClosersInv, NothingStaysOpen,
       Out, AnswersInv, Has, CallsInv, FinishWith
  <2> QED
    BY <1>6, <2>1, <2>2, <2>3 DEF FinishWith
<1>7. ASSUME NEW k \in ScriptCalls, FinishCall(k) PROVE AnsweredInv'
  BY <1>7 DEF ScriptInv, AnsweredInv, PutCall, Runs, AnswersInv, Has, FinishCall
<1>8. ASSUME NEW k \in ScriptCalls, ReturnVM(k) PROVE AnsweredInv'
  BY <1>8, <1>b, <1>a DEF ScriptInv, AnsweredInv, PutCall, GiveBack, Closing, ClosedBy, CallsInv,
     ReturnVM
<1>9. ASSUME NEW k \in ScriptCalls, CloseReader(k) PROVE AnsweredInv'
  <2>1. CASE got[k] \in wrapped
    BY <1>9, <2>1, <1>c, <1>a DEF ScriptInv, AnsweredInv, PutCall, Closing, AnswersInv, Has, CallsInv,
       CloseReader
  <2>2. CASE got[k] \notin wrapped
    BY <1>9, <2>2, <1>c, <1>a DEF ScriptInv, AnsweredInv, PutCall, Closing, AnswersInv, Has, CallsInv,
       CloseReader
  <2> QED
    BY <1>9, <2>1, <2>2 DEF CloseReader
<1>10. CASE DisposeDrive
  BY <1>10, <1>b DEF ScriptInv, AnsweredInv, Closing, ClosedBy, ClosersInv, DisposeDrive
<1>11. CASE UNCHANGED scriptVars
  BY <1>11 DEF ScriptInv, AnsweredInv, scriptVars
<1> QED
  BY <1>1, <1>2, <1>3, <1>4, <1>5, <1>6, <1>7, <1>8, <1>9, <1>10,
     <1>11 DEF ScriptNext

LEMMA OpenStep == ScriptInv /\ [ScriptNext]_scriptVars => NothingStaysOpen'
PROOF
<1> SUFFICES ASSUME ScriptInv, [ScriptNext]_scriptVars PROVE NothingStaysOpen'
  OBVIOUS
<1> USE ScriptAssumption
<1>a. /\ pc \in [ScriptCalls -> {"new", "wait", "run", "back", "hold", "end"}]
      /\ vmOf \in [ScriptCalls -> VMs \cup {Nobody}] /\ disposed \in BOOLEAN
      /\ \A j, k \in ScriptCalls : vmOf[j] = vmOf[k] /\ vmOf[j] # Nobody => j = k
  BY DEF ScriptInv, ScriptTypeOK
<1>b. /\ stream \in [ScriptCalls -> {"none", "open", "closed"}]
      /\ closer \in [ScriptCalls -> VMs \cup {BaseVM, Nobody}] /\ BaseVM # Nobody
      /\ got \in [ScriptCalls -> ScriptCalls \cup {NoCall}] /\ wrapped \subseteq ScriptCalls
  BY DEF ScriptInv, ScriptTypeOK, BaseVM, Nobody
<1>c. \A k \in ScriptCalls :
        /\ k[2] \in {1, 2} /\ k # NoCall /\ Nested(k) \in ScriptCalls /\ Nested(k)[2] = 2
        /\ k[2] = 2 => Nested(k) = k
        /\ \A j \in ScriptCalls : Nested(j) = Nested(k) /\ j[2] = k[2] => j = k
  BY CallPairs
<1>1. ASSUME NEW k \in ScriptCalls, Borrow(k) PROVE NothingStaysOpen'
  BY <1>1 DEF ScriptInv, NothingStaysOpen, Out, PutCall, CallsInv, Borrow
<1>2. ASSUME NEW k \in ScriptCalls, GiveUp(k) PROVE NothingStaysOpen'
  BY <1>2 DEF ScriptInv, NothingStaysOpen, Out, PutCall, GiveUp
<1>3. ASSUME NEW k \in ScriptCalls, OpenStream(k) PROVE NothingStaysOpen'
  BY <1>3, <1>b DEF ScriptInv, NothingStaysOpen, Out, Runs, CallsInv, OpenStream
<1>4. ASSUME NEW k \in ScriptCalls, NEW s \in ScriptCalls, CloseStream(k,s)
     PROVE  NothingStaysOpen'
  BY <1>4, <1>b DEF ScriptInv, NothingStaysOpen, Out, Runs, CloseStream
<1>5. ASSUME NEW k \in ScriptCalls, CallSelf(k) PROVE NothingStaysOpen'
  BY <1>5 DEF ScriptInv, NothingStaysOpen, Out, PutCall, Runs, CallSelf
<1>6. ASSUME NEW k \in ScriptCalls, NEW s \in ScriptCalls, NEW w \in BOOLEAN, FinishWith(k,s,w)
     PROVE  NothingStaysOpen'
  <2>1. CASE w
    BY <1>6, <2>1, <1>b, <1>a DEF ScriptInv, NothingStaysOpen, Out, PutCall, Runs, FinishWith
  <2>2. CASE ~w /\ closer[s] = vmOf[k]
    BY <1>6, <2>2, <1>b, <1>a DEF ScriptInv, NothingStaysOpen, Out, PutCall, Runs, FinishWith
  <2>3. CASE ~w /\ closer[s] # vmOf[k]
    BY <1>6, <2>3, <1>b, <1>a DEF ScriptInv, NothingStaysOpen, Out, PutCall, Runs, FinishWith
  <2> QED
    BY <1>6, <2>1, <2>2, <2>3 DEF FinishWith
<1>7. ASSUME NEW k \in ScriptCalls, FinishCall(k) PROVE NothingStaysOpen'
  BY <1>7 DEF ScriptInv, NothingStaysOpen, Out, PutCall, Runs, FinishCall
<1>8. ASSUME NEW k \in ScriptCalls, ReturnVM(k) PROVE NothingStaysOpen'
  BY <1>8, <1>c DEF ScriptInv, NothingStaysOpen, Out, PutCall, GiveBack, Closing, ClosedBy,
     AnsweredInv, ReturnVM
<1>9. ASSUME NEW k \in ScriptCalls, CloseReader(k) PROVE NothingStaysOpen'
  <2>1. CASE got[k] \in wrapped
    BY <1>9, <2>1 DEF ScriptInv, NothingStaysOpen, Out, PutCall, Closing, AnsweredInv,
       AnswersInv, Has, CloseReader
  <2>2. CASE got[k] \notin wrapped
    BY <1>9, <2>2 DEF ScriptInv, NothingStaysOpen, Out, PutCall, Closing, AnsweredInv,
       AnswersInv, Has, CloseReader
  <2> QED
    BY <1>9, <2>1, <2>2 DEF CloseReader
<1>10. CASE DisposeDrive
  BY <1>10 DEF ScriptInv, NothingStaysOpen, Out, Closing, ClosedBy, DisposeDrive
<1>11. CASE UNCHANGED scriptVars
  BY <1>11 DEF ScriptInv, NothingStaysOpen, Out, scriptVars
<1> QED
  BY <1>1, <1>2, <1>3, <1>4, <1>5, <1>6, <1>7, <1>8, <1>9, <1>10,
     <1>11 DEF ScriptNext
-----------------------------------------------------------------------------
LEMMA ScriptInitially == ScriptInit => ScriptInv
PROOF
<1> SUFFICES ASSUME ScriptInit PROVE ScriptInv
  OBVIOUS
<1>1. IsFiniteSet({}) /\ Cardinality({}) = 0 /\ 0 <= MaxIdle
  BY FS_EmptySet, ScriptAssumption
<1>2. \A k \in ScriptCalls : k # NoCall
  BY CallPairs
<1>3. ScriptTypeOK
  BY <1>1 DEF ScriptInit, ScriptTypeOK, Out
<1>4. CallsInv
  BY <1>1, CallPairs DEF ScriptInit, CallsInv
<1>5. AnswersInv
  BY <1>2, CallPairs DEF ScriptInit, AnswersInv
<1>6. ClosersInv /\ AnsweredInv /\ NothingStaysOpen
  BY ScriptAssumption DEF ScriptInit, ClosersInv, AnsweredInv, NothingStaysOpen, BaseVM, Nobody
<1> QED
  BY <1>3, <1>4, <1>5, <1>6 DEF ScriptInv

\* The invariant of VMs and streams, for any number of requests and VMs.
THEOREM ScriptInvariant == ScriptSpec => []ScriptInv
PROOF
<1>1. ScriptInv /\ [ScriptNext]_scriptVars => ScriptInv'
  BY ScriptTypeStep, CallsStep, AnswersStep, ClosersStep, AnsweredStep, OpenStep DEF ScriptInv
<1> QED
  BY ScriptInitially, <1>1, PTL DEF ScriptSpec

\* However operations of a script drive nest and end, no VM serves two of them, the reader
\* one answers stays open for its caller (Detach), and every other stream is closed with
\* its call or in the hands of somebody who will (pool.go, runtime.go, drive/script).
THEOREM ScriptHoldsCorrect == ScriptSpec => []ScriptHolds
PROOF
<1>1. ScriptInv => ScriptHolds
  BY DEF ScriptInv, AnswersInv, AnsweredInv, ScriptHolds, HeldReadersOpen
<1> QED
  BY <1>1, ScriptInvariant, PTL
-----------------------------------------------------------------------------
(* The configurations of the drives.                                      *)

\* A row, stored or about to be, of a drive whose fields have been typed as T says.
Row(r, T) ==
  /\ r.type \in Types /\ DOMAIN r.fields = FieldsOf(r.type)
  /\ \A f \in FieldsOf(r.type) : r.fields[f] = "" \/ <<f, r.fields[f]>> \in T

StoredInv ==
  /\ DOMAIN configs = Owned /\ DOMAIN typed = Owned
  /\ \A n \in Owned : configs[n] = NoDrive \/ Row(configs[n], typed[n])

\* What a client was shown: of what is secret only whether there is one, if the type was registered.
OfferedInv ==
  /\ DOMAIN offered = Editors
  /\ \A c \in Editors : offered[c] # NoSave =>
       /\ offered[c].name \in Owned /\ offered[c].type \in Types
       /\ \A f \in FieldsOf(offered[c].type) :
            IF Secretive(offered[c].type, f) /\ offered[c].known
            THEN offered[c].fields[f] \in {"", Placeholder(offered[c].type, f)}
            ELSE offered[c].fields[f] = "" \/ <<f, offered[c].fields[f]>> \in typed[offered[c].name]

\* What an update will write: typed once, and where nothing was typed now, what it read.
SavingInv ==
  /\ DOMAIN saving = Editors
  /\ \A c \in Editors : saving[c] # NoSave =>
       /\ saving[c].name \in Owned /\ Row(saving[c], typed[saving[c].name])
       /\ saving[c].type \in registered
       /\ saving[c].known => \A f \in FieldsOf(saving[c].type) \ saving[c].changed :
            Secretive(saving[c].type, f) /\ saving[c].fields[f] # "" =>
              saving[c].fields[f] = SavedValue(saving[c].read, f)

ConfigInv == StoredInv /\ OfferedInv /\ SavingInv
-----------------------------------------------------------------------------
\* What was typed stays typed.
LEMMA RowGrows ==
  ASSUME NEW r, NEW T, NEW U, T \subseteq U, Row(r, T)
  PROVE  Row(r, U)
PROOF
  BY DEF Row

-----------------------------------------------------------------------------
LEMMA ConfigInitially == ConfigInit => ConfigInv
PROOF
  BY DEF ConfigInit, ConfigInv, StoredInv, OfferedInv, SavingInv

LEMMA ShowKeeps ==
  ASSUME ConfigInv, NEW c \in Editors, NEW n \in Owned, ShowDrive(c, n)
  PROVE  ConfigInv'
PROOF
<1> DEFINE t == configs[n].type  known == t \in registered
           e == IF known THEN Escape(t, configs[n].fields) ELSE configs[n].fields
<1>1. /\ offered' = [offered EXCEPT ![c] = [name |-> n, type |-> t, known |-> known, fields |-> e]]
      /\ configs[n] # NoDrive /\ UNCHANGED <<configs, registered, saving, edits, typed>>
  BY DEF ShowDrive
<1>2. Row(configs[n], typed[n])
  BY <1>1 DEF ConfigInv, StoredInv
<1>3. \A f \in FieldsOf(t) :
        e[f] = IF known /\ Secretive(t, f) /\ configs[n].fields[f] # "" THEN Placeholder(t, f)
               ELSE configs[n].fields[f]
  BY DEF Escape
<1> HIDE DEF e, known
<1>4. \A f \in FieldsOf(t) :
        IF Secretive(t, f) /\ known THEN e[f] \in {"", Placeholder(t, f)}
        ELSE e[f] = "" \/ <<f, e[f]>> \in typed[n]
  BY <1>2, <1>3 DEF Row
<1>5. t \in Types
  BY <1>2 DEF Row
<1> HIDE DEF t
<1>6. OfferedInv'
  <2>1. DOMAIN offered' = Editors
    BY <1>1 DEF ConfigInv, OfferedInv
  <2>2. ASSUME NEW d \in Editors, offered'[d] # NoSave
        PROVE  /\ offered'[d].name \in Owned /\ offered'[d].type \in Types
               /\ \A f \in FieldsOf(offered'[d].type) :
                    IF Secretive(offered'[d].type, f) /\ offered'[d].known
                    THEN offered'[d].fields[f] \in {"", Placeholder(offered'[d].type, f)}
                    ELSE offered'[d].fields[f] = "" \/ <<f, offered'[d].fields[f]>> \in typed[offered'[d].name]
    <3>1. CASE d = c
      <4>1. offered'[d] = [name |-> n, type |-> t, known |-> known, fields |-> e]
        BY <1>1, <3>1 DEF ConfigInv, OfferedInv
      <4>2. offered'[d].name = n /\ offered'[d].type = t /\ offered'[d].fields = e /\ offered'[d].known = known
        BY <4>1
      <4> QED
        BY <1>4, <1>5, <4>2
    <3>2. CASE d # c
      <4>1. offered'[d] = offered[d]
        BY <1>1, <3>2 DEF ConfigInv, OfferedInv
      <4> QED
        BY <2>2, <4>1 DEF ConfigInv, OfferedInv
    <3> QED
      BY <3>1, <3>2
  <2> QED
    BY <1>1, <2>1, <2>2 DEF OfferedInv
<1> QED
  BY <1>1, <1>6 DEF ConfigInv, StoredInv, SavingInv

\* Fields that are typed may be stored: what was offered and is saved remains so.
LEMMA TypedGrows ==
  ASSUME ConfigInv, NEW n \in Owned, NEW N, typed' = [typed EXCEPT ![n] = @ \cup N]
  PROVE  /\ DOMAIN typed' = Owned /\ \A m \in Owned : typed[m] \subseteq typed'[m]
         /\ typed'[n] = typed[n] \cup N
         /\ UNCHANGED offered => OfferedInv'
PROOF
<1>1. DOMAIN typed' = Owned /\ typed'[n] = typed[n] \cup N /\ \A m \in Owned : typed[m] \subseteq typed'[m]
  BY DEF ConfigInv, StoredInv
<1>2. ASSUME UNCHANGED offered
      PROVE  OfferedInv'
  BY <1>1, <1>2 DEF ConfigInv, OfferedInv
<1> QED
  BY <1>1, <1>2

LEMMA CreateKeeps ==
  ASSUME ConfigInv, NEW n \in Owned, NEW t \in Types, NEW config, DOMAIN config = FieldsOf(t),
         CreateDrive(n, t, config)
  PROVE  ConfigInv'
PROOF
<1> DEFINE row == [type |-> t, fields |-> config]
<1>1. /\ configs' = [configs EXCEPT ![n] = row]
      /\ typed' = [typed EXCEPT ![n] = @ \cup Pairs(config)] /\ UNCHANGED <<registered, offered, saving>>
  BY DEF CreateDrive, AddDrive
<1>2. /\ DOMAIN typed' = Owned /\ \A m \in Owned : typed[m] \subseteq typed'[m]
      /\ typed'[n] = typed[n] \cup Pairs(config) /\ OfferedInv'
  BY <1>1, TypedGrows
<1>3. row.type = t /\ row.fields = config
  OBVIOUS
<1> HIDE DEF row
<1>4. Row(row, typed'[n])
  BY <1>2, <1>3 DEF Row, Pairs
<1>5. DOMAIN configs' = Owned /\ configs'[n] = row /\ \A m \in Owned \ {n} : configs'[m] = configs[m]
  BY <1>1 DEF ConfigInv, StoredInv
<1>6. StoredInv'
  BY <1>2, <1>4, <1>5, RowGrows DEF ConfigInv, StoredInv
<1>7. SavingInv'
  <2>1. ASSUME NEW d \in Editors, saving[d] # NoSave
        PROVE  saving[d].name \in Owned /\ Row(saving[d], typed'[saving[d].name])
    <3>1. saving[d].name \in Owned /\ Row(saving[d], typed[saving[d].name])
      BY <2>1 DEF ConfigInv, SavingInv
    <3>2. typed[saving[d].name] \subseteq typed'[saving[d].name]
      BY <1>2, <3>1
    <3> QED
      BY <3>1, <3>2, RowGrows
  <2> QED
    BY <1>1, <2>1 DEF ConfigInv, SavingInv
<1> QED
  BY <1>2, <1>6, <1>7 DEF ConfigInv

LEMMA BeginKeeps ==
  ASSUME ConfigInv, NEW c \in Editors, NEW fs, NEW v, BeginUpdate(c, fs, v)
  PROVE  ConfigInv'
PROOF
<1> DEFINE n == offered[c].name
           t == offered[c].type
           sent == [f \in FieldsOf(t) |-> IF f \in fs THEN v ELSE offered[c].fields[f]]
           new == Unescape(t, configs[n], sent)
           row == [name |-> n, type |-> t, fields |-> new, read |-> configs[n], changed |-> fs,
                   known |-> offered[c].known]
<1>1. /\ offered[c] # NoSave /\ configs[n] # NoDrive /\ t \in registered
      /\ saving' = [saving EXCEPT ![c] = row]
      /\ typed' = [typed EXCEPT ![n] = @ \cup {<<f, v>> : f \in fs}]
      /\ UNCHANGED <<configs, registered, offered>>
  BY DEF BeginUpdate
<1>2. n \in Owned /\ t \in Types
      /\ \A f \in FieldsOf(t) :
           IF Secretive(t, f) /\ offered[c].known THEN offered[c].fields[f] \in {"", Placeholder(t, f)}
           ELSE offered[c].fields[f] = "" \/ <<f, offered[c].fields[f]>> \in typed[n]
  BY <1>1 DEF ConfigInv, OfferedInv
<1>3. Row(configs[n], typed[n]) /\ configs[n].type \in Types
  BY <1>1, <1>2 DEF ConfigInv, StoredInv, Row
<1>4. /\ DOMAIN typed' = Owned /\ \A m \in Owned : typed[m] \subseteq typed'[m]
      /\ typed'[n] = typed[n] \cup {<<f, v>> : f \in fs} /\ OfferedInv'
  BY <1>1, <1>2, TypedGrows
<1>5. /\ DOMAIN new = FieldsOf(t)
      /\ \A f \in FieldsOf(t) : new[f] = "" \/ <<f, new[f]>> \in typed[n] \cup {<<g, v>> : g \in fs}
      /\ offered[c].known =>
           \A f \in FieldsOf(t) \ fs : Secretive(t, f) /\ new[f] # "" => new[f] = SavedValue(configs[n], f)
  <2>0. PICK known : known = offered[c].known
    OBVIOUS
  <2>1. PICK old, saved, T, u :
          /\ u \in Types /\ old = offered[c].fields /\ saved = configs[n] /\ T = typed[n] /\ u = t
          /\ \A f \in FieldsOf(u) :
               IF Secretive(u, f) /\ known THEN old[f] \in {"", Placeholder(u, f)} ELSE old[f] = "" \/ <<f, old[f]>> \in T
    BY <1>2, <2>0
  <2>2. Row(saved, T) /\ saved.type \in Types
    BY <1>3, <2>1
  <2> DEFINE post == [f \in FieldsOf(u) |-> IF f \in fs THEN v ELSE old[f]]
             done == Unescape(u, saved, post)
  <2>3. done = new
    BY <2>1
  <2>4. done = [f \in FieldsOf(u) |-> IF Secretive(u, f) /\ post[f] \in {"hidden", Placeholder(u, f)}
                                     THEN SavedValue(saved, f) ELSE post[f]]
    BY DEF Unescape
  <2> HIDE DEF new, done
  <2>5. \A f : SavedValue(saved, f) = "" \/ <<f, SavedValue(saved, f)>> \in T
    BY <2>2 DEF SavedValue, Row
  <2>6. ASSUME NEW f \in FieldsOf(u)
        PROVE  /\ done[f] = "" \/ <<f, done[f]>> \in T \cup {<<g, v>> : g \in fs}
               /\ known /\ f \notin fs /\ Secretive(u, f) /\ done[f] # "" => done[f] = SavedValue(saved, f)
    <3>1. post[f] = IF f \in fs THEN v ELSE old[f]
      OBVIOUS
    <3> HIDE DEF post
    <3>2. done[f] = SavedValue(saved, f) \/ (done[f] = post[f] /\ ~(Secretive(u, f) /\ post[f] = Placeholder(u, f)))
      BY <2>4
    <3>3. CASE done[f] = SavedValue(saved, f)
      BY <2>5, <3>3
    <3>4. CASE f \in fs /\ done[f] = post[f]
      BY <3>1, <3>4
    <3>5. CASE f \notin fs /\ done[f] = post[f] /\ ~(Secretive(u, f) /\ post[f] = Placeholder(u, f))
      BY <2>1, <3>1, <3>5
    <3> QED
      BY <3>2, <3>3, <3>4, <3>5
  <2>7. DOMAIN done = FieldsOf(u)
    BY <2>4
  <2> QED
    BY <2>0, <2>1, <2>3, <2>6, <2>7
<1>6. /\ row.name = n /\ row.type = t /\ row.fields = new /\ row.read = configs[n] /\ row.changed = fs
      /\ row.known = offered[c].known
  OBVIOUS
<1> HIDE DEF row, new, sent
<1>7. /\ Row(row, typed'[n]) /\ row.type \in registered
      /\ row.known => \A f \in FieldsOf(row.type) \ row.changed :
           Secretive(row.type, f) /\ row.fields[f] # "" => row.fields[f] = SavedValue(row.read, f)
  BY <1>1, <1>2, <1>4, <1>5, <1>6 DEF Row
<1>8. StoredInv'
  BY <1>1, <1>4, RowGrows DEF ConfigInv, StoredInv
<1>9. SavingInv'
  <2>1. DOMAIN saving' = Editors /\ saving'[c] = row /\ \A d \in Editors \ {c} : saving'[d] = saving[d]
    BY <1>1 DEF ConfigInv, SavingInv
  <2>2. ASSUME NEW d \in Editors, saving'[d] # NoSave
        PROVE  /\ saving'[d].name \in Owned /\ Row(saving'[d], typed'[saving'[d].name])
               /\ saving'[d].type \in registered
               /\ saving'[d].known => \A f \in FieldsOf(saving'[d].type) \ saving'[d].changed :
                    Secretive(saving'[d].type, f) /\ saving'[d].fields[f] # "" =>
                      saving'[d].fields[f] = SavedValue(saving'[d].read, f)
    <3>1. CASE d = c
      BY <1>2, <1>6, <1>7, <2>1, <3>1
    <3>2. CASE d # c
      <4>1. saving'[d] = saving[d]
        BY <2>1, <3>2
      <4>2. /\ saving[d].name \in Owned /\ Row(saving[d], typed[saving[d].name])
            /\ saving[d].type \in registered
            /\ saving[d].known => \A f \in FieldsOf(saving[d].type) \ saving[d].changed :
                 Secretive(saving[d].type, f) /\ saving[d].fields[f] # "" =>
                   saving[d].fields[f] = SavedValue(saving[d].read, f)
        BY <2>2, <4>1 DEF ConfigInv, SavingInv
      <4>3. Row(saving[d], typed'[saving[d].name])
        BY <1>4, <4>2, RowGrows
      <4> QED
        BY <4>1, <4>2, <4>3
    <3> QED
      BY <3>1, <3>2
  <2> QED
    BY <1>1, <2>1, <2>2 DEF SavingInv
<1> QED
  BY <1>4, <1>8, <1>9 DEF ConfigInv

\* An update that is over writes what was typed once.
LEMMA EndKeeps ==
  ASSUME ConfigInv, NEW c \in Editors, EndUpdate(c) \/ FailUpdate(c)
  PROVE  ConfigInv'
PROOF
<1>1. /\ saving[c] # NoSave /\ saving' = [saving EXCEPT ![c] = NoSave] /\ UNCHANGED <<registered, offered, typed>>
  BY DEF EndUpdate, FailUpdate
<1>2. OfferedInv' /\ SavingInv'
  BY <1>1 DEF ConfigInv, OfferedInv, SavingInv
<1>3. StoredInv'
  <2>1. CASE UNCHANGED configs
    BY <1>1, <2>1 DEF ConfigInv, StoredInv
  <2>2. CASE EndUpdate(c)
    <3> DEFINE n == saving[c].name
               row == [type |-> saving[c].type, fields |-> saving[c].fields]
    <3>1. configs' = [configs EXCEPT ![n] = row]
      BY <2>2 DEF EndUpdate
    <3>2. n \in Owned /\ Row(saving[c], typed[n])
      BY <1>1 DEF ConfigInv, SavingInv
    <3>3. row.type = saving[c].type /\ row.fields = saving[c].fields
      OBVIOUS
    <3> HIDE DEF row
    <3>4. Row(row, typed[n])
      BY <3>2, <3>3 DEF Row
    <3>5. DOMAIN configs' = Owned /\ configs'[n] = row /\ \A m \in Owned \ {n} : configs'[m] = configs[m]
      BY <3>1, <3>2 DEF ConfigInv, StoredInv
    <3> QED
      BY <1>1, <3>4, <3>5 DEF ConfigInv, StoredInv
  <2> QED
    BY <2>1, <2>2 DEF FailUpdate
<1> QED
  BY <1>2, <1>3 DEF ConfigInv

LEMMA ConfigSteps == ConfigInv /\ [ConfigNext]_configVars => ConfigInv'
PROOF
<1> SUFFICES ASSUME ConfigInv, [ConfigNext]_configVars PROVE ConfigInv'
  OBVIOUS
<1>1. ASSUME NEW c \in Editors, EditorStep(c)
      PROVE  ConfigInv'
  BY <1>1, ShowKeeps, BeginKeeps, EndKeeps DEF EditorStep
<1>2. ASSUME NEW n \in Owned, DeleteConfig(n)
      PROVE  ConfigInv'
  <2>1. configs' = [configs EXCEPT ![n] = NoDrive] /\ UNCHANGED <<registered, offered, saving, typed>>
    BY <1>2 DEF DeleteConfig
  <2>2. StoredInv'
    BY <2>1 DEF ConfigInv, StoredInv
  <2> QED
    BY <2>1, <2>2 DEF ConfigInv, OfferedInv, SavingInv
<1>3. ASSUME NEW n \in Owned, NEW t \in Types, NEW config \in [FieldsOf(t) -> Values], CreateDrive(n, t, config)
      PROVE  ConfigInv'
  BY <1>3, CreateKeeps
<1>5. ASSUME NEW types \in SUBSET Types, Restart(types)
      PROVE  ConfigInv'
  <2>1. saving' = [c \in Editors |-> NoSave] /\ UNCHANGED <<configs, offered, typed>>
    BY <1>5 DEF Restart
  <2> QED
    BY <2>1 DEF ConfigInv, StoredInv, OfferedInv, SavingInv
<1>4. CASE UNCHANGED configVars
  BY <1>4 DEF configVars, ConfigInv, StoredInv, OfferedInv, SavingInv
<1> QED
  BY <1>1, <1>2, <1>3, <1>4, <1>5 DEF ConfigNext

\* The invariant of the configurations, for any types of drives, fields and edits.
THEOREM ConfigInvariant == ConfigSpec => []ConfigInv
PROOF
  BY ConfigInitially, ConfigSteps, PTL DEF ConfigSpec

\* The secrets of drives of registered types neither leave the server nor are replaced by what stands for them,
\* however updates, deletions, creations of a drive and restarts with another build are interleaved
\* (escapeDriveConfigSecrets, unescapeDriveConfigSecrets).
THEOREM SecretsHoldCorrect == ConfigSpec => SecretsHold
PROOF
<1> DEFINE kept ==
      \A c \in Editors : EndUpdate(c) /\ saving[c].known /\ configs[saving[c].name] = saving[c].read /\ saving[c].type = saving[c].read.type =>
        \A f \in FieldsOf(saving[c].type) \ saving[c].changed : Secretive(saving[c].type, f) /\ saving[c].fields[f] # "" =>
          configs'[saving[c].name].fields[f] = configs[saving[c].name].fields[f]
<1>1. ConfigInv => ConfigTypeOK /\ SecretsAreHidden /\ StoredWasTyped
  BY DEF ConfigInv, StoredInv, OfferedInv, SavingInv, Row, ConfigTypeOK, SecretsAreHidden, StoredWasTyped
<1>2. ConfigInv /\ [ConfigNext]_configVars => [kept]_configVars
  <2> SUFFICES ASSUME ConfigInv, NEW c \in Editors, EndUpdate(c), saving[c].known, configs[saving[c].name] = saving[c].read,
                      saving[c].type = saving[c].read.type, NEW f \in FieldsOf(saving[c].type) \ saving[c].changed,
                      Secretive(saving[c].type, f), saving[c].fields[f] # ""
               PROVE  configs'[saving[c].name].fields[f] = configs[saving[c].name].fields[f]
    OBVIOUS
  <2>1. /\ saving[c] # NoSave
        /\ configs' = [configs EXCEPT ![saving[c].name] = [type |-> saving[c].type, fields |-> saving[c].fields]]
    BY DEF EndUpdate
  <2>2. saving[c].name \in Owned /\ saving[c].fields[f] = SavedValue(saving[c].read, f)
    BY <2>1 DEF ConfigInv, SavingInv
  <2>3. configs'[saving[c].name].fields = saving[c].fields
    BY <2>1, <2>2 DEF ConfigInv, StoredInv
  <2> QED
    BY <2>2, <2>3 DEF SavedValue
<1> QED
  BY <1>1, <1>2, ConfigInvariant, PTL DEF ConfigSpec, SecretsHold, UntouchedIsKept
-----------------------------------------------------------------------------
(* An open file of a drive.                                               *)

Byte == 0 .. 255

\* The parts of an open file that go together.
OpenInv ==
  /\ handle \in {"file", "directory", "created"}
  /\ openFlag \in {"read", "edit", "create", "closed"} /\ backing \in {"none", "reader", "file"}
  /\ at \in Nat /\ ideal = [data |-> ideal.data, at |-> ideal.at] /\ ideal.at \in Nat
  /\ backing = "reader" => openFlag \in {"read", "closed"}
  /\ openFlag = "read" => backing # "file"
  /\ modified => backing = "file"
  /\ temps = IF openFlag # "closed" /\ backing = "file" THEN 1 ELSE 0

\* What is read and written is a file's bytes.
BytesInv == IsFile => content \in Seq(Byte) /\ buffer \in Seq(Byte) /\ ideal.data \in Seq(Byte)

\* An open file holds what its ideal holds, and stands where that stands unless it was misled.
IdealInv ==
  IsFile /\ openFlag # "closed" =>
    /\ stored = content
    /\ ~misled => at = ideal.at /\ ideal.data = IF backing = "none" THEN Base(openFlag) ELSE buffer

\* What was given of a directory is the beginning of what was listed.
PagesInv ==
  /\ IsFile => paged = <<>>
  /\ ~IsFile => content \in Seq(STRING) \ {Unlisted}
  /\ IF children = Unlisted THEN paged = <<>>
     ELSE children \in Seq(STRING) /\ Len(paged) \in 0 .. Len(children) /\ paged = SubSeq(children, 1, Len(paged))

FileInv == OpenInv /\ BytesInv /\ IdealInv /\ PagesInv /\ ReadAsIdeal /\ SavedAsIdeal
-----------------------------------------------------------------------------
\* A part of a sequence.
LEMMA UptoIsSeq ==
  ASSUME NEW S, NEW s \in Seq(S), NEW from \in Nat, NEW n \in Nat
  PROVE  Upto(s, from, n) \in Seq(S) /\ Len(Upto(s, from, n)) \in Nat
PROOF
<1> DEFINE m == IF from + n < Len(s) THEN from + n ELSE Len(s)
<1>1. Upto(s, from, n) = SubSeq(s, from + 1, m)
  BY DEF Upto
<1>2. m \in Nat /\ m <= Len(s) /\ from + 1 \in Nat
  OBVIOUS
<1> HIDE DEF m
<1>3. \A i \in from + 1 .. m : s[i] \in S
  BY <1>2
<1>4. SubSeq(s, from + 1, m) \in Seq(S)
  BY <1>2, <1>3
<1> QED
  BY <1>1, <1>4

\* A byte is put into a sequence, or after its end.
LEMMA PutByteIsSeq ==
  ASSUME NEW s \in Seq(Byte), NEW i \in Nat, NEW b \in Byte
  PROVE  PutByte(s, i, b) \in Seq(Byte)
PROOF
<1> DEFINE n == IF i >= Len(s) THEN i + 1 ELSE Len(s)
<1>1. n \in Nat
  OBVIOUS
<1>2. PutByte(s, i, b) = [k \in 1 .. n |-> IF k = i + 1 THEN b ELSE IF k <= Len(s) THEN s[k] ELSE 0]
  BY DEF PutByte
<1>3. 0 \in Byte
  BY DEF Byte
<1> HIDE DEF n
<1>4. \A k \in 1 .. n : k <= Len(s) => s[k] \in Byte
  BY <1>1
<1>5. \A k \in 1 .. n : (IF k = i + 1 THEN b ELSE IF k <= Len(s) THEN s[k] ELSE 0) \in Byte
  BY <1>3, <1>4
<1> QED
  BY <1>1, <1>2, <1>5, SeqDef

\* What getFile makes is what the ideal file holds.
LEMMA GetFileIsIdeal ==
  ASSUME FileInv, IsFile, openFlag # "closed"
  PROVE  /\ GetFile.source = IF backing # "none" THEN backing ELSE IF openFlag = "read" THEN "reader" ELSE "file"
         /\ GetFile.at = at /\ GetFile.data \in Seq(Byte) /\ (~misled => GetFile.data = ideal.data)
         /\ GetFile.temps = IF GetFile.source = "file" THEN 1 ELSE 0
PROOF
<1>1. <<>> \in Seq(Byte)
  OBVIOUS
<1> QED
  BY <1>1 DEF FileInv, OpenInv, BytesInv, IdealInv, GetFile, Base, PlaceOfFile

LEMMA FileInitially == FileInit => FileInv
PROOF
<1> SUFFICES ASSUME FileInit PROVE FileInv
  OBVIOUS
<1>1. <<>> \in Seq(Byte)
  OBVIOUS
<1>2. IsFile => content \in Seq(Byte)
  BY <1>1, FileAssumption DEF FileInit, IsFile, Byte
<1>3. ~IsFile => content \in Seq(STRING) \ {Unlisted}
  BY FileAssumption DEF FileInit, IsFile, Unlisted
<1>4. OpenInv
  BY FileAssumption DEF FileInit, OpenInv
<1>5. BytesInv
  BY <1>1, <1>2 DEF FileInit, BytesInv
<1>6. IdealInv
  BY DEF FileInit, IdealInv, Base
<1> QED
  BY <1>3, <1>4, <1>5, <1>6, FileAssumption DEF FileInit, FileInv, PagesInv, ReadAsIdeal, SavedAsIdeal, NoAnswer
-----------------------------------------------------------------------------
LEMMA ReadKeeps ==
  ASSUME FileInv, NEW n \in {1, 2}, ReadBytes(n)
  PROVE  FileInv'
PROOF
<1> DEFINE taken == Upto(GetFile.data, GetFile.at, n)
           due == Upto(ideal.data, ideal.at, n)
<1>1. /\ IsFile /\ openFlag # "closed"
      /\ backing' = GetFile.source /\ buffer' = GetFile.data /\ temps' = GetFile.temps
      /\ answer' = [got |-> taken, due |-> due]
      /\ at' = GetFile.at + Len(answer'.got) /\ ideal' = [ideal EXCEPT !.at = @ + Len(answer'.due)]
      /\ UNCHANGED <<handle, content, openFlag, modified, stored, children, paged, misled>>
  BY DEF ReadBytes, Called
<1>2. /\ backing' = IF backing # "none" THEN backing ELSE IF openFlag = "read" THEN "reader" ELSE "file"
      /\ GetFile.at = at /\ GetFile.data \in Seq(Byte) /\ (~misled => GetFile.data = ideal.data)
      /\ temps' = IF backing' = "file" THEN 1 ELSE 0
  BY <1>1, GetFileIsIdeal
<1>4. ideal.data \in Seq(Byte) /\ at \in Nat /\ ideal.at \in Nat
  BY <1>1 DEF FileInv, OpenInv, BytesInv
<1>5. Len(taken) \in Nat /\ Len(due) \in Nat
  BY <1>2, <1>4, UptoIsSeq
<1>6. ~misled => taken = due
  BY <1>1, <1>2 DEF FileInv, IdealInv
<1> HIDE DEF taken, due
<1>7. answer'.got = taken /\ answer'.due = due
  BY <1>1
<1>8. at' = at + Len(taken)
  BY <1>1, <1>2, <1>7
<1>9. ideal' = [data |-> ideal.data, at |-> ideal.at + Len(due)]
  BY <1>1, <1>7 DEF FileInv, OpenInv
<1>10. ideal'.data = ideal.data /\ ideal'.at = ideal.at + Len(due)
  BY <1>9
<1>11. OpenInv'
  BY <1>1, <1>2, <1>4, <1>5, <1>8, <1>9, <1>10 DEF FileInv, OpenInv
<1>12. BytesInv'
  BY <1>1, <1>2, <1>4, <1>10 DEF FileInv, BytesInv, IsFile
<1>13. IdealInv'
  BY <1>1, <1>2, <1>6, <1>8, <1>10 DEF FileInv, OpenInv, IdealInv, IsFile
<1>14. ReadAsIdeal'
  BY <1>1, <1>6, <1>7 DEF ReadAsIdeal
<1> QED
  BY <1>1, <1>11, <1>12, <1>13, <1>14 DEF FileInv, PagesInv, SavedAsIdeal, IsFile

LEMMA WriteKeeps ==
  ASSUME FileInv, NEW b \in Byte, WriteFile(b)
  PROVE  FileInv'
PROOF
<1> DEFINE put == PutByte(ideal.data, ideal.at, b)
           taken == PutByte(GetFile.data, at, b)
<1>1. /\ IsFile /\ openFlag # "closed" /\ openFlag # "read" /\ modified' = TRUE
      /\ backing' = GetFile.source /\ temps' = GetFile.temps
      /\ buffer' = PutByte(GetFile.data, GetFile.at, b) /\ at' = GetFile.at + 1
      /\ ideal' = [data |-> put, at |-> ideal.at + 1] /\ answer' = NoAnswer
      /\ UNCHANGED <<handle, content, openFlag, stored, children, paged, misled>>
  BY DEF WriteFile, Called
<1>2. backing' = "file" /\ temps' = 1 /\ at' = at + 1 /\ buffer' = taken
  BY <1>1, GetFileIsIdeal DEF FileInv, OpenInv
<1>3. put \in Seq(Byte) /\ taken \in Seq(Byte) /\ at \in Nat /\ ideal.at \in Nat
  BY <1>1, PutByteIsSeq, GetFileIsIdeal DEF FileInv, OpenInv, BytesInv
<1>4. ~misled => taken = put /\ at = ideal.at
  BY <1>1, GetFileIsIdeal DEF FileInv, IdealInv
<1> HIDE DEF put, taken
<1>5. ideal'.data = put /\ ideal'.at = ideal.at + 1
  BY <1>1
<1>6. OpenInv'
  BY <1>1, <1>2, <1>3, <1>5 DEF FileInv, OpenInv
<1>7. BytesInv'
  BY <1>1, <1>2, <1>3, <1>5 DEF FileInv, BytesInv, IsFile
<1>8. IdealInv'
  BY <1>1, <1>2, <1>3, <1>4, <1>5 DEF FileInv, IdealInv, IsFile
<1> QED
  BY <1>1, <1>6, <1>7, <1>8 DEF FileInv, PagesInv, SavedAsIdeal, ReadAsIdeal, NoAnswer, IsFile

LEMMA SeekKeeps ==
  ASSUME FileInv, NEW offset \in Offsets, NEW whence \in {"start", "current", "end"},
         SeekFile(offset, whence) \/ SeekBefore(offset, whence)
  PROVE  FileInv'
PROOF
<1>1. /\ IsFile /\ openFlag # "closed"
      /\ UNCHANGED <<handle, content, openFlag, backing, buffer, modified, temps, stored, children, paged>>
  BY DEF SeekFile, SeekBefore, Called
<1>2. at \in Nat /\ ideal.at \in Nat /\ offset \in Int
  BY FileAssumption DEF FileInv, OpenInv
<1>3. content \in Seq(Byte) /\ buffer \in Seq(Byte) /\ ideal.data \in Seq(Byte)
  BY <1>1 DEF FileInv, BytesInv
<1>4. SeekFrom(offset, whence) \in Int /\ SeekIdeal(offset, whence) \in Int
  BY <1>2, <1>3 DEF SeekFrom, SeekIdeal
<1>5. CASE SeekFile(offset, whence)
  <2>1. /\ SeekFrom(offset, whence) >= 0 /\ SeekIdeal(offset, whence) >= 0
        /\ at' = SeekFrom(offset, whence) /\ ideal' = [ideal EXCEPT !.at = SeekIdeal(offset, whence)]
        /\ misled' = (misled \/ (whence = "end" /\ backing = "none" /\ (at # 0 \/ (openFlag = "create" /\ content # <<>>))))
        /\ answer' = NoAnswer
    BY <1>5 DEF SeekFile
  <2>2. ideal' = [data |-> ideal.data, at |-> SeekIdeal(offset, whence)]
    BY <2>1 DEF FileInv, OpenInv
  <2>3. ideal'.data = ideal.data /\ ideal'.at = SeekIdeal(offset, whence)
    BY <2>2
  <2>4. ASSUME ~misled'
        PROVE  SeekFrom(offset, whence) = SeekIdeal(offset, whence)
    <3>1. ~misled /\ at = ideal.at /\ ideal.data = IF backing = "none" THEN Base(openFlag) ELSE buffer
      BY <1>1, <2>1, <2>4 DEF FileInv, IdealInv
    <3>2. CASE whence # "end"
      BY <3>1, <3>2 DEF SeekFrom, SeekIdeal
    <3>3. CASE whence = "end" /\ backing # "none"
      BY <3>1, <3>3 DEF SeekFrom, SeekIdeal
    <3>4. CASE whence = "end" /\ backing = "none"
      <4>1. at = 0 /\ (openFlag = "create" => content = <<>>)
        BY <2>1, <2>4, <3>4
      <4>2. ideal.data = content
        BY <3>1, <3>4, <4>1 DEF Base
      <4>3. SeekFrom(offset, whence) = Len(content) + offset
        BY <1>2, <1>3, <3>4, <4>1 DEF SeekFrom
      <4> QED
        BY <3>4, <4>2, <4>3 DEF SeekIdeal
    <3> QED
      BY <3>2, <3>3, <3>4
  <2>5. OpenInv'
    BY <1>1, <1>4, <2>1, <2>2, <2>3 DEF FileInv, OpenInv
  <2>6. IdealInv'
    BY <1>1, <2>1, <2>3, <2>4 DEF FileInv, IdealInv, IsFile, Base
  <2> QED
    BY <1>1, <2>1, <2>3, <2>5, <2>6 DEF FileInv, BytesInv, PagesInv, SavedAsIdeal, ReadAsIdeal, NoAnswer, IsFile
<1>6. CASE SeekBefore(offset, whence)
  <2>1. (misled => misled') /\ UNCHANGED <<at, ideal, answer>>
    BY <1>6 DEF SeekBefore
  <2> QED
    BY <1>1, <2>1 DEF FileInv, OpenInv, IdealInv, BytesInv, PagesInv, SavedAsIdeal, ReadAsIdeal, IsFile, Base
<1> QED
  BY <1>5, <1>6

LEMMA PagesKeep ==
  ASSUME FileInv, NEW count \in {1, 2}, Readdir(count)
  PROVE  FileInv'
PROOF
<1> DEFINE C == Children
           k == Len(paged)
           m == IF k + count < Len(C) THEN k + count ELSE Len(C)
<1>1. /\ ~IsFile /\ openFlag # "closed" /\ children' = C /\ paged' = paged \o Upto(C, k, count)
      /\ UNCHANGED <<handle, content, openFlag, backing, at, buffer, modified, temps, stored, ideal, answer, misled>>
  BY DEF Readdir, Called, IsFile
<1>2. C \in Seq(STRING) /\ k \in 0 .. Len(C) /\ paged = SubSeq(C, 1, k) /\ C # Unlisted
  <2>1. CASE children = Unlisted
    <3>1. C = content /\ paged = <<>> /\ C \in Seq(STRING) /\ C # Unlisted
      BY <1>1, <2>1 DEF FileInv, PagesInv, Children
    <3> HIDE DEF C
    <3>2. k = 0
      BY <3>1
    <3>3. SubSeq(C, 1, 0) = <<>>
      BY <3>1
    <3> QED
      BY <3>1, <3>2, <3>3
  <2>2. CASE children # Unlisted
    BY <1>1, <2>2 DEF FileInv, PagesInv, Children
  <2> QED
    BY <2>1, <2>2
<1>3. Upto(C, k, count) = SubSeq(C, k + 1, m)
  BY DEF Upto
<1> HIDE DEF C, k
<1>4. m \in k .. Len(C) /\ k \in Nat /\ Len(C) \in Nat
  BY <1>2
<1> HIDE DEF m
<1>5. paged' = SubSeq(C, 1, m)
  <2>1. SubSeq(C, 1, k) \o SubSeq(C, k + 1, m) = SubSeq(C, 1, m)
    BY <1>2, <1>4, ConcatAdjacentSubSeq
  <2> QED
    BY <1>1, <1>2, <1>3, <2>1
<1>6. Len(paged') = m
  BY <1>2, <1>4, <1>5
<1>7. PagesInv'
  BY <1>1, <1>2, <1>4, <1>5, <1>6 DEF FileInv, PagesInv, IsFile
<1> QED
  BY <1>1, <1>7 DEF FileInv, OpenInv, BytesInv, IdealInv, SavedAsIdeal, ReadAsIdeal, IsFile

LEMMA CloseKeeps ==
  ASSUME FileInv, Close
  PROVE  FileInv'
PROOF
<1>1. /\ openFlag # "closed" /\ openFlag' = "closed"
      /\ stored' \in (IF modified THEN {buffer, stored} ELSE {stored})
      /\ temps' = TempsLeft
      /\ UNCHANGED <<handle, content, backing, at, buffer, modified, children, paged, ideal, answer, misled>>
  BY DEF Close
<1>2. OpenInv'
  BY <1>1 DEF FileInv, OpenInv, TempsLeft
<1>3. SavedAsIdeal'
  BY <1>1 DEF FileInv, OpenInv, IdealInv, SavedAsIdeal, IsFile
<1> QED
  BY <1>1, <1>2, <1>3 DEF FileInv, BytesInv, IdealInv, PagesInv, ReadAsIdeal, IsFile

LEMMA FileSteps == FileInv /\ [FileNext]_fileVars => FileInv'
PROOF
<1> SUFFICES ASSUME FileInv, [FileNext]_fileVars PROVE FileInv'
  OBVIOUS
<1>1. CASE FailFile
  BY <1>1 DEF FailFile, FileInv, OpenInv, BytesInv, IdealInv, PagesInv, ReadAsIdeal, SavedAsIdeal, IsFile, NoAnswer, Base, Called
<1>2. CASE ChangeDir
  <2>1. PICK l \in Listings : content' = l /\ stored' = l
    BY <1>2 DEF ChangeDir
  <2>2. l \in Seq(STRING) \ {Unlisted}
    BY FileAssumption DEF Unlisted
  <2>3. ~IsFile /\ UNCHANGED <<handle, openFlag, backing, at, buffer, modified, temps, children, paged, ideal, answer, misled>>
    BY <1>2 DEF ChangeDir, IsFile
  <2> QED
    BY <2>1, <2>2, <2>3 DEF FileInv, OpenInv, BytesInv, IdealInv, PagesInv, ReadAsIdeal, SavedAsIdeal, IsFile
<1>3. CASE Close
  BY <1>3, CloseKeeps
<1>4. ASSUME NEW n \in {1, 2}, ReadBytes(n) \/ Readdir(n)
      PROVE  FileInv'
  BY <1>4, ReadKeeps, PagesKeep
<1>5. CASE WriteFile(9)
  BY <1>5, WriteKeeps DEF Byte
<1>6. ASSUME NEW offset \in Offsets, NEW whence \in {"start", "current", "end"},
             SeekFile(offset, whence) \/ SeekBefore(offset, whence)
      PROVE  FileInv'
  BY <1>6, SeekKeeps
<1>7. CASE UNCHANGED fileVars
  BY <1>7 DEF fileVars, FileInv, OpenInv, BytesInv, IdealInv, PagesInv, ReadAsIdeal, SavedAsIdeal, IsFile, Base
<1> QED
  BY <1>1, <1>2, <1>3, <1>4, <1>5, <1>6, <1>7 DEF FileNext

\* The invariant of an open file or directory, for any contents, listings and calls.
THEOREM FileInvariant == FileSpec => []FileInv
PROOF
  BY FileInitially, FileSteps, PTL DEF FileSpec

\* An open file is like one of a file system, for any contents and calls, and a
\* directory is given as it was listed (common/drive_util/fs.go).
THEOREM FileHoldsCorrect == FileSpec => []FileHolds
PROOF
<1>1. FileInv => FileTypeOK /\ TempsAreRemoved
  BY DEF FileInv, OpenInv, FileTypeOK, TempsAreRemoved
<1>2. FileInv => PagesOfOneListing
  <2> SUFFICES ASSUME FileInv, children # Unlisted PROVE IsPrefix(paged, children)
    BY DEF FileInv, PagesInv, PagesOfOneListing
  <2>1. children \in Seq(STRING) /\ Len(paged) \in 0 .. Len(children) /\ paged = SubSeq(children, 1, Len(paged))
    BY DEF FileInv, PagesInv
  <2>2. paged \in Seq(STRING)
    BY <2>1, SubSeqProperties
  <2>3. SubSeq(paged, 1, Len(paged)) = paged
    BY <2>2, SubSeqFull
  <2> QED
    BY <2>1, <2>3 DEF IsPrefix
<1>3. FileInv => FileHolds
  BY <1>1, <1>2 DEF FileInv, FileHolds
<1> QED
  BY <1>3, FileInvariant, PTL
-----------------------------------------------------------------------------
(* Copies of a directory.                                                 *)

\* The paths of a drive: the source and its files, what copies of it are called, and their files.
Tops == {"t"} \X Nat
SourceFiles == {From[1]} \X (CopyFiles \X {0})
Places == [1 .. 1 -> Tops]
Copies == Tops \X (CopyFiles \X Nat)
EntryData == {"dir", "old", "new", "other", "part"}
Stages1 == {"idle", "done", "failed", "name", "fast", "walk", "look", "mkdir", "next", "rename", "read", "save"}
AtFiles == {"rename", "read", "save"}
Walked == {"look", "mkdir", "next"} \cup AtFiles

TreeInv ==
  /\ IsFiniteSet(DOMAIN trees) /\ trees \in [DOMAIN trees -> EntryData]
  /\ DOMAIN trees \subseteq {From} \cup SourceFiles \cup Places \cup Copies

CopierTypes ==
  /\ copying \in [Copiers -> Stages1] /\ over \in [Copiers -> BOOLEAN] /\ place \in [Copiers -> Places]
  /\ todos \in [Copiers -> Seq({From} \cup SourceFiles)] /\ fresh \in [Copiers -> BOOLEAN]
  /\ target \in [Copiers -> Places \cup Copies] /\ held \in [Copiers -> EntryData \cup {"none"}]
  /\ replaced \subseteq Copiers /\ erred \subseteq Copiers

\* Where a request is, and what it has.
Staged(c) ==
  /\ copying[c] \in {"name", "fast", "walk"} => todos[c] = <<From>>
  /\ copying[c] \in Walked => todos[c] \in Seq(SourceFiles)
  /\ copying[c] \in AtFiles =>
       /\ todos[c] # <<>> /\ target[c] \in Copies
       /\ target[c][2][1] = Head(todos[c])[2][1]
  /\ copying[c] = "save" => held[c] \in EntryData

\* A copy has the file p of the source.
HasCopy(p) == \E q \in DOMAIN trees : q \in Copies /\ q[2][1] = p[2][1] /\ trees[q] = trees[p]

\* What nothing else disturbs.
Right(c) ==
  /\ copying[c] = "fast" /\ ~over[c] => ~Exists1(place[c])
  /\ copying[c] \in {"read", "save"} /\ ~over[c] => ~Exists1(target[c])
  /\ copying[c] = "save" => Exists1(Head(todos[c])) /\ held[c] = trees[Head(todos[c])]
  /\ copying[c] \in Walked => \A p \in DOMAIN trees : p \in SourceFiles => p \in Range(todos[c]) \/ HasCopy(p)
  /\ copying[c] = "mkdir" => ~Exists1(To)
  /\ copying[c] = "done" => \A p \in DOMAIN trees : p \in SourceFiles => HasCopy(p)
  /\ copying[c] \in {"next"} \cup AtFiles => Exists1(To)
  /\ copying[c] = "failed" => c \in erred \/ Mismatched \/ place[c] # To

\* Nobody else copies or has been answered.
Alone == \A c, d \in Copiers : c = d \/ copying[c] = "idle" \/ copying[d] = "idle"

CopyInv ==
  /\ TreeInv /\ CopierTypes /\ \A c \in Copiers : Staged(c)
  /\ crossing \/ (Alone /\ replaced = {} /\ \A c \in Copiers : Right(c))

LEMMA PathParts ==
  /\ From = << <<"s", 0>> >> /\ From[1] = <<"s", 0>> /\ Len(From) = 1
  /\ To \in Places /\ To = << <<"t", 0>> >>
  /\ \A p \in SourceFiles : p[1] = From[1] /\ p[2] \in CopyFiles \X {0} /\ p = <<p[1], p[2]>> /\ Len(p) = 2
  /\ \A p \in Copies : p[1] \in Tops /\ p[2] \in CopyFiles \X Nat /\ p = <<p[1], p[2]>> /\ Len(p) = 2
  /\ \A p \in Places : p[1] \in Tops /\ p = <<p[1]>> /\ Len(p) = 1
  /\ \A t \in Tops : t # From[1]
PROOF
<1>1. From = << <<"s", 0>> >> /\ From[1] = <<"s", 0>> /\ Len(From) = 1
  BY DEF From
<1>2. To \in Places /\ To = << <<"t", 0>> >>
  BY DEF To, Places, Tops
<1>3. ASSUME NEW p \in SourceFiles
      PROVE  p[1] = From[1] /\ p[2] \in CopyFiles \X {0} /\ p = <<p[1], p[2]>> /\ Len(p) = 2
  <2>1. PICK x \in CopyFiles \X {0} : p = <<From[1], x>>
    BY DEF SourceFiles
  <2> QED
    BY <2>1
<1>4. ASSUME NEW p \in Copies
      PROVE  p[1] \in Tops /\ p[2] \in CopyFiles \X Nat /\ p = <<p[1], p[2]>> /\ Len(p) = 2
  <2>1. PICK t \in Tops, x \in CopyFiles \X Nat : p = <<t, x>>
    BY DEF Copies
  <2> QED
    BY <2>1
<1>5. ASSUME NEW p \in Places
      PROVE  p[1] \in Tops /\ p = <<p[1]>> /\ Len(p) = 1
  BY DEF Places
<1>6. \A t \in Tops : t # From[1]
  BY DEF Tops, From
<1> QED
  BY <1>1, <1>2, <1>3, <1>4, <1>5, <1>6

LEMMA KindsOfPaths ==
  /\ \A p \in SourceFiles : p \notin Copies \cup Places \cup {From}
  /\ \A p \in Copies : p \notin Places \cup {From}
  /\ From \notin Places
  /\ \A p, q \in SourceFiles : p[2][1] = q[2][1] => p = q
PROOF
<1>1. \A p \in SourceFiles : p \notin Copies \cup Places \cup {From}
  BY PathParts
<1>2. \A p \in Copies : p \notin Places \cup {From}
  BY PathParts
<1>3. From \notin Places
  BY PathParts
<1>4. ASSUME NEW p \in SourceFiles, NEW q \in SourceFiles, p[2][1] = q[2][1]
      PROVE  p = q
  <2>1. /\ p[1] = From[1] /\ p[2] \in CopyFiles \X {0} /\ p = <<p[1], p[2]>>
        /\ q[1] = From[1] /\ q[2] \in CopyFiles \X {0} /\ q = <<q[1], q[2]>>
    BY PathParts
  <2>2. p[2] = q[2]
    BY <1>4, <2>1
  <2> QED
    BY <2>1, <2>2
<1> QED
  BY <1>1, <1>2, <1>3, <1>4

LEMMA AppendLast ==
  ASSUME NEW S, NEW s \in Seq(S), NEW y \in S
  PROVE  Append(s, y)[Len(s) + 1] = y /\ \A i \in 1 .. Len(s) : Append(s, y)[i] = s[i]
PROOF
<1>1. Append(s, y)[Len(s) + 1] = y
  BY SMT
<1>2. \A i \in 1 .. Len(s) : Append(s, y)[i] = s[i]
  BY SMT
<1> QED
  BY <1>1, <1>2, Zenon

LEMMA AppendToOne ==
  ASSUME NEW S, NEW s \in Seq(S), NEW y \in S, Len(s) = 1
  PROVE  /\ Append(s, y) \in Seq(S) /\ Len(Append(s, y)) = 2
         /\ Append(s, y)[1] = s[1] /\ Append(s, y)[2] = y
PROOF
<1>1. Append(s, y) \in Seq(S) /\ Len(Append(s, y)) = Len(s) + 1
  BY AppendProperties
<1>2. Append(s, y)[Len(s) + 1] = y
  BY AppendLast
<1>3. \A i \in 1 .. Len(s) : Append(s, y)[i] = s[i]
  BY AppendLast
<1> DEFINE a == Append(s, y)
<1>4. a \in Seq(S) /\ Len(a) = Len(s) + 1 /\ a[Len(s) + 1] = y /\ \A i \in 1 .. Len(s) : a[i] = s[i]
  BY <1>1, <1>2, <1>3
<1> HIDE DEF a
<1>5. a \in Seq(S) /\ Len(a) = 2 /\ a[1] = s[1] /\ a[2] = y
  BY <1>4
<1> QED
  BY <1>5 DEF a

\* Sequences of one and two.
LEMMA ShortSeqs ==
  ASSUME NEW x, NEW y
  PROVE  /\ SubSeq(<<x>>, 1, 1) = <<x>> /\ SubSeq(<<x, y>>, 1, 1) = <<x>> /\ SubSeq(<<x, y>>, 2, 2) = <<y>>
         /\ SubSeq(<<x>>, 2, 1) = <<>> /\ SubSeq(<<x>>, 1, 0) = <<>>
         /\ Append(<<x>>, y) = <<x, y>> /\ <<x>> \o <<y>> = <<x, y>> /\ <<x>> \o <<>> = <<x>>
PROOF
<1> DEFINE S == {x, y}  one == <<x>>  two == <<x, y>>
<1>1. /\ one \in Seq(S) /\ Len(one) = 1 /\ one[1] = x /\ <<y>> \in Seq(S) /\ Len(<<y>>) = 1 /\ <<y>>[1] = y
      /\ two \in Seq(S) /\ Len(two) = 2 /\ two[1] = x /\ two[2] = y /\ x \in S /\ y \in S
  OBVIOUS
<1> HIDE DEF S, one, two
<1>2. SubSeq(one, 1, 1) = one
  BY <1>1, SubSeqFull
<1>3. SubSeq(two, 1, 1) = one
  <2>1. /\ SubSeq(two, 1, 1) \in Seq(S) /\ Len(SubSeq(two, 1, 1)) = 1
        /\ \A i \in 1 .. 1 : SubSeq(two, 1, 1)[i] = two[1 + i - 1]
    BY <1>1, SubSeqProperties
  <2>2. \A i \in 1 .. 1 : SubSeq(two, 1, 1)[i] = one[i]
    BY <1>1, <2>1
  <2> QED
    BY <1>1, <2>1, <2>2, SeqEqual
<1>4. SubSeq(two, 2, 2) = <<y>>
  <2>1. /\ SubSeq(two, 2, 2) \in Seq(S) /\ Len(SubSeq(two, 2, 2)) = 1
        /\ \A i \in 1 .. 1 : SubSeq(two, 2, 2)[i] = two[2 + i - 1]
    BY <1>1, SubSeqProperties
  <2>2. \A i \in 1 .. 1 : SubSeq(two, 2, 2)[i] = <<y>>[i]
    BY <1>1, <2>1
  <2> QED
    BY <1>1, <2>1, <2>2, SeqEqual
<1>5. SubSeq(one, 2, 1) = <<>> /\ SubSeq(one, 1, 0) = <<>>
  BY SubSeqEmpty
<1>6. Append(one, y) = two
  <2>1. one \in Seq(S) /\ y \in S /\ Len(one) = 1
    BY <1>1
  <2>2. /\ Append(one, y) \in Seq(S) /\ Len(Append(one, y)) = 2
        /\ Append(one, y)[1] = one[1] /\ Append(one, y)[2] = y
    BY <2>1, AppendToOne, Zenon
  <2>3. \A i \in 1 .. 2 : Append(one, y)[i] = two[i]
    <3>1. two[1] = one[1] /\ two[2] = y
      BY <1>1
    <3> DEFINE a == Append(one, y)
    <3>2. a[1] = two[1] /\ a[2] = two[2]
      BY <2>2, <3>1, Zenon
    <3> HIDE DEF a
    <3>3. \A i \in 1 .. 2 : a[i] = two[i]
      BY <3>2
    <3> QED
      BY <3>3 DEF a
  <2>4. two \in Seq(S) /\ Len(two) = 2
    BY <1>1
  <2> DEFINE a == Append(one, y)
  <2>5. a \in Seq(S) /\ Len(a) = 2 /\ \A i \in 1 .. 2 : a[i] = two[i]
    BY <2>2, <2>3, Zenon
  <2> HIDE DEF a
  <2>6. a = two
    BY <2>4, <2>5, SeqEqual
  <2> QED
    BY <2>6 DEF a
<1>7. one \o <<y>> = two /\ one \o <<>> = one
  BY <1>1, <1>6, AppendIsConcat, ConcatEmptySeq
<1> QED
  BY <1>2, <1>3, <1>4, <1>5, <1>6, <1>7 DEF one, two

\* What is at or under the source.
LEMMA UnderTheSource ==
  ASSUME NEW p \in {From} \cup SourceFiles \cup Places \cup Copies
  PROVE  /\ IsPrefix(From, p) <=> p \in {From} \cup SourceFiles
         /\ Len(p) = 2 <=> p \in SourceFiles \cup Copies
PROOF
<1>1. Len(p) = 2 <=> p \in SourceFiles \cup Copies
  BY PathParts, KindsOfPaths
<1>2. Len(p) \in {1, 2}
  BY PathParts
<1>3. SubSeq(From, 1, 1) = <<From[1]>>
  BY PathParts, ShortSeqs
<1>4. SubSeq(p, 1, 1) = <<p[1]>>
  <2>1. CASE p \in {From} \cup Places
    <3>1. p = <<p[1]>>
      BY <2>1, PathParts
    <3> QED
      BY <3>1, ShortSeqs
  <2>2. CASE p \in SourceFiles \cup Copies
    <3>1. p = <<p[1], p[2]>>
      BY <2>2, PathParts
    <3>2. SubSeq(<<p[1], p[2]>>, 1, 1) = <<p[1]>>
      BY ShortSeqs
    <3> QED
      BY <3>1, <3>2
  <2> QED
    BY <2>1, <2>2
<1>5. IsPrefix(From, p) <=> p[1] = From[1]
  BY <1>2, <1>3, <1>4, PathParts DEF IsPrefix
<1>6. p[1] = From[1] <=> p \in {From} \cup SourceFiles
  BY PathParts
<1> QED
  BY <1>1, <1>5, <1>6

\* A nonempty set of numbers has a least one.
LEMMA LeastNumber ==
  ASSUME NEW T \in SUBSET Nat, T # {}
  PROVE  \E n \in T : \A m \in T : ~(m < n)
PROOF
<1>1. PICK n \in T : \A m \in T : ~(<<m, n>> \in OpToRel(<, Nat))
  BY WFMin, NatLessThanWellFounded
<1>2. ASSUME NEW m \in T, m < n
      PROVE  FALSE
  <2>1. <<m, n>> \in OpToRel(<, Nat)
    BY <1>2 DEF OpToRel
  <2> QED
    BY <1>1, <2>1
<1> QED
  BY <1>2

\* The names FindNonExistsEntryName tries: one of them is free.
LEMMA FreeNumber ==
  ASSUME NEW D, IsFiniteSet(D), NEW f, DOMAIN f = 1 .. Cardinality(D) + 1,
         \A m, n \in 1 .. Cardinality(D) + 1 : f[m] = f[n] => m = n
  PROVE  \E n \in 1 .. Cardinality(D) + 1 : f[n] \notin D /\ \A m \in 1 .. n - 1 : f[m] \in D
PROOF
<1> DEFINE k == Cardinality(D)  I == 1 .. k + 1  free == {n \in I : f[n] \notin D}
<1>1. k \in Nat
  BY FS_CardinalityType
<1>2. free # {}
  <2>1. SUFFICES ASSUME free = {}
                 PROVE  FALSE
    OBVIOUS
  <2> DEFINE g == [n \in I |-> f[n]]
  <2>2. g \in [I -> D]
    BY <2>1
  <2>3. IsFiniteSet(I) /\ Cardinality(I) = k + 1
    BY <1>1, FS_Interval
  <2>4. k < Cardinality(I)
    BY <1>1, <2>3
  <2> HIDE DEF g, I, k
  <2>5. PICK m, n \in I : m # n /\ g[m] = g[n]
    BY <2>2, <2>3, <2>4, FS_PigeonHole DEF k
  <2>6. f[m] = f[n]
    BY <2>5 DEF g
  <2> QED
    BY <2>5, <2>6 DEF I, k
<1>3. free \in SUBSET Nat
  BY <1>1
<1>4. PICK n \in free : \A m \in free : ~(m < n)
  <2> HIDE DEF free
  <2> QED
    BY <1>2, <1>3, LeastNumber
<1>5. n \in I /\ f[n] \notin D
  OBVIOUS
<1>6. ASSUME NEW m \in 1 .. n - 1
      PROVE  f[m] \in D
  <2>1. m \in I /\ m < n
    BY <1>1, <1>5, <1>6
  <2> QED
    BY <1>4, <2>1
<1> QED
  BY <1>5, <1>6

\* The list of a directory.
LEMMA ListOf ==
  ASSUME NEW S, IsFiniteSet(S)
  PROVE  SetToSeq(S) \in Seq(S) /\ Range(SetToSeq(S)) = S
PROOF
<1> DEFINE n == Cardinality(S)  f == SetToSeq(S)
<1>1. n \in Nat /\ ExistsBijection(1 .. n, S)
  BY FS_CardinalityType
<1>2. PICK b : b \in Bijection(1 .. n, S)
  BY <1>1 DEF ExistsBijection
<1>3. b \in [1 .. n -> S] /\ IsInjective(b)
  BY <1>2 DEF Bijection, Injection
<1>4. f \in [1 .. n -> S] /\ IsInjective(f)
  BY <1>3 DEF SetToSeq
<1>5. f \in Seq(S) /\ Len(f) = n
  BY <1>1, <1>4
<1>6. f \in Injection(1 .. n, S)
  BY <1>4 DEF Injection
<1>7. IsFiniteSet(1 .. n) /\ Cardinality(1 .. n) = n
  BY <1>1, FS_Interval
<1>8. f \in Surjection(1 .. n, S)
  <2> HIDE DEF f
  <2> QED
    BY <1>6, <1>7, FS_Injection
<1>9. Range(f) = S
  BY <1>4, <1>8 DEF Surjection, Range
<1> QED
  BY <1>5, <1>9

\* Where a file of the source goes.
LEMMA TargetOf ==
  ASSUME NEW s \in SourceFiles
  PROVE  Append(To, Last(s)) = <<To[1], s[2]>> /\ Append(To, Last(s)) \in Copies
PROOF
<1>1. s = <<s[1], s[2]>> /\ s[2] \in CopyFiles \X {0} /\ Len(s) = 2 /\ To = << <<"t", 0>> >>
  BY PathParts
<1>2. Last(s) = s[2]
  BY <1>1 DEF Last
<1>3. Append(To, s[2]) = <<To[1], s[2]>>
  BY <1>1, ShortSeqs
<1>4. <<To[1], s[2]>> \in Copies
  BY <1>1 DEF Copies, Tops
<1> QED
  BY <1>2, <1>3, <1>4

\* FindNonExistsEntryName: a name no entry has, of the same kind and for the same word.
LEMMA FreeNames ==
  ASSUME TreeInv, NEW p \in Places \cup Copies
  PROVE  /\ ~Exists1(FreeCopyName(p))
         /\ p \in Places => FreeCopyName(p) \in Places
         /\ p \in Copies => FreeCopyName(p) \in Copies /\ FreeCopyName(p)[2][1] = p[2][1]
PROOF
<1> DEFINE k == Cardinality(DOMAIN trees)  numbered(n) == Append(Front(p), <<Last(p)[1], n>>)
           fits(n) == ~Exists1(numbered(n)) /\ \A m \in 1 .. n - 1 : Exists1(numbered(m))
<1>1. k \in Nat
  BY FS_CardinalityType DEF TreeInv
<1>2. CASE ~Exists1(p)
  BY <1>2 DEF FreeCopyName
<1>3. CASE Exists1(p)
  <2>1. /\ \A n \in Nat : p \in Places => numbered(n) \in Places
        /\ \A n \in Nat : p \in Copies => numbered(n) \in Copies /\ numbered(n)[2][1] = p[2][1]
        /\ \A m, n \in Nat : numbered(m) = numbered(n) => m = n
    <3>1. CASE p \in Places
      <4>1. p = <<p[1]>> /\ p[1] \in Tops /\ Len(p) = 1 /\ p \notin Copies
        BY <3>1, PathParts, KindsOfPaths
      <4>2. Front(p) = <<>> /\ Last(p) = p[1]
        BY <4>1, ShortSeqs DEF Front, Last
      <4>3. \A n : numbered(n) = << <<p[1][1], n>> >>
        BY <4>2
      <4>4. \A n \in Nat : numbered(n) \in Places
        BY <4>1, <4>3 DEF Places, Tops
      <4> HIDE DEF numbered
      <4>5. \A m, n \in Nat : numbered(m) = numbered(n) => m = n
        BY <4>3
      <4> QED
        BY <4>1, <4>4, <4>5
    <3>2. CASE p \in Copies
      <4>1. p = <<p[1], p[2]>> /\ p[1] \in Tops /\ p[2] \in CopyFiles \X Nat /\ Len(p) = 2 /\ p \notin Places
        BY <3>2, PathParts, KindsOfPaths
      <4>2. Front(p) = <<p[1]>> /\ Last(p) = p[2]
        <5>1. SubSeq(<<p[1], p[2]>>, 1, 1) = <<p[1]>>
          BY ShortSeqs
        <5>2. SubSeq(p, 1, 1) = <<p[1]>>
          BY <4>1, <5>1
        <5> QED
          BY <4>1, <5>2 DEF Front, Last
      <4>3. \A n : numbered(n) = <<p[1], <<p[2][1], n>> >>
        BY <4>2, ShortSeqs
      <4>4. ASSUME NEW n \in Nat
            PROVE  numbered(n) \in Copies /\ numbered(n)[2][1] = p[2][1]
        <5>1. <<p[2][1], n>> \in CopyFiles \X Nat /\ numbered(n) = <<p[1], <<p[2][1], n>> >>
          BY <4>1, <4>3
        <5> HIDE DEF numbered
        <5> QED
          BY <4>1, <5>1 DEF Copies
      <4> HIDE DEF numbered
      <4>5. \A m, n \in Nat : numbered(m) = numbered(n) => m = n
        BY <4>3
      <4> QED
        BY <4>1, <4>4, <4>5
    <3> QED
      BY <3>1, <3>2
  <2> HIDE DEF numbered
  <2>2. \E n \in 1 .. k + 1 : fits(n)
    <3> DEFINE f == [n \in 1 .. k + 1 |-> numbered(n)]  D == DOMAIN trees
    <3>1. DOMAIN f = 1 .. Cardinality(D) + 1 /\ IsFiniteSet(D)
      BY DEF TreeInv
    <3>2. \A m, n \in 1 .. Cardinality(D) + 1 : f[m] = f[n] => m = n
      BY <1>1, <2>1
    <3>3. \E n \in 1 .. Cardinality(D) + 1 : f[n] \notin D /\ \A m \in 1 .. n - 1 : f[m] \in D
      <4> HIDE DEF f, D
      <4> QED
        BY <3>1, <3>2, FreeNumber
    <3>4. PICK n \in 1 .. k + 1 : f[n] \notin D /\ \A m \in 1 .. n - 1 : f[m] \in D
      BY <3>3
    <3>5. \A m \in 1 .. n : f[m] = numbered(m)
      BY <1>1, <3>4
    <3>6. ~Exists1(numbered(n))
      BY <1>1, <3>4, <3>5 DEF Exists1
    <3>7. \A m \in 1 .. n - 1 : Exists1(numbered(m))
      <4>1. \A m \in 1 .. n - 1 : m \in 1 .. n
        BY <1>1, <3>4
      <4> HIDE DEF f
      <4> QED
        BY <3>4, <3>5, <4>1 DEF Exists1
    <3>8. fits(n)
      BY <3>6, <3>7
    <3> QED
      BY <3>4, <3>8
  <2>3. PICK n \in 1 .. k + 1 : FreeCopyName(p) = numbered(n) /\ fits(n)
    BY <1>3, <2>2 DEF FreeCopyName, numbered
  <2>4. n \in Nat
    BY <1>1, <2>3
  <2> QED
    BY <2>1, <2>3, <2>4
<1> QED
  BY <1>2, <1>3

LEMMA FirstOf ==
  ASSUME NEW S, NEW s \in Seq(S), s # <<>>
  PROVE  Head(s) \in S /\ Tail(s) \in Seq(S) /\ Range(s) = {Head(s)} \cup Range(Tail(s))
PROOF
<1>1. Head(s) \in S /\ Tail(s) \in Seq(S) /\ Len(Tail(s)) = Len(s) - 1
      /\ \A i \in 1 .. Len(Tail(s)) : Tail(s)[i] = s[i + 1]
  BY HeadTailProperties
<1>2. Head(s) = s[1] /\ DOMAIN s = 1 .. Len(s) /\ Len(s) \in Nat \ {0}
  OBVIOUS
<1> DEFINE r == Tail(s)
<1>3. DOMAIN r = 1 .. Len(s) - 1 /\ \A i \in DOMAIN r : r[i] = s[i + 1]
  BY <1>1
<1> HIDE DEF r
<1>4. Range(s) = {s[1]} \cup Range(r)
  <2>1. ASSUME NEW i \in DOMAIN s
        PROVE  s[i] \in {s[1]} \cup Range(r)
    <3>1. CASE i = 1
      BY <3>1
    <3>2. CASE i # 1
      <4>1. i - 1 \in DOMAIN r /\ r[i - 1] = s[i]
        BY <1>2, <1>3, <2>1, <3>2
      <4> QED
        BY <4>1 DEF Range
    <3> QED
      BY <3>1, <3>2
  <2>2. ASSUME NEW i \in DOMAIN r
        PROVE  r[i] \in Range(s)
    <3>1. i + 1 \in DOMAIN s /\ r[i] = s[i + 1]
      BY <1>2, <1>3, <2>2
    <3> QED
      BY <3>1 DEF Range
  <2>3. s[1] \in Range(s)
    BY <1>2 DEF Range
  <2> QED
    BY <2>1, <2>2, <2>3 DEF Range
<1> QED
  BY <1>1, <1>2, <1>4 DEF r

\* An entry is saved or made.
LEMMA WithEntry ==
  ASSUME TreeInv, NEW p \in Places \cup Copies, NEW v \in EntryData, trees' = With(p, v)
  PROVE  /\ TreeInv' /\ DOMAIN trees' = DOMAIN trees \cup {p} /\ trees'[p] = v
         /\ \A q \in DOMAIN trees : q # p => trees'[q] = trees[q]
PROOF
<1>1. /\ DOMAIN trees' = DOMAIN trees \cup {p}
      /\ \A q \in DOMAIN trees \cup {p} : trees'[q] = IF q = p THEN v ELSE trees[q]
      /\ trees' = [q \in DOMAIN trees \cup {p} |-> trees'[q]]
  BY DEF With
<1>2. IsFiniteSet(DOMAIN trees')
  BY <1>1, FS_AddElement DEF TreeInv
<1>3. \A q \in DOMAIN trees' : trees'[q] \in EntryData
  BY <1>1 DEF TreeInv
<1>4. trees' \in [DOMAIN trees' -> EntryData]
  BY <1>1, <1>3
<1>5. DOMAIN trees' \subseteq {From} \cup SourceFiles \cup Places \cup Copies
  BY <1>1 DEF TreeInv
<1> QED
  BY <1>1, <1>2, <1>4, <1>5 DEF TreeInv

\* Nothing else is under way while a request takes a step, or there was a crossing.
LEMMA OneSteps ==
  ASSUME CopyInv, NEW c \in Copiers, TreeInv', CopierTypes', Staged(c)', copying[c] # "idle", crossing' = crossing,
         \A d \in Copiers \ {c} :
           copying'[d] = copying[d] /\ todos'[d] = todos[d] /\ target'[d] = target[d] /\ held'[d] = held[d],
         ~crossing /\ replaced = {} /\ Right(c) => replaced' = {} /\ Right(c)'
  PROVE  CopyInv'
PROOF
<1>1. \A d \in Copiers : Staged(d)'
  <2>1. ASSUME NEW d \in Copiers \ {c}
        PROVE  Staged(d)'
    BY <2>1 DEF CopyInv, Staged
  <2> QED
    BY <2>1
<1>2. CASE crossing
  BY <1>1, <1>2 DEF CopyInv
<1>3. CASE ~crossing
  <2>1. Alone /\ replaced' = {} /\ Right(c)'
    BY <1>3 DEF CopyInv
  <2>2. \A d \in Copiers \ {c} : copying[d] = "idle" /\ copying'[d] = "idle"
    BY <2>1 DEF Alone
  <2>3. Alone'
    BY <2>2 DEF Alone
  <2>4. ASSUME NEW d \in Copiers \ {c}
        PROVE  Right(d)'
    BY <2>2 DEF Right, Walked, AtFiles
  <2> QED
    BY <1>1, <2>1, <2>3, <2>4 DEF CopyInv
<1> QED
  BY <1>2, <1>3

LEMMA SameTree ==
  ASSUME TreeInv, trees' = trees
  PROVE  TreeInv'
PROOF
  BY DEF TreeInv

LEMMA NamePlaceKeeps ==
  ASSUME CopyInv, NEW c \in Copiers, NamePlace(c)
  PROVE  CopyInv'
PROOF
<1>0. TreeInv /\ CopierTypes /\ Staged(c)
  BY DEF CopyInv
<1>a. FreeCopyName(To) \in Places /\ ~Exists1(FreeCopyName(To))
  BY <1>0, PathParts, FreeNames
<1>1. TreeInv'
  BY <1>0, SameTree DEF NamePlace
<1>2. CopierTypes'
  BY <1>0, <1>a DEF NamePlace, At1, Errs, CopierTypes, Stages1
<1>3. Staged(c)'
  BY <1>0 DEF NamePlace, At1, Errs, CopierTypes, Staged, Walked, AtFiles
<1>4. /\ copying[c] # "idle" /\ crossing' = crossing
      /\ \A d \in Copiers \ {c} :
           copying'[d] = copying[d] /\ todos'[d] = todos[d] /\ target'[d] = target[d] /\ held'[d] = held[d]
  BY <1>0 DEF NamePlace, At1, Errs, CopierTypes
<1>5. ~crossing /\ replaced = {} /\ Right(c) => replaced' = {} /\ Right(c)'
  BY <1>0, <1>a DEF NamePlace, At1, Errs, CopierTypes, Right, Walked, AtFiles, Exists1, IsDir, Mismatched, HasCopy, Staged
<1> QED
  BY <1>1, <1>2, <1>3, <1>4, <1>5, OneSteps

LEMMA LookRootKeeps ==
  ASSUME CopyInv, NEW c \in Copiers, LookRoot(c)
  PROVE  CopyInv'
PROOF
<1>0. TreeInv /\ CopierTypes /\ Staged(c)
  BY DEF CopyInv
<1>1. TreeInv'
  BY <1>0, SameTree DEF LookRoot
<1>2. CopierTypes'
  BY <1>0 DEF LookRoot, At1, Errs, CopierTypes, Stages1
<1>3. Staged(c)'
  BY <1>0 DEF LookRoot, At1, Errs, CopierTypes, Staged, Walked, AtFiles
<1>4. /\ copying[c] # "idle" /\ crossing' = crossing
      /\ \A d \in Copiers \ {c} :
           copying'[d] = copying[d] /\ todos'[d] = todos[d] /\ target'[d] = target[d] /\ held'[d] = held[d]
  BY <1>0 DEF LookRoot, At1, Errs, CopierTypes
<1>5. ~crossing /\ replaced = {} /\ Right(c) => replaced' = {} /\ Right(c)'
  BY <1>0 DEF LookRoot, At1, Errs, CopierTypes, Right, Walked, AtFiles, Exists1, IsDir, Mismatched, HasCopy, Staged
<1> QED
  BY <1>1, <1>2, <1>3, <1>4, <1>5, OneSteps

LEMMA LookFileKeeps ==
  ASSUME CopyInv, NEW c \in Copiers, LookFile(c)
  PROVE  CopyInv'
PROOF
<1>0. TreeInv /\ CopierTypes /\ Staged(c)
  BY DEF CopyInv
<1> DEFINE s == Head(todos[c])  p == Append(To, Last(s))
<1>a. todos[c] \in Seq(SourceFiles) /\ todos[c] # <<>>
  BY <1>0 DEF LookFile, Staged, Walked
<1>b. s \in SourceFiles
  BY <1>a, FirstOf
<1>c. p = <<To[1], s[2]>> /\ p \in Copies
  <2> HIDE DEF s
  <2> QED
    BY <1>b, TargetOf
<1>d. p[2][1] = s[2][1]
  <2> HIDE DEF p
  <2> QED
    BY <1>c
<1>e. target' = [target EXCEPT ![c] = p] /\ todos' = todos
  BY DEF LookFile
<1>g. IsDir(p) => Mismatched
  <2>1. s[2] \in CopyFiles \X {0} /\ Last(s) = s[2]
    <3> HIDE DEF s
    <3> QED
      BY <1>b, PathParts DEF Last
  <2>2. PICK x \in CopyFiles : s[2] = <<x, 0>>
    BY <2>1
  <2> QED
    BY <2>1, <2>2 DEF Mismatched
<1> HIDE DEF s, p
<1>f. /\ copying[c] = "next"
      /\ \E n \in {"failed", "read", "rename"} :
           At1(c, n) /\ (n = "read" => over[c]) /\ (n = "failed" => IsDir(p) \/ c \in erred')
      /\ erred' \in {erred, erred \cup {c}}
  BY DEF LookFile, Errs, p, s
<1>1. TreeInv'
  BY <1>0, SameTree DEF LookFile
<1>2. CopierTypes'
  <2>1. copying' \in [Copiers -> Stages1]
    BY <1>0, <1>f DEF At1, Errs, CopierTypes, Stages1
  <2>2. target' \in [Copiers -> Places \cup Copies]
    BY <1>0, <1>c, <1>e DEF CopierTypes
  <2> QED
    BY <1>0, <1>e, <1>f, <2>1, <2>2 DEF LookFile, CopierTypes
<1>3. Staged(c)'
  BY <1>0, <1>a, <1>c, <1>d, <1>e, <1>f DEF LookFile, s, At1, Errs, CopierTypes, Staged, Walked, AtFiles
<1>4. /\ copying[c] # "idle" /\ crossing' = crossing
      /\ \A d \in Copiers \ {c} :
           copying'[d] = copying[d] /\ todos'[d] = todos[d] /\ target'[d] = target[d] /\ held'[d] = held[d]
  BY <1>0 DEF LookFile, At1, Errs, CopierTypes
<1>5. ~crossing /\ replaced = {} /\ Right(c) => replaced' = {} /\ Right(c)'
  BY <1>0, <1>a, <1>e, <1>f, <1>g DEF LookFile, At1, Errs, CopierTypes, Right, Walked, AtFiles, Exists1, IsDir, Mismatched, HasCopy, Staged
<1> QED
  BY <1>1, <1>2, <1>3, <1>4, <1>5, OneSteps

LEMMA NameFileKeeps ==
  ASSUME CopyInv, NEW c \in Copiers, NameFile(c)
  PROVE  CopyInv'
PROOF
<1>0. TreeInv /\ CopierTypes /\ Staged(c)
  BY DEF CopyInv
<1>a. target[c] \in Copies
  BY <1>0 DEF NameFile, Staged, AtFiles
<1>b. LET p == FreeCopyName(target[c]) IN p \in Copies /\ ~Exists1(p) /\ p[2][1] = target[c][2][1]
  BY <1>0, <1>a, FreeNames
<1> DEFINE p == FreeCopyName(target[c])
<1>c. p \in Copies /\ ~Exists1(p) /\ p[2][1] = target[c][2][1]
      /\ \/ target' = [target EXCEPT ![c] = p] /\ At1(c, "read") /\ UNCHANGED erred
         \/ Errs(c) /\ UNCHANGED target
  BY <1>b DEF NameFile
<1> HIDE DEF p
<1>1. TreeInv'
  BY <1>0, SameTree DEF NameFile
<1>2. CopierTypes'
  <2>1. copying' \in [Copiers -> Stages1] /\ erred' \subseteq Copiers
    BY <1>0, <1>c DEF At1, Errs, CopierTypes, Stages1
  <2>2. target' \in [Copiers -> Places \cup Copies]
    BY <1>0, <1>c DEF CopierTypes
  <2> QED
    BY <1>0, <2>1, <2>2 DEF NameFile, CopierTypes
<1>3. Staged(c)'
  BY <1>0, <1>c DEF NameFile, At1, Errs, CopierTypes, Staged, Walked, AtFiles
<1>4. /\ copying[c] # "idle" /\ crossing' = crossing
      /\ \A d \in Copiers \ {c} :
           copying'[d] = copying[d] /\ todos'[d] = todos[d] /\ target'[d] = target[d] /\ held'[d] = held[d]
  BY <1>0 DEF NameFile, At1, Errs, CopierTypes
<1>5. ~crossing /\ replaced = {} /\ Right(c) => replaced' = {} /\ Right(c)'
  BY <1>0, <1>c DEF NameFile, At1, Errs, CopierTypes, Right, Walked, AtFiles, Exists1, IsDir, Mismatched, HasCopy, Staged
<1> QED
  BY <1>1, <1>2, <1>3, <1>4, <1>5, OneSteps

LEMMA ReadFileKeeps ==
  ASSUME CopyInv, NEW c \in Copiers, ReadFile(c)
  PROVE  CopyInv'
PROOF
<1>0. TreeInv /\ CopierTypes /\ Staged(c)
  BY DEF CopyInv
<1>a. Exists1(Head(todos[c])) => trees[Head(todos[c])] \in EntryData
  BY <1>0 DEF TreeInv, Exists1
<1>1. TreeInv'
  BY <1>0, SameTree DEF ReadFile
<1>2. CopierTypes'
  BY <1>0, <1>a DEF ReadFile, At1, Errs, CopierTypes, Stages1
<1>3. Staged(c)'
  BY <1>0, <1>a DEF ReadFile, At1, Errs, CopierTypes, Staged, Walked, AtFiles
<1>4. /\ copying[c] # "idle" /\ crossing' = crossing
      /\ \A d \in Copiers \ {c} :
           copying'[d] = copying[d] /\ todos'[d] = todos[d] /\ target'[d] = target[d] /\ held'[d] = held[d]
  BY <1>0 DEF ReadFile, At1, Errs, CopierTypes
<1>5. ~crossing /\ replaced = {} /\ Right(c) => replaced' = {} /\ Right(c)'
  BY <1>0, <1>a DEF ReadFile, At1, Errs, CopierTypes, Right, Walked, AtFiles, Exists1, IsDir, Mismatched, HasCopy, Staged
<1> QED
  BY <1>1, <1>2, <1>3, <1>4, <1>5, OneSteps

LEMMA AnswerCopyKeeps ==
  ASSUME CopyInv, NEW c \in Copiers, AnswerCopy(c)
  PROVE  CopyInv'
PROOF
<1>0. TreeInv /\ CopierTypes /\ Staged(c)
  BY DEF CopyInv
<1>a. Range(todos[c]) = {}
  <2>1. Range(<<>>) = {}
    BY DEF Range
  <2> QED
    BY <2>1 DEF AnswerCopy
<1>b. /\ copying[c] = "next" /\ UNCHANGED <<trees, place, todos, replaced>>
      /\ \/ copying'[c] = IF Exists1(place[c]) THEN "done" ELSE "failed"
         \/ copying'[c] = "failed" /\ c \in erred'
  BY <1>0 DEF AnswerCopy, At1, Errs, CopierTypes
<1>1. TreeInv'
  BY <1>0, SameTree DEF AnswerCopy
<1>2. CopierTypes'
  BY <1>0 DEF AnswerCopy, At1, Errs, CopierTypes, Stages1
<1>3. Staged(c)'
  BY <1>0 DEF AnswerCopy, At1, Errs, CopierTypes, Staged, Walked, AtFiles
<1>4. /\ copying[c] # "idle" /\ crossing' = crossing
      /\ \A d \in Copiers \ {c} :
           copying'[d] = copying[d] /\ todos'[d] = todos[d] /\ target'[d] = target[d] /\ held'[d] = held[d]
  BY <1>0 DEF AnswerCopy, At1, Errs, CopierTypes
<1>5. ~crossing /\ replaced = {} /\ Right(c) => replaced' = {} /\ Right(c)'
  BY <1>a, <1>b DEF Right, Walked, AtFiles, Exists1, IsDir, Mismatched, HasCopy
<1> QED
  BY <1>1, <1>2, <1>3, <1>4, <1>5, OneSteps

LEMMA WalkSourceKeeps ==
  ASSUME CopyInv, NEW c \in Copiers, WalkSource(c)
  PROVE  CopyInv'
PROOF
<1>0. TreeInv /\ CopierTypes /\ Staged(c)
  BY DEF CopyInv
<1> DEFINE D == {p \in DOMAIN trees : Len(p) = 2 /\ IsPrefix(From, p)}
<1>a. D = {p \in DOMAIN trees : p \in SourceFiles}
  BY <1>0, UnderTheSource, KindsOfPaths DEF TreeInv
<1>b. IsFiniteSet(D)
  BY <1>0, FS_Subset DEF TreeInv
<1> DEFINE s == SetToSeq(D)
<1>c. s \in Seq(D) /\ Range(s) = D
  <2> HIDE DEF D
  <2> QED
    BY <1>b, ListOf
<1>d. D \subseteq SourceFiles /\ D \subseteq {From} \cup SourceFiles
  BY <1>a
<1> HIDE DEF D
<1>e. s \in Seq(SourceFiles) /\ s \in Seq({From} \cup SourceFiles)
  BY <1>c, <1>d
<1>f. /\ copying[c] = "walk"
      /\ \/ At1(c, "look") /\ todos' = [todos EXCEPT ![c] = s] /\ UNCHANGED erred
         \/ Errs(c) /\ todos' = todos
  BY DEF WalkSource, D
<1> HIDE DEF s
<1>1. TreeInv'
  BY <1>0, SameTree DEF WalkSource
<1>2. CopierTypes'
  <2>1. copying' \in [Copiers -> Stages1] /\ todos' \in [Copiers -> Seq({From} \cup SourceFiles)]
    BY <1>0, <1>e, <1>f DEF At1, Errs, CopierTypes, Stages1
  <2> QED
    BY <1>0, <1>f, <2>1 DEF WalkSource, CopierTypes, Errs
<1>3. Staged(c)'
  BY <1>0, <1>e, <1>f DEF WalkSource, At1, Errs, CopierTypes, Staged, Walked, AtFiles
<1>4. /\ copying[c] # "idle" /\ crossing' = crossing
      /\ \A d \in Copiers \ {c} :
           copying'[d] = copying[d] /\ todos'[d] = todos[d] /\ target'[d] = target[d] /\ held'[d] = held[d]
  BY <1>0 DEF WalkSource, At1, Errs, CopierTypes
<1>5. ~crossing /\ replaced = {} /\ Right(c) => replaced' = {} /\ Right(c)'
  <2>1. UNCHANGED <<trees, replaced, place>>
    BY DEF WalkSource
  <2>2. CASE At1(c, "look") /\ todos' = [todos EXCEPT ![c] = s]
    <3>1. copying'[c] = "look" /\ Range(todos'[c]) = D
      BY <1>0, <1>c, <2>2 DEF At1, Errs, CopierTypes
    <3>2. \A p \in DOMAIN trees : p \in SourceFiles => p \in Range(todos'[c])
      BY <1>a, <3>1
    <3> QED
      BY <2>1, <3>1, <3>2 DEF Right, Walked, AtFiles
  <2>3. CASE Errs(c) /\ todos' = todos
    <3>1. copying'[c] = "failed" /\ c \in erred'
      BY <1>0, <2>3 DEF At1, Errs, CopierTypes
    <3> QED
      BY <2>1, <3>1 DEF Right, Walked, AtFiles
  <2> QED
    BY <1>f, <2>2, <2>3
<1> QED
  BY <1>1, <1>2, <1>3, <1>4, <1>5, OneSteps

\* What a request found in the source it still has to copy, or has copied, when an entry appears that is no file
\* of the source.
LEMMA StillRight ==
  ASSUME NEW c \in Copiers, NEW p \in Places \cup Copies,
         \A s \in DOMAIN trees : s \in SourceFiles => s \in Range(todos[c]) \/ HasCopy(s),
         DOMAIN trees' = DOMAIN trees \cup {p}, \A q \in DOMAIN trees : q # p => trees'[q] = trees[q],
         p \in Copies => p \notin DOMAIN trees
  PROVE  \A s \in DOMAIN trees' : s \in SourceFiles => s \in Range(todos[c]) \/ HasCopy(s)'
PROOF
<1>1. SUFFICES ASSUME NEW s \in DOMAIN trees', s \in SourceFiles, HasCopy(s)
               PROVE  HasCopy(s)'
  BY KindsOfPaths
<1>2. PICK q \in DOMAIN trees : q \in Copies /\ q[2][1] = s[2][1] /\ trees[q] = trees[s]
  BY <1>1 DEF HasCopy
<1>3. q # p /\ s # p /\ s \in DOMAIN trees
  BY <1>1, <1>2, KindsOfPaths
<1> QED
  BY <1>2, <1>3 DEF HasCopy

LEMMA MakeRootKeeps ==
  ASSUME CopyInv, NEW c \in Copiers, MakeRoot(c)
  PROVE  CopyInv'
PROOF
<1>0. TreeInv /\ CopierTypes /\ Staged(c)
  BY DEF CopyInv
<1>a. /\ To \in Places \cup Copies /\ To \notin Copies /\ "dir" \in EntryData
  BY PathParts, KindsOfPaths DEF EntryData
<1>b. \/ Errs(c) /\ trees' = trees
      \/ At1(c, "next") /\ trees' = trees /\ Exists1(To) /\ UNCHANGED erred
      \/ At1(c, "next") /\ trees' = With(To, "dir") /\ UNCHANGED erred
  BY DEF MakeRoot
<1>1. TreeInv'
  BY <1>0, <1>a, <1>b, SameTree, WithEntry
<1>2. CopierTypes'
  BY <1>0, <1>b DEF MakeRoot, At1, Errs, CopierTypes, Stages1
<1>3. Staged(c)'
  BY <1>0, <1>b DEF MakeRoot, At1, Errs, CopierTypes, Staged, Walked, AtFiles
<1>4. /\ copying[c] # "idle" /\ crossing' = crossing
      /\ \A d \in Copiers \ {c} :
           copying'[d] = copying[d] /\ todos'[d] = todos[d] /\ target'[d] = target[d] /\ held'[d] = held[d]
  BY <1>0, <1>b DEF MakeRoot, At1, Errs, CopierTypes
<1>5. ASSUME replaced = {}, Right(c)
      PROVE  replaced' = {} /\ Right(c)'
  <2>1. UNCHANGED <<place, todos, replaced>> /\ copying[c] = "mkdir"
    BY DEF MakeRoot
  <2>2. \A s \in DOMAIN trees : s \in SourceFiles => s \in Range(todos[c]) \/ HasCopy(s)
    BY <1>5, <2>1 DEF Right, Walked
  <2>3. ~Exists1(To)
    BY <1>5, <2>1 DEF Right
  <2>4. CASE Errs(c) /\ trees' = trees
    <3>1. copying'[c] = "failed" /\ c \in erred'
      BY <1>0, <2>4 DEF At1, Errs, CopierTypes
    <3> QED
      BY <1>5, <2>1, <3>1 DEF Right, Walked, AtFiles, Exists1
  <2>5. CASE At1(c, "next")
    <3>1. copying'[c] = "next"
      BY <1>0, <2>5 DEF At1, Errs, CopierTypes
    <3>2. CASE trees' = trees /\ Exists1(To)
      BY <2>3, <3>2
    <3>3. CASE trees' = With(To, "dir")
      <4>1. DOMAIN trees' = DOMAIN trees \cup {To} /\ \A q \in DOMAIN trees : q # To => trees'[q] = trees[q]
        BY <1>0, <1>a, <3>3, WithEntry
      <4>2. \A s \in DOMAIN trees' : s \in SourceFiles => s \in Range(todos[c]) \/ HasCopy(s)'
        BY <1>a, <2>2, <4>1, StillRight
      <4> QED
        BY <1>5, <2>1, <3>1, <4>1, <4>2 DEF Right, Walked, AtFiles, Exists1
    <3> QED
      BY <1>b, <2>5, <3>2, <3>3, <2>4
  <2> QED
    BY <1>b, <2>4, <2>5
<1> QED
  BY <1>1, <1>2, <1>3, <1>4, <1>5, OneSteps

\* A file is copied, by the drive or by way of a temp file, or the copy of it is cut short.
LEMMA FileLands ==
  ASSUME CopyInv, NEW c \in Copiers, NEW v, copying[c] \in {"read", "save"},
         UNCHANGED <<native, over, place, fresh, target, held, strokes, crossing>>,
         \/ v \in EntryData /\ Lands(c, v) /\ FileDone(c)
         \/ CutShort(c),
         ~crossing /\ Right(c) /\ FileDone(c) => Exists1(Head(todos[c])) /\ v = trees[Head(todos[c])]
  PROVE  CopyInv'
PROOF
<1> DEFINE h == Head(todos[c])  p == target[c]
           counted == replaced' = IF ~over[c] /\ Exists1(target[c]) THEN replaced \cup {c} ELSE replaced
           saved == /\ At1(c, "next") /\ todos' = [todos EXCEPT ![c] = Tail(@)] /\ trees' = With(target[c], v)
                    /\ counted /\ v \in EntryData /\ erred' = erred
           failed == /\ At1(c, "failed") /\ UNCHANGED todos /\ erred' = erred \cup {c}
                     /\ \/ trees' = With(target[c], "part") /\ counted
                        \/ UNCHANGED <<trees, replaced>>
<1>0. TreeInv /\ CopierTypes /\ Staged(c)
  BY DEF CopyInv
<1>a. copying[c] \in {"read", "save"} /\ UNCHANGED <<native, over, place, fresh, target, held, strokes, crossing>>
  OBVIOUS
<1>b. failed \/ saved
  BY DEF Lands, FileDone, CutShort, Errs
<1>c. p \in Copies /\ p \notin Places /\ todos[c] # <<>> /\ todos[c] \in Seq(SourceFiles) /\ p[2][1] = h[2][1]
  BY <1>0, <1>a, KindsOfPaths DEF Staged, AtFiles, Walked
<1>d. h \in SourceFiles /\ Tail(todos[c]) \in Seq(SourceFiles) /\ Range(todos[c]) = {h} \cup Range(Tail(todos[c]))
  BY <1>c, FirstOf
<1>e. todos[c] \in Seq({From} \cup SourceFiles) /\ Tail(todos[c]) \in Seq({From} \cup SourceFiles)
  BY <1>0, <1>c, FirstOf DEF CopierTypes
<1>f. saved => FileDone(c)
  BY DEF FileDone
<1>g. "part" \in EntryData
  BY DEF EntryData
<1> HIDE DEF h, saved, failed
<1>1. TreeInv'
  BY <1>0, <1>b, <1>c, <1>g, SameTree, WithEntry DEF saved, failed
<1>2. CopierTypes'
  <2>1. todos' \in [Copiers -> Seq({From} \cup SourceFiles)]
    BY <1>0, <1>b, <1>e DEF CopierTypes, saved, failed
  <2>2. copying' \in [Copiers -> Stages1] /\ replaced' \subseteq Copiers /\ erred' \subseteq Copiers
    BY <1>0, <1>b DEF CopierTypes, saved, failed, At1, Stages1
  <2> QED
    BY <1>0, <1>a, <2>1, <2>2 DEF CopierTypes
<1>3. Staged(c)'
  <2>1. CASE failed
    BY <1>0, <2>1 DEF failed, At1, CopierTypes, Staged, Walked, AtFiles
  <2>2. CASE saved
    <3>1. copying'[c] = "next" /\ todos'[c] = Tail(todos[c])
      BY <1>0, <2>2 DEF saved, At1, CopierTypes
    <3> QED
      BY <1>d, <3>1 DEF Staged, AtFiles
  <2> QED
    BY <1>b, <2>1, <2>2
<1>4. /\ copying[c] # "idle" /\ crossing' = crossing
      /\ \A d \in Copiers \ {c} :
           copying'[d] = copying[d] /\ todos'[d] = todos[d] /\ target'[d] = target[d] /\ held'[d] = held[d]
  BY <1>0, <1>a, <1>b DEF saved, failed, At1, CopierTypes
<1>5. ASSUME ~crossing, replaced = {}, Right(c)
      PROVE  replaced' = {} /\ Right(c)'
  <2>1. /\ ~over[c] => ~Exists1(p)
        /\ \A s \in DOMAIN trees : s \in SourceFiles => s \in Range(todos[c]) \/ HasCopy(s)
        /\ Exists1(To)
    BY <1>5, <1>a DEF Right, Walked, AtFiles
  <2>2. replaced' = {}
    BY <1>5, <1>b, <2>1 DEF saved, failed
  <2>3. CASE failed
    <3>1. copying'[c] = "failed" /\ c \in erred'
      BY <1>0, <2>3 DEF failed, At1, CopierTypes
    <3> QED
      BY <2>2, <3>1 DEF Right, Walked, AtFiles
  <2>4. CASE saved
    <3>0. Exists1(h) /\ v = trees[h]
      BY <1>5, <1>f, <2>4 DEF h
    <3>1. copying'[c] = "next" /\ todos'[c] = Tail(todos[c])
      BY <1>0, <2>4 DEF saved, At1, CopierTypes
    <3>2. /\ DOMAIN trees' = DOMAIN trees \cup {p} /\ trees'[p] = v
          /\ \A q \in DOMAIN trees : q # p => trees'[q] = trees[q]
      BY <1>0, <1>c, <2>4, WithEntry DEF saved
    <3>3. ASSUME NEW s \in DOMAIN trees', s \in SourceFiles, s \notin Range(Tail(todos[c]))
          PROVE  HasCopy(s)'
      <4>1. s # p /\ s \in DOMAIN trees /\ trees'[s] = trees[s]
        BY <1>c, <3>2, <3>3, KindsOfPaths
      <4>2. CASE s = h
        <5>1. p \in DOMAIN trees' /\ p[2][1] = s[2][1] /\ trees'[p] = trees'[s]
          BY <1>c, <3>0, <3>2, <4>1, <4>2
        <5> QED
          BY <1>c, <5>1 DEF HasCopy
      <4>3. CASE s # h
        <5>1. HasCopy(s)
          BY <1>d, <2>1, <3>3, <4>1, <4>3
        <5>2. PICK q \in DOMAIN trees : q \in Copies /\ q[2][1] = s[2][1] /\ trees[q] = trees[s]
          BY <5>1 DEF HasCopy
        <5>3. q # p
          BY <1>c, <1>d, <3>3, <4>3, <5>2, KindsOfPaths
        <5> QED
          BY <3>2, <4>1, <5>2, <5>3 DEF HasCopy
      <4> QED
        BY <4>2, <4>3
    <3>4. Exists1(To)'
      BY <2>1, <3>2 DEF Exists1
    <3> QED
      BY <2>2, <3>1, <3>3, <3>4 DEF Right, Walked, AtFiles
  <2> QED
    BY <1>b, <2>3, <2>4
<1> QED
  BY <1>1, <1>2, <1>3, <1>4, <1>5, OneSteps

LEMMA SaveFileKeeps ==
  ASSUME CopyInv, NEW c \in Copiers, SaveFile(c)
  PROVE  CopyInv'
PROOF
<1>1. held[c] \in EntryData /\ copying[c] = "save"
  BY DEF CopyInv, Staged, SaveFile
<1>2. ~crossing /\ Right(c) => Exists1(Head(todos[c])) /\ held[c] = trees[Head(todos[c])]
  BY <1>1 DEF Right
<1> QED
  BY <1>1, <1>2, FileLands DEF SaveFile

LEMMA CopyFileKeeps ==
  ASSUME CopyInv, NEW c \in Copiers, CopyFile(c)
  PROVE  CopyInv'
PROOF
<1> DEFINE h == Head(todos[c])
<1>1. copying[c] = "read" /\ UNCHANGED <<native, over, place, fresh, target, held, strokes, crossing>>
  BY DEF CopyFile
<1>2. CASE Exists1(h) /\ Lands(c, trees[h]) /\ FileDone(c)
  <2>1. trees[h] \in EntryData
    BY <1>2 DEF CopyInv, TreeInv, Exists1
  <2> QED
    BY <1>1, <1>2, <2>1, FileLands
<1>3. CASE CutShort(c)
  <2>1. ~FileDone(c)
    BY <1>1, <1>3 DEF CopyInv, CopierTypes, FileDone, CutShort, Errs, At1
  <2> QED
    BY <1>1, <1>3, <2>1, FileLands
<1> QED
  BY <1>2, <1>3 DEF CopyFile

\* Where the drive's own Copy puts what it moves.
LEMMA PutWhere ==
  ASSUME NEW t \in Places
  PROVE  /\ t \o SubSeq(From, 2, Len(From)) = t
         /\ \A s \in SourceFiles : /\ t \o SubSeq(s, 2, Len(s)) = <<t[1], s[2]>>
                              /\ t \o SubSeq(s, 2, Len(s)) \in Copies
PROOF
<1>1. t = <<t[1]>> /\ t[1] \in Tops /\ From = <<From[1]>> /\ Len(From) = 1
  BY PathParts
<1>2. t \o SubSeq(From, 2, Len(From)) = t
  <2>1. SubSeq(<<From[1]>>, 2, 1) = <<>> /\ <<t[1]>> \o <<>> = <<t[1]>>
    BY ShortSeqs
  <2>2. SubSeq(From, 2, Len(From)) = <<>> /\ t \o <<>> = t
    BY <1>1, <2>1
  <2> QED
    BY <2>2
<1>3. ASSUME NEW s \in SourceFiles
      PROVE  t \o SubSeq(s, 2, Len(s)) = <<t[1], s[2]>> /\ t \o SubSeq(s, 2, Len(s)) \in Copies
  <2>1. s = <<s[1], s[2]>> /\ Len(s) = 2 /\ s[2] \in CopyFiles \X {0}
    BY PathParts
  <2>2. SubSeq(<<s[1], s[2]>>, 2, 2) = <<s[2]>> /\ <<t[1]>> \o <<s[2]>> = <<t[1], s[2]>>
    BY ShortSeqs
  <2>3. SubSeq(s, 2, Len(s)) = <<s[2]>> /\ t \o <<s[2]>> = <<t[1], s[2]>>
    BY <1>1, <2>1, <2>2
  <2>4. <<t[1], s[2]>> \in Copies
    BY <1>1, <2>1 DEF Copies
  <2> QED
    BY <2>3, <2>4
<1> QED
  BY <1>2, <1>3

LEMMA FastCopyKeeps ==
  ASSUME CopyInv, NEW c \in Copiers, FastCopy(c)
  PROVE  CopyInv'
PROOF
<1> DEFINE counted == replaced' = IF ~over[c] /\ Exists1(place[c]) THEN replaced \cup {c} ELSE replaced
<1>0. TreeInv /\ CopierTypes /\ Staged(c)
  BY DEF CopyInv
<1>a. copying[c] = "fast" /\ UNCHANGED <<native, over, place, todos, fresh, target, held, strokes, crossing>>
  BY DEF FastCopy
<1>b. \/ At1(c, "walk") /\ UNCHANGED <<trees, replaced, erred>>
      \/ Errs(c) /\ UNCHANGED <<trees, replaced>>
      \/ \E some \in SUBSET Moved, torn \in SUBSET Moved :
           /\ From \notin torn /\ Puts(c, some, torn) /\ torn \subseteq some
           /\ \/ some = Moved /\ torn = {} /\ At1(c, "done") /\ UNCHANGED erred
              \/ Errs(c)
  BY DEF FastCopy
<1>c. place[c] \in Places /\ todos[c] = <<From>>
  BY <1>0, <1>a DEF CopierTypes, Staged
<1>d. Moved = {p \in DOMAIN trees : p \in {From} \cup SourceFiles}
  BY <1>0, UnderTheSource DEF TreeInv, Moved
<1>e. /\ PutBy(c, From) = place[c]
      /\ \A s \in SourceFiles : /\ PutBy(c, s) = <<place[c][1], s[2]>> /\ PutBy(c, s) \in Copies
                              /\ PutBy(c, s)[2][1] = s[2][1]
  <2>1. PutBy(c, From) = place[c]
        /\ \A s \in SourceFiles : PutBy(c, s) = <<place[c][1], s[2]>> /\ PutBy(c, s) \in Copies
    BY <1>c, PutWhere DEF PutBy
  <2> QED
    BY <2>1
<1>f. \A p, q \in Moved : PutBy(c, p) = PutBy(c, q) => p = q
  BY <1>c, <1>d, <1>e, KindsOfPaths
\* What is there after some of it was put.
<1>g. ASSUME NEW some \in SUBSET Moved, NEW torn \in SUBSET some, Puts(c, some, torn)
      PROVE  /\ TreeInv' /\ DOMAIN trees' = DOMAIN trees \cup {PutBy(c, p) : p \in some}
             /\ \A q \in DOMAIN trees : q \notin {PutBy(c, p) : p \in some} => trees'[q] = trees[q]
             /\ \A p \in some \ torn : trees'[PutBy(c, p)] = trees[p]
  <2> DEFINE puts == {PutBy(c, p) : p \in some}
  <2>1. IsFiniteSet(puts)
    <3> DEFINE g == [p \in some |-> PutBy(c, p)]
    <3>1. g \in Surjection(some, puts)
      BY DEF Surjection
    <3>2. IsFiniteSet(Moved) /\ IsFiniteSet(some)
      BY <1>0, <1>d, FS_Subset DEF TreeInv
    <3> HIDE DEF g, puts
    <3> QED
      BY <3>1, <3>2, FS_Surjection
  <2>2. puts \subseteq Places \cup Copies
    BY <1>c, <1>d, <1>e
  <2>3. /\ DOMAIN trees' = DOMAIN trees \cup puts /\ trees' = [q \in DOMAIN trees' |-> trees'[q]]
        /\ \A q \in DOMAIN trees : q \notin puts => trees'[q] = trees[q]
        /\ \A p \in torn : trees'[PutBy(c, p)] = "part"
    BY <1>g DEF Puts
  <2>4. ASSUME NEW p \in some \ torn
        PROVE  trees'[PutBy(c, p)] = trees[p]
    <3>1. ~\E r \in torn : PutBy(c, p) = PutBy(c, r)
      BY <1>f
    <3>2. (CHOOSE r \in some : PutBy(c, p) = PutBy(c, r)) = p
      BY <1>f
    <3> QED
      BY <1>g, <3>1, <3>2 DEF Puts
  <2> HIDE DEF puts
  <2>5. ASSUME NEW q \in DOMAIN trees'
        PROVE  trees'[q] \in EntryData
    <3>1. CASE q \notin puts
      BY <1>0, <2>3, <3>1 DEF TreeInv
    <3>2. CASE q \in puts
      <4>1. PICK p \in some : q = PutBy(c, p)
        BY <3>2 DEF puts
      <4>2. p \in DOMAIN trees
        BY <1>d
      <4> QED
        BY <1>0, <2>3, <2>4, <4>1, <4>2 DEF TreeInv, EntryData
    <3> QED
      BY <3>1, <3>2
  <2>6. trees' \in [DOMAIN trees' -> EntryData]
    BY <2>3, <2>5
  <2>7. IsFiniteSet(DOMAIN trees')
    BY <1>0, <2>1, <2>3, FS_Union DEF TreeInv
  <2>8. DOMAIN trees' \subseteq {From} \cup SourceFiles \cup Places \cup Copies
    BY <1>0, <2>2, <2>3 DEF TreeInv
  <2> QED
    BY <2>3, <2>4, <2>6, <2>7, <2>8 DEF TreeInv, puts
<1>1. TreeInv'
  BY <1>0, <1>b, <1>g, SameTree
<1>2. CopierTypes'
  BY <1>0, <1>a, <1>b DEF At1, Errs, Puts, CopierTypes, Stages1
<1>h. copying' \in [Copiers -> Stages1] /\ copying'[c] \in {"walk", "done", "failed"} /\ todos'[c] = <<From>>
  BY <1>0, <1>a, <1>b, <1>c DEF At1, Errs, CopierTypes, Stages1
<1>3. Staged(c)'
  BY <1>h DEF Staged, Walked, AtFiles
<1>4. /\ copying[c] # "idle" /\ crossing' = crossing
      /\ \A d \in Copiers \ {c} :
           copying'[d] = copying[d] /\ todos'[d] = todos[d] /\ target'[d] = target[d] /\ held'[d] = held[d]
  BY <1>0, <1>a, <1>b DEF At1, Errs, CopierTypes
<1>5. ASSUME replaced = {}, Right(c)
      PROVE  replaced' = {} /\ Right(c)'
  <2>1. replaced' = {}
    BY <1>5, <1>a, <1>b DEF Right, Puts
  <2>2. CASE copying'[c] = "walk"
    BY <2>1, <2>2 DEF Right, Walked, AtFiles
  <2>3. CASE copying'[c] = "failed"
    <3>1. c \in erred'
      BY <1>0, <1>b, <2>3 DEF At1, Errs, CopierTypes
    <3> QED
      BY <2>1, <2>3, <3>1 DEF Right, Walked, AtFiles
  <2>4. CASE copying'[c] = "done"
    <3>1. Puts(c, Moved, {})
      BY <1>0, <1>b, <2>4 DEF At1, Errs, CopierTypes
    <3>2. /\ DOMAIN trees' = DOMAIN trees \cup {PutBy(c, p) : p \in Moved}
          /\ \A q \in DOMAIN trees : q \notin {PutBy(c, p) : p \in Moved} => trees'[q] = trees[q]
          /\ \A p \in Moved : trees'[PutBy(c, p)] = trees[p]
      <4>1. Moved \in SUBSET Moved /\ {} \in SUBSET Moved /\ \A p \in Moved : p \in Moved \ {}
        OBVIOUS
      <4> QED
        BY <1>g, <3>1, <4>1
    <3>3. ASSUME NEW s \in DOMAIN trees', s \in SourceFiles
          PROVE  HasCopy(s)'
      <4>1. s \notin {PutBy(c, p) : p \in Moved}
        BY <1>c, <1>d, <1>e, <3>3, KindsOfPaths
      <4>2. s \in DOMAIN trees /\ s \in Moved /\ trees'[s] = trees[s]
        BY <1>d, <3>2, <3>3, <4>1
      <4>3. PutBy(c, s) \in DOMAIN trees' /\ trees'[PutBy(c, s)] = trees'[s]
        BY <3>2, <4>2
      <4>4. PutBy(c, s) \in Copies /\ PutBy(c, s)[2][1] = s[2][1]
        BY <1>e, <3>3
      <4> DEFINE q == PutBy(c, s)
      <4>5. q \in DOMAIN trees' /\ trees'[q] = trees'[s] /\ q \in Copies /\ q[2][1] = s[2][1]
        BY <4>3, <4>4
      <4> HIDE DEF q
      <4> QED
        BY <4>5 DEF HasCopy
    <3> QED
      BY <2>1, <2>4, <3>3 DEF Right, Walked, AtFiles
  <2> QED
    BY <1>h, <2>2, <2>3, <2>4
<1> QED
  BY <1>1, <1>2, <1>3, <1>4, <1>5, OneSteps

\* While nothing is under way, what starts makes the others' answers outdated.
LEMMA Undisturbed ==
  ASSUME CopyInv, TreeInv', CopierTypes', UNCHANGED <<target, held>>,
         \A d \in Copiers : \/ copying'[d] = Outdated[d] /\ todos'[d] = todos[d]
                            \/ copying'[d] \in {"name", "fast"} /\ todos'[d] = <<From>>,
         \A d, e \in Copiers : d = e \/ copying'[d] = Outdated[d] \/ copying'[e] = Outdated[e],
         crossing' = (crossing \/ \E d \in Copiers : ~Idling(d)),
         \A d \in Copiers : copying'[d] = "fast" /\ copying'[d] # Outdated[d] => over'[d],
         replaced' \subseteq replaced
  PROVE  CopyInv'
PROOF
<1>1. ASSUME NEW d \in Copiers
      PROVE  Staged(d)'
  <2>1. Staged(d)
    BY DEF CopyInv
  <2>2. CASE copying'[d] = Outdated[d] /\ todos'[d] = todos[d]
    <3>1. copying'[d] = "idle" \/ copying'[d] = copying[d]
      BY <2>2 DEF Outdated
    <3> QED
      BY <2>1, <2>2, <3>1 DEF Staged, Walked, AtFiles
  <2>3. CASE copying'[d] \in {"name", "fast"} /\ todos'[d] = <<From>>
    BY <2>3 DEF Staged, Walked, AtFiles
  <2> QED
    BY <2>2, <2>3
<1>2. CASE crossing \/ \E d \in Copiers : ~Idling(d)
  BY <1>1, <1>2 DEF CopyInv
<1>3. CASE ~crossing /\ \A d \in Copiers : Idling(d)
  <2>1. \A d \in Copiers : Outdated[d] = "idle"
    BY <1>3 DEF Outdated
  <2>2. Alone'
    BY <2>1 DEF Alone
  <2>3. ASSUME NEW d \in Copiers
        PROVE  Right(d)'
    <3>1. copying'[d] \in {"idle", "name"} \/ (copying'[d] = "fast" /\ over'[d])
      BY <2>1
    <3> QED
      BY <3>1 DEF Right, Walked, AtFiles
  <2>4. replaced' = {}
    BY <1>3 DEF CopyInv
  <2> QED
    BY <1>1, <2>2, <2>3, <2>4 DEF CopyInv
<1> QED
  BY <1>2, <1>3

LEMMA StartCopyKeeps ==
  ASSUME CopyInv, NEW c \in Copiers, NEW override \in BOOLEAN, StartCopy(c, override)
  PROVE  CopyInv'
PROOF
<1>1. TreeInv' /\ CopierTypes
  BY SameTree DEF CopyInv, StartCopy
<1>2. \A d \in Copiers : Outdated[d] \in Stages1
  BY <1>1 DEF Outdated, CopierTypes, Stages1
<1>3. /\ \A d \in Copiers \ {c} : copying'[d] = Outdated[d] /\ todos'[d] = todos[d] /\ over'[d] = over[d]
      /\ copying'[c] = (IF override THEN "fast" ELSE "name") /\ todos'[c] = <<From>> /\ over'[c] = override
      /\ copying' = [d \in Copiers |-> copying'[d]]
  BY <1>1 DEF StartCopy, CopierTypes, Outdated
<1>4. copying' \in [Copiers -> Stages1]
  BY <1>2, <1>3 DEF Stages1
<1>5. todos' \in [Copiers -> Seq({From} \cup SourceFiles)]
  <2>1. <<From>> \in Seq({From} \cup SourceFiles)
    OBVIOUS
  <2> QED
    BY <1>1, <2>1 DEF StartCopy, CopierTypes
<1>6. place' \in [Copiers -> Places]
  BY <1>1, PathParts DEF StartCopy, CopierTypes
<1>7. CopierTypes'
  BY <1>1, <1>4, <1>5, <1>6 DEF StartCopy, CopierTypes
<1>8. /\ UNCHANGED <<target, held>> /\ replaced' \subseteq replaced
      /\ crossing' = (crossing \/ \E d \in Copiers : ~Idling(d))
  BY DEF StartCopy
<1>9. \A d \in Copiers :
        \/ copying'[d] = Outdated[d] /\ todos'[d] = todos[d]
        \/ copying'[d] \in {"name", "fast"} /\ todos'[d] = <<From>>
  BY <1>3
<1>10. \A d, e \in Copiers : d = e \/ copying'[d] = Outdated[d] \/ copying'[e] = Outdated[e]
  BY <1>3
<1>11. \A d \in Copiers : copying'[d] = "fast" /\ copying'[d] # Outdated[d] => over'[d]
  BY <1>3
<1> QED
  BY <1>1, <1>7, <1>8, <1>9, <1>10, <1>11, Undisturbed

LEMMA ChangeTreeKeeps ==
  ASSUME CopyInv, ChangeTree
  PROVE  CopyInv'
PROOF
<1>1. TreeInv /\ CopierTypes
  BY DEF CopyInv
<1>2. TreeInv'
  <2>1. CASE \E p \in DOMAIN trees : trees' = [q \in {r \in DOMAIN trees : ~IsPrefix(p, r)} |-> trees[q]]
    <3>1. PICK p \in DOMAIN trees : trees' = [q \in {r \in DOMAIN trees : ~IsPrefix(p, r)} |-> trees[q]]
      BY <2>1
    <3>2. DOMAIN trees' \in SUBSET DOMAIN trees /\ \A q \in DOMAIN trees' : trees'[q] = trees[q]
      BY <3>1
    <3>3. IsFiniteSet(DOMAIN trees')
      BY <1>1, <3>2, FS_Subset DEF TreeInv
    <3>4. trees' \in [DOMAIN trees' -> EntryData]
      BY <1>1, <3>1, <3>2 DEF TreeInv
    <3> QED
      BY <1>1, <3>2, <3>3, <3>4 DEF TreeInv
  <2>2. CASE \E x \in CopyFiles : trees' = With(Append(To, <<x, 0>>), "other")
    <3>1. PICK x \in CopyFiles : trees' = With(Append(To, <<x, 0>>), "other")
      BY <2>2
    <3>2. Append(To, <<x, 0>>) = << <<"t", 0>>, <<x, 0>> >>
      <4>1. To = << <<"t", 0>> >>
        BY PathParts
      <4>2. \A a, b : Append(<<a>>, b) = <<a, b>>
        BY ShortSeqs
      <4> QED
        BY <4>1, <4>2, Zenon
    <3>3. Append(To, <<x, 0>>) \in Copies
      BY <3>2 DEF Copies, Tops
    <3> DEFINE p == Append(To, <<x, 0>>)
    <3>4. p \in Places \cup Copies /\ p \notin Places /\ "other" \in EntryData /\ trees' = With(p, "other")
      BY <3>1, <3>3, KindsOfPaths DEF EntryData
    <3> HIDE DEF p
    <3> QED
      BY <1>1, <3>4, WithEntry
  <2> QED
    BY <2>1, <2>2 DEF ChangeTree
<1>3. /\ copying' = Outdated /\ UNCHANGED <<over, place, todos, fresh, target, held, replaced, erred>>
      /\ crossing' = (crossing \/ \E d \in Copiers : ~Idling(d))
  BY DEF ChangeTree
<1>4. Outdated \in [Copiers -> Stages1]
  BY <1>1 DEF Outdated, CopierTypes, Stages1
<1>5. CopierTypes'
  BY <1>1, <1>3, <1>4 DEF CopierTypes
<1> QED
  BY <1>2, <1>3, <1>5, Undisturbed

LEMMA CopyInitHolds ==
  ASSUME CopyInit
  PROVE  CopyInv
PROOF
<1> DEFINE src == {Append(From, <<x, 0>>) : x \in CopyFiles}  dst == {Append(To, <<x, 0>>) : x \in CopyFiles}
<1>1. \A x \in CopyFiles : /\ Append(From, <<x, 0>>) = <<From[1], <<x, 0>> >>
                           /\ Append(To, <<x, 0>>) = <<To[1], <<x, 0>> >>
  <2>1. From = <<From[1]>> /\ To = <<To[1]>>
    BY PathParts
  <2> QED
    BY <2>1, ShortSeqs
<1>2. src \subseteq SourceFiles /\ dst \subseteq Copies
  <2>1. From[1] \in {From[1]} /\ To[1] \in Tops
    BY PathParts
  <2>2. ASSUME NEW x \in CopyFiles
        PROVE  Append(From, <<x, 0>>) \in SourceFiles /\ Append(To, <<x, 0>>) \in Copies
    <3>1. <<x, 0>> \in CopyFiles \X {0} /\ <<x, 0>> \in CopyFiles \X Nat
      OBVIOUS
    <3>2. <<From[1], <<x, 0>> >> \in SourceFiles
      BY <2>1, <3>1 DEF SourceFiles
    <3>3. <<To[1], <<x, 0>> >> \in Copies
      BY <2>1, <3>1 DEF Copies
    <3>4. Append(From, <<x, 0>>) = <<From[1], <<x, 0>> >> /\ Append(To, <<x, 0>>) = <<To[1], <<x, 0>> >>
      BY <1>1
    <3> QED
      BY <3>2, <3>3, <3>4, Zenon
  <2> QED
    BY <2>2
<1>3. IsFiniteSet(src) /\ IsFiniteSet(dst)
  <2> DEFINE f == [x \in CopyFiles |-> Append(From, <<x, 0>>)]  g == [x \in CopyFiles |-> Append(To, <<x, 0>>)]
  <2>1. f \in Surjection(CopyFiles, src) /\ g \in Surjection(CopyFiles, dst)
    BY DEF Surjection
  <2> HIDE DEF f, g, src, dst
  <2> QED
    BY <2>1, FS_Surjection, TreeCopyAssumption
<1>4. PICK there \in SUBSET ({To} \cup dst), root, child \in {"dir", "old"} :
        trees = [p \in {From} \cup src \cup there |->
                   IF p = From THEN "dir" ELSE IF p = To THEN root ELSE IF p \in there THEN child ELSE "new"]
  BY DEF CopyInit
<1> HIDE DEF src, dst
<1>5. TreeInv
  <2>1. IsFiniteSet({From} \cup src \cup there)
    <3>1. IsFiniteSet({To} \cup dst) /\ IsFiniteSet({From} \cup src)
      BY <1>3, FS_AddElement
    <3>2. IsFiniteSet(there)
      BY <3>1, FS_Subset
    <3> QED
      BY <3>1, <3>2, FS_Union
  <2>2. DOMAIN trees = {From} \cup src \cup there /\ trees \in [DOMAIN trees -> EntryData]
    BY <1>4 DEF EntryData
  <2>3. DOMAIN trees \subseteq {From} \cup SourceFiles \cup Places \cup Copies
    BY <1>2, <2>2, PathParts
  <2> QED
    BY <2>1, <2>2, <2>3 DEF TreeInv
<1>6. CopierTypes
  <2>1. <<>> \in Seq({From} \cup SourceFiles)
    OBVIOUS
  <2> QED
    BY <2>1, PathParts DEF CopyInit, CopierTypes, Stages1
<1>7. \A c \in Copiers : copying[c] = "idle"
  BY DEF CopyInit
<1>8. \A c \in Copiers : Staged(c) /\ Right(c)
  BY <1>7 DEF Staged, Right, Walked, AtFiles
<1>9. Alone /\ replaced = {}
  BY <1>7 DEF Alone, CopyInit
<1> QED
  BY <1>5, <1>6, <1>8, <1>9 DEF CopyInv

\* CopyInv is an invariant of DispatcherDrive.Copy of a directory.
THEOREM CopyInvariant == CopySpec => []CopyInv
PROOF
<1>1. CopyInit => CopyInv
  BY CopyInitHolds
<1>2. CopyInv /\ [CopyNext]_copyVars => CopyInv'
  <2>1. SUFFICES ASSUME CopyInv, [CopyNext]_copyVars
                 PROVE  CopyInv'
    OBVIOUS
  <2>2. CASE UNCHANGED copyVars
    <3>1. TreeInv' /\ CopierTypes' /\ \A c \in Copiers : Staged(c)'
      BY <2>1, <2>2 DEF copyVars, CopyInv, TreeInv, CopierTypes, Staged
    <3>2. \A c \in Copiers : Right(c) => Right(c)'
      BY <2>2 DEF copyVars, Right, HasCopy, Exists1, Mismatched, IsDir
    <3> QED
      BY <2>1, <2>2, <3>1, <3>2 DEF copyVars, CopyInv, Alone
  <2>3. CASE ChangeTree
    BY <2>1, <2>3, ChangeTreeKeeps
  <2>4. ASSUME NEW c \in Copiers, CopyStep(c)
        PROVE  CopyInv'
    BY <2>1, <2>4, NamePlaceKeeps, FastCopyKeeps, WalkSourceKeeps, LookRootKeeps, MakeRootKeeps, LookFileKeeps,
       NameFileKeeps, CopyFileKeeps, ReadFileKeeps, SaveFileKeeps, AnswerCopyKeeps DEF CopyStep
  <2>5. ASSUME NEW c \in Copiers, NEW override \in BOOLEAN, StartCopy(c, override)
        PROVE  CopyInv'
    BY <2>1, <2>5, StartCopyKeeps
  <2> QED
    BY <2>1, <2>2, <2>3, <2>4, <2>5 DEF CopyNext
<1> QED
  BY <1>1, <1>2, PTL DEF CopySpec

\* A copy does what its answer says, and no more (CopyHolds): a copy that may not override replaces nothing, one
\* answered with success has every file, one answered with an error met a call of the drive that failed, a file
\* and a directory of one name, or the answer's look under a name CopyAll has not used - wherever a Get, a List, a
\* Copy, a MakeDir, a read or a save fails, in whole or having written a part, as long as nothing else goes on.
THEOREM CopyHoldsCorrect == CopySpec => []CopyHolds
PROOF
<1>1. CopyInv => CopyHolds
  <2>1. SUFFICES ASSUME CopyInv
                 PROVE  CopyHolds
    OBVIOUS
  <2>2. NothingReplaced
    BY <2>1 DEF CopyInv, NothingReplaced
  <2>3. DoneIsCopied
    <3>1. SUFFICES ASSUME NEW c \in Copiers, copying[c] = "done", ~crossing, NEW p \in DOMAIN trees,
                          Len(p) = 2, IsPrefix(From, p)
                   PROVE  \E q \in DOMAIN trees : q[1][1] = "t" /\ Len(q) = 2 /\ q[2][1] = p[2][1] /\ trees[q] = trees[p]
      BY DEF DoneIsCopied, Copied
    <3>2. p \in SourceFiles
      BY <2>1, <3>1, UnderTheSource, KindsOfPaths DEF CopyInv, TreeInv
    <3>3. HasCopy(p)
      BY <2>1, <3>1, <3>2 DEF CopyInv, Right
    <3>4. PICK q \in DOMAIN trees : q \in Copies /\ q[2][1] = p[2][1] /\ trees[q] = trees[p]
      BY <3>3 DEF HasCopy
    <3>5. q[1] \in Tops /\ Len(q) = 2
      BY <3>4, PathParts
    <3> QED
      BY <3>4, <3>5 DEF Tops
  <2>4. FailedForCause
    BY <2>1 DEF CopyInv, Right, FailedForCause
  <2> QED
    BY <2>2, <2>3, <2>4 DEF CopyHolds
<1> QED
  BY <1>1, CopyInvariant, PTL
-----------------------------------------------------------------------------
(* The caches of the drives: programs.                                         *)

\* One sequence after another.
LEMMA JoinMeans ==
  ASSUME NEW S, NEW s \in Seq(S), NEW t \in Seq(S)
  PROVE  /\ s \o t \in Seq(S) /\ Len(s \o t) = Len(s) + Len(t)
         /\ \A i \in 1 .. Len(s) : (s \o t)[i] = s[i]
         /\ \A i \in 1 .. Len(t) : (s \o t)[Len(s) + i] = t[i]
PROOF
<1> DEFINE j == s \o t
<1>1. /\ j \in Seq(S) /\ Len(j) = Len(s) + Len(t)
      /\ \A i \in 1 .. Len(s) + Len(t) : j[i] = IF i <= Len(s) THEN s[i] ELSE t[i - Len(s)]
  BY ConcatProperties
<1>2. Len(s) \in Nat /\ Len(t) \in Nat
  OBVIOUS
<1> HIDE DEF j
<1>3. \A i \in 1 .. Len(s) : j[i] = s[i]
  BY <1>1, <1>2
<1>4. ASSUME NEW i \in 1 .. Len(t)
      PROVE  j[Len(s) + i] = t[i]
  <2>1. Len(s) + i \in 1 .. Len(s) + Len(t) /\ ~(Len(s) + i <= Len(s)) /\ Len(s) + i - Len(s) = i
    BY <1>2
  <2> QED
    BY <1>1, <2>1
<1>5. j \in Seq(S) /\ Len(j) = Len(s) + Len(t) /\ (\A i \in 1 .. Len(s) : j[i] = s[i])
      /\ \A i \in 1 .. Len(t) : j[Len(s) + i] = t[i]
  BY <1>1, <1>3, <1>4
<1> QED
  BY <1>5 DEF j

LEMMA Joined ==
  ASSUME NEW S, NEW s \in Seq(S), NEW t \in Seq(S), NEW j, j = s \o t
  PROVE  /\ j \in Seq(S) /\ Len(j) = Len(s) + Len(t) /\ (\A i \in 1 .. Len(s) : j[i] = s[i])
         /\ \A i \in 1 .. Len(t) : j[Len(s) + i] = t[i]
BY JoinMeans

CacheChanges == [op : {"save", "delete", "copy", "move"}, from : FileNames, to : FileNames]
CacheSteps ==
  [do : {"entry", "stat", "put", "pick", "absent", "exists"}, x : FileNames]
    \cup [do : {"names", "children", "answer", "replaced", "fetch", "put entries", "put names"}, x : {Dir}]
    \cup [do : {"evict"}, x : FileNames \cup {Dir}]
    \cup [do : {"change", "anyway"}, change : CacheChanges]

\* What a change makes stale. The servers of gdrive and onedrive copy and move to what is
\* not there only.
Stale(b, c) ==
  {Dir} \cup (IF c.op = "move" THEN {c.from} ELSE {})
    \cup (IF b \in {"gdrive", "onedrive"} /\ c.op \in {"copy", "move"} THEN {} ELSE {c.to})

Alters(s) == s.do \in {"change", "anyway"}
Answers(s) == s.do \in {"answer", "replaced"}

\* The step i of p is followed by evictions, among them that of x.
Follows(p, i, x) ==
  \E k \in i + 1 .. Len(p) : p[k].do = "evict" /\ p[k].x = x /\ \A j \in i + 1 .. k : p[j].do = "evict"

\* Evictions come after a change, and each change is followed by that of all it made stale,
\* but for the last one, which may lack those of X; from step k on nothing is answered.
Owing(b, p, X, k) ==
  /\ p \in Seq(CacheSteps)
  /\ \A i \in 2 .. Len(p) : p[i].do = "evict" => p[i - 1].do = "evict" \/ Alters(p[i - 1])
  /\ \A i \in k .. Len(p) : ~Answers(p[i])
  /\ \A i \in 1 .. Len(p) : Alters(p[i]) =>
       \A x \in Stale(b, p[i].change) :
         Follows(p, i, x) \/ (x \in X /\ \A j \in i + 1 .. Len(p) : p[j].do = "evict")
Good(b, p) == Owing(b, p, {}, 1)
Kept(b, p) == Owing(b, p, {}, 2)   \* what a request has left
Open(p) == p # <<>> /\ (p[Len(p)].do = "evict" \/ Alters(p[Len(p)]))

\* One good program after another.
LEMMA GoodJoin ==
  ASSUME NEW b, NEW k \in {1, 2}, NEW p, Owing(b, p, {}, k), NEW q, Good(b, q), Len(q) > 0 => q[1].do # "evict"
  PROVE  Owing(b, p \o q, {}, k)
PROOF
<1> DEFINE r == p \o q  m == Len(p)  n == Len(q)
<1>1. p \in Seq(CacheSteps) /\ q \in Seq(CacheSteps)
  BY DEF Good, Owing
<1>2. m \in Nat /\ n \in Nat
  BY <1>1
<1>3. /\ r \in Seq(CacheSteps) /\ Len(r) = m + n /\ (\A i \in 1 .. m : r[i] = p[i])
      /\ \A i \in 1 .. n : r[m + i] = q[i]
  <2> DEFINE r1 == p \o q
  <2>1. r1 = p \o q
    OBVIOUS
  <2> HIDE DEF r1
  <2>2. /\ r1 \in Seq(CacheSteps) /\ Len(r1) = Len(p) + Len(q) /\ (\A i \in 1 .. Len(p) : r1[i] = p[i])
        /\ \A i \in 1 .. Len(q) : r1[Len(p) + i] = q[i]
    BY <1>1, <2>1, Joined, SMT
  <2> QED
    BY <2>1, <2>2
<1>4. \A i \in 1 .. m + n : i \in 1 .. m \/ (i - m \in 1 .. n /\ i = m + (i - m))
  BY <1>2
<1> HIDE DEF r
<1>5. \A i \in m + 1 .. m + n : r[i] = q[i - m] /\ i - m \in 1 .. n
  <2> TAKE i \in m + 1 .. m + n
  <2>1. i - m \in 1 .. n /\ m + (i - m) = i
    BY <1>2
  <2> QED
    BY <1>3, <2>1
<1>6. ASSUME NEW i \in 2 .. Len(r), r[i].do = "evict"
      PROVE  r[i - 1].do = "evict" \/ Alters(r[i - 1])
  <2>1. CASE i \in 1 .. m
    <3>1. i \in 2 .. m /\ i - 1 \in 1 .. m
      BY <1>2, <2>1
    <3>2. p[i].do = "evict" => p[i - 1].do = "evict" \/ Alters(p[i - 1])
      BY <3>1 DEF Good, Owing
    <3> QED
      BY <1>3, <1>6, <3>1, <3>2
  <2>2. CASE i \notin 1 .. m
    <3>1. i \in m + 1 .. m + n
      BY <1>2, <1>3, <2>2
    <3>2. q[i - m].do = "evict" /\ i - m \in 1 .. n
      BY <1>5, <1>6, <3>1
    <3>3. i - m # 1
      BY <1>2, <3>2
    <3>4. i - m \in 2 .. n /\ i - 1 \in m + 1 .. m + n /\ (i - 1) - m = (i - m) - 1
      BY <1>2, <3>1, <3>2, <3>3
    <3>5. q[(i - m) - 1].do = "evict" \/ Alters(q[(i - m) - 1])
      BY <3>2, <3>4 DEF Good, Owing
    <3>6. r[i - 1] = q[(i - m) - 1]
      BY <1>5, <3>4
    <3> QED
      BY <3>5, <3>6
  <2> QED
    BY <2>1, <2>2
<1>7. ASSUME NEW i \in k .. Len(r)
      PROVE  ~Answers(r[i])
  <2>1. CASE i \in 1 .. m
    <3>1. i \in k .. m
      BY <1>2, <2>1
    <3> QED
      BY <1>3, <2>1, <3>1 DEF Owing
  <2>2. CASE i \notin 1 .. m
    <3>1. i \in m + 1 .. m + n
      BY <1>2, <1>3, <2>2
    <3>2. i - m \in 1 .. n /\ r[i] = q[i - m]
      BY <1>5, <3>1
    <3> QED
      BY <3>2 DEF Good, Owing
  <2> QED
    BY <2>1, <2>2
<1>8. ASSUME NEW i \in 1 .. Len(r), Alters(r[i]), NEW x \in Stale(b, r[i].change)
      PROVE  Follows(r, i, x)
  <2>1. CASE i \in 1 .. m
    <3>1. Follows(p, i, x)
      BY <1>3, <1>8, <2>1 DEF Good, Owing
    <3>2. PICK h \in i + 1 .. m : p[h].do = "evict" /\ p[h].x = x /\ \A j \in i + 1 .. h : p[j].do = "evict"
      BY <3>1 DEF Follows
    <3>3. h \in i + 1 .. Len(r) /\ h \in 1 .. m /\ \A j \in i + 1 .. h : j \in 1 .. m
      BY <1>2, <1>3, <2>1
    <3> QED
      BY <1>3, <3>2, <3>3 DEF Follows
  <2>2. CASE i \notin 1 .. m
    <3>1. i \in m + 1 .. m + n
      BY <1>2, <1>3, <2>2
    <3>2. i - m \in 1 .. n /\ r[i] = q[i - m]
      BY <1>5, <3>1
    <3>3. Follows(q, i - m, x)
      BY <1>8, <3>2 DEF Good, Owing
    <3>4. PICK h \in (i - m) + 1 .. n : q[h].do = "evict" /\ q[h].x = x /\ \A j \in (i - m) + 1 .. h : q[j].do = "evict"
      BY <3>3 DEF Follows
    <3>5. m + h \in i + 1 .. Len(r) /\ m + h \in m + 1 .. m + n /\ (m + h) - m = h
      BY <1>2, <1>3, <3>1
    <3>6. \A j \in i + 1 .. m + h : j \in m + 1 .. m + n /\ j - m \in (i - m) + 1 .. h
      BY <1>2, <3>1
    <3>7. r[m + h] = q[h] /\ \A j \in i + 1 .. m + h : r[j].do = "evict"
      BY <1>5, <3>4, <3>5, <3>6
    <3> QED
      BY <3>4, <3>5, <3>7 DEF Follows
  <2> QED
    BY <2>1, <2>2
<1>9. Owing(b, r, {}, k)
  BY <1>3, <1>6, <1>7, <1>8 DEF Owing
<1> QED
  BY <1>9 DEF r

\* One more step.
LEMMA OneMore ==
  ASSUME NEW p \in Seq(CacheSteps), NEW s \in CacheSteps, NEW q, q = p \o <<s>>
  PROVE  /\ q \in Seq(CacheSteps) /\ Len(q) = Len(p) + 1 /\ Len(p) \in Nat
         /\ (\A i \in 1 .. Len(p) : q[i] = p[i]) /\ q[Len(p) + 1] = s /\ q # <<>>
PROOF
<1> DEFINE t == <<s>>
<1>1. t \in Seq(CacheSteps) /\ Len(t) = 1 /\ t[1] = s /\ 1 \in 1 .. Len(t)
  OBVIOUS
<1>2. q = p \o t
  OBVIOUS
<1> HIDE DEF t
<1>3. /\ q \in Seq(CacheSteps) /\ Len(q) = Len(p) + Len(t) /\ (\A i \in 1 .. Len(p) : q[i] = p[i])
      /\ \A i \in 1 .. Len(t) : q[Len(p) + i] = t[i]
  BY <1>1, <1>2, Joined, SMT
<1>4. Len(p) \in Nat
  OBVIOUS
<1>5. q[Len(p) + 1] = s
  BY <1>1, <1>3
<1> QED
  BY <1>1, <1>3, <1>4, <1>5

LEMMA OweChange ==
  ASSUME NEW b, NEW p, Good(b, p), NEW s \in CacheSteps, Alters(s)
  PROVE  Owing(b, p \o <<s>>, Stale(b, s.change), 1) /\ Open(p \o <<s>>)
PROOF
<1> DEFINE q == p \o <<s>>  m == Len(p)
<1>1. p \in Seq(CacheSteps)
  BY DEF Good, Owing
<1>2. /\ q \in Seq(CacheSteps) /\ Len(q) = m + 1 /\ m \in Nat
      /\ (\A i \in 1 .. m : q[i] = p[i]) /\ q[m + 1] = s /\ q # <<>>
  <2> DEFINE q1 == p \o <<s>>
  <2>1. q1 = p \o <<s>>
    OBVIOUS
  <2> HIDE DEF q1
  <2>2. /\ q1 \in Seq(CacheSteps) /\ Len(q1) = Len(p) + 1 /\ Len(p) \in Nat
        /\ (\A i \in 1 .. Len(p) : q1[i] = p[i]) /\ q1[Len(p) + 1] = s /\ q1 # <<>>
    BY <1>1, <2>1, OneMore
  <2> QED
    BY <2>1, <2>2
<1> HIDE DEF q
<1>3. \A i \in 1 .. Len(q) : i \in 1 .. m \/ i = m + 1
  BY <1>2
<1>4. s.do # "evict" /\ ~Answers(s)
  BY DEF Alters, Answers
<1>5. ASSUME NEW i \in 2 .. Len(q), q[i].do = "evict"
      PROVE  q[i - 1].do = "evict" \/ Alters(q[i - 1])
  <2>1. CASE i = m + 1
    BY <1>2, <1>4, <1>5, <2>1
  <2>2. CASE i # m + 1
    <3>1. i \in 2 .. m /\ i \in 1 .. m /\ i - 1 \in 1 .. m
      BY <1>2, <2>2
    <3> QED
      BY <1>2, <1>5, <3>1 DEF Good, Owing
  <2> QED
    BY <2>1, <2>2
<1>6. ASSUME NEW i \in 1 .. Len(q), Alters(q[i]), NEW x \in Stale(b, q[i].change)
      PROVE  Follows(q, i, x) \/ (x \in Stale(b, s.change) /\ \A j \in i + 1 .. Len(q) : q[j].do = "evict")
  <2>1. CASE i = m + 1
    BY <1>2, <1>6, <2>1
  <2>2. CASE i \in 1 .. m
    <3>1. Follows(p, i, x)
      BY <1>2, <1>6, <2>2 DEF Good, Owing
    <3>2. PICK k \in i + 1 .. m : p[k].do = "evict" /\ p[k].x = x /\ \A j \in i + 1 .. k : p[j].do = "evict"
      BY <3>1 DEF Follows
    <3>3. k \in i + 1 .. Len(q) /\ k \in 1 .. m /\ \A j \in i + 1 .. k : j \in 1 .. m
      BY <1>2, <2>2
    <3> QED
      BY <1>2, <3>2, <3>3 DEF Follows
  <2> QED
    BY <1>3, <2>1, <2>2
<1>9. \A i \in 1 .. Len(q) : ~Answers(q[i])
  BY <1>2, <1>3, <1>4 DEF Good, Owing
<1>7. Owing(b, q, Stale(b, s.change), 1)
  BY <1>2, <1>5, <1>6, <1>9 DEF Owing
<1>8. Open(q)
  BY <1>2 DEF Open
<1> QED
  BY <1>7, <1>8 DEF q

LEMMA OweEvict ==
  ASSUME NEW b, NEW X, NEW p, Owing(b, p, X, 1), Open(p), NEW x \in FileNames \cup {Dir}
  PROVE  Owing(b, p \o Evict(x), X \ {x}, 1) /\ Open(p \o Evict(x))
PROOF
<1> DEFINE s == Step("evict", x)  q == p \o <<s>>  m == Len(p)
<1>1. p \in Seq(CacheSteps) /\ s \in CacheSteps /\ s.do = "evict" /\ s.x = x
  BY DEF Owing, Step, CacheSteps
<1>2. q = p \o Evict(x)
  BY DEF Evict
<1> HIDE DEF s
<1>3. /\ q \in Seq(CacheSteps) /\ Len(q) = m + 1 /\ m \in Nat
      /\ (\A i \in 1 .. m : q[i] = p[i]) /\ q[m + 1] = s /\ q # <<>>
  <2> DEFINE q1 == p \o <<s>>
  <2>1. q1 = p \o <<s>>
    OBVIOUS
  <2> HIDE DEF q1
  <2>2. /\ q1 \in Seq(CacheSteps) /\ Len(q1) = Len(p) + 1 /\ Len(p) \in Nat
        /\ (\A i \in 1 .. Len(p) : q1[i] = p[i]) /\ q1[Len(p) + 1] = s /\ q1 # <<>>
    BY <1>1, <2>1, OneMore
  <2> QED
    BY <2>1, <2>2
<1> HIDE DEF q
<1>4. m \in 1 .. m /\ (p[m].do = "evict" \/ Alters(p[m]))
  <2>1. m # 0
    BY <1>1 DEF Open
  <2> QED
    BY <1>3, <2>1 DEF Open
<1>5. \A i \in 1 .. Len(q) : i \in 1 .. m \/ i = m + 1
  BY <1>3
<1>6. ~Answers(s) /\ ~Alters(s)
  BY <1>1 DEF Alters, Answers
<1>7. ASSUME NEW i \in 2 .. Len(q), q[i].do = "evict"
      PROVE  q[i - 1].do = "evict" \/ Alters(q[i - 1])
  <2>1. CASE i = m + 1
    <3>1. q[i] = s /\ q[i - 1] = p[m]
      BY <1>3, <1>4, <2>1
    <3> QED
      BY <1>4, <1>6, <3>1
  <2>2. CASE i # m + 1
    <3>1. i \in 2 .. m /\ i \in 1 .. m /\ i - 1 \in 1 .. m
      BY <1>3, <2>2
    <3> QED
      BY <1>3, <1>7, <3>1 DEF Owing
  <2> QED
    BY <2>1, <2>2
<1>10. \A i \in 1 .. Len(q) : ~Answers(q[i])
  BY <1>3, <1>5, <1>6 DEF Owing
<1>8. ASSUME NEW i \in 1 .. Len(q), Alters(q[i]), NEW y \in Stale(b, q[i].change)
      PROVE  Follows(q, i, y) \/ (y \in X \ {x} /\ \A j \in i + 1 .. Len(q) : q[j].do = "evict")
  <2>1. i \in 1 .. m /\ q[i] = p[i]
    BY <1>3, <1>5, <1>6, <1>8
  <2>2. CASE Follows(p, i, y)
    <3>1. PICK k \in i + 1 .. m : p[k].do = "evict" /\ p[k].x = y /\ \A j \in i + 1 .. k : p[j].do = "evict"
      BY <2>2 DEF Follows
    <3>2. k \in i + 1 .. Len(q) /\ k \in 1 .. m /\ \A j \in i + 1 .. k : j \in 1 .. m
      BY <1>3, <2>1
    <3> QED
      BY <1>3, <3>1, <3>2 DEF Follows
  <2>3. CASE y \in X /\ \A j \in i + 1 .. m : p[j].do = "evict"
    <3>1. \A j \in i + 1 .. Len(q) : j = m + 1 \/ (j \in i + 1 .. m /\ j \in 1 .. m)
      BY <1>3, <2>1
    <3>2. \A j \in i + 1 .. Len(q) : q[j].do = "evict"
      BY <1>1, <1>3, <2>3, <3>1
    <3>3. m + 1 \in i + 1 .. Len(q)
      BY <1>3, <2>1
    <3>4. y = x => Follows(q, i, y)
      BY <1>1, <1>3, <3>2, <3>3 DEF Follows
    <3> QED
      BY <2>3, <3>2, <3>4
  <2> QED
    BY <1>8, <2>1, <2>2, <2>3 DEF Owing
<1>9. Owing(b, q, X \ {x}, 1) /\ Open(q)
  BY <1>1, <1>3, <1>7, <1>8, <1>10 DEF Owing, Open
<1> QED
  BY <1>2, <1>9

LEMMA GoodPlain ==
  ASSUME NEW b, NEW e \in Seq(CacheSteps),
         \A i \in 1 .. Len(e) : e[i].do # "evict" /\ ~Alters(e[i]) /\ ~Answers(e[i])
  PROVE  Good(b, e)
PROOF
<1>1. Len(e) \in Nat
  OBVIOUS
<1>2. \A i \in 2 .. Len(e) : i \in 1 .. Len(e)
  BY <1>1
<1> QED
  BY <1>2 DEF Good, Owing

\* A step of a program that neither changes nor evicts nor answers.
Plain(s) == s \in CacheSteps /\ s.do # "evict" /\ ~Alters(s) /\ ~Answers(s)

LEMMA PlainSteps ==
  /\ \A n \in FileNames : \A do \in {"entry", "stat", "put", "pick", "absent", "exists"} : Plain(Step(do, n))
  /\ \A do \in {"names", "children", "fetch", "put entries", "put names"} : Plain(Step(do, Dir))
BY DEF Plain, Step, CacheSteps, Alters, Answers

LEMMA OnePlain ==
  ASSUME NEW b, NEW s, Plain(s)
  PROVE  Good(b, <<s>>)
PROOF
<1> DEFINE e == <<s>>
<1>1. e \in Seq(CacheSteps) /\ Len(e) = 1 /\ e[1] = s
  BY DEF Plain
<1> HIDE DEF e
<1>2. \A i \in 1 .. Len(e) : e[i] = s
  BY <1>1
<1>3. Good(b, e)
  BY <1>1, <1>2, GoodPlain DEF Plain
<1> QED
  BY <1>3 DEF e

LEMMA PlainAfter ==
  ASSUME NEW b, NEW p, Good(b, p), NEW s, Plain(s)
  PROVE  Good(b, p \o <<s>>)
PROOF
<1> DEFINE e == <<s>>
<1>1. Good(b, e)
  BY OnePlain
<1>2. Len(e) = 1 /\ e[1] = s
  OBVIOUS
<1> HIDE DEF e
<1>3. Len(e) > 0 => e[1].do # "evict"
  BY <1>2 DEF Plain
<1>4. Good(b, p \o e)
  BY <1>1, <1>3, GoodJoin DEF Good
<1> QED
  BY <1>4 DEF e

LEMMA JoinedTwice ==
  ASSUME NEW s \in Seq(CacheSteps), NEW t \in Seq(CacheSteps), NEW u \in Seq(CacheSteps)
  PROVE  (s \o t) \o u = s \o (t \o u)
BY ConcatAssociative

\* A step before others.
LEMMA OneBefore ==
  ASSUME NEW s \in CacheSteps, NEW t \in Seq(CacheSteps), NEW q, q = <<s>> \o t
  PROVE  q # <<>> /\ q \in Seq(CacheSteps) /\ Head(q) = s
PROOF
<1> DEFINE e == <<s>>
<1>1. e \in Seq(CacheSteps) /\ Len(e) = 1 /\ e[1] = s /\ q = e \o t
  OBVIOUS
<1> HIDE DEF e
<1>2. q \in Seq(CacheSteps) /\ Len(q) = Len(e) + Len(t) /\ (\A i \in 1 .. Len(e) : q[i] = e[i])
  BY <1>1, Joined
<1>3. Len(t) \in Nat
  OBVIOUS
<1>4. q[1] = s /\ Len(q) # 0
  BY <1>1, <1>2, <1>3
<1> QED
  BY <1>2, <1>4

LEMMA GoodNothing == \A b : Good(b, <<>>)
PROOF
<1> TAKE b
<1> DEFINE e == <<>>
<1>1. e \in Seq(CacheSteps) /\ Len(e) = 0
  OBVIOUS
<1> HIDE DEF e
<1>2. \A i \in 1 .. Len(e) : FALSE
  BY <1>1
<1>3. Good(b, e)
  BY <1>1, <1>2, GoodPlain
<1> QED
  BY <1>3 DEF e

LEMMA GoodLooks ==
  ASSUME NEW b, NEW n \in FileNames
  PROVE  /\ Good(b, <<>>) /\ Good(b, Get(n)) /\ Good(b, List)
         /\ \A forced \in BOOLEAN : Good(b, New(n, forced))
         /\ \A p : Good(b, p) => Good(b, p \o Get(n))
PROOF
<1>1. Good(b, <<>>)
  BY GoodNothing
<1>2. Plain(Step("entry", n)) /\ Plain(Step("names", Dir)) /\ Plain(Step("absent", n))
  BY PlainSteps
<1>3. Good(b, Get(n)) /\ Good(b, List)
  BY <1>2, OnePlain DEF Get, List
<1>4. Good(b, Get(n) \o <<Step("absent", n)>>)
  BY <1>2, <1>3, PlainAfter
<1>5. \A forced \in BOOLEAN : Good(b, New(n, forced))
  BY <1>1, <1>4 DEF New
<1>6. \A p : Good(b, p) => Good(b, p \o Get(n))
  BY <1>2, PlainAfter DEF Get
<1> QED
  BY <1>1, <1>3, <1>5, <1>6

LEMMA ChangeSteps ==
  ASSUME NEW c \in CacheChanges, NEW d, d \in {Change(c), Anyway(c)}
  PROVE  \E s \in CacheSteps : d = <<s>> /\ Alters(s) /\ s.change = c
PROOF
<1>1. \A do \in {"change", "anyway"} : Changing(do, c) \in CacheSteps /\ Alters(Changing(do, c)) /\ Changing(do, c).change = c
  BY DEF Changing, CacheSteps, Alters
<1> QED
  BY <1>1 DEF Change, Anyway

\* A change and its evictions.
LEMMA Evictions ==
  ASSUME NEW b, NEW p, Good(b, p), NEW c \in CacheChanges, NEW d, d \in {Change(c), Anyway(c)},
         NEW x \in FileNames \cup {Dir}, NEW y \in FileNames \cup {Dir}
  PROVE  Owing(b, p \o d \o Evict(x) \o Evict(y), (Stale(b, c) \ {x}) \ {y}, 1) /\ Open(p \o d \o Evict(x) \o Evict(y))
PROOF
<1>1. PICK s \in CacheSteps : d = <<s>> /\ Alters(s) /\ s.change = c
  BY ChangeSteps
<1>2. Owing(b, p \o d, Stale(b, c), 1) /\ Open(p \o d)
  BY <1>1, OweChange
<1>3. Owing(b, p \o d \o Evict(x), Stale(b, c) \ {x}, 1) /\ Open(p \o d \o Evict(x))
  BY <1>2, OweEvict
<1> QED
  BY <1>3, OweEvict

LEMMA StaleAre ==
  ASSUME NEW b, NEW n \in FileNames, NEW m \in FileNames
  PROVE  /\ Save(n) \in CacheChanges /\ Removal(n) \in CacheChanges
         /\ CopyTo(n, m) \in CacheChanges /\ MoveTo(n, m) \in CacheChanges
         /\ Stale(b, Save(n)) \subseteq {Dir, n} /\ Stale(b, Removal(n)) \subseteq {Dir, n}
         /\ Stale(b, CopyTo(n, m)) \subseteq {Dir, m} /\ Stale(b, MoveTo(n, m)) \subseteq {Dir, n, m}
         /\ b \in {"gdrive", "onedrive"} => Stale(b, MoveTo(n, m)) \subseteq {Dir, n}
BY DEF Save, Removal, CopyTo, MoveTo, CacheChanges, Stale

\* What becomes of one file, and of two.
LEMMA GoodChanges ==
  ASSUME NEW b, NEW p, Good(b, p), NEW n \in FileNames, NEW m \in FileNames
  PROVE  /\ \A d \in {Change(Save(n)), Change(Removal(n)), Anyway(Removal(n))} :
              /\ Good(b, p \o d \o Evict(n) \o Evict(Dir))
              /\ Good(b, p \o d \o Evict(Dir) \o Evict(n))
         /\ \A d \in {Change(CopyTo(n, m)), Anyway(CopyTo(n, m))} : Good(b, p \o d \o Evict(m) \o Evict(Dir))
         /\ \A d \in {Change(MoveTo(n, m)), Anyway(MoveTo(n, m))} :
              Good(b, p \o d \o Evict(m) \o Evict(Dir) \o Evict(n) \o Evict(Dir))
         /\ b \in {"gdrive", "onedrive"} =>
              Good(b, p \o Change(MoveTo(n, m)) \o Evict(Dir) \o Evict(n) \o Evict(Dir))
PROOF
<1> DEFINE D == FileNames \cup {Dir}
<1>1. n \in D /\ m \in D /\ Dir \in D
  OBVIOUS
<1>2. ASSUME NEW c \in CacheChanges, NEW d, d \in {Change(c), Anyway(c)}, NEW x \in D, NEW y \in D
      PROVE  /\ Owing(b, p \o d \o Evict(x) \o Evict(y), (Stale(b, c) \ {x}) \ {y}, 1)
             /\ Open(p \o d \o Evict(x) \o Evict(y))
  BY <1>2, Evictions
<1>3. ASSUME NEW c \in CacheChanges, NEW d, d \in {Change(c), Anyway(c)}, NEW x \in D, NEW y \in D,
             Stale(b, c) \subseteq {x, y}
      PROVE  Good(b, p \o d \o Evict(x) \o Evict(y))
  <2>1. (Stale(b, c) \ {x}) \ {y} = {}
    BY <1>3
  <2> QED
    BY <1>2, <1>3, <2>1 DEF Good
<1>4. ASSUME NEW d \in {Change(Save(n)), Change(Removal(n)), Anyway(Removal(n))}
      PROVE  /\ Good(b, p \o d \o Evict(n) \o Evict(Dir))
             /\ Good(b, p \o d \o Evict(Dir) \o Evict(n))
  <2>1. PICK c \in {Save(n), Removal(n)} : d \in {Change(c), Anyway(c)}
    BY <1>4
  <2>2. c \in CacheChanges /\ Stale(b, c) \subseteq {Dir, n} /\ Stale(b, c) \subseteq {n, Dir}
    BY StaleAre
  <2> QED
    BY <1>1, <1>3, <2>1, <2>2
<1>5. ASSUME NEW d \in {Change(CopyTo(n, m)), Anyway(CopyTo(n, m))}
      PROVE  Good(b, p \o d \o Evict(m) \o Evict(Dir))
  <2>1. CopyTo(n, m) \in CacheChanges /\ Stale(b, CopyTo(n, m)) \subseteq {m, Dir}
    BY StaleAre
  <2> QED
    BY <1>1, <1>3, <2>1
<1>6. ASSUME NEW d \in {Change(MoveTo(n, m)), Anyway(MoveTo(n, m))}
      PROVE  Good(b, p \o d \o Evict(m) \o Evict(Dir) \o Evict(n) \o Evict(Dir))
  <2> DEFINE c == MoveTo(n, m)  q == p \o d \o Evict(m) \o Evict(Dir)  X == (Stale(b, c) \ {m}) \ {Dir}
  <2>1. c \in CacheChanges /\ X \subseteq {n}
    BY StaleAre
  <2>2. Owing(b, q, X, 1) /\ Open(q)
    BY <1>1, <1>2, <2>1
  <2> HIDE DEF q, X
  <2>3. Owing(b, q \o Evict(n), X \ {n}, 1) /\ Open(q \o Evict(n))
    BY <1>1, <2>2, OweEvict
  <2>4. Owing(b, q \o Evict(n) \o Evict(Dir), (X \ {n}) \ {Dir}, 1)
    BY <1>1, <2>3, OweEvict
  <2>5. (X \ {n}) \ {Dir} = {}
    BY <2>1
  <2> QED
    BY <2>4, <2>5 DEF Good, q
<1>7. ASSUME b \in {"gdrive", "onedrive"}
      PROVE  Good(b, p \o Change(MoveTo(n, m)) \o Evict(Dir) \o Evict(n) \o Evict(Dir))
  <2> DEFINE c == MoveTo(n, m)  q == p \o Change(c) \o Evict(Dir) \o Evict(n)  X == (Stale(b, c) \ {Dir}) \ {n}
  <2>1. c \in CacheChanges /\ X = {}
    BY <1>7, StaleAre
  <2>2. Owing(b, q, X, 1) /\ Open(q)
    BY <1>1, <1>2, <2>1
  <2> HIDE DEF q, X
  <2>3. Owing(b, q \o Evict(Dir), X \ {Dir}, 1)
    BY <1>1, <2>2, OweEvict
  <2>4. X \ {Dir} = {}
    BY <2>1
  <2> QED
    BY <2>3, <2>4 DEF Good, q
<1> QED
  BY <1>4, <1>5, <1>6, <1>7

\* A program of which nothing has gone before.
LEMMA FromNothing ==
  ASSUME NEW c \in CacheChanges, NEW d, d \in {Change(c), Anyway(c)}
  PROVE  <<>> \o d = d
PROOF
<1>1. PICK s \in CacheSteps : d = <<s>>
  BY ChangeSteps
<1>2. <<s>> \in Seq(CacheSteps)
  OBVIOUS
<1> QED
  BY <1>1, <1>2, ConcatEmptySeq

LEMMA FtpGood ==
  ASSUME NEW n \in FileNames, NEW m \in FileNames, NEW forced \in BOOLEAN
  PROVE  LET b == "ftp" IN Good(b, FtpSave(n, forced)) /\ Good(b, FtpMove(n, m, forced)) /\ Good(b, FtpDelete(n))
PROOF
<1> DEFINE b == "ftp"
<1> HIDE DEF b
<1>1. Good(b, New(n, forced)) /\ Good(b, New(m, forced)) /\ Good(b, Get(n))
  BY GoodLooks
<1>2. Good(b, FtpSave(n, forced))
  <2> DEFINE q == New(n, forced) \o Change(Save(n)) \o Evict(n) \o Evict(Dir)
  <2>1. Good(b, q)
    BY <1>1, GoodChanges
  <2> HIDE DEF q
  <2>2. Good(b, q \o Get(n))
    BY <2>1, GoodLooks
  <2> QED
    BY <2>2 DEF q, FtpSave
<1>3. Good(b, FtpMove(n, m, forced))
  <2> DEFINE q == New(m, forced) \o Change(MoveTo(n, m)) \o Evict(m) \o Evict(Dir) \o Evict(n) \o Evict(Dir)
  <2>1. Good(b, q)
    BY <1>1, GoodChanges
  <2> HIDE DEF q
  <2>2. Good(b, q \o Get(m))
    BY <2>1, GoodLooks
  <2> QED
    BY <2>2 DEF q, FtpMove
<1>4. Good(b, FtpDelete(n))
  <2> DEFINE q == Get(n) \o <<Step("exists", n)>>
  <2>1. Good(b, q)
    BY <1>1, PlainSteps, PlainAfter
  <2> HIDE DEF q
  <2>2. Good(b, q \o Change(Removal(n)) \o Evict(Dir) \o Evict(n))
    BY <2>1, GoodChanges
  <2> QED
    BY <2>2 DEF q, FtpDelete
<1> QED
  BY <1>2, <1>3, <1>4 DEF b

LEMMA SftpGood ==
  ASSUME NEW n \in FileNames, NEW m \in FileNames, NEW forced \in BOOLEAN
  PROVE  LET b == "sftp" IN Good(b, SftpSave(n, forced)) /\ Good(b, SftpMove(n, m, forced)) /\ Good(b, SftpDelete(n))
PROOF
<1> DEFINE b == "sftp"
<1> HIDE DEF b
<1>1. Good(b, New(n, forced)) /\ Good(b, New(m, forced)) /\ Good(b, Get(n))
  BY GoodLooks
<1>2. Good(b, SftpSave(n, forced))
  <2> DEFINE q == New(n, forced) \o Change(Save(n)) \o Evict(n) \o Evict(Dir)
  <2>1. Good(b, q)
    BY <1>1, GoodChanges
  <2> HIDE DEF q
  <2>2. Good(b, q \o Get(n))
    BY <2>1, GoodLooks
  <2> QED
    BY <2>2 DEF q, SftpSave
<1>3. Good(b, SftpMove(n, m, forced))
  <2> DEFINE q == New(m, forced) \o Change(MoveTo(n, m)) \o Evict(m) \o Evict(Dir) \o Evict(n) \o Evict(Dir)
  <2>1. Good(b, q)
    BY <1>1, GoodChanges
  <2> HIDE DEF q
  <2>2. Good(b, q \o Get(m))
    BY <2>1, GoodLooks
  <2> QED
    BY <2>2 DEF q, SftpMove
<1>4. Good(b, SftpDelete(n))
  <2> DEFINE q == Get(n) \o <<Step("exists", n)>>
  <2>1. Good(b, q)
    BY <1>1, PlainSteps, PlainAfter
  <2> HIDE DEF q
  <2>2. Good(b, q \o Change(Removal(n)) \o Evict(Dir) \o Evict(n))
    BY <2>1, GoodChanges
  <2> QED
    BY <2>2 DEF q, SftpDelete
<1> QED
  BY <1>2, <1>3, <1>4 DEF b

LEMMA S3Good ==
  ASSUME NEW n \in FileNames, NEW m \in FileNames, NEW forced \in BOOLEAN
  PROVE  LET b == "s3" IN
         /\ Good(b, S3Save(n, forced)) /\ Good(b, S3Copy(n, m, forced)) /\ Good(b, S3Move(n, m, forced))
         /\ Good(b, S3Delete(n)) /\ Good(b, S3Upload(n))
PROOF
<1> DEFINE b == "s3"
<1> HIDE DEF b
<1>1. Good(b, New(n, forced)) /\ Good(b, New(m, forced)) /\ Good(b, Get(n)) /\ Good(b, <<>>)
  BY GoodLooks
<1>2. Good(b, S3Save(n, forced))
  <2> DEFINE q == New(n, forced) \o Change(Save(n)) \o Evict(n) \o Evict(Dir)
  <2>1. Good(b, q)
    BY <1>1, GoodChanges
  <2> HIDE DEF q
  <2>2. Good(b, q \o Get(n))
    BY <2>1, GoodLooks
  <2> QED
    BY <2>2 DEF q, S3Save
<1>3. Good(b, S3Copy(n, m, forced))
  <2>1. Good(b, New(m, forced) \o Change(CopyTo(n, m)) \o Evict(m) \o Evict(Dir))
    BY <1>1, GoodChanges
  <2> QED
    BY <2>1 DEF S3Copy
<1>4. Good(b, S3Delete(n))
  <2> DEFINE q == Get(n) \o <<Step("exists", n)>>
  <2>1. Good(b, q)
    BY <1>1, PlainSteps, PlainAfter
  <2> HIDE DEF q
  <2>2. Good(b, q \o Anyway(Removal(n)) \o Evict(Dir) \o Evict(n))
    BY <2>1, GoodChanges
  <2> QED
    BY <2>2 DEF q, S3Delete, S3DeleteObject
<1>5. Good(b, S3Move(n, m, forced))
  <2> DEFINE p == S3Copy(n, m, forced)  g == Get(n)  e == <<Step("exists", n)>>  d == Anyway(Removal(n))
  <2>1. Good(b, p \o g) /\ Good(b, p)
    BY <1>3, GoodLooks
  <2>2. Good(b, p \o g \o e)
    BY <2>1, PlainSteps, PlainAfter
  <2>3. Good(b, p \o g \o e \o d \o Evict(n) \o Evict(Dir))
    BY <2>2, GoodChanges
  <2>4. p \in Seq(CacheSteps) /\ g \in Seq(CacheSteps) /\ e \in Seq(CacheSteps) /\ d \in Seq(CacheSteps)
    <3>1. p \in Seq(CacheSteps) /\ g \in Seq(CacheSteps)
      BY <1>1, <2>1 DEF Good, Owing
    <3>2. e \in Seq(CacheSteps)
      BY PlainSteps, OnePlain DEF Good, Owing
    <3>3. Removal(n) \in CacheChanges
      BY StaleAre
    <3>4. \E s \in CacheSteps : d = <<s>>
      BY <3>3, ChangeSteps
    <3> QED
      BY <3>1, <3>2, <3>4
  <2> HIDE DEF p, g, e, d
  <2>5. g \o e \in Seq(CacheSteps)
    BY <2>4, JoinMeans
  <2>6. p \o g \o e = p \o (g \o e)
    BY <2>4, ConcatAssociative
  <2>7. p \o (g \o e) \o d = p \o (g \o e \o d)
    <3> DEFINE ge == g \o e
    <3>1. ge \in Seq(CacheSteps)
      BY <2>5
    <3> HIDE DEF ge
    <3>2. p \in Seq(CacheSteps) /\ d \in Seq(CacheSteps)
      BY <2>4
    <3>3. (p \o ge) \o d = p \o (ge \o d)
      BY <3>1, <3>2, JoinedTwice
    <3> QED
      BY <3>3 DEF ge
  <2>8. Good(b, p \o (g \o e \o d) \o Evict(n) \o Evict(Dir))
    BY <2>3, <2>6, <2>7
  <2> QED
    BY <2>8 DEF S3Move, S3DeleteObject, p, g, e, d
<1>6. Good(b, S3Upload(n))
  <2>1. Good(b, <<>> \o Change(Save(n)) \o Evict(n) \o Evict(Dir))
    BY <1>1, GoodChanges
  <2>2. <<>> \o Change(Save(n)) = Change(Save(n))
    BY StaleAre, FromNothing
  <2> QED
    BY <2>1, <2>2 DEF S3Upload
<1> QED
  BY <1>2, <1>3, <1>4, <1>5, <1>6 DEF b

LEMMA GdriveGood ==
  ASSUME NEW n \in FileNames, NEW m \in FileNames, NEW forced \in BOOLEAN
  PROVE  LET b == "gdrive" IN
         /\ Good(b, GdriveSave(n, forced)) /\ Good(b, GdriveCopy(n, m)) /\ Good(b, GdriveMove(n, m))
         /\ Good(b, GdriveDelete(n))
PROOF
<1> DEFINE b == "gdrive"
<1>1. b \in {"gdrive", "onedrive"}
  OBVIOUS
<1> HIDE DEF b
<1>2. Good(b, New(m, FALSE)) /\ Good(b, Get(n)) /\ Good(b, <<>>)
  BY GoodLooks
<1>3. Good(b, GdriveSave(n, forced))
  <2> DEFINE q == Get(n) \o (IF forced THEN <<>> ELSE <<Step("absent", n)>>)
  <2>1. Good(b, q)
    <3>1. CASE forced
      <4>1. Get(n) \o <<>> = Get(n)
        <5>1. Get(n) \in Seq(CacheSteps)
          BY <1>2 DEF Good, Owing
        <5> QED
          BY <5>1, ConcatEmptySeq
      <4>2. q = Get(n) \o <<>>
        BY <3>1
      <4> QED
        BY <1>2, <4>1, <4>2
    <3>2. CASE ~forced
      <4>1. q = Get(n) \o <<Step("absent", n)>>
        BY <3>2
      <4>2. Good(b, Get(n) \o <<Step("absent", n)>>)
        BY <1>2, PlainSteps, PlainAfter
      <4> QED
        BY <4>1, <4>2
    <3> QED
      BY <3>1, <3>2
  <2> HIDE DEF q
  <2>2. Good(b, q \o Change(Save(n)) \o Evict(Dir) \o Evict(n))
    BY <2>1, GoodChanges
  <2> QED
    BY <2>2 DEF q, GdriveSave
<1>4. Good(b, GdriveCopy(n, m))
  <2>1. Good(b, New(m, FALSE) \o Change(CopyTo(n, m)) \o Evict(m) \o Evict(Dir))
    BY <1>2, GoodChanges
  <2> QED
    BY <2>1 DEF GdriveCopy
<1>5. Good(b, GdriveMove(n, m))
  <2>1. Good(b, New(m, FALSE) \o Change(MoveTo(n, m)) \o Evict(Dir) \o Evict(n) \o Evict(Dir))
    BY <1>1, <1>2, GoodChanges
  <2> QED
    BY <2>1 DEF GdriveMove
<1>6. Good(b, GdriveDelete(n))
  <2> DEFINE q == Get(n) \o <<Step("exists", n)>>
  <2>1. Good(b, q)
    BY <1>2, PlainSteps, PlainAfter
  <2> HIDE DEF q
  <2>2. Good(b, q \o Change(Removal(n)) \o Evict(n) \o Evict(Dir))
    BY <2>1, GoodChanges
  <2> QED
    BY <2>2 DEF q, GdriveDelete
<1> QED
  BY <1>3, <1>4, <1>5, <1>6 DEF b

LEMMA OnedriveGood ==
  ASSUME NEW n \in FileNames, NEW m \in FileNames, NEW forced \in BOOLEAN
  PROVE  LET b == "onedrive" IN
         /\ Good(b, OnedriveSave(n, forced)) /\ Good(b, OnedriveCopy(n, m)) /\ Good(b, OnedriveMove(n, m))
         /\ Good(b, OnedriveDelete(n)) /\ Good(b, OnedriveUpload(n)) /\ Good(b, OnedriveURL(n))
PROOF
<1> DEFINE b == "onedrive"
<1>1. b \in {"gdrive", "onedrive"}
  OBVIOUS
<1> HIDE DEF b
<1>2. Good(b, New(m, FALSE)) /\ Good(b, Get(n)) /\ Good(b, <<>>)
  BY GoodLooks
<1>3. Good(b, OnedriveSave(n, forced))
  <2> DEFINE q == Get(n) \o (IF forced THEN <<>> ELSE <<Step("absent", n)>>)
  <2>1. Good(b, q)
    <3>1. CASE forced
      <4>1. Get(n) \o <<>> = Get(n)
        <5>1. Get(n) \in Seq(CacheSteps)
          BY <1>2 DEF Good, Owing
        <5> QED
          BY <5>1, ConcatEmptySeq
      <4>2. q = Get(n) \o <<>>
        BY <3>1
      <4> QED
        BY <1>2, <4>1, <4>2
    <3>2. CASE ~forced
      <4>1. q = Get(n) \o <<Step("absent", n)>>
        BY <3>2
      <4>2. Good(b, Get(n) \o <<Step("absent", n)>>)
        BY <1>2, PlainSteps, PlainAfter
      <4> QED
        BY <4>1, <4>2
    <3> QED
      BY <3>1, <3>2
  <2> HIDE DEF q
  <2>2. Good(b, q \o Change(Save(n)) \o Evict(Dir) \o Evict(n))
    BY <2>1, GoodChanges
  <2> QED
    BY <2>2 DEF q, OnedriveSave
<1>4. Good(b, OnedriveCopy(n, m))
  <2> DEFINE q == New(m, FALSE) \o Change(CopyTo(n, m)) \o Evict(m) \o Evict(Dir)
  <2>1. Good(b, q)
    BY <1>2, GoodChanges
  <2> HIDE DEF q
  <2>2. Good(b, q \o Get(m))
    BY <2>1, GoodLooks
  <2> QED
    BY <2>2 DEF q, OnedriveCopy
<1>5. Good(b, OnedriveMove(n, m))
  <2>1. Good(b, New(m, FALSE) \o Change(MoveTo(n, m)) \o Evict(Dir) \o Evict(n) \o Evict(Dir))
    BY <1>1, <1>2, GoodChanges
  <2> QED
    BY <2>1 DEF OnedriveMove
<1>6. Good(b, OnedriveDelete(n))
  <2> DEFINE q == Get(n) \o <<Step("exists", n)>>
  <2>1. Good(b, q)
    BY <1>2, PlainSteps, PlainAfter
  <2> HIDE DEF q
  <2>2. Good(b, q \o Change(Removal(n)) \o Evict(n) \o Evict(Dir))
    BY <2>1, GoodChanges
  <2> QED
    BY <2>2 DEF q, OnedriveDelete
<1>7. Good(b, OnedriveUpload(n))
  <2>1. Good(b, <<>> \o Change(Save(n)) \o Evict(n) \o Evict(Dir))
    BY <1>2, GoodChanges
  <2>2. <<>> \o Change(Save(n)) = Change(Save(n))
    BY StaleAre, FromNothing
  <2> QED
    BY <2>1, <2>2 DEF OnedriveUpload
<1>8. Good(b, OnedriveURL(n))
  <2> DEFINE s == Step("exists", n)  t == Step("put", n)  e == <<s, t>>
  <2>1. Plain(s) /\ Plain(t)
    BY PlainSteps
  <2> HIDE DEF s, t
  <2>2. e \in Seq(CacheSteps) /\ Len(e) = 2 /\ e[1] = s /\ e[2] = t
    BY <2>1 DEF Plain
  <2> HIDE DEF e
  <2>3. \A i \in 1 .. Len(e) : e[i].do # "evict" /\ ~Alters(e[i]) /\ ~Answers(e[i])
    <3>1. \A i \in 1 .. Len(e) : i = 1 \/ i = 2
      BY <2>2
    <3> QED
      BY <2>1, <2>2, <3>1 DEF Plain
  <2>4. Good(b, e) /\ (Len(e) > 0 => e[1].do # "evict")
    BY <2>1, <2>2, <2>3, GoodPlain DEF Plain
  <2>5. Good(b, Get(n) \o e)
    BY <1>2, <2>4, GoodJoin DEF Good
  <2> QED
    BY <2>5 DEF OnedriveURL, e, s, t
<1> QED
  BY <1>3, <1>4, <1>5, <1>6, <1>7, <1>8 DEF b

LEMMA WebdavGood ==
  ASSUME NEW n \in FileNames, NEW m \in FileNames, NEW forced \in BOOLEAN
  PROVE  LET b == "webdav" IN
         /\ Good(b, WebdavSave(n, forced)) /\ Good(b, WebdavCopy(n, m)) /\ Good(b, WebdavMove(n, m))
         /\ Good(b, WebdavDelete(n))
PROOF
<1> DEFINE b == "webdav"
<1> HIDE DEF b
<1>1. Good(b, New(n, forced)) /\ Good(b, <<>>)
  BY GoodLooks
<1>2. Good(b, WebdavSave(n, forced))
  <2> DEFINE q == New(n, forced) \o Change(Save(n)) \o Evict(Dir) \o Evict(n)
  <2>1. Good(b, q)
    BY <1>1, GoodChanges
  <2> HIDE DEF q
  <2>2. Good(b, q \o Get(n))
    BY <2>1, GoodLooks
  <2> QED
    BY <2>2 DEF q, WebdavSave
<1>3. Good(b, WebdavCopy(n, m))
  <2> DEFINE q == Anyway(CopyTo(n, m)) \o Evict(m) \o Evict(Dir)
  <2>1. Good(b, <<>> \o Anyway(CopyTo(n, m)) \o Evict(m) \o Evict(Dir))
    BY <1>1, GoodChanges
  <2>2. <<>> \o Anyway(CopyTo(n, m)) = Anyway(CopyTo(n, m))
    BY StaleAre, FromNothing
  <2>3. Good(b, q)
    BY <2>1, <2>2
  <2> HIDE DEF q
  <2>4. Good(b, q \o Get(m))
    BY <2>3, GoodLooks
  <2> QED
    BY <2>4 DEF q, WebdavCopy
<1>4. Good(b, WebdavMove(n, m))
  <2> DEFINE q == Anyway(MoveTo(n, m)) \o Evict(m) \o Evict(Dir) \o Evict(n) \o Evict(Dir)
  <2>1. Good(b, <<>> \o Anyway(MoveTo(n, m)) \o Evict(m) \o Evict(Dir) \o Evict(n) \o Evict(Dir))
    BY <1>1, GoodChanges
  <2>2. <<>> \o Anyway(MoveTo(n, m)) = Anyway(MoveTo(n, m))
    BY StaleAre, FromNothing
  <2>3. Good(b, q)
    BY <2>1, <2>2
  <2> HIDE DEF q
  <2>4. Good(b, q \o Get(m))
    BY <2>3, GoodLooks
  <2> QED
    BY <2>4 DEF q, WebdavMove
<1>5. Good(b, WebdavDelete(n))
  <2>1. Good(b, <<>> \o Change(Removal(n)) \o Evict(n) \o Evict(Dir))
    BY <1>1, GoodChanges
  <2>2. <<>> \o Change(Removal(n)) = Change(Removal(n))
    BY StaleAre, FromNothing
  <2> QED
    BY <2>1, <2>2 DEF WebdavDelete
<1> QED
  BY <1>2, <1>3, <1>4, <1>5 DEF b

LEMMA OperationsGood ==
  ASSUME NEW b \in Backends, NEW n \in FileNames, NEW m \in FileNames, NEW p \in Operations(b, n, m)
  PROVE  Good(b, p)
PROOF
<1>1. CASE b = "ftp"
  <2>1. Operations(b, n, m) = {FtpSave(n, TRUE), FtpMove(n, m, FALSE), FtpMove(n, m, TRUE), FtpDelete(n)}
    BY <1>1 DEF Operations
  <2> QED
    BY <1>1, <2>1, FtpGood
<1>2. CASE b = "sftp"
  <2>1. Operations(b, n, m) = {SftpSave(n, TRUE), SftpMove(n, m, TRUE), SftpDelete(n)}
    BY <1>2 DEF Operations
  <2> QED
    BY <1>2, <2>1, SftpGood
<1>3. CASE b = "s3"
  <2>1. Operations(b, n, m) = {S3Save(n, FALSE), S3Copy(n, m, TRUE), S3Move(n, m, FALSE), S3Delete(n), S3Upload(n)}
    BY <1>3 DEF Operations
  <2> QED
    BY <1>3, <2>1, S3Good
<1>4. CASE b = "gdrive"
  <2>1. Operations(b, n, m) = {GdriveSave(n, TRUE), GdriveCopy(n, m), GdriveMove(n, m), GdriveDelete(n)}
    BY <1>4 DEF Operations
  <2> QED
    BY <1>4, <2>1, GdriveGood
<1>5. CASE b = "onedrive"
  <2>1. Operations(b, n, m) = {OnedriveSave(n, FALSE), OnedriveCopy(n, m), OnedriveMove(n, m),
                               OnedriveDelete(n), OnedriveUpload(n), OnedriveURL(n)}
    BY <1>5 DEF Operations
  <2> QED
    BY <1>5, <2>1, OnedriveGood
<1>6. CASE b = "webdav"
  <2>1. Operations(b, n, m) = {WebdavSave(n, FALSE), WebdavCopy(n, m), WebdavMove(n, m), WebdavDelete(n)}
    BY <1>6 DEF Operations
  <2> QED
    BY <1>6, <2>1, WebdavGood
<1> QED
  BY <1>1, <1>2, <1>3, <1>4, <1>5, <1>6, DriveCacheAssumption
-----------------------------------------------------------------------------
(* The caches of the drives: what a request has left.                          *)

LEMMA TailMeans ==
  ASSUME NEW S, NEW p \in Seq(S), p # <<>>
  PROVE  /\ Len(p) \in Nat \ {0} /\ Head(p) = p[1] /\ p[1] \in S
         /\ Tail(p) \in Seq(S) /\ Len(Tail(p)) = Len(p) - 1 /\ \A i \in 1 .. Len(p) - 1 : Tail(p)[i] = p[i + 1]
BY HeadTailProperties

\* What is left of a program from some step on.
LEMMA GoodRest ==
  ASSUME NEW b, NEW p, Kept(b, p), NEW k \in 1 .. Len(p), NEW q \in Seq(CacheSteps),
         Len(q) = Len(p) - k, \A i \in 1 .. Len(p) - k : q[i] = p[i + k]
  PROVE  Good(b, q)
PROOF
<1>1. p \in Seq(CacheSteps) /\ Len(p) \in Nat
  BY DEF Kept, Owing
<1>2. ASSUME NEW i \in 2 .. Len(q), q[i].do = "evict"
      PROVE  q[i - 1].do = "evict" \/ Alters(q[i - 1])
  <2>1. i + k \in 2 .. Len(p) /\ i \in 1 .. Len(p) - k /\ i - 1 \in 1 .. Len(p) - k /\ (i - 1) + k = (i + k) - 1
    BY <1>1
  <2>2. p[i + k].do = "evict" => p[(i + k) - 1].do = "evict" \/ Alters(p[(i + k) - 1])
    BY <2>1 DEF Kept, Owing
  <2> QED
    BY <1>2, <2>1, <2>2
<1>3. ASSUME NEW i \in 1 .. Len(q)
      PROVE  ~Answers(q[i])
  <2>1. i + k \in 2 .. Len(p) /\ i \in 1 .. Len(p) - k
    BY <1>1
  <2> QED
    BY <2>1 DEF Kept, Owing
<1>4. ASSUME NEW i \in 1 .. Len(q), Alters(q[i]), NEW x \in Stale(b, q[i].change)
      PROVE  Follows(q, i, x)
  <2>1. i + k \in 1 .. Len(p) /\ q[i] = p[i + k]
    BY <1>1
  <2>2. Follows(p, i + k, x)
    BY <1>4, <2>1 DEF Kept, Owing
  <2>3. PICK h \in (i + k) + 1 .. Len(p) :
          p[h].do = "evict" /\ p[h].x = x /\ \A j \in (i + k) + 1 .. h : p[j].do = "evict"
    BY <2>2 DEF Follows
  <2>4. h - k \in i + 1 .. Len(q) /\ h - k \in 1 .. Len(p) - k /\ (h - k) + k = h
    BY <1>1, <2>1
  <2>5. \A j \in i + 1 .. h - k : j \in 1 .. Len(p) - k /\ j + k \in (i + k) + 1 .. h
    BY <1>1, <2>1, <2>4
  <2>6. q[h - k] = p[h] /\ \A j \in i + 1 .. h - k : q[j].do = "evict"
    BY <2>3, <2>4, <2>5
  <2> QED
    BY <2>3, <2>4, <2>6 DEF Follows
<1> QED
  BY <1>2, <1>3, <1>4 DEF Good, Owing

LEMMA GoodIsKept == \A b, p : Good(b, p) => Kept(b, p)
PROOF
<1> TAKE b, p
<1> SUFFICES ASSUME Good(b, p)
             PROVE  Kept(b, p)
  OBVIOUS
<1>1. \A i \in 2 .. Len(p) : i \in 1 .. Len(p)
  BY DEF Good, Owing
<1> QED
  BY <1>1 DEF Good, Kept, Owing

\* A request that has something left.
LEMMA GoodTail ==
  ASSUME NEW b, NEW p, Kept(b, p), p # <<>>
  PROVE  /\ Good(b, Tail(p)) /\ p \in Seq(CacheSteps) /\ p[1] \in CacheSteps /\ Head(p) = p[1]
         /\ Len(Tail(p)) > 0 /\ Tail(p)[1].do = "evict" => p[1].do = "evict" \/ Alters(p[1])
PROOF
<1> DEFINE q == Tail(p)
<1>1. p \in Seq(CacheSteps)
  BY DEF Kept, Owing
<1>2. /\ Len(p) \in Nat \ {0} /\ Head(p) = p[1] /\ p[1] \in CacheSteps
      /\ q \in Seq(CacheSteps) /\ Len(q) = Len(p) - 1 /\ \A i \in 1 .. Len(p) - 1 : q[i] = p[i + 1]
  BY <1>1, TailMeans
<1> HIDE DEF q
<1>3. 1 \in 1 .. Len(p)
  BY <1>2
<1>4. Good(b, q)
  BY <1>2, <1>3, GoodRest
<1>5. ASSUME Len(q) > 0, q[1].do = "evict"
      PROVE  p[1].do = "evict" \/ Alters(p[1])
  <2>1. 2 \in 2 .. Len(p) /\ 1 \in 1 .. Len(p) - 1 /\ 1 + 1 = 2 /\ 2 - 1 = 1
    BY <1>2, <1>5
  <2>2. p[2].do = "evict"
    BY <1>2, <1>5, <2>1
  <2>3. p[2].do = "evict" => p[2 - 1].do = "evict" \/ Alters(p[2 - 1])
    BY <2>1 DEF Kept, Owing
  <2> QED
    BY <2>1, <2>2, <2>3
<1> QED
  BY <1>1, <1>2, <1>4, <1>5 DEF q

\* Steps before what is left.
LEMMA KeptOn ==
  ASSUME NEW b, NEW p, Kept(b, p), p # <<>>, NEW e, NEW k \in {1, 2}, Owing(b, e, {}, k),
         e = <<>> \/ (p[1].do # "evict" /\ ~Alters(p[1]))
  PROVE  Owing(b, e \o Tail(p), {}, k)
PROOF
<1>1. /\ Good(b, Tail(p))
      /\ Len(Tail(p)) > 0 /\ Tail(p)[1].do = "evict" => p[1].do = "evict" \/ Alters(p[1])
  BY GoodTail
<1>2. CASE e = <<>>
  <2>1. e \o Tail(p) = Tail(p)
    BY <1>1, <1>2, ConcatEmptySeq DEF Good, Owing
  <2>2. Kept(b, Tail(p))
    BY <1>1, GoodIsKept
  <2> QED
    BY <1>1, <2>1, <2>2 DEF Good, Kept
<1>3. CASE e # <<>>
  BY <1>1, <1>3, GoodJoin
<1> QED
  BY <1>2, <1>3

\* The evictions that follow whatever happens.
LEMMA FinishGood ==
  ASSUME NEW b, NEW p, Kept(b, p)
  PROVE  Good(b, IF Rest(p) = <<>> THEN <<>> ELSE Tail(Rest(p)))
PROOF
<1>1. CASE Rest(p) = <<>>
  BY <1>1, GoodNothing
<1>2. CASE Rest(p) # <<>>
  <2> DEFINE anyway == {i \in DOMAIN p : p[i].do = "anyway" /\ \A j \in 1 .. i : p[j].do # "change"}
             k == CHOOSE i \in anyway : TRUE
             q == SubSeq(p, k, Len(p))
  <2>1. anyway # {} /\ Rest(p) = q
    BY <1>2 DEF Rest
  <2>2. p \in Seq(CacheSteps) /\ Len(p) \in Nat /\ k \in 1 .. Len(p)
    <3>1. p \in Seq(CacheSteps)
      BY DEF Kept, Owing
    <3>2. k \in anyway
      BY <2>1
    <3> HIDE DEF k
    <3> QED
      BY <3>1, <3>2
  <2> HIDE DEF k
  <2>3. q \in Seq(CacheSteps) /\ Len(q) = Len(p) - k + 1 /\ \A i \in 1 .. Len(p) - k + 1 : q[i] = p[k + i - 1]
    <3>1. \A i \in k .. Len(p) : p[i] \in CacheSteps
      BY <2>2, ElementOfSeq
    <3>2. /\ SubSeq(p, k, Len(p)) \in Seq(CacheSteps)
          /\ Len(SubSeq(p, k, Len(p))) = IF k <= Len(p) THEN Len(p) - k + 1 ELSE 0
          /\ \A i \in 1 .. Len(p) - k + 1 : SubSeq(p, k, Len(p))[i] = p[k + i - 1]
      BY <2>2, <3>1, SubSeqProperties
    <3>3. k <= Len(p)
      BY <2>2
    <3> QED
      BY <3>2, <3>3
  <2> HIDE DEF q, anyway
  <2> DEFINE t == Tail(q)
  <2>4. /\ t \in Seq(CacheSteps) /\ Len(t) = Len(q) - 1 /\ \A i \in 1 .. Len(q) - 1 : t[i] = q[i + 1]
    BY <1>2, <2>1, <2>3, TailMeans
  <2> HIDE DEF t
  <2>5. Len(t) = Len(p) - k
    BY <2>2, <2>3, <2>4
  <2>6. ASSUME NEW i \in 1 .. Len(p) - k
        PROVE  t[i] = p[i + k]
    <3>1. i \in 1 .. Len(q) - 1 /\ i + 1 \in 1 .. Len(p) - k + 1 /\ k + (i + 1) - 1 = i + k
      BY <2>2, <2>3
    <3> QED
      BY <2>3, <2>4, <3>1
  <2>7. Good(b, t)
    BY <2>2, <2>4, <2>5, <2>6, GoodRest
  <2> QED
    BY <1>2, <2>1, <2>7 DEF t
<1> QED
  BY <1>1, <1>2
-----------------------------------------------------------------------------
(* The caches of the drives: what is still to be evicted.                      *)

Due(p, x) == \E i \in 1 .. Len(p) : p[i].do = "evict" /\ p[i].x = x /\ \A j \in 1 .. i : ~Alters(p[j])

LEMMA PendingIsDue ==
  ASSUME \A r \in Requests : prog[r] \in Seq(CacheSteps)
  PROVE  \A x : Pending(x) <=> \E r \in Requests : Due(prog[r], x)
PROOF
<1> TAKE x
<1>1. ASSUME NEW r \in Requests
      PROVE  (\E i \in DOMAIN prog[r] :
                prog[r][i].do = "evict" /\ prog[r][i].x = x /\ \A j \in 1 .. i : prog[r][j].do \notin {"change", "anyway"})
             <=> Due(prog[r], x)
  <2>1. DOMAIN prog[r] = 1 .. Len(prog[r])
    OBVIOUS
  <2> QED
    BY <2>1 DEF Due, Alters
<1> QED
  BY <1>1 DEF Pending

LEMMA PendingIsDueNext ==
  ASSUME \A r \in Requests : prog'[r] \in Seq(CacheSteps)
  PROVE  \A x : Pending(x)' <=> \E r \in Requests : Due(prog'[r], x)
PROOF
<1> TAKE x
<1>1. ASSUME NEW r \in Requests
      PROVE  (\E i \in DOMAIN prog'[r] :
                prog'[r][i].do = "evict" /\ prog'[r][i].x = x /\ \A j \in 1 .. i : prog'[r][j].do \notin {"change", "anyway"})
             <=> Due(prog'[r], x)
  <2>1. DOMAIN prog'[r] = 1 .. Len(prog'[r])
    OBVIOUS
  <2> QED
    BY <2>1 DEF Due, Alters
<1> QED
  BY <1>1 DEF Pending

\* Who is not about to evict has nothing due.
LEMMA NothingDue ==
  ASSUME NEW b, NEW p, Kept(b, p), p = <<>> \/ p[1].do # "evict", NEW x
  PROVE  ~Due(p, x)
PROOF
<1> SUFFICES ASSUME Due(p, x)
             PROVE  FALSE
  OBVIOUS
<1> DEFINE T == {i \in 1 .. Len(p) : p[i].do = "evict" /\ \A j \in 1 .. i : ~Alters(p[j])}
<1>1. p \in Seq(CacheSteps) /\ Len(p) \in Nat
  BY DEF Kept, Owing
<1>2. T # {} /\ T \in SUBSET Nat
  BY <1>1 DEF Due
<1>3. PICK i \in T : \A k \in T : ~(k < i)
  <2> HIDE DEF T
  <2> QED
    BY <1>2, LeastNumber
<1>4. i \in 1 .. Len(p) /\ p[i].do = "evict" /\ \A j \in 1 .. i : ~Alters(p[j])
  OBVIOUS
<1>5. p # <<>> /\ i # 1
  BY <1>1, <1>4
<1>6. i \in 2 .. Len(p) /\ i - 1 \in 1 .. Len(p) /\ i - 1 \in 1 .. i /\ \A j \in 1 .. i - 1 : j \in 1 .. i
  BY <1>1, <1>4, <1>5
<1>7. p[i - 1].do = "evict" \/ Alters(p[i - 1])
  BY <1>4, <1>6 DEF Kept, Owing
<1>8. i - 1 \in T
  BY <1>4, <1>6, <1>7
<1> QED
  BY <1>3, <1>6, <1>8

\* After an eviction the others are still due; after a change all that it made stale is.
LEMMA StillDue ==
  ASSUME NEW b, NEW p, Kept(b, p), p # <<>>, NEW x
  PROVE  /\ p[1].do = "evict" /\ p[1].x # x /\ Due(p, x) => Due(Tail(p), x)
         /\ Alters(p[1]) /\ x \in Stale(b, p[1].change) => Due(Tail(p), x)
PROOF
<1> DEFINE q == Tail(p)
<1>1. p \in Seq(CacheSteps)
  BY DEF Kept, Owing
<1>2. /\ Len(p) \in Nat \ {0} /\ Len(q) = Len(p) - 1 /\ \A i \in 1 .. Len(p) - 1 : q[i] = p[i + 1]
  BY <1>1, TailMeans
<1> HIDE DEF q
<1>3. ASSUME p[1].do = "evict", p[1].x # x, Due(p, x)
      PROVE  Due(q, x)
  <2>1. PICK i \in 1 .. Len(p) : p[i].do = "evict" /\ p[i].x = x /\ \A j \in 1 .. i : ~Alters(p[j])
    BY <1>3 DEF Due
  <2>2. i # 1
    BY <1>3, <2>1
  <2>3. i - 1 \in 1 .. Len(q) /\ i - 1 \in 1 .. Len(p) - 1 /\ (i - 1) + 1 = i
    BY <1>2, <2>2
  <2>4. \A j \in 1 .. i - 1 : j \in 1 .. Len(p) - 1 /\ j + 1 \in 1 .. i
    BY <1>2, <2>3
  <2>5. q[i - 1] = p[i] /\ \A j \in 1 .. i - 1 : ~Alters(q[j])
    BY <1>2, <2>1, <2>3, <2>4
  <2> QED
    BY <2>1, <2>3, <2>5 DEF Due
<1>4. ASSUME Alters(p[1]), x \in Stale(b, p[1].change)
      PROVE  Due(q, x)
  <2>1. 1 \in 1 .. Len(p)
    BY <1>2
  <2>2. Follows(p, 1, x)
    BY <1>4, <2>1 DEF Kept, Owing
  <2>3. PICK k \in 1 + 1 .. Len(p) : p[k].do = "evict" /\ p[k].x = x /\ \A j \in 1 + 1 .. k : p[j].do = "evict"
    BY <2>2 DEF Follows
  <2>4. k - 1 \in 1 .. Len(q) /\ k - 1 \in 1 .. Len(p) - 1 /\ (k - 1) + 1 = k
    BY <1>2
  <2>5. \A j \in 1 .. k - 1 : j \in 1 .. Len(p) - 1 /\ j + 1 \in 1 + 1 .. k
    BY <1>2, <2>4
  <2>6. q[k - 1] = p[k] /\ \A j \in 1 .. k - 1 : q[j].do = "evict"
    BY <1>2, <2>3, <2>4, <2>5
  <2>7. \A j \in 1 .. k - 1 : ~Alters(q[j])
    BY <2>6 DEF Alters
  <2> QED
    BY <2>3, <2>4, <2>6, <2>7 DEF Due
<1> QED
  BY <1>3, <1>4 DEF q
-----------------------------------------------------------------------------
(* The caches of the drives: the inductive invariant.                          *)

\* Whatever is not what the server has is still to be evicted, the names of the children
\* too, complete or not.
FreshInv ==
  late \/ broken \/
    /\ \A n \in FileNames : entry[n] \in {Absent, remote[n]} \/ Pending(n)
    /\ names = Unknown \/ names = There(remote) \/ Pending(Dir)

CacheTypes ==
  /\ backend \in Backends /\ store \in {"mem", "db"} /\ writes \in Nat
  /\ remote \in [FileNames -> 0 .. writes] /\ entry \in [FileNames -> 0 .. writes]
  /\ data \in [Requests -> [FileNames -> 0 .. writes]]
  /\ names \subseteq FileNames \/ names = Unknown
  /\ listed \in [Requests -> SUBSET FileNames]

Programs == prog \in [Requests -> Seq(CacheSteps)] /\ \A r \in Requests : Kept(backend, prog[r])

CacheInv == CacheTypes /\ Programs /\ FreshInv /\ ListingsAreWhole

LEMMA StepType ==
  ASSUME NEW s \in CacheSteps
  PROVE  /\ s.do \in {"entry", "stat", "put", "pick", "absent", "exists"} => s.x \in FileNames
         /\ s.do \in {"names", "children", "answer", "replaced", "fetch", "put entries", "put names"} => s.x = Dir
         /\ s.do = "evict" => s.x \in FileNames \cup {Dir}
         /\ Alters(s) => s.change \in CacheChanges
BY DEF CacheSteps, Alters

\* Who has a step to take.
LEMMA Ready ==
  ASSUME Programs, NEW r \in Requests, Next1(r).do # "idle"
  PROVE  /\ prog[r] # <<>> /\ Kept(backend, prog[r]) /\ Next1(r) = prog[r][1] /\ prog[r][1] \in CacheSteps
         /\ Good(backend, Tail(prog[r]))
PROOF
<1>1. prog[r] # <<>>
  BY DEF Next1, Step
<1>2. Kept(backend, prog[r])
  BY DEF Programs
<1>3. prog[r][1] \in CacheSteps /\ Head(prog[r]) = prog[r][1] /\ Good(backend, Tail(prog[r]))
  BY <1>1, <1>2, GoodTail
<1> QED
  BY <1>1, <1>2, <1>3 DEF Next1

\* A request went on, and nobody answers what it did not.
Advanced(r) ==
  /\ Programs'
  /\ (\A s \in Requests \ {r} : data'[s] = data[s] /\ listed'[s] = listed[s]) => ListingsAreWhole'

LEMMA Advancing ==
  ASSUME CacheInv, NEW r \in Requests, NEW q, Good(backend, q), prog' = [prog EXCEPT ![r] = q],
         UNCHANGED <<backend, store>>
  PROVE  Advanced(r)
PROOF
<1>1. q \in Seq(CacheSteps) /\ Kept(backend, q)
  BY GoodIsKept DEF Good, Owing
<1>2. /\ prog \in [Requests -> Seq(CacheSteps)] /\ prog'[r] = q
      /\ \A s \in Requests \ {r} : prog'[s] = prog[s]
  BY DEF CacheInv, Programs
<1>3. prog' \in [Requests -> Seq(CacheSteps)]
  BY <1>1, <1>2
<1>4. \A s \in Requests : Kept(backend', prog'[s])
  BY <1>1, <1>2 DEF CacheInv, Programs
<1>5. ASSUME \A s \in Requests \ {r} : data'[s] = data[s] /\ listed'[s] = listed[s]
      PROVE  ListingsAreWhole'
  <2>1. Next1(r)'.do \notin {"answer", "replaced"}
    <3>1. CASE q = <<>>
      BY <1>2, <3>1 DEF Next1, Step
    <3>2. CASE q # <<>>
      <4>1. Head(q) = q[1] /\ 1 \in 1 .. Len(q)
        BY <1>1, <3>2, TailMeans
      <4>2. ~Answers(q[1])
        BY <4>1 DEF Good, Owing
      <4>3. Next1(r)' = q[1]
        BY <1>2, <3>2, <4>1 DEF Next1
      <4> QED
        BY <4>2, <4>3 DEF Answers
    <3> QED
      BY <3>1, <3>2
  <2>2. \A s \in Requests \ {r} : Next1(s)' = Next1(s)
    BY <1>2 DEF Next1
  <2>3. ListingsAreWhole
    BY DEF CacheInv
  <2> QED
    BY <1>5, <2>1, <2>2, <2>3 DEF ListingsAreWhole
<1> QED
  BY <1>3, <1>4, <1>5 DEF Advanced, Programs

\* What was to be evicted still is, when who goes on was not about to.
LEMMA PendingStays ==
  ASSUME CacheInv, Programs', NEW r \in Requests, NEW q, prog' = [prog EXCEPT ![r] = q],
         prog[r] = <<>> \/ prog[r][1].do # "evict"
  PROVE  \A x : Pending(x) => Pending(x)'
PROOF
<1> TAKE x
<1>1. Pending(x) <=> \E s \in Requests : Due(prog[s], x)
  BY PendingIsDue DEF CacheInv, Programs
<1>2. Pending(x)' <=> \E s \in Requests : Due(prog'[s], x)
  <2>1. \A s \in Requests : prog'[s] \in Seq(CacheSteps)
    BY DEF Programs
  <2>2. \A y : Pending(y)' <=> \E s \in Requests : Due(prog'[s], y)
    BY <2>1, PendingIsDueNext
  <2> QED
    BY <2>2
<1>3. ~Due(prog[r], x)
  <2>1. Kept(backend, prog[r])
    BY DEF CacheInv, Programs
  <2> QED
    BY <2>1, NothingDue
<1>4. \A s \in Requests \ {r} : prog'[s] = prog[s]
  BY DEF CacheInv, Programs
<1> QED
  BY <1>1, <1>2, <1>3, <1>4

LEMMA FreshStays ==
  ASSUME CacheInv, UNCHANGED <<remote, entry, names, late, broken>>, \A x : Pending(x) => Pending(x)'
  PROVE  FreshInv'
BY DEF CacheInv, FreshInv, There

\* A request goes on with some more steps, or ends.
LEMMA GoesOn ==
  ASSUME CacheInv, NEW r \in Requests, Next1(r).do \notin {"idle", "evict"}, UNCHANGED <<backend, store>>,
         Finish(r) \/ \E e : Good(backend, e) /\ Continue(r, e) /\ (e = <<>> \/ ~Alters(Next1(r)))
  PROVE  Advanced(r) /\ \A x : Pending(x) => Pending(x)'
PROOF
<1>1. /\ prog[r] # <<>> /\ Kept(backend, prog[r]) /\ Next1(r) = prog[r][1] /\ prog[r][1] \in CacheSteps
  BY Ready DEF CacheInv
<1>2. PICK q : Good(backend, q) /\ prog' = [prog EXCEPT ![r] = q]
  <2>1. CASE Finish(r)
    <3> DEFINE q == IF Rest(prog[r]) = <<>> THEN <<>> ELSE Tail(Rest(prog[r]))
    <3>1. Good(backend, q)
      BY <1>1, FinishGood
    <3>2. prog' = [prog EXCEPT ![r] = q]
      BY <2>1 DEF Finish
    <3> HIDE DEF q
    <3> QED
      BY <3>1, <3>2
  <2>2. CASE \E e : Good(backend, e) /\ Continue(r, e) /\ (e = <<>> \/ ~Alters(Next1(r)))
    <3>1. PICK e : Good(backend, e) /\ Continue(r, e) /\ (e = <<>> \/ ~Alters(Next1(r)))
      BY <2>2
    <3> DEFINE q == e \o Tail(prog[r])
    <3>2. Owing(backend, q, {}, 1)
      <4>1. Owing(backend, e, {}, 1) /\ (e = <<>> \/ (prog[r][1].do # "evict" /\ ~Alters(prog[r][1])))
        BY <1>1, <3>1 DEF Good
      <4> QED
        BY <1>1, <4>1, KeptOn
    <3>3. prog' = [prog EXCEPT ![r] = q]
      BY <3>1 DEF Continue
    <3> HIDE DEF q
    <3> QED
      BY <3>2, <3>3 DEF Good
  <2> QED
    BY <2>1, <2>2
<1>3. Advanced(r)
  BY <1>2, Advancing
<1>4. Programs'
  BY <1>3 DEF Advanced
<1> QED
  BY <1>1, <1>2, <1>3, <1>4, PendingStays

\* ... and changes nothing but what it has read.
LEMMA LooksOn ==
  ASSUME CacheInv, NEW r \in Requests, Next1(r).do \notin {"idle", "evict"},
         Finish(r) \/ \E e : Good(backend, e) /\ Continue(r, e) /\ (e = <<>> \/ ~Alters(Next1(r))),
         UNCHANGED <<backend, store, remote, entry, names, writes, late, broken>>,
         data' \in [Requests -> [FileNames -> 0 .. writes]], listed' \in [Requests -> SUBSET FileNames],
         \A s \in Requests \ {r} : data'[s] = data[s] /\ listed'[s] = listed[s]
  PROVE  CacheInv'
PROOF
<1>1. Advanced(r) /\ \A x : Pending(x) => Pending(x)'
  BY GoesOn
<1>2. FreshInv'
  BY <1>1, FreshStays
<1>3. CacheTypes'
  BY DEF CacheInv, CacheTypes
<1> QED
  BY <1>1, <1>2, <1>3 DEF CacheInv, Advanced

LEMMA NextSteps ==
  ASSUME NEW b
  PROVE  /\ Good(b, <<>>) /\ Good(b, <<Step("fetch", Dir)>>) /\ Good(b, <<Step("children", Dir)>>)
         /\ Good(b, <<Step("put entries", Dir), Step("put names", Dir)>>)
         /\ \A n \in FileNames : Good(b, <<Step("put", n)>>) /\ Good(b, Miss(n))
PROOF
<1>1. Good(b, <<>>)
  BY GoodNothing
<1>2. Good(b, <<Step("fetch", Dir)>>) /\ Good(b, <<Step("children", Dir)>>)
  BY PlainSteps, OnePlain
<1>3. Good(b, <<Step("put entries", Dir), Step("put names", Dir)>>)
  <2> DEFINE s == Step("put entries", Dir)  t == Step("put names", Dir)  e == <<s, t>>
  <2>1. Plain(s) /\ Plain(t)
    BY PlainSteps
  <2> HIDE DEF s, t
  <2>2. e \in Seq(CacheSteps) /\ Len(e) = 2 /\ e[1] = s /\ e[2] = t
    BY <2>1 DEF Plain
  <2> HIDE DEF e
  <2>3. \A i \in 1 .. Len(e) : i = 1 \/ i = 2
    BY <2>2
  <2>4. \A i \in 1 .. Len(e) : e[i].do # "evict" /\ ~Alters(e[i]) /\ ~Answers(e[i])
    BY <2>1, <2>2, <2>3 DEF Plain
  <2>5. Good(b, e)
    BY <2>2, <2>4, GoodPlain
  <2> QED
    BY <2>5 DEF e, s, t
<1>4. ASSUME NEW n \in FileNames
      PROVE  Good(b, <<Step("put", n)>>) /\ Good(b, Miss(n))
  <2>1. Good(b, <<Step("put", n)>>) /\ Good(b, <<Step("stat", n)>>)
    BY PlainSteps, OnePlain
  <2>2. Good(b, List)
    BY GoodLooks
  <2>3. Good(b, List \o <<Step("pick", n)>>)
    BY <2>2, PlainSteps, PlainAfter
  <2> QED
    BY <2>1, <2>3 DEF Miss
<1> QED
  BY <1>1, <1>2, <1>3, <1>4

LEMMA StartKeeps ==
  ASSUME CacheInv, NEW r \in Requests, Start(r)
  PROVE  CacheInv'
PROOF
<1>1. PICK n, m \in FileNames : \E p \in {Get(n), List} \cup Operations(backend, n, m) : prog' = [prog EXCEPT ![r] = p]
  BY DEF Start
<1>2. PICK p \in {Get(n), List} \cup Operations(backend, n, m) : prog' = [prog EXCEPT ![r] = p]
  BY <1>1
<1>3. prog[r] = <<>> /\ UNCHANGED <<backend, store, remote, entry, names, data, listed, writes, late, broken>>
  BY DEF Start
<1>4. Good(backend, p)
  <2>1. CASE p \in {Get(n), List}
    BY <2>1, GoodLooks
  <2>2. CASE p \in Operations(backend, n, m)
    BY <2>2, OperationsGood DEF CacheInv, CacheTypes
  <2> QED
    BY <2>1, <2>2
<1>5. Advanced(r)
  BY <1>2, <1>3, <1>4, Advancing
<1>6. Programs' /\ ListingsAreWhole'
  BY <1>3, <1>5 DEF Advanced
<1>7. \A x : Pending(x) => Pending(x)'
  BY <1>2, <1>3, <1>6, PendingStays
<1>8. FreshInv' /\ CacheTypes'
  BY <1>3, <1>7, FreshStays DEF CacheInv, CacheTypes
<1> QED
  BY <1>6, <1>8 DEF CacheInv

LEMMA LookEntryKeeps ==
  ASSUME CacheInv, NEW r \in Requests, LookEntry(r)
  PROVE  CacheInv'
PROOF
<1> DEFINE n == Next1(r).x
<1>1. Next1(r).do = "entry" /\ UNCHANGED <<backend, store, remote, entry, names, listed, writes, late, broken>>
  BY DEF LookEntry
<1>2. Next1(r) \in CacheSteps
  BY <1>1, Ready DEF CacheInv
<1>3. n \in FileNames /\ ~Alters(Next1(r))
  BY <1>1, <1>2, StepType DEF Alters
<1>4. Good(backend, <<>>) /\ Good(backend, Miss(n))
  BY <1>3, NextSteps
<1>5. (data' = [data EXCEPT ![r][n] = entry[n]] /\ Continue(r, <<>>)) \/ (UNCHANGED data /\ Continue(r, Miss(n)))
  BY DEF LookEntry
<1>6. \E e : Good(backend, e) /\ Continue(r, e) /\ (e = <<>> \/ ~Alters(Next1(r)))
  BY <1>3, <1>4, <1>5
<1>7. /\ data' \in [Requests -> [FileNames -> 0 .. writes]] /\ listed' \in [Requests -> SUBSET FileNames]
      /\ \A s \in Requests \ {r} : data'[s] = data[s] /\ listed'[s] = listed[s]
  <2>1. /\ data \in [Requests -> [FileNames -> 0 .. writes]] /\ entry[n] \in 0 .. writes
        /\ listed \in [Requests -> SUBSET FileNames]
    BY <1>3 DEF CacheInv, CacheTypes
  <2> HIDE DEF n
  <2>2. CASE data' = [data EXCEPT ![r][n] = entry[n]]
    <3>1. data'[r] \in [FileNames -> 0 .. writes] /\ \A s \in Requests \ {r} : data'[s] = data[s]
      BY <1>3, <2>1, <2>2
    <3>2. data' \in [Requests -> [FileNames -> 0 .. writes]]
      BY <2>1, <2>2, <3>1
    <3> QED
      BY <1>1, <2>1, <3>1, <3>2
  <2>3. CASE UNCHANGED data
    BY <1>1, <2>1, <2>3
  <2> QED
    BY <1>5, <2>2, <2>3
<1> QED
  BY <1>1, <1>6, <1>7, LooksOn

LEMMA LookNamesKeeps ==
  ASSUME CacheInv, NEW r \in Requests, LookNames(r)
  PROVE  CacheInv'
PROOF
<1>1. Next1(r).do = "names" /\ UNCHANGED <<backend, store, remote, entry, names, data, writes, late, broken>>
  BY DEF LookNames
<1>2. ~Alters(Next1(r))
  BY <1>1 DEF Alters
<1>3. Good(backend, <<Step("fetch", Dir)>>) /\ Good(backend, <<Step("children", Dir)>>)
  BY NextSteps
<1>4. \/ Continue(r, <<Step("fetch", Dir)>>) /\ UNCHANGED listed
      \/ names # Unknown /\ Continue(r, <<Step("children", Dir)>>) /\ listed' = [listed EXCEPT ![r] = names]
  BY DEF LookNames
<1>5. \E e : Good(backend, e) /\ Continue(r, e) /\ (e = <<>> \/ ~Alters(Next1(r)))
  BY <1>2, <1>3, <1>4
<1>6. names # Unknown => names \subseteq FileNames
  BY DEF CacheInv, CacheTypes
<1>7. /\ data' \in [Requests -> [FileNames -> 0 .. writes]] /\ listed' \in [Requests -> SUBSET FileNames]
      /\ \A s \in Requests \ {r} : data'[s] = data[s] /\ listed'[s] = listed[s]
  BY <1>1, <1>4, <1>6 DEF CacheInv, CacheTypes
<1> QED
  BY <1>1, <1>5, <1>7, LooksOn

\* What is answered from the cache is what was listed, unless the names were replaced.
LEMMA LookChildrenKeeps ==
  ASSUME CacheInv, NEW r \in Requests, LookChildren(r)
  PROVE  CacheInv'
PROOF
<1> DEFINE kids == IF store = "db" THEN listed[r] ELSE IF names = Unknown THEN {} ELSE names
           s == Step(IF names = listed[r] THEN "answer" ELSE "replaced", Dir)
           v == [n \in FileNames |-> IF n \in kids THEN entry[n] ELSE Absent]
<1>1. /\ Next1(r).do = "children"
      /\ UNCHANGED <<backend, store, remote, entry, names, listed, writes, late, broken>>
  BY DEF LookChildren
<1>2. ~Alters(Next1(r))
  BY <1>1 DEF Alters
<1>3. CASE Continue(r, <<Step("fetch", Dir)>>) /\ UNCHANGED data
  <2>1. \E e : Good(backend, e) /\ Continue(r, e) /\ (e = <<>> \/ ~Alters(Next1(r)))
    BY <1>2, <1>3, NextSteps
  <2>2. /\ data' \in [Requests -> [FileNames -> 0 .. writes]] /\ listed' \in [Requests -> SUBSET FileNames]
        /\ \A t \in Requests \ {r} : data'[t] = data[t] /\ listed'[t] = listed[t]
    BY <1>1, <1>3 DEF CacheInv, CacheTypes
  <2> QED
    BY <1>1, <2>1, <2>2, LooksOn
<1>4. CASE (\A n \in kids : entry[n] # Absent) /\ data' = [data EXCEPT ![r] = v] /\ Continue(r, <<s>>)
  <2>1. kids \subseteq FileNames /\ listed[r] \subseteq FileNames
    BY DEF CacheInv, CacheTypes
  <2>2. There(v) = kids
    BY <1>4, <2>1 DEF There
  <2>3. v \in [FileNames -> 0 .. writes]
    BY DEF CacheInv, CacheTypes, Absent
  <2>4. kids = listed[r] \/ (store = "mem" /\ names # listed[r])
    BY <2>1, DriveCacheAssumption DEF CacheInv, CacheTypes, Unknown
  <2> HIDE DEF kids, v
  <2>5. /\ prog[r] # <<>> /\ Kept(backend, prog[r]) /\ Next1(r) = prog[r][1] /\ prog[r] \in Seq(CacheSteps)
    BY <1>1, Ready DEF CacheInv, Programs
  <2>6. s \in CacheSteps /\ s.do # "evict" /\ ~Alters(s) /\ s.do = (IF names = listed[r] THEN "answer" ELSE "replaced")
    BY DEF Step, CacheSteps, Alters
  <2> HIDE DEF s
  <2> DEFINE e == <<s>>  q == e \o Tail(prog[r])
  <2>7. Owing(backend, e, {}, 2) /\ e \in Seq(CacheSteps) /\ Len(e) = 1 /\ e[1] = s
    <3>1. e \in Seq(CacheSteps) /\ Len(e) = 1 /\ e[1] = s
      BY <2>6
    <3> HIDE DEF e
    <3>2. (\A i \in 1 .. Len(e) : e[i] = s) /\ \A i \in 2 .. Len(e) : FALSE
      BY <3>1
    <3> QED
      BY <2>6, <3>1, <3>2 DEF Owing
  <2>8. Kept(backend, q)
    <3>1. prog[r][1].do # "evict" /\ ~Alters(prog[r][1])
      BY <1>1, <1>2, <2>5
    <3> HIDE DEF e
    <3> QED
      BY <2>5, <2>7, <3>1, KeptOn DEF Kept
  <2>9. q # <<>> /\ q \in Seq(CacheSteps) /\ Head(q) = s
    <3>1. Tail(prog[r]) \in Seq(CacheSteps)
      BY <2>5, TailMeans
    <3> QED
      BY <2>6, <3>1, OneBefore
  <2>10. prog' = [prog EXCEPT ![r] = q]
    BY <1>4 DEF Continue
  <2> HIDE DEF q
  <2>11. Programs'
    BY <1>1, <2>8, <2>9, <2>10 DEF CacheInv, Programs
  <2>12. \A x : Pending(x) => Pending(x)'
    BY <1>1, <2>5, <2>10, <2>11, PendingStays
  <2>13. FreshInv'
    BY <1>1, <2>12, FreshStays
  <2>14. CacheTypes'
    BY <1>1, <1>4, <2>3 DEF CacheInv, CacheTypes
  <2>15. ListingsAreWhole'
    <3>1. Next1(r)' = s
      BY <2>9, <2>10 DEF Next1, CacheInv, Programs
    <3>2. data'[r] = v /\ \A t \in Requests \ {r} : data'[t] = data[t]
      BY <1>4 DEF CacheInv, CacheTypes
    <3>3. \A t \in Requests \ {r} : Next1(t)' = Next1(t)
      BY <2>10 DEF Next1, CacheInv, Programs
    <3>4. There(data'[r]) = listed[r] \/ (store = "mem" /\ s.do = "replaced")
      BY <2>2, <2>4, <2>6, <3>2
    <3>5. ListingsAreWhole
      BY DEF CacheInv
    <3> QED
      BY <1>1, <3>1, <3>2, <3>3, <3>4, <3>5 DEF ListingsAreWhole, There
  <2> QED
    BY <2>11, <2>13, <2>14, <2>15 DEF CacheInv
<1> QED
  BY <1>3, <1>4 DEF LookChildren

LEMMA AnswerKeeps ==
  ASSUME CacheInv, NEW r \in Requests, Answer(r) \/ Pick(r) \/ Check(r)
  PROVE  CacheInv'
PROOF
<1>1. /\ Next1(r).do \in {"answer", "replaced", "pick", "absent", "exists"}
      /\ UNCHANGED <<backend, store, remote, entry, names, data, listed, writes, late, broken>>
  BY DEF Answer, Pick, Check
<1>2. Next1(r) \in CacheSteps
  BY <1>1, Ready DEF CacheInv
<1>3. ~Alters(Next1(r)) /\ (Next1(r).do = "pick" => Next1(r).x \in FileNames)
  BY <1>1, <1>2, StepType DEF Alters
<1>4. Finish(r) \/ Continue(r, <<>>) \/ (Next1(r).do = "pick" /\ Continue(r, <<Step("put", Next1(r).x)>>))
  BY DEF Answer, Pick, Check
<1>5. Finish(r) \/ \E e : Good(backend, e) /\ Continue(r, e) /\ (e = <<>> \/ ~Alters(Next1(r)))
  BY <1>3, <1>4, NextSteps
<1>6. /\ data' \in [Requests -> [FileNames -> 0 .. writes]] /\ listed' \in [Requests -> SUBSET FileNames]
      /\ \A s \in Requests \ {r} : data'[s] = data[s] /\ listed'[s] = listed[s]
  BY <1>1 DEF CacheInv, CacheTypes
<1> QED
  BY <1>1, <1>5, <1>6, LooksOn

LEMMA FetchKeeps ==
  ASSUME CacheInv, NEW r \in Requests, Fetch(r)
  PROVE  CacheInv'
PROOF
<1> DEFINE n == Next1(r).x
<1>1. /\ Next1(r).do \in {"fetch", "stat"}
      /\ UNCHANGED <<backend, store, remote, entry, names, listed, writes, late, broken>>
  BY DEF Fetch
<1>2. Next1(r) \in CacheSteps
  BY <1>1, Ready DEF CacheInv
<1>3. ~Alters(Next1(r)) /\ (n = Dir \/ n \in FileNames)
  BY <1>1, <1>2, StepType DEF Alters
<1>4. \/ Finish(r) /\ UNCHANGED data
      \/ /\ data' = [data EXCEPT ![r] = remote]
         /\ Continue(r, IF n = Dir THEN <<Step("put entries", Dir), Step("put names", Dir)>>
                        ELSE IF remote[n] = Absent THEN <<>> ELSE <<Step("put", n)>>)
  BY DEF Fetch
<1> DEFINE e == IF n = Dir THEN <<Step("put entries", Dir), Step("put names", Dir)>>
                ELSE IF remote[n] = Absent THEN <<>> ELSE <<Step("put", n)>>
<1>5. Good(backend, e)
  BY <1>3, NextSteps
<1>6. Finish(r) \/ \E e1 : Good(backend, e1) /\ Continue(r, e1) /\ (e1 = <<>> \/ ~Alters(Next1(r)))
  <2>1. Finish(r) \/ Continue(r, e)
    BY <1>4
  <2> HIDE DEF e
  <2> QED
    BY <1>3, <1>5, <2>1
<1>7. /\ data' \in [Requests -> [FileNames -> 0 .. writes]] /\ listed' \in [Requests -> SUBSET FileNames]
      /\ \A s \in Requests \ {r} : data'[s] = data[s] /\ listed'[s] = listed[s]
  BY <1>1, <1>4 DEF CacheInv, CacheTypes
<1> QED
  BY <1>1, <1>6, <1>7, LooksOn

\* What is put is what the server has, or is still to be evicted, or is late.
LEMMA PutKeeps ==
  ASSUME CacheInv, NEW r \in Requests, Put(r)
  PROVE  CacheInv'
PROOF
<1>1. PICK n : /\ n = Next1(r).x
      /\ Next1(r).do = "put" /\ UNCHANGED <<backend, store, remote, names, data, listed, writes, broken>>
      /\ entry' = [entry EXCEPT ![n] = data[r][n]]
      /\ late' = (late \/ (data[r][n] # remote[n] /\ ~Pending(n))) /\ Continue(r, <<>>)
  BY DEF Put
<1>2. Next1(r) \in CacheSteps
  BY <1>1, Ready DEF CacheInv
<1>3. n \in FileNames
  BY <1>1, <1>2, StepType
<1>4. Advanced(r) /\ \A x : Pending(x) => Pending(x)'
  BY <1>1, NextSteps, GoesOn
<1>5. entry'[n] = data[r][n] /\ (\A k \in FileNames \ {n} : entry'[k] = entry[k]) /\ data[r][n] \in 0 .. writes
  BY <1>1, <1>3 DEF CacheInv, CacheTypes
<1>6. entry' \in [FileNames -> 0 .. writes]
  BY <1>1, <1>5 DEF CacheInv, CacheTypes
<1>7. ASSUME ~late', ~broken'
      PROVE  /\ \A k \in FileNames : entry'[k] \in {Absent, remote[k]} \/ Pending(k)'
             /\ names = Unknown \/ names = There(remote) \/ Pending(Dir)'
  <2>1. ~late /\ ~broken /\ (data[r][n] = remote[n] \/ Pending(n))
    BY <1>1, <1>7
  <2>2. /\ \A k \in FileNames : entry[k] \in {Absent, remote[k]} \/ Pending(k)
        /\ names = Unknown \/ names = There(remote) \/ Pending(Dir)
    BY <2>1 DEF CacheInv, FreshInv
  <2>3. entry'[n] = remote[n] \/ Pending(n)'
    BY <1>4, <1>5, <2>1
  <2> QED
    BY <1>4, <1>5, <2>2, <2>3
<1>8. FreshInv'
  BY <1>1, <1>7 DEF FreshInv, There
<1>9. CacheTypes'
  BY <1>1, <1>6 DEF CacheInv, CacheTypes
<1> QED
  BY <1>1, <1>4, <1>8, <1>9 DEF CacheInv, Advanced

LEMMA PutEntriesKeeps ==
  ASSUME CacheInv, NEW r \in Requests, PutEntries(r)
  PROVE  CacheInv'
PROOF
<1>1. /\ Next1(r).do = "put entries" /\ UNCHANGED <<backend, store, remote, names, data, listed, writes, broken>>
      /\ entry' = [n \in FileNames |-> IF data[r][n] # Absent THEN data[r][n] ELSE entry[n]]
      /\ late' = (late \/ \E n \in There(data[r]) : data[r][n] # remote[n] /\ ~Pending(n)) /\ Continue(r, <<>>)
  BY DEF PutEntries
<1>2. Advanced(r) /\ \A x : Pending(x) => Pending(x)'
  BY <1>1, NextSteps, GoesOn
<1>3. entry' \in [FileNames -> 0 .. writes]
  BY <1>1 DEF CacheInv, CacheTypes
<1>4. ASSUME ~late', ~broken'
      PROVE  /\ \A k \in FileNames : entry'[k] \in {Absent, remote[k]} \/ Pending(k)'
             /\ names = Unknown \/ names = There(remote) \/ Pending(Dir)'
  <2>1. ~late /\ ~broken /\ \A n \in There(data[r]) : data[r][n] = remote[n] \/ Pending(n)
    BY <1>1, <1>4
  <2>2. /\ \A k \in FileNames : entry[k] \in {Absent, remote[k]} \/ Pending(k)
        /\ names = Unknown \/ names = There(remote) \/ Pending(Dir)
    BY <2>1 DEF CacheInv, FreshInv
  <2>3. ASSUME NEW k \in FileNames
        PROVE  entry'[k] \in {Absent, remote[k]} \/ Pending(k)'
    <3>1. CASE data[r][k] # Absent
      <4>1. entry'[k] = data[r][k] /\ k \in There(data[r])
        BY <1>1, <3>1 DEF There
      <4> QED
        BY <1>2, <2>1, <4>1
    <3>2. CASE data[r][k] = Absent
      <4>1. entry'[k] = entry[k]
        BY <1>1, <3>2
      <4> QED
        BY <1>2, <2>2, <4>1
    <3> QED
      BY <3>1, <3>2
  <2> QED
    BY <1>2, <2>2, <2>3
<1>5. FreshInv'
  BY <1>1, <1>4 DEF FreshInv, There
<1>6. CacheTypes'
  BY <1>1, <1>3 DEF CacheInv, CacheTypes
<1> QED
  BY <1>1, <1>2, <1>5, <1>6 DEF CacheInv, Advanced

LEMMA PutNamesKeeps ==
  ASSUME CacheInv, NEW r \in Requests, PutNames(r)
  PROVE  CacheInv'
PROOF
<1>1. /\ Next1(r).do = "put names" /\ UNCHANGED <<backend, store, remote, entry, data, listed, writes, broken>>
      /\ names' = There(data[r])
      /\ late' = (late \/ (There(data[r]) # There(remote) /\ ~Pending(Dir))) /\ Continue(r, <<>>)
  BY DEF PutNames
<1>2. Advanced(r) /\ \A x : Pending(x) => Pending(x)'
  BY <1>1, NextSteps, GoesOn
<1>3. names' \subseteq FileNames
  BY <1>1 DEF There
<1>4. ASSUME ~late', ~broken'
      PROVE  /\ \A k \in FileNames : entry[k] \in {Absent, remote[k]} \/ Pending(k)'
             /\ names' = There(remote) \/ Pending(Dir)'
  <2>1. ~late /\ ~broken /\ (names' = There(remote) \/ Pending(Dir))
    BY <1>1, <1>4
  <2>2. \A k \in FileNames : entry[k] \in {Absent, remote[k]} \/ Pending(k)
    BY <2>1 DEF CacheInv, FreshInv
  <2> QED
    BY <1>2, <2>1, <2>2
<1>5. FreshInv'
  <2>1. There(remote)' = There(remote)
    BY <1>1 DEF There
  <2> QED
    BY <1>1, <1>4, <2>1 DEF FreshInv
<1>6. CacheTypes'
  BY <1>1, <1>3 DEF CacheInv, CacheTypes
<1> QED
  BY <1>1, <1>2, <1>5, <1>6 DEF CacheInv, Advanced

\* What a change leaves as it was, makes stale, or makes of what was not there.
LEMMA DoneTouches ==
  ASSUME CacheTypes, NEW c \in CacheChanges, Possible(c)
  PROVE  /\ Done(c) \in [FileNames -> 0 .. writes + 1]
         /\ \A n \in FileNames : Done(c)[n] = remote[n] \/ n \in Stale(backend, c) \/ remote[n] = Absent
PROOF
<1>1. remote \in [FileNames -> 0 .. writes] /\ writes \in Nat
  BY DEF CacheTypes
<1>2. /\ c.op \in {"save", "delete", "copy", "move"} /\ c.from \in FileNames /\ c.to \in FileNames
      /\ (backend \in {"gdrive", "onedrive"} /\ c.op \in {"copy", "move"} => remote[c.to] = Absent)
  BY DEF CacheChanges, Possible
<1>3. remote \in [FileNames -> 0 .. writes + 1] /\ writes + 1 \in 0 .. writes + 1 /\ Absent \in 0 .. writes + 1
  BY <1>1 DEF Absent
<1>4. CASE c.op = "save"
  <2>1. Done(c) = [remote EXCEPT ![c.to] = writes + 1] /\ c.to \in Stale(backend, c)
    BY <1>4 DEF Done, Stale
  <2> QED
    BY <1>2, <1>3, <2>1
<1>5. CASE c.op = "delete"
  <2>1. Done(c) = [remote EXCEPT ![c.to] = Absent] /\ c.to \in Stale(backend, c)
    BY <1>5 DEF Done, Stale
  <2> QED
    BY <1>2, <1>3, <2>1
<1>6. CASE c.op = "copy"
  <2>1. Done(c) = [remote EXCEPT ![c.to] = writes + 1] /\ (c.to \in Stale(backend, c) \/ remote[c.to] = Absent)
    BY <1>2, <1>6 DEF Done, Stale
  <2> QED
    BY <1>2, <1>3, <2>1
<1>7. CASE c.op = "move"
  <2>1. /\ Done(c) = [remote EXCEPT ![c.to] = remote[c.from], ![c.from] = Absent]
        /\ c.from \in Stale(backend, c) /\ (c.to \in Stale(backend, c) \/ remote[c.to] = Absent)
    BY <1>2, <1>7 DEF Done, Stale
  <2> QED
    BY <1>2, <1>3, <2>1
<1> QED
  BY <1>2, <1>4, <1>5, <1>6, <1>7

\* After a change, the evictions of all that it made stale are due.
LEMMA ChangeRemoteKeeps ==
  ASSUME CacheInv, NEW r \in Requests, ChangeRemote(r)
  PROVE  CacheInv'
PROOF
<1> DEFINE c == Next1(r).change
<1>1. /\ Next1(r).do \in {"change", "anyway"}
      /\ UNCHANGED <<backend, store, entry, names, data, listed, late>>
  BY DEF ChangeRemote
<1>2. /\ prog[r] # <<>> /\ Kept(backend, prog[r]) /\ Next1(r) = prog[r][1] /\ Next1(r) \in CacheSteps
      /\ Good(backend, Tail(prog[r]))
  BY <1>1, Ready DEF CacheInv
<1>3. Alters(Next1(r)) /\ c \in CacheChanges
  BY <1>1, <1>2, StepType DEF Alters
<1>4. Finish(r) \/ Continue(r, <<>>)
  BY DEF ChangeRemote
<1>5. Advanced(r) /\ \A x : Pending(x) => Pending(x)'
  BY <1>1, <1>4, NextSteps, GoesOn
<1>6. CASE UNCHANGED <<remote, writes, broken>>
  <2>1. /\ data' \in [Requests -> [FileNames -> 0 .. writes]] /\ listed' \in [Requests -> SUBSET FileNames]
        /\ \A s \in Requests \ {r} : data'[s] = data[s] /\ listed'[s] = listed[s]
    BY <1>1 DEF CacheInv, CacheTypes
  <2> QED
    BY <1>1, <1>4, <1>6, <2>1, NextSteps, LooksOn
<1>7. CASE /\ Possible(c) /\ remote' = Done(c) /\ writes' = writes + 1
           /\ (Continue(r, <<>>) /\ UNCHANGED broken) \/ broken' = TRUE
  <2>1. /\ remote' \in [FileNames -> 0 .. writes']
        /\ \A n \in FileNames : remote'[n] = remote[n] \/ n \in Stale(backend, c) \/ remote[n] = Absent
    BY <1>3, <1>7, DoneTouches DEF CacheInv
  <2>2. CacheTypes'
    <3>1. writes \in Nat /\ 0 .. writes \subseteq 0 .. writes'
      BY <1>7 DEF CacheInv, CacheTypes
    <3> QED
      BY <1>1, <1>7, <2>1, <3>1 DEF CacheInv, CacheTypes
  <2>3. CASE broken' = TRUE
    <3>1. FreshInv'
      BY <2>3 DEF FreshInv
    <3> QED
      BY <1>1, <1>5, <2>2, <3>1 DEF CacheInv, Advanced
  <2>4. CASE Continue(r, <<>>) /\ UNCHANGED broken
    <3>1. ASSUME NEW x \in Stale(backend, c)
          PROVE  Pending(x)'
      <4>1. Due(Tail(prog[r]), x)
        BY <1>2, <1>3, StillDue
      <4>2. <<>> \o Tail(prog[r]) = Tail(prog[r])
        BY <1>2, ConcatEmptySeq DEF Good, Owing
      <4>3. prog'[r] = Tail(prog[r])
        BY <2>4, <4>2 DEF Continue, CacheInv, Programs
      <4>4. \A s \in Requests : prog'[s] \in Seq(CacheSteps)
        BY <1>5 DEF Advanced, Programs
      <4>5. \A y : Pending(y)' <=> \E s \in Requests : Due(prog'[s], y)
        BY <4>4, PendingIsDueNext
      <4>6. \E s \in Requests : Due(prog'[s], x)
        BY <4>1, <4>3
      <4> QED
        BY <4>5, <4>6
    <3>2. Pending(Dir)'
      BY <3>1 DEF Stale
    <3>3. ASSUME ~late, ~broken, NEW n \in FileNames
          PROVE  entry[n] \in {Absent, remote'[n]} \/ Pending(n)'
      <4>1. entry[n] \in {Absent, remote[n]} \/ Pending(n)'
        BY <1>5, <3>3 DEF CacheInv, FreshInv
      <4> QED
        BY <2>1, <3>1, <4>1
    <3>4. FreshInv'
      BY <1>1, <2>4, <3>2, <3>3 DEF FreshInv
    <3> QED
      BY <1>1, <1>5, <2>2, <3>4 DEF CacheInv, Advanced
  <2> QED
    BY <1>7, <2>3, <2>4
<1> QED
  BY <1>6, <1>7 DEF ChangeRemote

\* What was to be evicted and is not evicted now still is to be.
LEMMA EvictStepKeeps ==
  ASSUME CacheInv, NEW r \in Requests, EvictStep(r)
  PROVE  CacheInv'
PROOF
<1> DEFINE x == Next1(r).x
<1>1. /\ Next1(r).do = "evict" /\ Continue(r, <<>>)
      /\ UNCHANGED <<backend, store, remote, data, listed, writes, late, broken>>
      /\ \/ x = Dir /\ names' = Unknown /\ UNCHANGED entry
         \/ x # Dir /\ entry' = [entry EXCEPT ![x] = Absent] /\ UNCHANGED names
  BY DEF EvictStep
<1>2. /\ prog[r] # <<>> /\ Kept(backend, prog[r]) /\ Next1(r) = prog[r][1] /\ Next1(r) \in CacheSteps
      /\ Good(backend, Tail(prog[r]))
  BY <1>1, Ready DEF CacheInv
<1>3. x \in FileNames \cup {Dir} /\ x = prog[r][1].x /\ prog[r][1].do = "evict"
  BY <1>1, <1>2, StepType
<1> HIDE DEF x
<1> DEFINE q == Tail(prog[r])
<1>4. prog' = [prog EXCEPT ![r] = q]
  <2>1. <<>> \o Tail(prog[r]) = Tail(prog[r])
    BY <1>2, ConcatEmptySeq DEF Good, Owing
  <2> QED
    BY <1>1, <2>1 DEF Continue
<1>5. Advanced(r)
  <2>1. Good(backend, q)
    BY <1>2
  <2> HIDE DEF q
  <2> QED
    BY <1>1, <1>4, <2>1, Advancing
<1>6. ASSUME NEW y, y # x, Pending(y)
      PROVE  Pending(y)'
  <2>1. PICK s \in Requests : Due(prog[s], y)
    BY <1>6, PendingIsDue DEF CacheInv, Programs
  <2>2. Due(prog'[s], y)
    <3>1. CASE s = r
      <4>1. Due(q, y)
        BY <1>2, <1>3, <1>6, <2>1, <3>1, StillDue
      <4> HIDE DEF q
      <4>2. prog'[r] = q
        BY <1>4 DEF CacheInv, Programs
      <4> QED
        BY <3>1, <4>1, <4>2
    <3>2. CASE s # r
      <4> HIDE DEF q
      <4>1. prog'[s] = prog[s]
        BY <1>4, <3>2 DEF CacheInv, Programs
      <4> QED
        BY <2>1, <4>1
    <3> QED
      BY <3>1, <3>2
  <2>3. \A t \in Requests : prog'[t] \in Seq(CacheSteps)
    BY <1>5 DEF Advanced, Programs
  <2>4. \A z : Pending(z)' <=> \E t \in Requests : Due(prog'[t], z)
    BY <2>3, PendingIsDueNext
  <2>5. \E t \in Requests : Due(prog'[t], y)
    BY <2>2
  <2> QED
    BY <2>4, <2>5
<1>7. /\ entry' \in [FileNames -> 0 .. writes] /\ (\A n \in FileNames : entry'[n] = Absent \/ (n # x /\ entry'[n] = entry[n]))
      /\ names' = Unknown \/ (x # Dir /\ names' = names)
  <2>1. entry \in [FileNames -> 0 .. writes] /\ writes \in Nat
    BY DEF CacheInv, CacheTypes
  <2>2. CASE x = Dir
    BY <1>1, <2>1, <2>2, DriveCacheAssumption
  <2>3. CASE x # Dir
    BY <1>1, <1>3, <2>1, <2>3 DEF Absent
  <2> QED
    BY <2>2, <2>3
<1>8. ASSUME ~late, ~broken
      PROVE  /\ \A n \in FileNames : entry'[n] \in {Absent, remote[n]} \/ Pending(n)'
             /\ names' = Unknown \/ names' = There(remote) \/ Pending(Dir)'
  <2>1. /\ \A n \in FileNames : entry[n] \in {Absent, remote[n]} \/ Pending(n)
        /\ names = Unknown \/ names = There(remote) \/ Pending(Dir)
    BY <1>8 DEF CacheInv, FreshInv
  <2>2. ASSUME NEW n \in FileNames
        PROVE  entry'[n] \in {Absent, remote[n]} \/ Pending(n)'
    <3>1. CASE entry'[n] = Absent
      BY <3>1
    <3>2. CASE n # x /\ entry'[n] = entry[n]
      BY <1>6, <2>1, <3>2
    <3> QED
      BY <1>7, <3>1, <3>2
  <2>3. names' = Unknown \/ names' = There(remote) \/ Pending(Dir)'
    BY <1>6, <1>7, <2>1
  <2> QED
    BY <2>2, <2>3
<1>9. FreshInv'
  <2>1. There(remote)' = There(remote)
    BY <1>1 DEF There
  <2> QED
    BY <1>1, <1>8, <2>1 DEF FreshInv, Unknown
<1>10. CacheTypes'
  BY <1>1, <1>7 DEF CacheInv, CacheTypes, Unknown
<1> QED
  BY <1>1, <1>5, <1>9, <1>10 DEF CacheInv, Advanced

LEMMA ExpireKeeps ==
  ASSUME CacheInv, Expire
  PROVE  CacheInv'
PROOF
<1>1. UNCHANGED <<backend, store, remote, prog, data, listed, writes, late, broken>>
  BY DEF Expire
<1>2. /\ names' \in {names, Unknown} /\ entry' \in [FileNames -> 0 .. writes]
      /\ \A n \in FileNames : entry'[n] \in {Absent, entry[n]}
  <2>1. entry \in [FileNames -> 0 .. writes] /\ writes \in Nat
    BY DEF CacheInv, CacheTypes
  <2> QED
    BY <2>1 DEF Expire, Absent
<1>3. \A x : Pending(x)' <=> Pending(x)
  BY <1>1 DEF Pending
<1>4. FreshInv'
  <2>1. There(remote)' = There(remote) /\ Unknown' = Unknown
    BY <1>1 DEF There, Unknown
  <2>2. late \/ broken \/ (/\ \A n \in FileNames : entry[n] \in {Absent, remote[n]} \/ Pending(n)
                           /\ names = Unknown \/ names = There(remote) \/ Pending(Dir))
    BY DEF CacheInv, FreshInv
  <2> QED
    BY <1>1, <1>2, <1>3, <2>1, <2>2 DEF FreshInv
<1>5. CacheTypes' /\ Programs'
  BY <1>1, <1>2 DEF CacheInv, CacheTypes, Programs, Unknown
<1>6. ListingsAreWhole'
  <2>1. \A r \in Requests : Next1(r)' = Next1(r)
    BY <1>1 DEF Next1
  <2> QED
    BY <1>1, <2>1 DEF CacheInv, ListingsAreWhole, There
<1> QED
  BY <1>4, <1>5, <1>6 DEF CacheInv

LEMMA CacheInitOK == DriveCacheInit => CacheInv
PROOF
<1> SUFFICES ASSUME DriveCacheInit
             PROVE  CacheInv
  OBVIOUS
<1>1. remote \in [FileNames -> 0 .. writes] /\ writes \in Nat /\ writes = 1
  BY DEF DriveCacheInit, Absent
<1>2. /\ entry \in [FileNames -> 0 .. writes] /\ (\A n \in FileNames : entry[n] \in {Absent, remote[n]})
      /\ names = Unknown \/ names = There(remote)
  <2>1. CASE entry = [n \in FileNames |-> Absent] /\ names = Unknown
    BY <1>1, <2>1 DEF Absent
  <2>2. CASE entry = remote /\ names = There(remote)
    BY <1>1, <2>2
  <2> QED
    BY <2>1, <2>2 DEF DriveCacheInit
<1>3. CacheTypes
  <2>1. backend \in Backends /\ store \in {"mem", "db"}
    BY DEF DriveCacheInit
  <2>2. data \in [Requests -> [FileNames -> 0 .. writes]] /\ listed \in [Requests -> SUBSET FileNames]
    BY <1>2 DEF DriveCacheInit
  <2>3. names \subseteq FileNames \/ names = Unknown
    BY <1>2 DEF There
  <2> QED
    BY <1>1, <1>2, <2>1, <2>2, <2>3 DEF CacheTypes
<1>4. Programs
  <2>1. Good(backend, <<>>) /\ <<>> \in Seq(CacheSteps)
    BY NextSteps, EmptySeq
  <2>2. Kept(backend, <<>>)
    BY <2>1, GoodIsKept
  <2> QED
    BY <2>1, <2>2 DEF DriveCacheInit, Programs
<1>5. FreshInv
  BY <1>2 DEF FreshInv
<1>6. ListingsAreWhole
  <2>1. \A r \in Requests : Next1(r).do = "idle"
    BY DEF DriveCacheInit, Next1, Step
  <2> QED
    BY <2>1 DEF ListingsAreWhole
<1> QED
  BY <1>3, <1>4, <1>5, <1>6 DEF CacheInv

LEMMA CacheNextKeeps == CacheInv /\ [DriveCacheNext]_cacheVars => CacheInv'
PROOF
<1> SUFFICES ASSUME CacheInv, [DriveCacheNext]_cacheVars
             PROVE  CacheInv'
  OBVIOUS
<1>1. CASE UNCHANGED cacheVars
  <2>1. UNCHANGED <<backend, store, remote, entry, names, prog, data, listed, writes, late, broken>>
    BY <1>1 DEF cacheVars
  <2>2. (\A x : Pending(x) => Pending(x)') /\ \A r \in Requests : Next1(r)' = Next1(r)
    BY <2>1 DEF Pending, Next1
  <2>3. FreshInv'
    BY <2>1, <2>2, FreshStays
  <2> QED
    BY <2>1, <2>2, <2>3 DEF CacheInv, CacheTypes, Programs, ListingsAreWhole, There, Unknown
<1>2. ASSUME NEW r \in Requests,
             \/ Start(r) \/ LookEntry(r) \/ LookNames(r) \/ LookChildren(r) \/ Answer(r) \/ Fetch(r)
             \/ Put(r) \/ PutEntries(r) \/ PutNames(r) \/ Pick(r) \/ Check(r) \/ ChangeRemote(r) \/ EvictStep(r)
      PROVE  CacheInv'
  BY <1>2, StartKeeps, LookEntryKeeps, LookNamesKeeps, LookChildrenKeeps, AnswerKeeps, FetchKeeps, PutKeeps,
     PutEntriesKeeps, PutNamesKeeps, ChangeRemoteKeeps, EvictStepKeeps
<1> QED
  BY <1>1, <1>2, ExpireKeeps DEF DriveCacheNext

\* What the invariant says of a cache in use.
LEMMA CacheInvIsEnough == CacheInv => CacheHolds
PROOF
<1> SUFFICES ASSUME CacheInv
             PROVE  CacheHolds
  OBVIOUS
<1>1. CacheTypeOK
  <2>1. \A w \in {remote, entry} \cup {data[r] : r \in Requests} : w \in [FileNames -> 0 .. writes]
    BY DEF CacheInv, CacheTypes
  <2>2. ASSUME NEW r \in Requests, NEW i \in DOMAIN prog[r]
        PROVE  prog[r][i].do \in {"entry", "names", "children", "answer", "replaced", "fetch", "stat", "put", "put entries",
                                  "put names", "pick", "absent", "exists", "change", "anyway", "evict"}
    <3>1. prog[r] \in Seq(CacheSteps)
      BY DEF CacheInv, Programs
    <3>2. i \in 1 .. Len(prog[r])
      BY <3>1
    <3>3. prog[r][i] \in CacheSteps
      BY <3>1, <3>2, ElementOfSeq
    <3> QED
      BY <3>3 DEF CacheSteps
  <2>3. \A r \in Requests : listed[r] \subseteq FileNames
    BY DEF CacheInv, CacheTypes
  <2>4. names \subseteq FileNames \/ names = Unknown
    BY DEF CacheInv, CacheTypes
  <2> QED
    BY <2>1, <2>2, <2>3, <2>4 DEF CacheTypeOK
<1>2. CacheIsFresh
  BY DEF CacheInv, FreshInv, CacheIsFresh
<1> QED
  BY <1>1, <1>2 DEF CacheInv, CacheHolds

\* The programs of the requests, and that all that is stale is still to be evicted.
THEOREM CacheInvariant == DriveCacheSpec => []CacheInv
PROOF
<1>1. CacheInv /\ [DriveCacheNext]_cacheVars => CacheInv'
  BY CacheNextKeeps
<1> QED
  BY <1>1, CacheInitOK, PTL DEF DriveCacheSpec

\* What a drive answers from its cache was right when it was asked: what the cache holds
\* is what the server has, or is still to be evicted by the request that changed it.
THEOREM CacheHoldsCorrect == DriveCacheSpec => []CacheHolds
PROOF
<1>1. CacheInv => CacheHolds
  BY CacheInvIsEnough
<1> QED
  BY <1>1, CacheInvariant, PTL
=============================================================================
