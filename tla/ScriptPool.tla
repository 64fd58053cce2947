------------------------------ MODULE ScriptPool ------------------------------
(* The VMs of a script drive (script/pool.go, script/runtime.go): an operation *)
(* of the drive (drive/script/index.go) borrows one, runs the script's function*)
(* and returns it, whatever the outcome. The streams the script opens belong   *)
(* to a VM, that closes them when it is returned, unless the drive detached one*)
(* for its caller. Through selfDrive a script calls operations of its own      *)
(* drive, which borrow a VM each; what it opens through selfDrive is given to  *)
(* the base VM, with which selfDrive was made.                                 *)
EXTENDS Naturals, FiniteSets

CONSTANTS
  Callers,     \* requests: each calls one operation of the drive
  VMs,         \* MaxTotal of them
  MaxIdle      \* the VMs kept

BaseVM == "base"
Nobody == "nobody"

ASSUME ScriptAssumption == MaxIdle \in Nat /\ BaseVM \notin VMs /\ Nobody \notin VMs

VARIABLES
  pc,       \* what a call does; a call <<c, 2>> is made by the script of <<c, 1>>
  vmOf,     \* the VM it has
  idle,     \* the VMs in the pool
  stream,   \* the stream the script opened for it
  closer,      \* the VM that will close the stream: one of VMs, Base, or Nobody
  got,      \* the stream the operation answered to its caller
  wrapped,  \* ... inside a plain reader, that has no Close
  disposed  \* the drive was disposed of and the pool closed

scriptVars == <<pc, vmOf, idle, stream, closer, got, wrapped, disposed>>

NoCall == <<>>
ScriptCalls == Callers \X {1, 2}
Out == {vmOf[k] : k \in {j \in ScriptCalls : vmOf[j] # Nobody}}
Nested(k) == <<k[1], 2>>
\* The script of an operation waits for the operations it calls.
Has(k) == {k} \cup IF k[2] = 1 THEN {got[Nested(k)]} \ {NoCall} ELSE {}
Runs(k) == pc[k] = "run" /\ (k[2] = 1 => pc[Nested(k)] \in {"new", "end"})

ScriptInit ==
  /\ pc = [k \in ScriptCalls |-> IF k[2] = 1 THEN "wait" ELSE "new"]
  /\ vmOf = [k \in ScriptCalls |-> Nobody] /\ idle = {}
  /\ stream = [k \in ScriptCalls |-> "none"] /\ closer = vmOf
  /\ got = [k \in ScriptCalls |-> NoCall] /\ wrapped = {} /\ disposed = FALSE

PutCall(k, s) == pc' = [pc EXCEPT ![k] = s]
-----------------------------------------------------------------------------
\* BorrowObject: an idle VM, or a fork of the base VM.
Borrow(k) ==
  /\ pc[k] = "wait" /\ ~disposed
  /\ \E v \in VMs \ Out :
       /\ idle # {} => v \in idle
       /\ vmOf' = [vmOf EXCEPT ![k] = v] /\ idle' = idle \ {v}
  /\ PutCall(k, "run")
  /\ UNCHANGED <<stream, closer, got, wrapped, disposed>>

\* The context ends, or the pool is closed.
GiveUp(k) ==
  /\ pc[k] = "wait"
  /\ PutCall(k, "end")
  /\ UNCHANGED <<vmOf, idle, stream, closer, got, wrapped, disposed>>

Turned(k) == disposed /\ GiveUp(k)

\* NewReadCloser and NewTempFile: vm.PutDisposable.
OpenStream(k) ==
  /\ Runs(k) /\ stream[k] = "none"
  /\ stream' = [stream EXCEPT ![k] = "open"] /\ closer' = [closer EXCEPT ![k] = vmOf[k]]
  /\ UNCHANGED <<pc, vmOf, idle, got, wrapped, disposed>>

\* ReadCloser.Close and TempFile.Close.
CloseStream(k, s) ==
  /\ Runs(k) /\ s \in Has(k) /\ stream[s] = "open"
  /\ stream' = [stream EXCEPT ![s] = "closed"] /\ closer' = [closer EXCEPT ![s] = Nobody]
  /\ UNCHANGED <<pc, vmOf, idle, got, wrapped, disposed>>

\* selfDrive.Get, Save, ...
CallSelf(k) ==
  /\ Runs(k) /\ k[2] = 1 /\ pc[Nested(k)] = "new"
  /\ PutCall(Nested(k), "wait")
  /\ UNCHANGED <<vmOf, idle, stream, closer, got, wrapped, disposed>>

\* GetReader and Thumbnail: a stream of the script, or one it got from a nested call,
\* is taken from the VM; a reader that limits or counts one is not.
FinishWith(k, s, w) ==
  /\ Runs(k) /\ s \in Has(k) /\ stream[s] = "open"
  /\ got' = [got EXCEPT ![k] = s]
  /\ wrapped' = IF w THEN wrapped \cup {s} ELSE wrapped \ {s}
  /\ closer' = IF ~w /\ closer[s] = vmOf[k] THEN [closer EXCEPT ![s] = Nobody] ELSE closer
  /\ PutCall(k, "back")
  /\ UNCHANGED <<vmOf, idle, stream, disposed>>

\* The other operations, and the scripts that throw.
FinishCall(k) ==
  /\ Runs(k)
  /\ PutCall(k, "back")
  /\ UNCHANGED <<vmOf, idle, stream, closer, got, wrapped, disposed>>

\* Mutant: a VM goes back to the pool as it is.
ClosedByNone(v) == {}

\* DisposeDisposables: when a VM is put back (PassivateObject) or destroyed.
ClosedBy(v) == {s \in ScriptCalls : closer[s] = v}

Closing(S) ==
  stream' = [s \in ScriptCalls |-> IF s \in S THEN "closed" ELSE stream[s]]

\* What a nested call answered, the script wraps in a stream of the base VM
\* (NewReadCloser with selfDrive's VM).
GiveBack(k) ==
  /\ Closing(ClosedBy(vmOf[k]))
  /\ closer' = [s \in ScriptCalls |-> IF closer[s] = vmOf[k] THEN Nobody
                                     ELSE IF s = got[k] /\ k[2] = 2 /\ s \notin wrapped THEN BaseVM
                                     ELSE closer[s]]
  /\ idle' = IF disposed \/ Cardinality(idle) >= MaxIdle THEN idle ELSE idle \cup {vmOf[k]}
  /\ vmOf' = [vmOf EXCEPT ![k] = Nobody]
  /\ PutCall(k, IF k[2] = 1 /\ got[k] # NoCall THEN "hold" ELSE "end")
  /\ UNCHANGED <<got, wrapped, disposed>>

\* The deferred Return.
ReturnVM(k) == pc[k] = "back" /\ GiveBack(k)

\* The caller closes what it was given; a plain reader was given a Close that does
\* nothing (wrapReader).
CloseReader(k) ==
  /\ pc[k] = "hold"
  /\ IF got[k] \in wrapped THEN UNCHANGED stream ELSE Closing({got[k]})
  /\ got' = [got EXCEPT ![k] = NoCall]
  /\ PutCall(k, "end")
  /\ UNCHANGED <<vmOf, idle, closer, wrapped, disposed>>

\* A reload or a removal of the drive: its base VM is disposed of, the pool closed.
DisposeDrive ==
  /\ ~disposed /\ disposed' = TRUE
  /\ Closing(ClosedBy(BaseVM)) /\ closer' = [s \in ScriptCalls |-> IF closer[s] = BaseVM THEN Nobody ELSE closer[s]]
  /\ idle' = {}
  /\ UNCHANGED <<pc, vmOf, got, wrapped>>

ScriptNext ==
  \/ \E k \in ScriptCalls :
       \/ Borrow(k) \/ GiveUp(k) \/ OpenStream(k) \/ CallSelf(k)
       \/ FinishCall(k) \/ ReturnVM(k) \/ CloseReader(k)
       \/ \E s \in ScriptCalls, w \in BOOLEAN : FinishWith(k, s, w)
       \/ \E s \in ScriptCalls : CloseStream(k, s)
  \/ DisposeDrive

\* Scripts end, and a VM that is free is given to one who waits; a context need not
\* end: HasThumbnail waits with the background context.
ScriptFairness ==
  \A k \in ScriptCalls :
    /\ WF_scriptVars(FinishCall(k)) /\ WF_scriptVars(ReturnVM(k))
    /\ WF_scriptVars(Borrow(k)) /\ WF_scriptVars(Turned(k))

ScriptSpec == ScriptInit /\ [][ScriptNext]_scriptVars /\ ScriptFairness
-----------------------------------------------------------------------------
\* No VM runs two scripts, and the pool keeps no more than it may.
ScriptTypeOK ==
  /\ pc \in [ScriptCalls -> {"new", "wait", "run", "back", "hold", "end"}]
  /\ vmOf \in [ScriptCalls -> VMs \cup {Nobody}]
  /\ \A j, k \in ScriptCalls : vmOf[j] = vmOf[k] /\ vmOf[j] # Nobody => j = k
  /\ idle \subseteq VMs \ Out /\ Cardinality(idle) <= MaxIdle
  /\ stream \in [ScriptCalls -> {"none", "open", "closed"}]
  /\ closer \in [ScriptCalls -> VMs \cup {BaseVM, Nobody}]
  /\ got \in [ScriptCalls -> ScriptCalls \cup {NoCall}] /\ wrapped \subseteq ScriptCalls
  /\ disposed \in BOOLEAN

\* The reader an operation answered stays open until its caller closes it, though the
\* VM goes on to serve other calls; not so a plain reader around a stream of the VM,
\* nor, once the drive is disposed of, one that came through selfDrive.
HeldReadersOpen ==
  \A k \in ScriptCalls : pc[k] = "hold" /\ got[k] \notin wrapped =>
    stream[got[k]] = "open" \/ (disposed /\ got[k] # k)

\* What a script leaves open is closed with its call, and what is open otherwise is in
\* the hands of a caller or, through selfDrive, of the base VM.
NothingStaysOpen ==
  \A s \in ScriptCalls : stream[s] = "open" =>
    \/ closer[s] = BaseVM
    \/ closer[s] \in Out
    \/ closer[s] = Nobody /\ \E k \in ScriptCalls : got[k] = s /\ pc[k] \in {"back", "hold"}

\* Whoever waits for a VM gets one or an error, unless every VM is held by a script
\* that waits for another one itself.
CallersServed ==
  \A k \in ScriptCalls : pc[k] = "wait" ~>
    \/ pc[k] # "wait"
    \/ \A v \in VMs : \E j \in ScriptCalls : vmOf[j] = v /\ j[2] = 1 /\ pc[Nested(j)] = "wait"

\* VMs and streams belong to somebody, who gives them back.
ScriptHolds == ScriptTypeOK /\ HeldReadersOpen /\ NothingStaysOpen
=============================================================================
