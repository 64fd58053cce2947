-------------------------------- MODULE MC_Waits --------------------------------
(* A small instance of each part that requests wait in for each other: part is *)
(* the one a behaviour is of. They share no state; the others stay in a state  *)
(* in which nobody waits.                                                      *)
EXTENDS RangeLock, DriveReload, Thumbnails, FullText, Stores, ScriptPool, DriveApi

VARIABLE part

Parts == {"ranges", "reload", "thumbs", "text", "stores", "script", "api"}
-----------------------------------------------------------------------------
SomeTextPaths == {<<"/">>, <<"/", "d">>, <<"/", "d", "f">>, <<"/", "g">>}
SomeTextFiles == {<<"/", "d", "f">>, <<"/", "g">>}

\* The drive was disposed of, and no call is under way.
ScriptOver ==
  /\ pc = [k \in ScriptCalls |-> "end"] /\ vmOf = [k \in ScriptCalls |-> Nobody] /\ idle = {}
  /\ stream = [k \in ScriptCalls |-> "none"] /\ closer = vmOf
  /\ got = [k \in ScriptCalls |-> NoCall] /\ wrapped = {} /\ disposed = TRUE
-----------------------------------------------------------------------------
PartInit ==
  /\ part \in Parts
  /\ Init /\ DrivesInit /\ ThumbsInit /\ TextInit /\ ApiInit
  /\ StoresInit /\ (part = "stores" \/ (kind = "user" /\ row = 0))
  /\ IF part = "script" THEN ScriptInit ELSE ScriptOver

RangesPart == part = "ranges" /\ Next
ReloadPart == part = "reload" /\ DrivesNext
ThumbsPart == part = "thumbs" /\ ThumbsNext
TextPart == part = "text" /\ TextNext
StoresPart == part = "stores" /\ StoresNext
ScriptPart == part = "script" /\ ScriptNext
ApiPart == part = "api" /\ ApiNext

PartNext ==
  /\ UNCHANGED part
  /\ \/ RangesPart /\ UNCHANGED <<driveVars, thumbVars, textVars, storeVars, scriptVars, apiVars>>
     \/ ReloadPart /\ UNCHANGED <<vars, thumbVars, textVars, storeVars, scriptVars, apiVars>>
     \/ ThumbsPart /\ UNCHANGED <<vars, driveVars, textVars, storeVars, scriptVars, apiVars>>
     \/ TextPart /\ UNCHANGED <<vars, driveVars, thumbVars, storeVars, scriptVars, apiVars>>
     \/ StoresPart /\ UNCHANGED <<vars, driveVars, thumbVars, textVars, scriptVars, apiVars>>
     \/ ScriptPart /\ UNCHANGED <<vars, driveVars, thumbVars, textVars, storeVars, apiVars>>
     \/ ApiPart /\ UNCHANGED <<vars, driveVars, thumbVars, textVars, storeVars, scriptVars>>

partVars == <<part, vars, driveVars, thumbVars, textVars, storeVars, scriptVars, apiVars>>

\* The fairness of the modules, each for its part.
PartFairness ==
  /\ \A t \in Threads : WF_vars(part = "ranges" /\ Check(t))
  /\ \A w \in Writers :
       WF_driveVars(part = "reload" /\ EnsureDir(w)) /\ SF_driveVars(part = "reload" /\ Enter(w))
  /\ \A v \in Viewers :
       WF_thumbVars(part = "thumbs" /\ ThumbStep(v)) /\ SF_thumbVars(part = "thumbs" /\ ProcessThumb(v))
  /\ \A b \in Builders : WF_textVars(part = "text" /\ BuildStep(b)) /\ SF_textVars(part = "text" /\ WatchEnds(b))
  /\ WF_storeVars(part = "stores" /\ ExpireMeta)
  /\ \A c \in Askers : WF_storeVars(part = "stores" /\ StoreStep(c))
  /\ \A k \in ScriptCalls :
       /\ WF_scriptVars(part = "script" /\ FinishCall(k)) /\ WF_scriptVars(part = "script" /\ ReturnVM(k))
       /\ WF_scriptVars(part = "script" /\ Borrow(k)) /\ WF_scriptVars(part = "script" /\ Turned(k))
  /\ \A c \in Calls :
       /\ WF_apiVars(part = "api" /\ ApiSteps(c)) /\ WF_apiVars(part = "api" /\ EndStream(c))
       /\ WF_apiVars(part = "api" /\ SaveSteps(c)) /\ SF_apiVars(part = "api" /\ StartTask(c))

PartSpec == PartInit /\ [][PartNext]_partVars /\ PartFairness
-----------------------------------------------------------------------------
\* Whoever waits for another request, or for what another one left, waits no longer
\* than that one takes.
WaitsEnd ==
  /\ ParentsSettle /\ WaitsForThumbEnd /\ CallersServed /\ StreamsEnd
  /\ IndexingHolds /\ StoresHold
=============================================================================
