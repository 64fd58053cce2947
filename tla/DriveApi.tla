------------------------------- MODULE DriveApi -------------------------------
(* The requests of the API that write, that run a task whose output is streamed,  *)
(* and that download several files as a zip (server/api_drive.go, api_file_       *)
(* bucket.go, utils.go): their temporary files, the tasks they wait for, clients  *)
(* that go away and the administrator who stops tasks.  A file's content is the   *)
(* request that wrote it.                                                         *)
EXTENDS Naturals, Sequences, SequencesExt, FiniteSetsExt

CONSTANTS
  Calls,        \* requests
  Workers,      \* of the task runner: how many tasks run at once
  Files,        \* places of files
  Initial,      \* those that hold one at the start
  MaxZip,       \* how many files a zip may hold
  MaxRemoves    \* bound: files another client removes

ASSUME ApiAssumption ==
  /\ Workers \in Nat \ {0} /\ MaxZip \in Nat /\ MaxRemoves \in Nat /\ Initial \subseteq Files
  /\ IsFiniteSet(Files) /\ {"none", "seed", "torn"} \cap Calls = {}

VARIABLES
  call,         \* what each request is and where it stands
  task,         \* its task
  temps,        \* the requests whose temporary file there is
  stored,       \* what each file holds
  save,         \* how far each request's save is
  goneAway,     \* the requests whose client has gone away
  zip,          \* per zip: the files of its trees, and those that are in it so far
  removes       \* how many files were removed

apiVars == <<call, task, temps, stored, save, goneAway, zip, removes>>

NoFile == "none"
Seed == "seed"
Torn == "torn"                 \* it was truncated, and no body is all that was written to it since
Body == {"whole", "short"}     \* what arrives of a body, against its Content-Length
Here == [kind |-> "none", at |-> "none", file |-> "none", body |-> "whole", override |-> FALSE, ans |-> "none"]
NoZip == [tree |-> <<>>, put |-> <<>>]

ApiInit ==
  /\ call = [c \in Calls |-> Here] /\ task = [c \in Calls |-> "none"] /\ temps = {}
  /\ stored = [f \in Files |-> IF f \in Initial THEN Seed ELSE NoFile]
  /\ save = [c \in Calls |-> "none"] /\ goneAway = {} /\ zip = [c \in Calls |-> NoZip] /\ removes = 0

At(c, k, p) == call[c].kind = k /\ call[c].at = p
GoesTo(c, p) == call' = [call EXCEPT ![c].at = p]
\* A request ends with its answer: none if its client has gone.
EndCall(c, a) == call' = [call EXCEPT ![c].at = "ended", ![c].ans = a]

BeginCall(c, k, f, b, o) ==
  /\ At(c, "none", "none")
  /\ call' = [call EXCEPT ![c] = [kind |-> k, at |-> "begun", file |-> f, body |-> b, override |-> o, ans |-> "none"]]
  /\ UNCHANGED <<task, temps, stored, save, goneAway, zip, removes>>
-----------------------------------------------------------------------------
(* Bodies.                                                                     *)

\* CopyReaderToTempFile; Copy stops when the client has gone.
ReadBody(c) ==
  /\ call[c].kind \in {"write", "bucket"} /\ call[c].at = "begun"
  /\ IF c \in goneAway THEN EndCall(c, "error") /\ UNCHANGED temps
     ELSE GoesTo(c, "read") /\ temps' = temps \cup {c}
  /\ UNCHANGED <<task, stored, save, goneAway, zip, removes>>

\* ReadRequestBodyToTempFile: the size must be that of the header.
CheckBody(c) ==
  /\ call[c].at = "read"
  /\ IF call[c].body = "short" THEN EndCall(c, "error") /\ temps' = temps \ {c}
     ELSE GoesTo(c, "taken") /\ UNCHANGED temps
  /\ UNCHANGED <<task, stored, save, goneAway, zip, removes>>

\* A form that is uploaded to a bucket: it is parsed into files of net/http's own.
ReadForm(c) ==
  /\ At(c, "form", "begun")
  /\ IF c \in goneAway \/ call[c].body = "short" THEN EndCall(c, "error") ELSE GoesTo(c, "taken")
  /\ UNCHANGED <<task, temps, stored, save, goneAway, zip, removes>>
-----------------------------------------------------------------------------
(* Tasks.                                                                      *)

Running == {c \in Calls : task[c] \in {"running", "stopping"}}

\* ExecuteAndWait, or Execute: the task is in the pool's queue.
Submit(c) ==
  /\ \/ At(c, "write", "taken") /\ GoesTo(c, "waiting")
     \/ At(c, "stream", "begun") /\ GoesTo(c, "ready")
  /\ task' = [task EXCEPT ![c] = "queued"]
  /\ UNCHANGED <<temps, stored, save, goneAway, zip, removes>>

\* executor: a task that was stopped in the queue is not run, so its file stays.
StartTask(c) ==
  /\ task[c] = "queued" /\ Cardinality(Running) < Workers
  /\ task' = [task EXCEPT ![c] = "running"]
  /\ UNCHANGED <<call, temps, stored, save, goneAway, zip, removes>>

TaskSettled(c) == task[c] \in {"done", "failed", "canceled", "dropped"}
\* The request answers with the task: finished, or after two seconds as it is.
AnswerTask(c) ==
  /\ At(c, "write", "waiting") /\ EndCall(c, "ok")
  /\ UNCHANGED <<task, temps, stored, save, goneAway, zip, removes>>

\* An administrator, or the user, stops a task.
StopTask(c) ==
  /\ task[c] \in {"queued", "running"}
  /\ task' = [task EXCEPT ![c] = IF @ = "queued" THEN "dropped" ELSE "stopping"]
  /\ UNCHANGED <<call, temps, stored, save, goneAway, zip, removes>>
-----------------------------------------------------------------------------
(* Save of the drive of local files: a bucket's upload saves in its request, a    *)
(* write in its task.                                                             *)

Saves(c) ==
  \/ call[c].kind \in {"bucket", "form"} /\ call[c].at = "taken"
  \/ call[c].kind = "write" /\ task[c] \in {"running", "stopping"}

\* A copy that sees that it is stopped cancels its task; the temporary file is removed.
EndSave(c, how) ==
  /\ temps' = temps \ {c}
  /\ IF call[c].kind = "write"
     THEN /\ how = "canceled" => task[c] = "stopping"
          /\ task' = [task EXCEPT ![c] = how] /\ UNCHANGED call
     ELSE EndCall(c, IF how = "done" THEN "ok" ELSE "error") /\ UNCHANGED task

InPlace == {"alone", "mixed"}
\* The requests that copy into file f, or whose copy is what it holds.
Writing(f) == {d \in Calls : call[d].file = f /\ Saves(d) /\ save[d] \in InPlace}
\* File f is another one from now on: c's. Who still copies writes to one without a name.
Supplants(f, c, how) ==
  save' = [d \in Calls |-> IF d = c THEN how
                          ELSE IF call[d].file = f /\ save[d] \in InPlace \cup {"broken"} THEN "adrift" ELSE save[d]]

\* Stat: no file may be there, unless it is to be replaced.
LookAt(c) ==
  /\ Saves(c) /\ save[c] = "none"
  /\ \/ /\ call[c].override \/ stored[call[c].file] = NoFile
        /\ save' = [save EXCEPT ![c] = "cleared"] /\ UNCHANGED <<call, task, temps>>
     \/ EndSave(c, "failed") /\ UNCHANGED save
  /\ UNCHANGED <<stored, goneAway, zip, removes>>

\* TransferTo: the temporary file becomes the file, stopped or not. The last Stat may fail.
MoveIn(c) ==
  /\ Saves(c) /\ save[c] = "cleared" /\ call[c].kind # "form"
  /\ stored' = [stored EXCEPT ![call[c].file] = c] /\ Supplants(call[c].file, c, "saved")
  /\ \E how \in {"done", "failed"} : EndSave(c, how)
  /\ UNCHANGED <<goneAway, zip, removes>>

\* A form, or a file that cannot be moved, is copied: the file there is truncated first.
OpenInPlace(c) ==
  /\ Saves(c) /\ save[c] = "cleared"
  /\ \/ LET f == call[c].file IN
        /\ stored' = [stored EXCEPT ![f] = Torn]
        /\ save' = [d \in Calls |-> IF d = c THEN IF Writing(f) = {} THEN "alone" ELSE "mixed"
                                    ELSE IF d \in Writing(f) THEN "mixed"
                                    ELSE IF call[d].file = f /\ save[d] \in {"mixed", "broken"} THEN "adrift" ELSE save[d]]
        /\ UNCHANGED <<call, task, temps>>
     \/ EndSave(c, "failed") /\ UNCHANGED <<stored, save>>
  /\ UNCHANGED <<goneAway, zip, removes>>

\* Mutant: a copy that breaks off is not noticed.
CopyAny(c) ==
  /\ Saves(c) /\ save[c] \in InPlace \cup {"adrift"} /\ EndSave(c, "done")
  /\ \E whole \in BOOLEAN : save' = [save EXCEPT ![c] = IF ~whole THEN "broken" ELSE IF @ = "alone" THEN "saved" ELSE @]
  /\ stored' = [stored EXCEPT ![call[c].file] = IF save'[c] = "saved" THEN c ELSE @]
  /\ UNCHANGED <<goneAway, zip, removes>>

\* The copy gets to the end, or breaks off: the client or the disk fails, or it is stopped.
CopyIn(c) ==
  /\ Saves(c) /\ save[c] \in InPlace \cup {"adrift"}
  /\ \/ /\ save' = [save EXCEPT ![c] = IF @ = "alone" THEN "saved" ELSE @]
        /\ stored' = [stored EXCEPT ![call[c].file] = IF save[c] = "alone" THEN c ELSE @]
        /\ \E how \in {"done", "failed"} : EndSave(c, how)
     \/ /\ save' = [save EXCEPT ![c] = IF @ = "adrift" THEN @ ELSE "broken"] /\ UNCHANGED stored
        /\ \E how \in {"failed", "canceled"} : EndSave(c, how)
  /\ UNCHANGED <<goneAway, zip, removes>>
-----------------------------------------------------------------------------
(* ExecuteTaskStreaming.  The runnable waits for the stream to be ready, the      *)
(* request for the runnable to take that.                                         *)

StreamReady(c) ==
  /\ At(c, "stream", "ready") /\ task[c] \in {"running", "stopping"}
  /\ GoesTo(c, "streaming")
  /\ UNCHANGED <<task, temps, stored, save, goneAway, zip, removes>>

\* The runnable ends, whether it is stopped or not: its script has the request's context.
EndStream(c) ==
  /\ call[c].kind = "stream" /\ call[c].at \in {"streaming", "ended"} /\ task[c] \in {"running", "stopping"}
  /\ task' = [task EXCEPT ![c] = "done"]
  /\ UNCHANGED <<call, temps, stored, save, goneAway, zip, removes>>

\* The task has ended, or the client has gone: then it is stopped, and may yet write.
FinishStream(c) ==
  /\ At(c, "stream", "streaming")
  /\ \/ TaskSettled(c) /\ UNCHANGED task
     \/ c \in goneAway /\ task' = [task EXCEPT ![c] = IF @ = "running" THEN "stopping" ELSE @]
  /\ EndCall(c, "ok")
  /\ UNCHANGED <<temps, stored, save, goneAway, zip, removes>>
-----------------------------------------------------------------------------
(* zipDownload.                                                                *)

Present == {f \in Files : stored[f] # NoFile}

\* The entries are looked up and their trees built; nothing is sent if they are too many.
BuildZip(c, ask) ==
  /\ At(c, "zip", "begun")
  /\ IF ask # <<>> /\ ToSet(ask) \subseteq Present /\ Len(ask) <= MaxZip
     THEN GoesTo(c, "zipping") /\ zip' = [zip EXCEPT ![c].tree = ask]
     ELSE EndCall(c, "error") /\ UNCHANGED zip
  /\ UNCHANGED <<task, temps, stored, save, goneAway, removes>>

Rest(c) == SubSeq(zip[c].tree, Len(zip[c].put) + 1, Len(zip[c].tree))
\* VisitEntriesTree, one entry.  An error ends the request, and the zip, which looks whole.
VisitZip(c) ==
  /\ At(c, "zip", "zipping") /\ Rest(c) # <<>>
  /\ IF c \notin goneAway /\ Head(Rest(c)) \in Present
     THEN zip' = [zip EXCEPT ![c].put = Append(@, Head(Rest(c)))] /\ UNCHANGED call
     ELSE EndCall(c, "cut") /\ UNCHANGED zip
  /\ UNCHANGED <<task, temps, stored, save, goneAway, removes>>

EndZip(c) == At(c, "zip", "zipping") /\ Rest(c) = <<>> /\ EndCall(c, "ok") /\ UNCHANGED <<task, temps, stored, save, goneAway, zip, removes>>
-----------------------------------------------------------------------------
GoAway(c) ==
  /\ call[c].at \notin {"none", "ended"} /\ c \notin goneAway
  /\ goneAway' = goneAway \cup {c}
  /\ UNCHANGED <<call, task, temps, stored, save, zip, removes>>
RemoveFile(f) ==
  /\ removes < MaxRemoves /\ stored[f] # NoFile
  /\ stored' = [stored EXCEPT ![f] = NoFile] /\ Supplants(f, NoFile, "none") /\ removes' = removes + 1
  /\ UNCHANGED <<call, task, temps, goneAway, zip>>

ApiSteps(c) ==
  ReadBody(c) \/ CheckBody(c) \/ ReadForm(c) \/ Submit(c) \/ AnswerTask(c) \/ StreamReady(c) \/ FinishStream(c)
  \/ VisitZip(c) \/ EndZip(c)
SaveSteps(c) == LookAt(c) \/ MoveIn(c) \/ OpenInPlace(c) \/ CopyIn(c)
TaskSteps(c) == StartTask(c) \/ EndStream(c)

ApiNext ==
  \/ \E c \in Calls, f \in Files, b \in Body, o \in BOOLEAN : BeginCall(c, "write", f, b, o)
  \/ \E c \in Calls, k \in {"bucket", "form"}, f \in Files, b \in Body : BeginCall(c, k, f, b, FALSE)
  \/ \E c \in Calls, k \in {"stream", "zip"} : BeginCall(c, k, "none", "whole", FALSE)
  \/ \E c \in Calls, ask \in SetToAllKPermutations(Files) : BuildZip(c, ask)
  \/ \E c \in Calls : ApiSteps(c) \/ SaveSteps(c) \/ TaskSteps(c) \/ StopTask(c) \/ GoAway(c)
  \/ \E f \in Files : RemoveFile(f)

\* Handlers and saves go on, the pool's workers take what is queued, and scripts end.
ApiFairness ==
  /\ \A c \in Calls : WF_apiVars(ApiSteps(c)) /\ WF_apiVars(EndStream(c)) /\ WF_apiVars(SaveSteps(c)) /\ SF_apiVars(StartTask(c))
ApiSpec == ApiInit /\ [][ApiNext]_apiVars /\ ApiFairness
-----------------------------------------------------------------------------
\* The type invariant; no more tasks run than there are workers.
ApiTypeOK ==
  /\ Cardinality({c \in Calls : task[c] \in {"running", "stopping"}}) <= Workers /\ temps \subseteq Calls /\ removes \in 0..MaxRemoves
  /\ \A f \in Files : stored[f] \in Calls \cup {Seed, NoFile, Torn}

\* A temporary file is that of a request that is still at it, or of a task that will be
\* or is run; one whose task was stopped in the queue is left behind.
TempsAreUsed ==
  \A c \in temps : call[c].at \in {"read", "taken"} \/ task[c] \in {"queued", "running", "stopping", "dropped"}

\* What a file holds is one body, that came whole and was written to the end; or else a
\* save copies into it, or a copy into it broke off or met another: nothing else tears a
\* file, and who was told that a save went well is told so of every byte of the body.
StoredIsWhole ==
  /\ \A f \in Files : stored[f] \in Calls => call[stored[f]].body = "whole" /\ call[stored[f]].file = f
  /\ \A f \in Files : stored[f] = Torn <=> \E c \in Calls : call[c].file = f /\ save[c] \in {"alone", "mixed", "broken"}
  /\ \A c \in Calls : save[c] # "none" => call[c].body = "whole"
  /\ \A c \in Calls :
       (call[c].kind = "write" /\ task[c] = "done") \/ (call[c].kind \in {"bucket", "form"} /\ call[c].ans = "ok")
         => save[c] \in {"saved", "mixed", "adrift"}

\* A zip whose download ends well has an entry of all that was asked for, however the files
\* come and go between the look at them and the reading.
ZipIsWhole == \A c \in Calls : call[c].kind = "zip" /\ call[c].ans = "ok" => zip[c].put = zip[c].tree

\* A request whose output is streamed ends, unless its task is stopped before it runs:
\* then the request waits for ever for the runnable to take that the stream is ready.
StreamsEnd == \A c \in Calls : At(c, "stream", "ready") ~> (call[c].at = "ended" \/ task[c] = "dropped")

\* Files, downloads and what is left on disk are as promised, whatever breaks off.
TransfersHold == ApiTypeOK /\ TempsAreUsed /\ StoredIsWhole /\ ZipIsWhole
=============================================================================
