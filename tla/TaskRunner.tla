------------------------------ MODULE TaskRunner ------------------------------
(***************************************************************************)
(* TunnyRunner of common/task/tunny_runner.go with the two ways the server *)
(* waits for a task (ExecuteAndWait there, ExecuteTaskStreaming in         *)
(* server/utils.go) and the client that polls for its end (taskDone in     *)
(* web/src/utils/index.ts).                                                *)
(*                                                                         *)
(* The worker writes Status and UpdatedAt without the task's mutex, the    *)
(* canceler cancels the context and writes Status under it: each of these  *)
(* writes is a step.  A status is read and written as a whole.             *)
(***************************************************************************)
EXTENDS Integers, FiniteSets

CONSTANTS
  Waits,              \* the tasks ExecuteAndWait creates
  Streams,            \* the tasks ExecuteTaskStreaming creates
  Stoppable,          \* the tasks somebody stops or removes
  MaxConcurrentTask

ASSUME TaskRunnerAssumption ==
  /\ Waits \cap Streams = {}
  /\ MaxConcurrentTask \in Nat \ {0}

VARIABLES
  store,      \* t.store: the tasks GetTask finds
  status,
  recent,     \* the tasks with UpdatedAt set, and within cleanThreshold
  canceled,   \* w.Err() # nil
  worker,     \* the goroutine in pool.Process, and the worker serving it
  outcome,    \* what the runnable returned
  stop,       \* the StopTask or RemoveTask under way
  caller,     \* the handler that created the task, then its client
  doomed      \* the ids clean has collected

vars ==
  <<store, status, recent, canceled, worker, outcome, stop, caller, doomed>>

Tasks == Waits \cup Streams
Outcomes == {"done", "error", "canceled"}
Serving == {"starting", "gated", "running", "recording", "stamping"}
Through == {"notifying", "ended"}
Inside == {"waiting", "offering", "streaming"}   \* the handlers' states
Canceling == {"stopping", "removing"}            \* context canceled, status to be

Finished(t) == status[t] \in Outcomes
Served == {t \in Tasks : worker[t] \in Serving}

Init ==
  /\ store = {}
  /\ status = [t \in Tasks |-> "none"]
  /\ recent = {}
  /\ canceled = {}
  /\ worker = [t \in Tasks |-> "none"]
  /\ outcome = [t \in Tasks |-> "none"]
  /\ stop = [t \in Tasks |-> "none"]
  /\ caller = [t \in Tasks |-> "none"]
  /\ doomed = {}

(***************************************************************************)
(* The handlers.                                                           *)
(***************************************************************************)
\* createTask, then the goroutine that hands the task to the pool.  Execute's
\* callers that wait for nothing are waits whose handler replies at once.
Create(t) ==
  /\ worker[t] = "none"
  /\ store' = store \cup {t}
  /\ status' = [status EXCEPT ![t] = "pending"]
  /\ worker' = [worker EXCEPT ![t] = "queued"]
  /\ caller' = [caller EXCEPT ![t] = IF t \in Waits THEN "waiting" ELSE "offering"]
  /\ UNCHANGED <<recent, canceled, outcome, stop, doomed>>

\* What a client does with the task it is shown: taskDone ends on a finished
\* one and asks again otherwise.
Answer(t) == IF Finished(t) THEN status[t] ELSE "polling"

\* ExecuteAndWait's select: the timer, or the goroutine's send on done.
Reply(t) ==
  /\ caller[t] = "waiting"
  /\ caller' = [caller EXCEPT ![t] = Answer(t)]
  /\ UNCHANGED <<store, status, recent, canceled, worker, outcome, stop,
                 doomed>>

\* A round of taskDone: an id GetTask does not find counts as canceled.
Poll(t) ==
  /\ caller[t] = "polling"
  /\ caller' = [caller EXCEPT ![t] = IF t \in store THEN Answer(t) ELSE "canceled"]
  /\ UNCHANGED <<store, status, recent, canceled, worker, outcome, stop,
                 doomed>>

Leave(t) ==
  /\ caller[t] = "polling"
  /\ caller' = [caller EXCEPT ![t] = "gone"]
  /\ UNCHANGED <<store, status, recent, canceled, worker, outcome, stop,
                 doomed>>

\* streamReady: the handler's send meets the wrapped runnable's receive.
StreamReady(t) ==
  /\ caller[t] = "offering"
  /\ worker[t] = "gated"
  /\ caller' = [caller EXCEPT ![t] = "streaming"]
  /\ worker' = [worker EXCEPT ![t] = "running"]
  /\ UNCHANGED <<store, status, recent, canceled, outcome, stop, doomed>>

\* Mutant: completeChan is closed only by a runnable that succeeds.
StreamCompleteOnSuccess(t) ==
  /\ caller[t] = "streaming"
  /\ outcome[t] = "done"
  /\ caller' = [caller EXCEPT ![t] = "gone"]
  /\ UNCHANGED <<store, status, recent, canceled, worker, outcome, stop,
                 doomed>>

\* completeChan: closed as the wrapped runnable returns.
StreamComplete(t) ==
  /\ caller[t] = "streaming"
  /\ outcome[t] # "none"
  /\ caller' = [caller EXCEPT ![t] = "gone"]
  /\ UNCHANGED <<store, status, recent, canceled, worker, outcome, stop,
                 doomed>>

\* The request's context ends: StopTask is the handler's last call.
Disconnect(t) ==
  /\ caller[t] = "streaming"
  /\ caller' = [caller EXCEPT ![t] = "gone"]
  /\ stop' = [stop EXCEPT ![t] = IF t \in store /\ ~Finished(t) /\ @ = "none"
                                 THEN "stop" ELSE @]
  /\ UNCHANGED <<store, status, recent, canceled, worker, outcome, doomed>>

(***************************************************************************)
(* StopTask and RemoveTask.  One at a time per task: of several at cancel, *)
(* the first to take the mutex does all there is to do.                    *)
(***************************************************************************)
\* StopTask up to cancel: it leaves a finished task alone.
StopTask(t) ==
  /\ stop[t] = "none"
  /\ t \in store \cap Stoppable
  /\ ~Finished(t)
  /\ stop' = [stop EXCEPT ![t] = "stop"]
  /\ UNCHANGED <<store, status, recent, canceled, worker, outcome, caller,
                 doomed>>

\* cancel, up to cancelFn, for StopTask: nothing for a task canceled before ...
CancelContext(t) ==
  /\ stop[t] = "stop"
  /\ canceled' = canceled \cup {t}
  /\ stop' = [stop EXCEPT ![t] = IF t \in canceled THEN "none" ELSE "stopping"]
  /\ UNCHANGED <<store, status, recent, worker, outcome, caller, doomed>>

\* ... and for RemoveTask, which takes a finished task too.
RemoveTask(t) ==
  /\ stop[t] = "none"
  /\ t \in (store \cap Stoppable) \ canceled
  /\ canceled' = canceled \cup {t}
  /\ stop' = [stop EXCEPT ![t] = "removing"]
  /\ UNCHANGED <<store, status, recent, worker, outcome, caller, doomed>>

\* cancel from there, and RemoveTask's removal.
CancelStatus(t) ==
  /\ stop[t] \in Canceling
  /\ status' = [status EXCEPT ![t] = "canceled"]
  /\ store' = IF stop[t] = "removing" THEN store \ {t} ELSE store
  /\ stop' = [stop EXCEPT ![t] = "none"]
  /\ UNCHANGED <<recent, canceled, worker, outcome, caller, doomed>>

\* RemoveTask on a task canceled before.
RemoveCanceled(t) ==
  /\ stop[t] = "none"
  /\ t \in store \cap Stoppable \cap canceled
  /\ store' = store \ {t}
  /\ UNCHANGED <<status, recent, canceled, worker, outcome, stop, caller,
                 doomed>>

(***************************************************************************)
(* The pool: tunny hands a queued task to a free worker, which runs        *)
(* executor.                                                               *)
(***************************************************************************)
AfterProcess(t) == IF t \in Waits THEN "notifying" ELSE "ended"

FreeWorker == Cardinality(Served) < MaxConcurrentTask

\* executor's first check, on a task canceled while it was queued.
Skip(t) ==
  /\ worker[t] = "queued"
  /\ FreeWorker
  /\ t \in canceled
  /\ worker' = [worker EXCEPT ![t] = AfterProcess(t)]
  /\ UNCHANGED <<store, status, recent, canceled, outcome, stop, caller,
                 doomed>>

\* Mutant: the task's own goroutine runs executor.
TakeUnpooled(t) ==
  /\ worker[t] = "queued"
  /\ t \notin canceled
  /\ worker' = [worker EXCEPT ![t] = "starting"]
  /\ UNCHANGED <<store, status, recent, canceled, outcome, stop, caller,
                 doomed>>

Take(t) ==
  /\ worker[t] = "queued"
  /\ FreeWorker
  /\ t \notin canceled
  /\ worker' = [worker EXCEPT ![t] = "starting"]
  /\ UNCHANGED <<store, status, recent, canceled, outcome, stop, caller,
                 doomed>>

\* Running, then the runnable: the wrapper of a streaming task waits first.
Start(t) ==
  /\ worker[t] = "starting"
  /\ status' = [status EXCEPT ![t] = "running"]
  /\ recent' = recent \cup {t}
  /\ worker' = [worker EXCEPT ![t] = IF t \in Streams THEN "gated" ELSE "running"]
  /\ UNCHANGED <<store, canceled, outcome, stop, caller, doomed>>

\* Progress and Total: nothing once the task is canceled.
Progress(t) ==
  /\ worker[t] = "running"
  /\ t \notin canceled
  /\ recent' = recent \cup {t}
  /\ UNCHANGED <<store, status, canceled, worker, outcome, stop, caller,
                 doomed>>

\* The runnable returns; it may do so without a look at its context.
Return(t, o) ==
  /\ worker[t] = "running"
  /\ outcome' = [outcome EXCEPT ![t] = o]
  /\ worker' = [worker EXCEPT ![t] = "recording"]
  /\ UNCHANGED <<store, status, recent, canceled, stop, caller, doomed>>

\* Mutant: an error of a canceled context is not told from the others'.
RecordAnyErrorAsCanceled(t) ==
  /\ worker[t] = "recording"
  /\ status' = [status EXCEPT ![t] =
                               IF outcome[t] = "done" THEN "done" ELSE "canceled"]
  /\ worker' = [worker EXCEPT ![t] = "stamping"]
  /\ UNCHANGED <<store, recent, canceled, outcome, stop, caller, doomed>>

\* Mutant: a canceled runnable's status is left to the canceler.
RecordLeavesCanceled(t) ==
  /\ worker[t] = "recording"
  /\ status' = [status EXCEPT ![t] =
                               IF outcome[t] = "canceled" THEN @ ELSE outcome[t]]
  /\ worker' = [worker EXCEPT ![t] = "stamping"]
  /\ UNCHANGED <<store, recent, canceled, outcome, stop, caller, doomed>>

\* executor records that the runnable returned ...
Record(t) ==
  /\ worker[t] = "recording"
  /\ status' = [status EXCEPT ![t] = outcome[t]]
  /\ worker' = [worker EXCEPT ![t] = "stamping"]
  /\ UNCHANGED <<store, recent, canceled, outcome, stop, caller, doomed>>

\* ... then what (Result or Error, not kept here), and when.
Stamp(t) ==
  /\ worker[t] = "stamping"
  /\ recent' = recent \cup {t}
  /\ worker' = [worker EXCEPT ![t] = AfterProcess(t)]
  /\ UNCHANGED <<store, status, canceled, outcome, stop, caller, doomed>>

\* ExecuteAndWait's goroutine sends on done.
Notify(t) ==
  /\ worker[t] = "notifying"
  /\ worker' = [worker EXCEPT ![t] = "ended"]
  /\ UNCHANGED <<store, status, recent, canceled, outcome, stop, caller,
                 doomed>>

(***************************************************************************)
(* clean, every thirty seconds.                                            *)
(***************************************************************************)
Age(t) ==
  /\ t \in recent
  /\ recent' = recent \ {t}
  /\ UNCHANGED <<store, status, canceled, worker, outcome, stop, caller,
                 doomed>>

\* Mutant: everything that has not moved for long is collected.
CollectStale ==
  /\ doomed = {}
  /\ doomed' = store \ recent
  /\ doomed' # {}
  /\ UNCHANGED <<store, status, recent, canceled, worker, outcome, stop,
                 caller>>

Collect ==
  /\ doomed = {}
  /\ doomed' = {t \in store \ recent : Finished(t)}
  /\ doomed' # {}
  /\ UNCHANGED <<store, status, recent, canceled, worker, outcome, stop,
                 caller>>

Drop ==
  /\ doomed # {}
  /\ store' = store \ doomed
  /\ doomed' = {}
  /\ UNCHANGED <<status, recent, canceled, worker, outcome, stop, caller>>

-----------------------------------------------------------------------------
Handlers(t) ==
  \/ Create(t)
  \/ Reply(t) \/ Poll(t) \/ Leave(t)
  \/ StreamReady(t) \/ StreamComplete(t) \/ Disconnect(t)

Stopping(t) ==
  \/ StopTask(t) \/ CancelContext(t) \/ CancelStatus(t)
  \/ RemoveTask(t) \/ RemoveCanceled(t)

Pool(t) ==
  \/ Skip(t) \/ Take(t) \/ Start(t) \/ Progress(t)
  \/ \E o \in Outcomes : Return(t, o)
  \/ Record(t) \/ Stamp(t) \/ Notify(t)

Next ==
  \/ \E t \in Tasks : Handlers(t) \/ Stopping(t) \/ Pool(t) \/ Age(t)
  \/ Collect \/ Drop

Spec == Init /\ [][Next]_vars

\* Goroutines run, runnables return, and a client goes on asking.  A channel
\* serves its senders in order, so a queued task gets its worker.
Fairness ==
  \A t \in Tasks :
    /\ WF_vars(Reply(t)) /\ WF_vars(Poll(t))
    /\ WF_vars(StreamReady(t)) /\ WF_vars(StreamComplete(t))
    /\ WF_vars(CancelContext(t)) /\ WF_vars(CancelStatus(t))
    /\ WF_vars(Skip(t)) /\ WF_vars(Take(t)) /\ WF_vars(Start(t))
    /\ WF_vars(\E o \in Outcomes : Return(t, o))
    /\ WF_vars(Record(t)) /\ WF_vars(Stamp(t)) /\ WF_vars(Notify(t))

FairSpec == Spec /\ Fairness

-----------------------------------------------------------------------------
TypeOK ==
  /\ store \subseteq Tasks
  /\ status \in [Tasks -> {"none", "pending", "running"} \cup Outcomes]
  /\ recent \subseteq Tasks
  /\ canceled \subseteq Tasks
  /\ worker \in [Tasks -> {"none", "queued"} \cup Serving \cup Through]
  /\ outcome \in [Tasks -> {"none"} \cup Outcomes]
  /\ stop \in [Tasks -> {"none", "stop"} \cup Canceling]
  /\ caller \in [Tasks -> {"none", "gone", "polling"} \cup Inside \cup Outcomes]
  /\ doomed \subseteq Tasks
  /\ Cardinality(Served) <= MaxConcurrentTask

\* A task the list no longer shows is over, or was canceled: the two passes of
\* clean take no task whose runnable is still to end by itself.
RemovedIsOver ==
  \A t \in Tasks :
    worker[t] # "none" /\ t \notin store => outcome[t] # "none" \/ t \in canceled

\* Once its worker has left it a task is finished for everybody who asks, but
\* for the moment in which a canceler has yet to write the status.
LeftIsFinished ==
  \A t \in Tasks :
    worker[t] \in Through => Finished(t) \/ stop[t] \in Canceling

\* What a client is told is what became of the task: done and error are the
\* runnable's own result; canceled is a task somebody canceled, one whose
\* runnable said so, or one that ended and has left the list since.
ToldTheTruth ==
  \A t \in Tasks :
    /\ caller[t] \in {"done", "error"} => outcome[t] = caller[t]
    /\ caller[t] = "canceled" =>
         \/ t \in canceled \/ outcome[t] = "canceled"
         \/ t \notin store /\ outcome[t] # "none"

\* Every handler returns: the select of ExecuteAndWait does, and a streaming
\* handler does unless its task was canceled before a worker took it.
HandlersReturn ==
  \A t \in Tasks :
    caller[t] \in Inside ~>
      \/ caller[t] \notin Inside
      \/ caller[t] = "offering" /\ t \in canceled /\ worker[t] = "ended"

\* The goroutine of every task comes to its end, whatever became of the
\* handler: "the goroutine never blocks on send after a timeout return".
GoroutinesEnd == \A t \in Tasks : worker[t] = "queued" ~> worker[t] = "ended"

\* A client that goes on asking is told the end.
ClientIsTold == \A t \in Tasks : caller[t] = "polling" ~> caller[t] # "polling"

\* Nobody waits for ever: neither the handlers nor their goroutines nor the clients.
RunnerSettles == HandlersReturn /\ GoroutinesEnd /\ ClientIsTold
=============================================================================
