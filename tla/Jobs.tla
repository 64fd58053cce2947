-------------------------------- MODULE Jobs --------------------------------
(* The executions of one job: server/job/executor.go, history_service.go and   *)
(* the rows they keep (storage/job*.go).                                       *)
(*                                                                             *)
(* A run is one call of executeJobWithHistory; a step is one SQL statement,    *)
(* one critical section of je.mu or one outside event.  The Disposer goes      *)
(* through updateJobExecutionResult like the runs do.  Rows survive a crash,   *)
(* everything else does not.                                                   *)
EXTENDS Naturals, FiniteSets

CONSTANTS
  MaxRuns,     \* bound: runs started
  Outers,      \* bound: histories made by executeRetry and ManualRetry
  MaxRetries,  \* JobRetryConfig.MaxRetries
  MaxDisruptions,  \* bound: crashes, panics, shutdowns and deletions
  MaxFailures,     \* bound: SQL statements that fail
  Disposer, None,
  Faults       \* subset of {"panic", "dispose", "delete", "manual"}: what happens

Runs == 1..MaxRuns
Finishers == Runs \cup {Disposer}
Histories == Runs \cup Outers

ASSUME JobsAssumption ==
  /\ MaxRuns \in Nat /\ MaxRetries \in Nat \ {0} /\ MaxDisruptions \in Nat /\ MaxFailures \in Nat
  /\ Disposer \notin Histories /\ None \notin Histories /\ Runs \cap Outers = {}

VARIABLES
  pc,       \* how far each run, and the Disposer, is
  outcome,  \* what each finisher hands to updateJobExecutionResult
  status,   \* jobExecutionItem.Status, shared by a run and the Disposer
  tracked,  \* je.executions
  target,   \* the execution Dispose is at
  disturbed,  \* history: the executions Dispose has been at
  mu,       \* whether Dispose holds je.mu
  snap,     \* the retry count scheduleRetry and executeRetry have read
  timers,   \* retries asleep: [of, count]
  origin,   \* RetryOf and RetryCount of each history
  outer,    \* how far each executeRetry or ManualRetry is
  row,      \* job_execution.status
  hist,     \* job_history.status
  cfg,      \* job_retry_config: None or [count, next]
  job,      \* the row of the job: "there" or "gone"
  phase,    \* of the process: "down", "loading", "up", "closing"
  disruptions,
  failures, \* statements that have failed
  missed,   \* history: the rows that were not told the end of their execution
  unclosed  \* history: the histories that were not told theirs

memory == <<pc, outcome, status, tracked, target, disturbed, mu, snap, timers, outer>>
books == <<failures, missed, unclosed>>
vars == <<memory, origin, row, hist, cfg, job, phase, disruptions, books>>

Statuses == {"none", "running", "success", "failed", "dead_letter", "retrying"}
Unused == {r \in Runs : pc[r] = "idle"}
IsNext(r) == r \in Unused /\ \A q \in Unused : r <= q
On(f) == IF f = Disposer THEN target ELSE f

Init ==
  /\ pc = [f \in Finishers |-> "idle"]
  /\ outcome = [f \in Finishers |-> "ok"]
  /\ status = [r \in Runs |-> "none"]
  /\ tracked = {} /\ target = None /\ disturbed = {} /\ mu = FALSE
  /\ snap = [x \in Finishers \cup Outers |-> 0]
  /\ timers = {}
  /\ origin = [h \in Histories |-> [of |-> None, count |-> 0]]
  /\ outer = [o \in Outers |-> "idle"]
  /\ row = [r \in Runs |-> "none"]
  /\ hist = [h \in Histories |-> "none"]
  /\ cfg = None /\ job = "there" /\ phase = "down" /\ disruptions = 0
  /\ failures = 0 /\ missed = [r \in Runs |-> "no"] /\ unclosed = {}
-----------------------------------------------------------------------------
(* A statement that fails changes nothing.  Whoever made it logs that, and goes *)
(* on or gives up what it was doing.                                           *)
StatementFails ==
  /\ failures < MaxFailures
  /\ failures' = failures + 1

(* Start-up: ReloadJobs registers the triggers before the rows of the last     *)
(* process are swept; requests and the hourly ticker come after both.  Nobody  *)
(* looks at whether the sweep failed.                                          *)
Load ==
  /\ phase = "down"
  /\ phase' = "loading"
  /\ UNCHANGED <<memory, origin, row, hist, cfg, job, disruptions, books>>

\* Mutant: executions of the last process keep their status.
SweepNothing ==
  /\ phase = "loading"
  /\ phase' = "up"
  /\ UNCHANGED <<memory, origin, row, hist, cfg, job, disruptions, books>>

Sweep ==
  /\ phase = "loading"
  /\ phase' = "up"
  /\ \/ /\ row' = [r \in Runs |-> IF row[r] = "running" THEN "failed" ELSE row[r]]
        /\ missed' = [r \in Runs |-> IF row[r] = "running" THEN "swept" ELSE missed[r]]
        /\ UNCHANGED failures
     \/ /\ StatementFails
        /\ missed' = [r \in Runs |-> IF row[r] = "running" /\ pc[r] = "lost" THEN "left" ELSE missed[r]]
        /\ UNCHANGED row
  /\ UNCHANGED <<memory, origin, hist, cfg, job, disruptions, unclosed>>

\* What a process that dies leaves behind: runs under way are lost.
Lost ==
  /\ phase' = "down"
  /\ pc' = [f \in Finishers |-> IF pc[f] \in {"idle", "done"} THEN pc[f] ELSE "lost"]
  /\ outer' = [o \in Outers |-> IF outer[o] \in {"idle", "done"} THEN outer[o] ELSE "lost"]
  /\ tracked' = {} /\ mu' = FALSE /\ timers' = {}
  /\ snap' = [x \in Finishers \cup Outers |-> 0]

Crash ==
  /\ phase # "down" /\ disruptions < MaxDisruptions
  /\ disruptions' = disruptions + 1
  /\ Lost
  /\ UNCHANGED <<outcome, status, target, disturbed, origin, row, hist, cfg, job, books>>
-----------------------------------------------------------------------------
(* A task is submitted for a job whose row was found; the row may go before    *)
(* the task is run, and the task does not look again.                          *)
Submit(of, count) ==
  \E r \in Runs :
    /\ IsNext(r)
    /\ pc' = [pc EXCEPT ![r] = "queued"]
    /\ origin' = [origin EXCEPT ![r] = [of |-> of, count |-> count]]

\* TriggerExecution, by cron, by an entry's event or through the API.
Trigger ==
  /\ phase \in {"loading", "up"} /\ job = "there"
  /\ Submit(None, 0)
  /\ UNCHANGED <<outcome, status, tracked, target, disturbed, mu, snap, timers, outer, row, hist, cfg, job, phase, disruptions, books>>

\* Without a history the execution does not begin.
NewHistory(r) ==
  /\ pc[r] = "queued"
  /\ \/ /\ pc' = [pc EXCEPT ![r] = "made"]
        /\ hist' = [hist EXCEPT ![r] = "running"]
        /\ UNCHANGED failures
     \/ /\ StatementFails
        /\ pc' = [pc EXCEPT ![r] = "done"]
        /\ UNCHANGED hist
  /\ UNCHANGED <<outcome, status, tracked, target, disturbed, mu, snap, timers, outer, origin, row, cfg, job, phase, disruptions, missed, unclosed>>

NewExecution(r) ==
  /\ pc[r] = "made"
  /\ pc' = [pc EXCEPT ![r] = "inserted"]
  /\ row' = [row EXCEPT ![r] = "running"]
  /\ status' = [status EXCEPT ![r] = "running"]
  /\ UNCHANGED <<outcome, tracked, target, disturbed, mu, snap, timers, outer, origin, hist, cfg, job, phase, disruptions, books>>

\* The execution's row is not made: the history ends at once, if that can be
\* written.
NewExecutionFails(r) ==
  /\ pc[r] = "made"
  /\ pc' = [pc EXCEPT ![r] = "done"]
  /\ \/ /\ StatementFails
        /\ hist' = [hist EXCEPT ![r] = "failed"]
        /\ UNCHANGED unclosed
     \/ /\ failures + 1 < MaxFailures /\ failures' = failures + 2
        /\ unclosed' = unclosed \cup {r}
        /\ UNCHANGED hist
  /\ UNCHANGED <<outcome, status, tracked, target, disturbed, mu, snap, timers, outer, origin, row, cfg, job, phase, disruptions, missed>>

AddExecution(r) ==
  /\ pc[r] = "inserted" /\ ~mu
  /\ pc' = [pc EXCEPT ![r] = "acting"]
  /\ tracked' = tracked \cup {r}
  /\ UNCHANGED <<outcome, status, target, disturbed, mu, snap, timers, outer, origin, row, hist, cfg, job, phase, disruptions, books>>

\* The action returns, with an error when it was canceled and noticed.  When it
\* panics the deferred call runs with e still nil, and the process dies of it.
Act(r, result) ==
  /\ pc[r] = "acting"
  /\ IF result = "panic"
       THEN "panic" \in Faults /\ disruptions < MaxDisruptions /\ disruptions' = disruptions + 1
       ELSE UNCHANGED disruptions
  /\ pc' = [pc EXCEPT ![r] = "ended"]
  /\ outcome' = [outcome EXCEPT ![r] = result]
  /\ status' = [status EXCEPT ![r] = IF result = "error" THEN "failed" ELSE "success"]
  /\ UNCHANGED <<tracked, target, disturbed, mu, snap, timers, outer, origin, row, hist, cfg, job, phase, books>>

\* Dispose, once requests are no longer served: it takes je.mu, clears the
\* triggers and goes on to an execution.
Dispose(r) ==
  /\ "dispose" \in Faults
  /\ phase = "up" /\ r \in tracked /\ disruptions < MaxDisruptions
  /\ phase' = "closing"
  /\ disruptions' = disruptions + 1
  /\ mu' = TRUE
  /\ target' = r /\ disturbed' = disturbed \cup {r}
  /\ pc' = [pc EXCEPT ![Disposer] = "ended"]
  /\ outcome' = [outcome EXCEPT ![Disposer] = "error"]
  /\ status' = [status EXCEPT ![r] = "failed"]
  /\ UNCHANGED <<tracked, snap, timers, outer, origin, row, hist, cfg, job, books>>
-----------------------------------------------------------------------------
(* updateJobExecutionResult, by the run or by the Disposer.                    *)

\* gorm's Save inserts the row again if it is gone.  When it fails the row still
\* says what it said, and nobody writes it again.
SaveExecution(f) ==
  /\ pc[f] = "ended"
  /\ pc' = [pc EXCEPT ![f] = "saved"]
  /\ \/ /\ row' = [row EXCEPT ![On(f)] = status[On(f)]]
        /\ missed' = [missed EXCEPT ![On(f)] = "no"]
        /\ UNCHANGED failures
     \/ /\ StatementFails
        /\ missed' = [missed EXCEPT ![On(f)] = IF row[On(f)] = "running" THEN "left" ELSE @]
        /\ UNCHANGED row
  /\ UNCHANGED <<outcome, status, tracked, target, disturbed, mu, snap, timers, outer, origin, hist, cfg, job, phase, disruptions, unclosed>>

\* Mutant: an execution whose row could not be written leaves its history alone.
CloseHistoryOfSaved(f) ==
  /\ pc[f] = "saved"
  /\ pc' = [pc EXCEPT ![f] = IF outcome[f] = "error" THEN "failing" ELSE "leaving"]
  /\ hist' = IF missed[On(f)] = "left" THEN hist
             ELSE [hist EXCEPT ![On(f)] = IF outcome[f] = "error" THEN "failed" ELSE "success"]
  /\ UNCHANGED <<outcome, status, tracked, target, disturbed, mu, snap, timers, outer, origin, row, cfg, job, phase, disruptions, books>>

\* A failed write of the row keeps nobody from writing the history, and a failed
\* write of the history nobody from the retry.
CloseHistory(f) ==
  /\ pc[f] = "saved"
  /\ pc' = [pc EXCEPT ![f] = IF outcome[f] = "error" THEN "failing" ELSE "leaving"]
  /\ \/ /\ hist' = [hist EXCEPT ![On(f)] = IF outcome[f] = "error" THEN "failed" ELSE "success"]
        /\ UNCHANGED <<failures, unclosed>>
     \/ /\ StatementFails
        /\ unclosed' = unclosed \cup {On(f)}
        /\ UNCHANGED hist
  /\ UNCHANGED <<outcome, status, tracked, target, disturbed, mu, snap, timers, outer, origin, row, cfg, job, phase, disruptions, missed>>

\* scheduleRetry reads the configuration, if the job is still there.
ReadRetryConfig(f) ==
  /\ pc[f] = "failing" /\ job = "there" /\ cfg # None
  /\ pc' = [pc EXCEPT ![f] = "retrying"]
  /\ snap' = [snap EXCEPT ![f] = cfg.count]
  /\ UNCHANGED <<outcome, status, tracked, target, disturbed, mu, timers, outer, origin, row, hist, cfg, job, phase, disruptions, books>>

\* No job or no configuration any more, or it cannot be read: no retry.
NoRetryConfig(f) ==
  /\ pc[f] = "failing"
  /\ \/ (job = "gone" \/ cfg = None) /\ UNCHANGED failures
     \/ StatementFails
  /\ pc' = [pc EXCEPT ![f] = "leaving"]
  /\ UNCHANGED <<outcome, status, tracked, target, disturbed, mu, snap, timers, outer, origin, row, hist, cfg, job, phase, disruptions, missed, unclosed>>

\* Mutant: an exhausted history is marked, and retried all the same.
GiveUpAndRetry(f) ==
  /\ pc[f] = "retrying" /\ snap[f] >= MaxRetries
  /\ pc' = [pc EXCEPT ![f] = "counted"]
  /\ hist' = [hist EXCEPT ![On(f)] = "dead_letter"]
  /\ UNCHANGED <<outcome, status, tracked, target, disturbed, mu, snap, timers, outer, origin, row, cfg, job, phase, disruptions, books>>

GiveUp(f) ==
  /\ pc[f] = "retrying" /\ snap[f] >= MaxRetries
  /\ pc' = [pc EXCEPT ![f] = "leaving"]
  /\ snap' = [snap EXCEPT ![f] = 0]
  /\ \/ hist' = [hist EXCEPT ![On(f)] = "dead_letter"] /\ UNCHANGED failures
     \/ StatementFails /\ UNCHANGED hist
  /\ UNCHANGED <<outcome, status, tracked, target, disturbed, mu, timers, outer, origin, row, cfg, job, phase, disruptions, missed, unclosed>>

\* Mutant: the count read is not compared with MaxRetries.
CountRetryUnbounded(f) ==
  /\ pc[f] = "retrying"
  /\ pc' = [pc EXCEPT ![f] = "counted"]
  /\ cfg' = IF cfg = None THEN None ELSE [cfg EXCEPT !.count = snap[f] + 1]
  /\ UNCHANGED <<outcome, status, tracked, target, disturbed, mu, snap, timers, outer, origin, row, hist, job, phase, disruptions, books>>

\* An update of a configuration that was deleted changes no row.
CountRetry(f) ==
  /\ pc[f] = "retrying" /\ snap[f] < MaxRetries
  /\ pc' = [pc EXCEPT ![f] = "counted"]
  /\ cfg' = IF cfg = None THEN None ELSE [cfg EXCEPT !.count = snap[f] + 1]
  /\ UNCHANGED <<outcome, status, tracked, target, disturbed, mu, snap, timers, outer, origin, row, hist, job, phase, disruptions, books>>

ArmRetry(f) ==
  /\ pc[f] = "counted"
  /\ pc' = [pc EXCEPT ![f] = "leaving"]
  /\ cfg' = IF cfg = None THEN None ELSE [cfg EXCEPT !.next = "later"]
  /\ timers' = timers \cup {[of |-> On(f), count |-> snap[f] + 1]}
  /\ snap' = [snap EXCEPT ![f] = 0]
  /\ UNCHANGED <<outcome, status, tracked, target, disturbed, mu, outer, origin, row, hist, job, phase, disruptions, books>>

\* The count or the time cannot be written: no goroutine sleeps for the retry.
RetryUnwritten(f) ==
  /\ \/ pc[f] = "counted"
     \/ pc[f] = "retrying" /\ snap[f] < MaxRetries
  /\ StatementFails
  /\ pc' = [pc EXCEPT ![f] = "leaving"]
  /\ snap' = [snap EXCEPT ![f] = 0]
  /\ UNCHANGED <<outcome, status, tracked, target, disturbed, mu, timers, outer, origin, row, hist, cfg, job, phase, disruptions, missed, unclosed>>

\* removeJobExecution takes je.mu: the Disposer waits for itself.
Leave(f) ==
  /\ pc[f] = "leaving" /\ ~mu /\ outcome[f] # "panic"
  /\ pc' = [pc EXCEPT ![f] = "done"]
  /\ tracked' = tracked \ {On(f)}
  /\ UNCHANGED <<outcome, status, target, disturbed, mu, snap, timers, outer, origin, row, hist, cfg, job, phase, disruptions, books>>

\* A panic that updateJobExecutionResult was deferred around goes on.
LeavePanicking(f) ==
  /\ pc[f] = "leaving" /\ ~mu /\ outcome[f] = "panic"
  /\ Lost
  /\ UNCHANGED <<outcome, status, target, disturbed, origin, row, hist, cfg, job, disruptions, books>>
-----------------------------------------------------------------------------
\* The goroutine of scheduleRetry wakes up: it has its own copy of the job.
FireRetry(t) ==
  /\ t \in timers
  /\ Submit(t.of, t.count)
  /\ timers' = timers \ {t}
  /\ UNCHANGED <<outcome, status, tracked, target, disturbed, mu, snap, outer, row, hist, cfg, job, phase, disruptions, books>>

\* next_retry_at comes.
Elapse ==
  /\ cfg # None /\ cfg.next = "later"
  /\ cfg' = [cfg EXCEPT !.next = "past"]
  /\ UNCHANGED <<memory, origin, row, hist, job, phase, disruptions, books>>

\* processPendingRetries: a time that was never set is in the past as well.
FindPending(o) ==
  /\ phase \in {"up", "closing"} /\ outer[o] = "idle"
  /\ cfg # None /\ cfg.count < MaxRetries /\ cfg.next = "past"
  /\ outer' = [outer EXCEPT ![o] = "found"]
  /\ snap' = [snap EXCEPT ![o] = cfg.count]
  /\ UNCHANGED <<pc, outcome, status, tracked, target, disturbed, mu, timers, origin, row, hist, cfg, job, phase, disruptions, books>>

\* executeRetry: a history of its own for the retry, ...
RetryHistory(o) ==
  /\ outer[o] = "found" /\ job = "there"
  /\ outer' = [outer EXCEPT ![o] = "made"]
  /\ hist' = [hist EXCEPT ![o] = "running"]
  /\ origin' = [origin EXCEPT ![o] = [of |-> None, count |-> snap[o] + 1]]
  /\ UNCHANGED <<pc, outcome, status, tracked, target, disturbed, mu, snap, timers, row, cfg, job, phase, disruptions, books>>

\* Its job cannot be read or its history not made: the retry ends there.
RetryOfGone(o) ==
  /\ outer[o] = "found"
  /\ \/ job = "gone" /\ UNCHANGED failures
     \/ StatementFails
  /\ outer' = [outer EXCEPT ![o] = "done"]
  /\ UNCHANGED <<pc, outcome, status, tracked, target, disturbed, mu, snap, timers, origin, row, hist, cfg, job, phase, disruptions, missed, unclosed>>

Postpone(o) ==
  /\ outer[o] = "made"
  /\ outer' = [outer EXCEPT ![o] = "postponed"]
  /\ \/ /\ cfg' = IF cfg = None THEN None ELSE [cfg EXCEPT !.next = "later"]
        /\ UNCHANGED failures
     \/ StatementFails /\ UNCHANGED cfg
  /\ UNCHANGED <<pc, outcome, status, tracked, target, disturbed, mu, snap, timers, origin, row, hist, job, phase, disruptions, missed, unclosed>>

\* ... a task that makes another one, and the end of the first as soon as the
\* task is submitted: Execute returns no error.
SubmitRetry(o) ==
  /\ outer[o] \in {"postponed", "manual"}
  /\ Submit(None, 0)
  /\ outer' = [outer EXCEPT ![o] = IF outer[o] = "manual" THEN "closing" ELSE "submitted"]
  /\ UNCHANGED <<outcome, status, tracked, target, disturbed, mu, snap, timers, row, hist, cfg, job, phase, disruptions, books>>

EndRetry(o) ==
  /\ outer[o] \in {"submitted", "closing"}
  /\ outer' = [outer EXCEPT ![o] = IF outer[o] = "closing" THEN "done" ELSE "dropping"]
  /\ \/ hist' = [hist EXCEPT ![o] = "success"] /\ UNCHANGED <<failures, unclosed>>
     \/ StatementFails /\ unclosed' = unclosed \cup {o} /\ UNCHANGED hist
  /\ UNCHANGED <<pc, outcome, status, tracked, target, disturbed, mu, snap, timers, origin, row, cfg, job, phase, disruptions, missed>>

DropConfig(o) ==
  /\ outer[o] = "dropping"
  /\ outer' = [outer EXCEPT ![o] = "done"]
  /\ \/ cfg' = None /\ UNCHANGED failures
     \/ StatementFails /\ UNCHANGED cfg
  /\ UNCHANGED <<pc, outcome, status, tracked, target, disturbed, mu, snap, timers, origin, row, hist, job, phase, disruptions, missed, unclosed>>

\* ManualRetry of any history; RetryJob is one transaction.
ManualRetry(o, h) ==
  /\ "manual" \in Faults
  /\ phase = "up" /\ job = "there" /\ outer[o] = "idle" /\ hist[h] # "none"
  /\ outer' = [outer EXCEPT ![o] = "manual"]
  /\ hist' = [hist EXCEPT ![o] = "running", ![h] = "retrying"]
  /\ origin' = [origin EXCEPT ![o] = [of |-> h, count |-> origin[h].count + 1]]
  /\ UNCHANGED <<pc, outcome, status, tracked, target, disturbed, mu, snap, timers, row, cfg, job, phase, disruptions, books>>
-----------------------------------------------------------------------------
\* saveRetryConfig with retries enabled, deleteRetryConfig.
SaveRetryConfig ==
  /\ phase = "up" /\ cfg = None
  /\ cfg' = [count |-> 0, next |-> "past"]
  /\ UNCHANGED <<memory, origin, row, hist, job, phase, disruptions, books>>

DeleteRetryConfig ==
  /\ phase = "up" /\ "delete" \in Faults /\ cfg # None
  /\ disruptions < MaxDisruptions /\ disruptions' = disruptions + 1
  /\ cfg' = None
  /\ UNCHANGED <<memory, origin, row, hist, job, phase, books>>

\* Mutant: no look at whether the execution runs.
DeleteExecutionUnasked(r) ==
  /\ phase = "up" /\ "delete" \in Faults /\ row[r] # "none"
  /\ disruptions < MaxDisruptions /\ disruptions' = disruptions + 1
  /\ row' = [row EXCEPT ![r] = "none"]
  /\ UNCHANGED <<memory, origin, hist, cfg, job, phase, books>>

\* IsJobExecutionRunning looks at the item, which may not be there yet.
DeleteExecution(r) ==
  /\ phase = "up" /\ "delete" \in Faults /\ row[r] # "none"
  /\ disruptions < MaxDisruptions /\ disruptions' = disruptions + 1
  /\ ~(r \in tracked /\ status[r] = "running")
  /\ row' = [row EXCEPT ![r] = "none"]
  /\ UNCHANGED <<memory, origin, hist, cfg, job, phase, books>>

\* The job goes, with the executions that are over.
DeleteJob ==
  /\ phase = "up" /\ "delete" \in Faults /\ job = "there"
  /\ disruptions < MaxDisruptions /\ disruptions' = disruptions + 1
  /\ job' = "gone"
  /\ row' = [r \in Runs |-> IF row[r] = "running" THEN "running" ELSE "none"]
  /\ UNCHANGED <<memory, origin, hist, cfg, phase, books>>
-----------------------------------------------------------------------------
Finish(f) ==
  \/ SaveExecution(f) \/ CloseHistory(f) \/ ReadRetryConfig(f) \/ NoRetryConfig(f)
  \/ GiveUp(f) \/ CountRetry(f) \/ ArmRetry(f) \/ RetryUnwritten(f) \/ Leave(f) \/ LeavePanicking(f)

Work(r) ==
  \/ NewHistory(r) \/ NewExecution(r) \/ NewExecutionFails(r) \/ AddExecution(r)
  \/ \E result \in {"ok", "error", "panic"} : Act(r, result)
  \/ Finish(r)

Retry(o) == RetryHistory(o) \/ RetryOfGone(o) \/ Postpone(o) \/ SubmitRetry(o) \/ EndRetry(o) \/ DropConfig(o)

User ==
  \/ SaveRetryConfig \/ DeleteRetryConfig \/ DeleteJob
  \/ \E r \in Runs : DeleteExecution(r) \/ Dispose(r)
  \/ \E o \in Outers, h \in Histories : ManualRetry(o, h)

Next ==
  \/ Load \/ Sweep \/ Crash \/ Trigger \/ User \/ Elapse
  \/ \E r \in Runs : Work(r)
  \/ Finish(Disposer)
  \/ \E t \in timers : FireRetry(t)
  \/ \E o \in Outers : FindPending(o) \/ Retry(o)

Spec == Init /\ [][Next]_vars

\* A process that died is started again; goroutines are scheduled and actions
\* return.  Nothing else has to happen.
FairSpec ==
  /\ Spec
  /\ WF_vars(Load \/ Sweep)
  /\ \A r \in Runs : WF_vars(Work(r))
  /\ \A o \in Outers : WF_vars(Retry(o))
-----------------------------------------------------------------------------
Points == {"idle", "queued", "made", "inserted", "acting", "ended", "saved",
           "failing", "retrying", "counted", "leaving", "done", "lost"}

\* Every variable holds what the code can put there.
TypeOK ==
  /\ pc \in [Finishers -> Points]
  /\ outcome \in [Finishers -> {"ok", "error", "panic"}]
  /\ status \in [Runs -> {"none", "running", "success", "failed"}]
  /\ tracked \subseteq Runs /\ target \in Runs \cup {None} /\ disturbed \subseteq Runs /\ mu \in BOOLEAN
  /\ snap \in [Finishers \cup Outers -> 0..MaxRetries]
  /\ timers \subseteq [of : Runs, count : 1..MaxRetries]
  /\ outer \in [Outers -> {"idle", "found", "made", "postponed", "submitted", "dropping",
                           "manual", "closing", "done", "lost"}]
  /\ row \in [Runs -> {"none", "running", "success", "failed"}]
  /\ hist \in [Histories -> Statuses]
  /\ cfg = None \/ cfg \in [count : 0..MaxRetries, next : {"past", "later"}]
  /\ job \in {"there", "gone"} /\ phase \in {"down", "loading", "up", "closing"} /\ disruptions \in Nat
  /\ failures \in Nat /\ missed \in [Runs -> {"no", "left", "swept"}] /\ unclosed \subseteq Histories

\* Executions Dispose interfered with: two finishers write the same rows.
Undisturbed(r) == r \notin disturbed

\* What a row says of an execution that ended: its end, unless that could not be
\* written; then it says running until a start-up sets it to failed.
ToldEnd(r) ==
  CASE missed[r] = "no" -> IF outcome[r] = "error" THEN "failed" ELSE "success"
    [] missed[r] = "left" -> "running"
    [] missed[r] = "swept" -> "failed"

\* What its history says, which nobody sweeps: dead letters and histories retried by
\* hand are ended too, and one whose row could not be made has failed.
HistoryTold(r) ==
  \/ hist[r] \in {"retrying"} \cup
       (IF status[r] = "none" THEN {"none", "failed"}
        ELSE IF outcome[r] = "error" THEN {"failed", "dead_letter"} ELSE {"success"})
  \/ hist[r] = "running" /\ r \in unclosed

\* Once an execution has left the executor, its row and its history tell of the
\* same end, the one the action came to (updateJobExecutionResult), each but for
\* its own write that failed: what becomes of the one does not keep the other from
\* being told.  The sweep of a start-up that ran beside the action does not stick.
EndsAgree ==
  \A r \in Runs : pc[r] = "done" /\ Undisturbed(r) =>
    row[r] \in {"none", ToldEnd(r)} /\ HistoryTold(r)

\* After start-up a row that says running belongs to an execution that is, or to
\* one whose end, or whose sweep at this start-up, was a statement that failed:
\* UpdateAllRunningJobExecutionsToFailed deals with those of every process before.
RunningIsAlive ==
  phase \in {"up", "closing"} => \A r \in Runs : row[r] = "running" =>
    \/ pc[r] \in {"inserted", "acting", "ended"}
    \/ missed[r] = "left" /\ failures > 0

\* A history is retried, by timer, only after its execution failed, and no more
\* once it is a dead letter (scheduleRetry returns false).
RetriedForCause ==
  \A h \in Runs : Undisturbed(h) =>
    \A t \in timers \cup {origin[r] : r \in Runs} : t.of = h =>
      outcome[h] = "error" /\ hist[h] # "dead_letter"

\* An execution whose row is deleted while the executor says it runs would come
\* back with its end; DELETE is refused for those.  A deletion before the item is
\* in the map, or after its status was set, is not refused.
DeletedWhileRunning ==
  [][\A r \in Runs : row[r] = "running" /\ row'[r] = "none" => pc[r] # "acting"]_vars

\* The row of an execution is told its end, or that could not be written and the
\* next start-up will do it; its history as well, but histories are not swept, so a
\* crash that takes the run away leaves its history.
RowSettled(r) == row[r] # "running" \/ missed[r] = "left"
HistorySettled(r) == hist[r] # "running" \/ pc[r] = "lost" \/ r \in unclosed

\* Executions, of which there are finitely many, come to an end and stay there, over
\* a crash as well.  The exception is a shutdown during which Dispose waits for the
\* mutex it holds: then no execution gets into or out of the map.
ExecutionsSettle ==
  \/ <>[](\A r \in Runs : pc[r] \in {"idle", "done", "lost"} /\ RowSettled(r) /\ HistorySettled(r))
  \/ <>mu

\* Rows and histories come to their end, and no end brings a deleted row back.
JobsSettle == ExecutionsSettle /\ DeletedWhileRunning
=============================================================================
