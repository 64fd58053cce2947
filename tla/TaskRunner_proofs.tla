--------------------------- MODULE TaskRunner_proofs ---------------------------
(***************************************************************************)
(* Proofs about TaskRunner, for any set of tasks and any number of         *)
(* workers: what is in the way of every safety property is a task seen at  *)
(* an awkward moment, so the invariant says, for each place the worker can *)
(* be in, what the task's status and outcome may be.                       *)
(***************************************************************************)
EXTENDS TaskRunner, FiniteSetTheorems, TLAPS

Types ==
  /\ store \subseteq Tasks
  /\ status \in [Tasks -> {"none", "pending", "running"} \cup Outcomes]
  /\ recent \subseteq Tasks
  /\ canceled \subseteq Tasks
  /\ worker \in [Tasks -> {"none", "queued"} \cup Serving \cup Through]
  /\ outcome \in [Tasks -> {"none"} \cup Outcomes]
  /\ stop \in [Tasks -> {"none", "stop"} \cup Canceling]
  /\ caller \in [Tasks -> {"none", "gone", "polling"} \cup Inside \cup Outcomes]
  /\ doomed \subseteq Tasks

\* The workers that serve a task are counted.
Counted == IsFiniteSet(Served) /\ Cardinality(Served) <= MaxConcurrentTask

\* A task nobody has created leaves no trace.
Untouched(t) ==
  worker[t] = "none" =>
    /\ t \notin store \cup canceled
    /\ status[t] = "none" /\ stop[t] = "none" /\ caller[t] = "none"

\* The outcome is there from the runnable's return on.
OutcomeOf(t) ==
  /\ worker[t] \in {"none", "queued", "starting", "gated", "running"} =>
       outcome[t] = "none"
  /\ worker[t] \in {"recording", "stamping"} => outcome[t] # "none"
  /\ worker[t] \in Through /\ outcome[t] = "none" => t \in canceled

\* A finished status has its reason.
StatusOf(t) ==
  /\ status[t] \in {"done", "error"} => outcome[t] = status[t]
  /\ status[t] = "canceled" => t \in canceled \/ outcome[t] = "canceled"

\* A status is finished when the worker is past it, but for a canceler that
\* is between its two writes.
FinishedOf(t) ==
  /\ worker[t] \in {"stamping"} \cup Through => Finished(t) \/ stop[t] \in Canceling
  /\ worker[t] = "queued" /\ t \in canceled => Finished(t) \/ stop[t] \in Canceling
  /\ stop[t] \in Canceling => t \in canceled

\* A task that has left the list, or is about to, is over or canceled.
OverOf(t) ==
  (worker[t] # "none" /\ t \notin store) \/ t \in doomed =>
    outcome[t] # "none" \/ t \in canceled

ToldOf(t) ==
  /\ caller[t] \in {"done", "error"} => outcome[t] = caller[t]
  /\ caller[t] = "canceled" =>
       \/ t \in canceled \/ outcome[t] = "canceled"
       \/ t \notin store /\ outcome[t] # "none"

TaskInv(t) ==
  /\ Untouched(t) /\ OutcomeOf(t) /\ StatusOf(t)
  /\ FinishedOf(t) /\ OverOf(t) /\ ToldOf(t)

RunnerInv == Types /\ Counted /\ \A t \in Tasks : TaskInv(t)

-----------------------------------------------------------------------------
\* What a step leaves of a task: a step of another task, or of nobody's.
LEMMA SameTask ==
  ASSUME NEW t \in Tasks, TaskInv(t),
         status'[t] = status[t], worker'[t] = worker[t],
         outcome'[t] = outcome[t], stop'[t] = stop[t], caller'[t] = caller[t],
         t \in store' <=> t \in store,
         t \in canceled' <=> t \in canceled,
         t \in doomed' => t \in doomed
  PROVE  TaskInv(t)'
BY DEF TaskInv, Untouched, OutcomeOf, StatusOf, FinishedOf, OverOf, ToldOf, Finished

\* Types and the task's own invariant, one step per action.
LEMMA TaskSteps ==
  ASSUME RunnerInv, NEW t \in Tasks, Handlers(t) \/ Stopping(t) \/ Pool(t) \/ Age(t)
  PROVE  Types' /\ \A s \in Tasks : TaskInv(s)'
<1>0. Types /\ TaskInv(t) /\ \A s \in Tasks : TaskInv(s)
  BY DEF RunnerInv
<1> USE DEF Serving, Through, Inside, Canceling, Outcomes, Finished, Untouched,
            OutcomeOf, StatusOf, FinishedOf, OverOf, ToldOf
<1>1. ASSUME Create(t)  PROVE Types' /\ \A s \in Tasks : TaskInv(s)'
  <2>1. Types'
    BY <1>0, <1>1 DEF Create, Types
  <2>2. ASSUME NEW s \in Tasks, s # t  PROVE TaskInv(s)'
    BY <1>0, <1>1, <2>2, SameTask DEF Create, Types
  <2>3. TaskInv(t)'
    BY <1>0, <1>1 DEF Create, TaskInv, Types
  <2> QED
    BY <2>1, <2>2, <2>3
<1>2. ASSUME Reply(t)  PROVE Types' /\ \A s \in Tasks : TaskInv(s)'
  <2>1. Types'
    BY <1>0, <1>2 DEF Reply, Answer, Types
  <2>2. ASSUME NEW s \in Tasks, s # t  PROVE TaskInv(s)'
    BY <1>0, <1>2, <2>2, SameTask DEF Reply, Answer, Types
  <2>3. TaskInv(t)'
    BY <1>0, <1>2 DEF Reply, Answer, TaskInv, Types
  <2> QED
    BY <2>1, <2>2, <2>3
<1>3. ASSUME Poll(t)  PROVE Types' /\ \A s \in Tasks : TaskInv(s)'
  <2>1. Types'
    BY <1>0, <1>3 DEF Poll, Answer, Types
  <2>2. ASSUME NEW s \in Tasks, s # t  PROVE TaskInv(s)'
    BY <1>0, <1>3, <2>2, SameTask DEF Poll, Answer, Types
  <2>3. TaskInv(t)'
    BY <1>0, <1>3 DEF Poll, Answer, TaskInv, Types
  <2> QED
    BY <2>1, <2>2, <2>3
<1>4. ASSUME Leave(t)  PROVE Types' /\ \A s \in Tasks : TaskInv(s)'
  <2>1. Types'
    BY <1>0, <1>4 DEF Leave, Types
  <2>2. ASSUME NEW s \in Tasks, s # t  PROVE TaskInv(s)'
    BY <1>0, <1>4, <2>2, SameTask DEF Leave, Types
  <2>3. TaskInv(t)'
    BY <1>0, <1>4 DEF Leave, TaskInv, Types
  <2> QED
    BY <2>1, <2>2, <2>3
<1>5. ASSUME StreamReady(t)  PROVE Types' /\ \A s \in Tasks : TaskInv(s)'
  <2>1. Types'
    BY <1>0, <1>5 DEF StreamReady, Types
  <2>2. ASSUME NEW s \in Tasks, s # t  PROVE TaskInv(s)'
    BY <1>0, <1>5, <2>2, SameTask DEF StreamReady, Types
  <2>3. TaskInv(t)'
    BY <1>0, <1>5 DEF StreamReady, TaskInv, Types
  <2> QED
    BY <2>1, <2>2, <2>3
<1>6. ASSUME StreamComplete(t)  PROVE Types' /\ \A s \in Tasks : TaskInv(s)'
  <2>1. Types'
    BY <1>0, <1>6 DEF StreamComplete, Types
  <2>2. ASSUME NEW s \in Tasks, s # t  PROVE TaskInv(s)'
    BY <1>0, <1>6, <2>2, SameTask DEF StreamComplete, Types
  <2>3. TaskInv(t)'
    BY <1>0, <1>6 DEF StreamComplete, TaskInv, Types
  <2> QED
    BY <2>1, <2>2, <2>3
<1>7. ASSUME Disconnect(t)  PROVE Types' /\ \A s \in Tasks : TaskInv(s)'
  <2>1. Types'
    BY <1>0, <1>7 DEF Disconnect, Types
  <2>2. ASSUME NEW s \in Tasks, s # t  PROVE TaskInv(s)'
    BY <1>0, <1>7, <2>2, SameTask DEF Disconnect, Types
  <2>3. TaskInv(t)'
    BY <1>0, <1>7 DEF Disconnect, TaskInv, Types
  <2> QED
    BY <2>1, <2>2, <2>3
<1>8. ASSUME StopTask(t)  PROVE Types' /\ \A s \in Tasks : TaskInv(s)'
  <2>1. Types'
    BY <1>0, <1>8 DEF StopTask, Types
  <2>2. ASSUME NEW s \in Tasks, s # t  PROVE TaskInv(s)'
    BY <1>0, <1>8, <2>2, SameTask DEF StopTask, Types
  <2>3. TaskInv(t)'
    BY <1>0, <1>8 DEF StopTask, TaskInv, Types
  <2> QED
    BY <2>1, <2>2, <2>3
<1>9. ASSUME CancelContext(t)  PROVE Types' /\ \A s \in Tasks : TaskInv(s)'
  <2>1. Types'
    BY <1>0, <1>9 DEF CancelContext, Types
  <2>2. ASSUME NEW s \in Tasks, s # t  PROVE TaskInv(s)'
    BY <1>0, <1>9, <2>2, SameTask DEF CancelContext, Types
  <2>3. TaskInv(t)'
    BY <1>0, <1>9 DEF CancelContext, TaskInv, Types
  <2> QED
    BY <2>1, <2>2, <2>3
<1>10. ASSUME RemoveTask(t)  PROVE Types' /\ \A s \in Tasks : TaskInv(s)'
  <2>1. Types'
    BY <1>0, <1>10 DEF RemoveTask, Types
  <2>2. ASSUME NEW s \in Tasks, s # t  PROVE TaskInv(s)'
    BY <1>0, <1>10, <2>2, SameTask DEF RemoveTask, Types
  <2>3. TaskInv(t)'
    BY <1>0, <1>10 DEF RemoveTask, TaskInv, Types
  <2> QED
    BY <2>1, <2>2, <2>3
<1>11. ASSUME CancelStatus(t)  PROVE Types' /\ \A s \in Tasks : TaskInv(s)'
  <2>1. Types'
    BY <1>0, <1>11 DEF CancelStatus, Types
  <2>2. ASSUME NEW s \in Tasks, s # t  PROVE TaskInv(s)'
    BY <1>0, <1>11, <2>2, SameTask DEF CancelStatus, Types
  <2>3. TaskInv(t)'
    BY <1>0, <1>11 DEF CancelStatus, TaskInv, Types
  <2> QED
    BY <2>1, <2>2, <2>3
<1>12. ASSUME RemoveCanceled(t)  PROVE Types' /\ \A s \in Tasks : TaskInv(s)'
  <2>1. Types'
    BY <1>0, <1>12 DEF RemoveCanceled, Types
  <2>2. ASSUME NEW s \in Tasks, s # t  PROVE TaskInv(s)'
    BY <1>0, <1>12, <2>2, SameTask DEF RemoveCanceled, Types
  <2>3. TaskInv(t)'
    BY <1>0, <1>12 DEF RemoveCanceled, TaskInv, Types
  <2> QED
    BY <2>1, <2>2, <2>3
<1>13. ASSUME Skip(t)  PROVE Types' /\ \A s \in Tasks : TaskInv(s)'
  <2>1. Types'
    BY <1>0, <1>13 DEF Skip, AfterProcess, Types
  <2>2. ASSUME NEW s \in Tasks, s # t  PROVE TaskInv(s)'
    BY <1>0, <1>13, <2>2, SameTask DEF Skip, AfterProcess, Types
  <2>3. TaskInv(t)'
    BY <1>0, <1>13 DEF Skip, AfterProcess, TaskInv, Types
  <2> QED
    BY <2>1, <2>2, <2>3
<1>14. ASSUME Take(t)  PROVE Types' /\ \A s \in Tasks : TaskInv(s)'
  <2>1. Types'
    BY <1>0, <1>14 DEF Take, Types
  <2>2. ASSUME NEW s \in Tasks, s # t  PROVE TaskInv(s)'
    BY <1>0, <1>14, <2>2, SameTask DEF Take, Types
  <2>3. TaskInv(t)'
    BY <1>0, <1>14 DEF Take, TaskInv, Types
  <2> QED
    BY <2>1, <2>2, <2>3
<1>15. ASSUME Start(t)  PROVE Types' /\ \A s \in Tasks : TaskInv(s)'
  <2>1. Types'
    BY <1>0, <1>15 DEF Start, Types
  <2>2. ASSUME NEW s \in Tasks, s # t  PROVE TaskInv(s)'
    BY <1>0, <1>15, <2>2, SameTask DEF Start, Types
  <2>3. TaskInv(t)'
    BY <1>0, <1>15 DEF Start, TaskInv, Types
  <2> QED
    BY <2>1, <2>2, <2>3
<1>16. ASSUME Progress(t)  PROVE Types' /\ \A s \in Tasks : TaskInv(s)'
  <2>1. Types'
    BY <1>0, <1>16 DEF Progress, Types
  <2>2. ASSUME NEW s \in Tasks, s # t  PROVE TaskInv(s)'
    BY <1>0, <1>16, <2>2, SameTask DEF Progress, Types
  <2>3. TaskInv(t)'
    BY <1>0, <1>16 DEF Progress, TaskInv, Types
  <2> QED
    BY <2>1, <2>2, <2>3
<1>17. ASSUME NEW o \in Outcomes, Return(t, o)
        PROVE Types' /\ \A s \in Tasks : TaskInv(s)'
  <2>1. Types'
    BY <1>0, <1>17 DEF Return, Types
  <2>2. ASSUME NEW s \in Tasks, s # t  PROVE TaskInv(s)'
    BY <1>0, <1>17, <2>2, SameTask DEF Return, Types
  <2>3. TaskInv(t)'
    BY <1>0, <1>17 DEF Return, TaskInv, Types
  <2> QED
    BY <2>1, <2>2, <2>3
<1>18. ASSUME Record(t)  PROVE Types' /\ \A s \in Tasks : TaskInv(s)'
  <2>1. Types'
    BY <1>0, <1>18 DEF Record, Types
  <2>2. ASSUME NEW s \in Tasks, s # t  PROVE TaskInv(s)'
    BY <1>0, <1>18, <2>2, SameTask DEF Record, Types
  <2>3. TaskInv(t)'
    BY <1>0, <1>18 DEF Record, TaskInv, Types
  <2> QED
    BY <2>1, <2>2, <2>3
<1>19. ASSUME Stamp(t)  PROVE Types' /\ \A s \in Tasks : TaskInv(s)'
  <2>1. Types'
    BY <1>0, <1>19 DEF Stamp, AfterProcess, Types
  <2>2. ASSUME NEW s \in Tasks, s # t  PROVE TaskInv(s)'
    BY <1>0, <1>19, <2>2, SameTask DEF Stamp, AfterProcess, Types
  <2>3. TaskInv(t)'
    BY <1>0, <1>19 DEF Stamp, AfterProcess, TaskInv, Types
  <2> QED
    BY <2>1, <2>2, <2>3
<1>20. ASSUME Notify(t)  PROVE Types' /\ \A s \in Tasks : TaskInv(s)'
  <2>1. Types'
    BY <1>0, <1>20 DEF Notify, Types
  <2>2. ASSUME NEW s \in Tasks, s # t  PROVE TaskInv(s)'
    BY <1>0, <1>20, <2>2, SameTask DEF Notify, Types
  <2>3. TaskInv(t)'
    BY <1>0, <1>20 DEF Notify, TaskInv, Types
  <2> QED
    BY <2>1, <2>2, <2>3
<1>21. ASSUME Age(t)  PROVE Types' /\ \A s \in Tasks : TaskInv(s)'
  <2>1. Types'
    BY <1>0, <1>21 DEF Age, Types
  <2>2. ASSUME NEW s \in Tasks, s # t  PROVE TaskInv(s)'
    BY <1>0, <1>21, <2>2, SameTask DEF Age, Types
  <2>3. TaskInv(t)'
    BY <1>0, <1>21 DEF Age, TaskInv, Types
  <2> QED
    BY <2>1, <2>2, <2>3
<1> QED
  BY <1>1, <1>2, <1>3, <1>4, <1>5, <1>6, <1>7, <1>8, <1>9, <1>10, <1>11,
     <1>12, <1>13, <1>14, <1>15, <1>16, <1>17, <1>18, <1>19, <1>20, <1>21
     DEF Handlers, Stopping, Pool

\* The list's ticker: what it collects is finished, what it drops is over.
LEMMA TickSteps ==
  ASSUME RunnerInv, Collect \/ Drop
  PROVE  Types' /\ \A s \in Tasks : TaskInv(s)'
<1>0. Types /\ \A s \in Tasks : TaskInv(s)
  BY DEF RunnerInv
<1>1. CASE Collect
  <2>1. Types'
    BY <1>0, <1>1 DEF Collect, Types
  <2>2. ASSUME NEW s \in Tasks  PROVE TaskInv(s)'
    BY <1>0, <1>1 DEF Collect, TaskInv, Untouched, OutcomeOf, StatusOf,
                      FinishedOf, OverOf, ToldOf, Finished, Types, Outcomes
  <2> QED
    BY <2>1, <2>2
<1>2. CASE Drop
  <2>1. Types'
    BY <1>0, <1>2 DEF Drop, Types
  <2>2. ASSUME NEW s \in Tasks  PROVE TaskInv(s)'
    BY <1>0, <1>2 DEF Drop, TaskInv, Untouched, OutcomeOf, StatusOf,
                      FinishedOf, OverOf, ToldOf, Finished, Types
  <2> QED
    BY <2>1, <2>2
<1> QED
  BY <1>1, <1>2

\* Only Take puts a task on a worker, and only on a free one.
LEMMA CountedSteps ==
  ASSUME RunnerInv, Next
  PROVE  Counted'
<1>0. Types /\ Counted /\ MaxConcurrentTask \in Nat
  BY TaskRunnerAssumption DEF RunnerInv
<1>1. \/ Served' \subseteq Served
      \/ \E t \in Tasks : FreeWorker /\ t \notin Served /\ Served' = Served \cup {t}
  <2>1. ASSUME NEW t \in Tasks, Handlers(t) \/ Stopping(t) \/ Age(t)
        PROVE  Served' \subseteq Served
    BY <1>0, <2>1 DEF Types, Handlers, Stopping, Age, Create, Reply, Poll, Leave,
      StreamReady, StreamComplete, Disconnect, StopTask, CancelContext, RemoveTask,
      CancelStatus, RemoveCanceled, Served, Serving, Through
  <2>2. ASSUME NEW t \in Tasks, Take(t)
        PROVE  FreeWorker /\ t \notin Served /\ Served' = Served \cup {t}
    BY <1>0, <2>2 DEF Types, Take, Served, Serving, Through
  <2>3. ASSUME NEW t \in Tasks, Pool(t), ~Take(t)
        PROVE  Served' \subseteq Served
    BY <1>0, <2>3 DEF Types, Pool, Skip, Start, Progress, Return, Record, Stamp,
      Notify, AfterProcess, Served, Serving, Through
  <2>4. CASE Collect \/ Drop
    BY <2>4 DEF Collect, Drop, Served
  <2> QED
    BY <2>1, <2>2, <2>3, <2>4 DEF Next
<1>2. CASE Served' \subseteq Served
  <2>1. IsFiniteSet(Served') /\ Cardinality(Served') <= Cardinality(Served)
    BY <1>0, <1>2, FS_Subset DEF Counted
  <2>2. Cardinality(Served) \in Nat /\ Cardinality(Served') \in Nat
    BY <1>0, <2>1, FS_CardinalityType DEF Counted
  <2> QED
    BY <1>0, <2>1, <2>2 DEF Counted
<1>3. ASSUME NEW t \in Tasks, FreeWorker, t \notin Served, Served' = Served \cup {t}
      PROVE  Counted'
  <2>1. IsFiniteSet(Served') /\ Cardinality(Served') = Cardinality(Served) + 1
    BY <1>0, <1>3, FS_AddElement DEF Counted
  <2>2. Cardinality(Served) \in Nat
    BY <1>0, FS_CardinalityType DEF Counted
  <2> QED
    BY <1>0, <1>3, <2>1, <2>2 DEF Counted, FreeWorker
<1> QED
  BY <1>1, <1>2, <1>3

\* The invariant behind the four theorems below: it holds from the start, and
\* each action keeps it.
THEOREM RunnerInvariant == Spec => []RunnerInv
<1>1. Init => RunnerInv
  <2> SUFFICES ASSUME Init  PROVE RunnerInv
    OBVIOUS
  <2>1. Types /\ \A t \in Tasks : TaskInv(t)
    BY DEF Init, Types, TaskInv, Untouched, OutcomeOf, StatusOf, FinishedOf,
           OverOf, ToldOf, Finished, Outcomes, Through, Canceling
  <2>2. Served = {}
    BY DEF Init, Served, Serving
  <2> QED
    BY <2>1, <2>2, FS_EmptySet, TaskRunnerAssumption DEF RunnerInv, Counted
<1>2. RunnerInv /\ [Next]_vars => RunnerInv'
  <2> SUFFICES ASSUME RunnerInv, [Next]_vars  PROVE RunnerInv'
    OBVIOUS
  <2>1. CASE Next
    BY <2>1, TaskSteps, TickSteps, CountedSteps DEF Next, RunnerInv
  <2>2. CASE UNCHANGED vars
    <3>1. Types' /\ Counted'
      BY <2>2 DEF RunnerInv, Types, Counted, Served, vars
    <3>2. ASSUME NEW t \in Tasks  PROVE TaskInv(t)'
      BY <2>2, SameTask DEF RunnerInv, vars
    <3> QED
      BY <3>1, <3>2 DEF RunnerInv
  <2> QED
    BY <2>1, <2>2
<1> QED
  BY <1>1, <1>2, PTL DEF Spec

\* The types, and no more tasks on workers than there are workers.
THEOREM RunnerTypeCorrect == Spec => []TypeOK
<1>1. RunnerInv => TypeOK
  BY DEF RunnerInv, Types, Counted, TypeOK
<1> QED
  BY <1>1, RunnerInvariant, PTL

\* clean, in its two passes, takes no task off the list whose runnable is still
\* to end by itself, however its reads fall between the worker's writes.
THEOREM RemovedIsOverCorrect == Spec => []RemovedIsOver
<1>1. RunnerInv => RemovedIsOver
  BY DEF RunnerInv, TaskInv, OverOf, RemovedIsOver
<1> QED
  BY <1>1, RunnerInvariant, PTL

\* A task its worker is through with is finished, or about to be canceled, on
\* each of executor's ways out.
THEOREM LeftIsFinishedCorrect == Spec => []LeftIsFinished
<1>1. RunnerInv => LeftIsFinished
  BY DEF RunnerInv, TaskInv, FinishedOf, LeftIsFinished
<1> QED
  BY <1>1, RunnerInvariant, PTL

\* What a polling client is told has its reason in what happened to the task.
THEOREM ToldTheTruthCorrect == Spec => []ToldTheTruth
<1>1. RunnerInv => ToldTheTruth
  BY DEF RunnerInv, TaskInv, ToldOf, ToldTheTruth
<1> QED
  BY <1>1, RunnerInvariant, PTL
================================================================================
