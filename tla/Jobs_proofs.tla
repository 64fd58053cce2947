----------------------------- MODULE Jobs_proofs -----------------------------
(***************************************************************************)
(* Rows and histories of executions agree with what happened, for any      *)
(* number of runs, retries, crashes and shutdowns, and every fault.        *)
(***************************************************************************)
EXTENDS Jobs, TLAPS

\* Where a run is while its item is in je.executions, and the last part of that,
\* after its end has been written to its row.
InExecutor == {"acting", "ended", "saved", "failing", "retrying", "counted", "leaving"}
Written == {"saved", "failing", "retrying", "counted", "leaving", "done"}

\* How an execution ends.
EndOf(r) == IF outcome[r] = "error" THEN "failed" ELSE "success"

\* Dispose holds je.mu for as long as its call of updateJobExecutionResult lasts,
\* and that call gets as far as the mutex at most.
DisposerInv ==
  /\ pc[Disposer] \in {"idle", "lost"} \cup (InExecutor \ {"acting"})
  /\ pc[Disposer] \notin {"idle", "lost"} => target \in disturbed /\ mu

\* What Dispose has been at was running; the process does not outlive it.
DisturbedInv ==
  \A r \in disturbed :
    /\ pc[r] \in InExecutor \cup {"done", "lost"}
    /\ status[r] \in {"failed", "success"}
    /\ phase # "closing" => pc[r] \in {"done", "lost"}

\* The items in je.executions are those of the runs that have not left.
TrackedInv ==
  /\ \A r \in tracked : pc[r] \in InExecutor
  /\ \A r \in Runs : pc[r] = "acting" => r \in tracked

\* What row, item and history say at each point of a run.
RunPart(r) ==
  /\ pc[r] \in {"idle", "queued", "made"} =>
       row[r] = "none" /\ status[r] = "none" /\ missed[r] = "no"
  /\ pc[r] \in {"inserted", "acting"} => status[r] = "running"
  /\ pc[r] \in {"inserted", "acting", "ended"} =>
       /\ missed[r] \in {"no", "swept"}
       /\ row[r] \in {"none", "running"} \/ (row[r] = "failed" /\ missed[r] = "swept")
  /\ pc[r] \in InExecutor \ {"acting"} => status[r] = EndOf(r)
  /\ pc[r] \in Written => row[r] \in {"none", ToldEnd(r)}
  /\ pc[r] \in {"idle", "queued"} => hist[r] = "none"
  /\ pc[r] \in {"made", "inserted", "acting", "ended", "saved"} => hist[r] \in {"running", "retrying"}
  /\ pc[r] \in {"failing", "retrying", "counted"} =>
       /\ outcome[r] = "error"
       /\ hist[r] \in {"failed", "retrying"} \/ (hist[r] = "running" /\ r \in unclosed)
  /\ pc[r] \in {"leaving", "done"} => HistoryTold(r)

RunInv == \A r \in Runs \ disturbed : RunPart(r)

\* A row that says running: that of an execution that has not written its end, that of
\* one which could not, or what a process that died leaves to the sweep of the next.
Alive(r) ==
  \/ pc[r] \in {"inserted", "acting", "ended"}
  \/ missed[r] = "left" /\ failures > 0
  \/ pc[r] = "lost" /\ phase \in {"down", "loading"}

AliveInv == \A r \in Runs : row[r] = "running" => Alive(r)

\* A retry is made when its history has been dealt with.
RetryInv ==
  \A h \in Runs \ disturbed, t \in timers \cup {origin[r] : r \in Runs} :
    t.of = h => /\ pc[h] \in {"leaving", "done", "lost"}
                /\ outcome[h] = "error" /\ hist[h] # "dead_letter"

\* Counts stay within what the configuration allows.
CountInv ==
  /\ origin \in [Histories -> [of : Histories \cup {None}, count : Nat]]
  /\ \A f \in Finishers : pc[f] = "counted" => snap[f] < MaxRetries

JobsInv ==
  /\ TypeOK /\ DisposerInv /\ DisturbedInv /\ TrackedInv /\ RunInv
  /\ AliveInv /\ RetryInv /\ CountInv
-----------------------------------------------------------------------------
\* What a process that dies leaves of its memory has its type.
LEMMA LostTyped ==
  ASSUME JobsInv, Lost
  PROVE  /\ pc' \in [Finishers -> Points]
         /\ snap' \in [Finishers \cup Outers -> 0..MaxRetries]
         /\ outer' \in [Outers -> {"idle", "found", "made", "postponed", "submitted",
                                  "dropping", "manual", "closing", "done", "lost"}]
PROOF
<1>1. pc' \in [Finishers -> Points]
  BY DEF Lost, JobsInv, TypeOK, Points
<1>2. snap' \in [Finishers \cup Outers -> 0..MaxRetries]
  BY JobsAssumption DEF Lost
<1>3. outer' \in [Outers -> {"idle", "found", "made", "postponed", "submitted", "dropping",
                           "manual", "closing", "done", "lost"}]
  BY DEF Lost, JobsInv, TypeOK
<1> QED
  BY <1>1, <1>2, <1>3

-----------------------------------------------------------------------------
\* Each part of the invariant is kept by every step.

LEMMA JobsTypeStep == JobsInv /\ [Next]_vars => TypeOK'
PROOF
<1> SUFFICES ASSUME JobsInv, [Next]_vars PROVE TypeOK'
  OBVIOUS
<1> USE JobsAssumption DEF StatementFails, books
<1>a. pc \in [Finishers -> Points] /\ outcome \in [Finishers -> {"ok", "error", "panic"}]
  BY DEF JobsInv, TypeOK
<1>b. /\ status \in [Runs -> {"none", "running", "success", "failed"}]
      /\ row \in [Runs -> {"none", "running", "success", "failed"}]
      /\ hist \in [Histories -> Statuses]
  BY DEF JobsInv, TypeOK
<1>c. tracked \subseteq Runs /\ target \in Runs \cup {None} /\ disturbed \subseteq Runs
  BY DEF JobsInv, TypeOK
<1>d. /\ snap \in [Finishers \cup Outers -> 0..MaxRetries]
      /\ cfg = None \/ cfg \in [count : 0..MaxRetries, next : {"past", "later"}]
      /\ timers \subseteq [of : Runs, count : 1..MaxRetries]
  BY DEF JobsInv, TypeOK
<1>1. CASE Load
  BY <1>1 DEF JobsInv, TypeOK, Points, Statuses, Finishers, Histories, Runs, memory,
     Load
<1>2. CASE Sweep
  BY <1>2 DEF JobsInv, TypeOK, Points, Statuses, Finishers, Histories, Runs, memory,
     Sweep
<1>3. CASE Crash
  <2>1. JobsInv /\ Lost
    BY <1>3 DEF Crash
  <2>2. /\ phase' = "down" /\ tracked' = {} /\ mu' = FALSE /\ timers' = {} /\ disruptions' \in Nat
        /\ UNCHANGED <<outcome, status, target, disturbed, row, hist, cfg, job, failures, missed, unclosed>>
    BY <1>3 DEF Crash, Lost, JobsInv, TypeOK
  <2> QED
    BY <1>3, <2>1, <2>2, LostTyped DEF JobsInv, TypeOK
<1>4. CASE Trigger
  BY <1>4 DEF JobsInv, TypeOK, Points, Statuses, Finishers, Histories, Runs, Submit,
     IsNext, Unused, Trigger
<1>5. CASE SaveRetryConfig
  BY <1>5 DEF JobsInv, TypeOK, Points, Statuses, Finishers, Histories, Runs, memory,
     SaveRetryConfig
<1>6. CASE DeleteRetryConfig
  BY <1>6 DEF JobsInv, TypeOK, Points, Statuses, Finishers, Histories, Runs, memory,
     DeleteRetryConfig
<1>7. CASE DeleteJob
  BY <1>7 DEF JobsInv, TypeOK, Points, Statuses, Finishers, Histories, Runs, memory,
     DeleteJob
<1>8. ASSUME NEW r \in Runs, DeleteExecution(r) PROVE TypeOK'
  BY <1>8 DEF JobsInv, TypeOK, Points, Statuses, Finishers, Histories, Runs, memory,
     DeleteExecution
<1>9. ASSUME NEW r \in Runs, Dispose(r) PROVE TypeOK'
  BY <1>9 DEF JobsInv, TypeOK, Points, Statuses, Finishers, Histories, Runs, Dispose
<1>10. ASSUME NEW o \in Outers, NEW h \in Histories, ManualRetry(o,h) PROVE TypeOK'
  BY <1>10, <1>d, <1>c, <1>b, <1>a DEF JobsInv, TypeOK, Points, Statuses, Finishers, Histories, Runs,
     CountInv, RetryInv, RunInv, Written, EndOf,
     TrackedInv, DisturbedInv, DisposerInv, InExecutor, ManualRetry
<1>11. CASE Elapse
  BY <1>11 DEF JobsInv, TypeOK, Points, Statuses, Finishers, Histories, Runs, memory,
     Elapse
<1>12. ASSUME NEW r \in Runs, NewHistory(r) PROVE TypeOK'
  <2>1. /\ pc' \in [Finishers -> Points]
        /\ hist' \in [Histories -> Statuses]
        /\ failures' \in Nat /\ unclosed' \subseteq Histories
    BY <1>12, <1>a, <1>b, <1>c DEF NewHistory, Points, Statuses, Histories, JobsInv, TypeOK
  <2> QED
    BY <1>12, <2>1 DEF NewHistory, JobsInv, TypeOK
<1>13. ASSUME NEW r \in Runs, NewExecution(r) PROVE TypeOK'
  BY <1>13 DEF JobsInv, TypeOK, Points, Statuses, Finishers, Histories, Runs,
     NewExecution
<1>14. ASSUME NEW r \in Runs, NewExecutionFails(r) PROVE TypeOK'
  <2>1. pc' \in [Finishers -> Points]
    BY <1>14, <1>a DEF NewExecutionFails, Points
  <2>3. failures' \in Nat
    BY <1>14 DEF NewExecutionFails, JobsInv, TypeOK
  <2>2. hist' \in [Histories -> Statuses] /\ unclosed' \subseteq Histories
    BY <1>14, <1>b DEF NewExecutionFails, Statuses, Histories, JobsInv, TypeOK
  <2> QED
    BY <1>14, <2>1, <2>2, <2>3 DEF NewExecutionFails, JobsInv, TypeOK
<1>15. ASSUME NEW r \in Runs, AddExecution(r) PROVE TypeOK'
  BY <1>15 DEF JobsInv, TypeOK, Points, Statuses, Finishers, Histories, Runs,
     AddExecution
<1>16. ASSUME NEW r \in Runs, NEW result \in {"ok", "error", "panic"}, Act(r,result)
     PROVE  TypeOK'
  BY <1>16 DEF JobsInv, TypeOK, Points, Statuses, Finishers, Histories, Runs, Act
<1>17. ASSUME NEW f \in Finishers, SaveExecution(f) PROVE TypeOK'
  BY <1>17 DEF JobsInv, TypeOK, Points, Statuses, Finishers, Histories, Runs, On,
     DisposerInv, SaveExecution
<1>18. ASSUME NEW f \in Finishers, CloseHistory(f) PROVE TypeOK'
  <2>0. On(f) \in Runs
    BY <1>18 DEF CloseHistory, On, Finishers, JobsInv, DisposerInv, TypeOK
  <2>1. /\ pc' \in [Finishers -> Points]
        /\ hist' \in [Histories -> Statuses]
        /\ failures' \in Nat /\ unclosed' \subseteq Histories
    BY <1>18, <1>a, <1>b, <1>c, <2>0 DEF CloseHistory, Points, Statuses, Histories, JobsInv, TypeOK
  <2> QED
    BY <1>18, <2>1 DEF CloseHistory, JobsInv, TypeOK
<1>19. ASSUME NEW f \in Finishers, ReadRetryConfig(f) PROVE TypeOK'
  BY <1>19 DEF JobsInv, TypeOK, Points, Statuses, Finishers, Histories, Runs,
     ReadRetryConfig
<1>20. ASSUME NEW f \in Finishers, NoRetryConfig(f) PROVE TypeOK'
  BY <1>20 DEF JobsInv, TypeOK, Points, Statuses, Finishers, Histories, Runs,
     NoRetryConfig
<1>21. ASSUME NEW f \in Finishers, GiveUp(f) PROVE TypeOK'
  <2>0. On(f) \in Runs /\ 0 \in 0..MaxRetries
    BY <1>21, JobsAssumption DEF GiveUp, On, Finishers, JobsInv, DisposerInv, TypeOK
  <2>1. /\ pc' \in [Finishers -> Points] /\ snap' \in [Finishers \cup Outers -> 0..MaxRetries]
        /\ hist' \in [Histories -> Statuses] /\ failures' \in Nat
    BY <1>21, <1>a, <1>b, <1>d, <2>0 DEF GiveUp, Points, Statuses, Histories, JobsInv, TypeOK
  <2> QED
    BY <1>21, <2>1 DEF GiveUp, JobsInv, TypeOK
<1>22. ASSUME NEW f \in Finishers, CountRetry(f) PROVE TypeOK'
  <2>1. pc' \in [Finishers -> Points]
    BY <1>22, <1>a DEF CountRetry, Points
  <2>2. cfg' = None \/ cfg' \in [count : 0..MaxRetries, next : {"past", "later"}]
    <3>1. snap[f] + 1 \in 0..MaxRetries
      BY <1>22, <1>d DEF CountRetry
    <3> QED
      BY <1>22, <1>d, <3>1 DEF CountRetry
  <2> QED
    BY <1>22, <2>1, <2>2 DEF CountRetry, JobsInv, TypeOK
<1>23. ASSUME NEW f \in Finishers, ArmRetry(f) PROVE TypeOK'
  <2>1. On(f) \in Runs
    BY <1>23 DEF ArmRetry, On, Finishers, JobsInv, DisposerInv, TypeOK
  <2>2. snap[f] + 1 \in 1..MaxRetries /\ 0 \in 0..MaxRetries
    BY <1>23, JobsAssumption DEF ArmRetry, JobsInv, TypeOK, CountInv
  <2>3. timers' \subseteq [of : Runs, count : 1..MaxRetries]
    BY <1>23, <2>1, <2>2 DEF ArmRetry, JobsInv, TypeOK
  <2>4. pc' \in [Finishers -> Points] /\ snap' \in [Finishers \cup Outers -> 0..MaxRetries]
    BY <1>23, <2>2 DEF ArmRetry, JobsInv, TypeOK, Points
  <2>5. cfg' = None \/ cfg' \in [count : 0..MaxRetries, next : {"past", "later"}]
    BY <1>23 DEF ArmRetry, JobsInv, TypeOK
  <2> QED
    BY <1>23, <2>3, <2>4, <2>5 DEF ArmRetry, JobsInv, TypeOK
<1>24. ASSUME NEW f \in Finishers, Leave(f) PROVE TypeOK'
  BY <1>24 DEF JobsInv, TypeOK, Points, Statuses, Finishers, Histories, Runs, On, Leave
<1>25. ASSUME NEW f \in Finishers, LeavePanicking(f) PROVE TypeOK'
  <2>1. /\ phase' = "down" /\ tracked' = {} /\ mu' = FALSE /\ timers' = {}
        /\ UNCHANGED <<outcome, status, target, disturbed, row, hist, cfg, job, disruptions,
                       failures, missed, unclosed>>
    BY <1>25 DEF LeavePanicking, Lost
  <2>2. JobsInv /\ Lost
    BY <1>25 DEF LeavePanicking
  <2>3. /\ pc' \in [Finishers -> Points] /\ snap' \in [Finishers \cup Outers -> 0..MaxRetries]
        /\ outer' \in [Outers -> {"idle", "found", "made", "postponed", "submitted", "dropping",
                             "manual", "closing", "done", "lost"}]
    BY <1>25, <2>2, LostTyped
  <2> QED
    BY <1>25, <2>1, <2>3 DEF JobsInv, TypeOK
<1>26. ASSUME NEW t \in timers, FireRetry(t) PROVE TypeOK'
  BY <1>26 DEF JobsInv, TypeOK, Points, Statuses, Finishers, Histories, Runs, Submit,
     IsNext, Unused, FireRetry
<1>27. ASSUME NEW o \in Outers, FindPending(o) PROVE TypeOK'
  BY <1>27 DEF JobsInv, TypeOK, Points, Statuses, Finishers, Histories, Runs,
     FindPending
<1>28. ASSUME NEW o \in Outers, RetryHistory(o) PROVE TypeOK'
  BY <1>28 DEF JobsInv, TypeOK, Points, Statuses, Finishers, Histories, Runs,
     RetryHistory
<1>29. ASSUME NEW o \in Outers, RetryOfGone(o) PROVE TypeOK'
  BY <1>29 DEF JobsInv, TypeOK, Points, Statuses, Finishers, Histories, Runs,
     RetryOfGone
<1>30. ASSUME NEW o \in Outers, Postpone(o) PROVE TypeOK'
  <2>1. cfg' = None \/ cfg' \in [count : 0..MaxRetries, next : {"past", "later"}]
    BY <1>30, <1>d DEF Postpone
  <2>2. failures' \in Nat
    BY <1>30 DEF Postpone, JobsInv, TypeOK
  <2>3. outer' \in [Outers -> {"idle", "found", "made", "postponed", "submitted", "dropping",
                           "manual", "closing", "done", "lost"}]
    BY <1>30 DEF Postpone, JobsInv, TypeOK
  <2> QED
    BY <1>30, <2>1, <2>2, <2>3 DEF Postpone, JobsInv, TypeOK
<1>31. ASSUME NEW o \in Outers, SubmitRetry(o) PROVE TypeOK'
  BY <1>31 DEF JobsInv, TypeOK, Points, Statuses, Finishers, Histories, Runs, Submit,
     IsNext, Unused, SubmitRetry
<1>32. ASSUME NEW o \in Outers, EndRetry(o) PROVE TypeOK'
  <2>1. /\ hist' \in [Histories -> Statuses]
        /\ failures' \in Nat /\ unclosed' \subseteq Histories
    BY <1>32, <1>b DEF EndRetry, Statuses, Histories, JobsInv, TypeOK
  <2>2. outer' \in [Outers -> {"idle", "found", "made", "postponed", "submitted", "dropping",
                           "manual", "closing", "done", "lost"}]
    BY <1>32 DEF EndRetry, JobsInv, TypeOK
  <2> QED
    BY <1>32, <2>1, <2>2 DEF EndRetry, JobsInv, TypeOK
<1>33. ASSUME NEW o \in Outers, DropConfig(o) PROVE TypeOK'
  BY <1>33 DEF JobsInv, TypeOK, Points, Statuses, Finishers, Histories, Runs,
     DropConfig
<1>34. CASE UNCHANGED vars
  BY <1>34 DEF JobsInv, TypeOK, Points, Statuses, Finishers, Histories, Runs, vars,
     memory
<1>35. ASSUME NEW f \in Finishers, RetryUnwritten(f) PROVE TypeOK'
  BY <1>35, <1>b, <1>a DEF JobsInv, TypeOK, Points, Statuses, Finishers, Histories, Runs,
     RetryUnwritten
<1> QED
  BY <1>1, <1>2, <1>3, <1>4, <1>5, <1>6, <1>7, <1>8, <1>9, <1>10,
     <1>11, <1>12, <1>13, <1>14, <1>15, <1>16, <1>17, <1>18, <1>19,
     <1>20, <1>21, <1>22, <1>23, <1>24, <1>25, <1>26, <1>27, <1>28,
     <1>29, <1>30, <1>31, <1>32, <1>33, <1>34, <1>35 DEF Next, User, Work,
     Finish, Retry, Finishers

LEMMA DisposerStep == JobsInv /\ [Next]_vars => DisposerInv'
PROOF
<1> SUFFICES ASSUME JobsInv, [Next]_vars PROVE DisposerInv'
  OBVIOUS
<1> USE JobsAssumption DEF StatementFails, books
<1>1. CASE Load
  BY <1>1 DEF JobsInv, DisposerInv, InExecutor, Finishers, memory, Load
<1>2. CASE Sweep
  BY <1>2 DEF JobsInv, DisposerInv, InExecutor, Finishers, memory, Sweep
<1>3. CASE Crash
  BY <1>3 DEF JobsInv, DisposerInv, InExecutor, Finishers, Lost, Crash
<1>4. CASE Trigger
  BY <1>4 DEF JobsInv, DisposerInv, InExecutor, Finishers, Submit, IsNext, Unused,
     Histories, Trigger
<1>5. CASE SaveRetryConfig
  BY <1>5 DEF JobsInv, DisposerInv, InExecutor, Finishers, memory, SaveRetryConfig
<1>6. CASE DeleteRetryConfig
  BY <1>6 DEF JobsInv, DisposerInv, InExecutor, Finishers, memory, DeleteRetryConfig
<1>7. CASE DeleteJob
  BY <1>7 DEF JobsInv, DisposerInv, InExecutor, Finishers, memory, DeleteJob
<1>8. ASSUME NEW r \in Runs, DeleteExecution(r) PROVE DisposerInv'
  BY <1>8 DEF JobsInv, DisposerInv, InExecutor, Finishers, memory, DeleteExecution
<1>9. ASSUME NEW r \in Runs, Dispose(r) PROVE DisposerInv'
  BY <1>9 DEF JobsInv, DisposerInv, InExecutor, Finishers, Dispose
<1>10. ASSUME NEW o \in Outers, NEW h \in Histories, ManualRetry(o,h)
     PROVE  DisposerInv'
  BY <1>10 DEF JobsInv, DisposerInv, InExecutor, Finishers, ManualRetry
<1>11. CASE Elapse
  BY <1>11 DEF JobsInv, DisposerInv, InExecutor, Finishers, memory, Elapse
<1>12. ASSUME NEW r \in Runs, NewHistory(r) PROVE DisposerInv'
  <2>1. CASE pc' = [pc EXCEPT ![r] = "made"]
    BY <1>12, <2>1 DEF JobsInv, DisposerInv, InExecutor, Finishers, NewHistory
  <2>2. CASE pc' = [pc EXCEPT ![r] = "done"]
    BY <1>12, <2>2 DEF JobsInv, DisposerInv, InExecutor, Finishers, NewHistory
  <2> QED
    BY <1>12, <2>1, <2>2 DEF NewHistory
<1>13. ASSUME NEW r \in Runs, NewExecution(r) PROVE DisposerInv'
  BY <1>13 DEF JobsInv, DisposerInv, InExecutor, Finishers, NewExecution
<1>14. ASSUME NEW r \in Runs, NewExecutionFails(r) PROVE DisposerInv'
  BY <1>14 DEF JobsInv, DisposerInv, InExecutor, Finishers, NewExecutionFails
<1>15. ASSUME NEW r \in Runs, AddExecution(r) PROVE DisposerInv'
  BY <1>15 DEF JobsInv, DisposerInv, InExecutor, Finishers, AddExecution
<1>16. ASSUME NEW r \in Runs, NEW result \in {"ok", "error", "panic"}, Act(r,result)
     PROVE  DisposerInv'
  BY <1>16 DEF JobsInv, DisposerInv, InExecutor, Finishers, Act
<1>17. ASSUME NEW f \in Finishers, SaveExecution(f) PROVE DisposerInv'
  BY <1>17 DEF JobsInv, DisposerInv, InExecutor, Finishers, On, SaveExecution
<1>18. ASSUME NEW f \in Finishers, CloseHistory(f) PROVE DisposerInv'
  BY <1>18 DEF JobsInv, DisposerInv, InExecutor, Finishers, On, CloseHistory
<1>19. ASSUME NEW f \in Finishers, ReadRetryConfig(f) PROVE DisposerInv'
  BY <1>19 DEF JobsInv, DisposerInv, InExecutor, Finishers, ReadRetryConfig
<1>20. ASSUME NEW f \in Finishers, NoRetryConfig(f) PROVE DisposerInv'
  BY <1>20 DEF JobsInv, DisposerInv, InExecutor, Finishers, NoRetryConfig
<1>21. ASSUME NEW f \in Finishers, GiveUp(f) PROVE DisposerInv'
  BY <1>21 DEF JobsInv, DisposerInv, InExecutor, Finishers, On, GiveUp
<1>22. ASSUME NEW f \in Finishers, CountRetry(f) PROVE DisposerInv'
  BY <1>22 DEF JobsInv, DisposerInv, InExecutor, Finishers, CountRetry
<1>23. ASSUME NEW f \in Finishers, ArmRetry(f) PROVE DisposerInv'
  BY <1>23 DEF JobsInv, DisposerInv, InExecutor, Finishers, On, ArmRetry
<1>24. ASSUME NEW f \in Finishers, Leave(f) PROVE DisposerInv'
  BY <1>24 DEF JobsInv, DisposerInv, InExecutor, Finishers, On, Leave
<1>25. ASSUME NEW f \in Finishers, LeavePanicking(f) PROVE DisposerInv'
  BY <1>25 DEF JobsInv, DisposerInv, InExecutor, Finishers, Lost, LeavePanicking
<1>26. ASSUME NEW t \in timers, FireRetry(t) PROVE DisposerInv'
  BY <1>26 DEF JobsInv, DisposerInv, InExecutor, Finishers, Submit, IsNext, Unused,
     Histories, FireRetry
<1>27. ASSUME NEW o \in Outers, FindPending(o) PROVE DisposerInv'
  BY <1>27 DEF JobsInv, DisposerInv, InExecutor, Finishers, FindPending
<1>28. ASSUME NEW o \in Outers, RetryHistory(o) PROVE DisposerInv'
  BY <1>28 DEF JobsInv, DisposerInv, InExecutor, Finishers, RetryHistory
<1>29. ASSUME NEW o \in Outers, RetryOfGone(o) PROVE DisposerInv'
  BY <1>29 DEF JobsInv, DisposerInv, InExecutor, Finishers, RetryOfGone
<1>30. ASSUME NEW o \in Outers, Postpone(o) PROVE DisposerInv'
  BY <1>30 DEF JobsInv, DisposerInv, InExecutor, Finishers, Postpone
<1>31. ASSUME NEW o \in Outers, SubmitRetry(o) PROVE DisposerInv'
  BY <1>31 DEF JobsInv, DisposerInv, InExecutor, Finishers, Submit, IsNext, Unused,
     Histories, SubmitRetry
<1>32. ASSUME NEW o \in Outers, EndRetry(o) PROVE DisposerInv'
  BY <1>32 DEF JobsInv, DisposerInv, InExecutor, Finishers, EndRetry
<1>33. ASSUME NEW o \in Outers, DropConfig(o) PROVE DisposerInv'
  BY <1>33 DEF JobsInv, DisposerInv, InExecutor, Finishers, DropConfig
<1>34. CASE UNCHANGED vars
  BY <1>34 DEF JobsInv, DisposerInv, InExecutor, Finishers, vars, memory
<1>35. ASSUME NEW f \in Finishers, RetryUnwritten(f) PROVE DisposerInv'
  BY <1>35 DEF JobsInv, DisposerInv, InExecutor, Finishers, RetryUnwritten
<1> QED
  BY <1>1, <1>2, <1>3, <1>4, <1>5, <1>6, <1>7, <1>8, <1>9, <1>10,
     <1>11, <1>12, <1>13, <1>14, <1>15, <1>16, <1>17, <1>18, <1>19,
     <1>20, <1>21, <1>22, <1>23, <1>24, <1>25, <1>26, <1>27, <1>28,
     <1>29, <1>30, <1>31, <1>32, <1>33, <1>34, <1>35 DEF Next, User, Work,
     Finish, Retry, Finishers

LEMMA DisturbedStep == JobsInv /\ [Next]_vars => DisturbedInv'
PROOF
<1> SUFFICES ASSUME JobsInv, [Next]_vars PROVE DisturbedInv'
  OBVIOUS
<1> USE JobsAssumption DEF StatementFails, books
<1>b. /\ status \in [Runs -> {"none", "running", "success", "failed"}]
      /\ row \in [Runs -> {"none", "running", "success", "failed"}]
      /\ hist \in [Histories -> Statuses]
  BY DEF JobsInv, TypeOK
<1>c. tracked \subseteq Runs /\ target \in Runs \cup {None} /\ disturbed \subseteq Runs
  BY DEF JobsInv, TypeOK
<1>1. CASE Load
  BY <1>1 DEF JobsInv, DisturbedInv, InExecutor, memory, DisposerInv, Load
<1>2. CASE Sweep
  BY <1>2 DEF JobsInv, DisturbedInv, InExecutor, memory, Sweep
<1>3. CASE Crash
  BY <1>3, <1>c DEF JobsInv, DisturbedInv, InExecutor, Lost, Finishers, Histories, Crash
<1>4. CASE Trigger
  BY <1>4 DEF JobsInv, DisturbedInv, InExecutor, Submit, IsNext, Unused, Trigger
<1>5. CASE SaveRetryConfig
  BY <1>5 DEF JobsInv, DisturbedInv, InExecutor, memory, SaveRetryConfig
<1>6. CASE DeleteRetryConfig
  BY <1>6 DEF JobsInv, DisturbedInv, InExecutor, memory, DeleteRetryConfig
<1>7. CASE DeleteJob
  BY <1>7 DEF JobsInv, DisturbedInv, InExecutor, memory, DeleteJob
<1>8. ASSUME NEW r \in Runs, DeleteExecution(r) PROVE DisturbedInv'
  BY <1>8 DEF JobsInv, DisturbedInv, InExecutor, memory, DeleteExecution
<1>9. ASSUME NEW r \in Runs, Dispose(r) PROVE DisturbedInv'
  BY <1>9, <1>b DEF JobsInv, DisturbedInv, InExecutor, TrackedInv, Dispose
<1>10. ASSUME NEW o \in Outers, NEW h \in Histories, ManualRetry(o,h)
     PROVE  DisturbedInv'
  BY <1>10 DEF JobsInv, DisturbedInv, InExecutor, ManualRetry
<1>11. CASE Elapse
  BY <1>11 DEF JobsInv, DisturbedInv, InExecutor, memory, Elapse
<1>12. ASSUME NEW r \in Runs, NewHistory(r) PROVE DisturbedInv'
  <2>1. CASE pc' = [pc EXCEPT ![r] = "made"]
    BY <1>12, <2>1 DEF JobsInv, DisturbedInv, InExecutor, NewHistory
  <2>2. CASE pc' = [pc EXCEPT ![r] = "done"]
    BY <1>12, <2>2 DEF JobsInv, DisturbedInv, InExecutor, NewHistory
  <2> QED
    BY <1>12, <2>1, <2>2 DEF NewHistory
<1>13. ASSUME NEW r \in Runs, NewExecution(r) PROVE DisturbedInv'
  BY <1>13 DEF JobsInv, DisturbedInv, InExecutor, NewExecution
<1>14. ASSUME NEW r \in Runs, NewExecutionFails(r) PROVE DisturbedInv'
  BY <1>14 DEF JobsInv, DisturbedInv, InExecutor, NewExecutionFails
<1>15. ASSUME NEW r \in Runs, AddExecution(r) PROVE DisturbedInv'
  BY <1>15 DEF JobsInv, DisturbedInv, InExecutor, AddExecution
<1>16. ASSUME NEW r \in Runs, NEW result \in {"ok", "error", "panic"}, Act(r,result)
     PROVE  DisturbedInv'
  BY <1>16 DEF JobsInv, DisturbedInv, InExecutor, Act
<1>17. ASSUME NEW f \in Finishers, SaveExecution(f) PROVE DisturbedInv'
  BY <1>17 DEF JobsInv, DisturbedInv, InExecutor, On, SaveExecution
<1>18. ASSUME NEW f \in Finishers, CloseHistory(f) PROVE DisturbedInv'
  BY <1>18 DEF JobsInv, DisturbedInv, InExecutor, On, CloseHistory
<1>19. ASSUME NEW f \in Finishers, ReadRetryConfig(f) PROVE DisturbedInv'
  BY <1>19 DEF JobsInv, DisturbedInv, InExecutor, ReadRetryConfig
<1>20. ASSUME NEW f \in Finishers, NoRetryConfig(f) PROVE DisturbedInv'
  BY <1>20 DEF JobsInv, DisturbedInv, InExecutor, NoRetryConfig
<1>21. ASSUME NEW f \in Finishers, GiveUp(f) PROVE DisturbedInv'
  BY <1>21 DEF JobsInv, DisturbedInv, InExecutor, On, GiveUp
<1>22. ASSUME NEW f \in Finishers, CountRetry(f) PROVE DisturbedInv'
  BY <1>22 DEF JobsInv, DisturbedInv, InExecutor, CountRetry
<1>23. ASSUME NEW f \in Finishers, ArmRetry(f) PROVE DisturbedInv'
  BY <1>23 DEF JobsInv, DisturbedInv, InExecutor, On, ArmRetry
<1>24. ASSUME NEW f \in Finishers, Leave(f) PROVE DisturbedInv'
  BY <1>24 DEF JobsInv, DisturbedInv, InExecutor, On, Leave
<1>25. ASSUME NEW f \in Finishers, LeavePanicking(f) PROVE DisturbedInv'
  BY <1>25, <1>c DEF JobsInv, DisturbedInv, InExecutor, Lost, Finishers, Histories,
     LeavePanicking
<1>26. ASSUME NEW t \in timers, FireRetry(t) PROVE DisturbedInv'
  BY <1>26 DEF JobsInv, DisturbedInv, InExecutor, Submit, IsNext, Unused, FireRetry
<1>27. ASSUME NEW o \in Outers, FindPending(o) PROVE DisturbedInv'
  BY <1>27 DEF JobsInv, DisturbedInv, InExecutor, FindPending
<1>28. ASSUME NEW o \in Outers, RetryHistory(o) PROVE DisturbedInv'
  BY <1>28 DEF JobsInv, DisturbedInv, InExecutor, RetryHistory
<1>29. ASSUME NEW o \in Outers, RetryOfGone(o) PROVE DisturbedInv'
  BY <1>29 DEF JobsInv, DisturbedInv, InExecutor, RetryOfGone
<1>30. ASSUME NEW o \in Outers, Postpone(o) PROVE DisturbedInv'
  BY <1>30 DEF JobsInv, DisturbedInv, InExecutor, Postpone
<1>31. ASSUME NEW o \in Outers, SubmitRetry(o) PROVE DisturbedInv'
  BY <1>31 DEF JobsInv, DisturbedInv, InExecutor, Submit, IsNext, Unused, SubmitRetry
<1>32. ASSUME NEW o \in Outers, EndRetry(o) PROVE DisturbedInv'
  BY <1>32 DEF JobsInv, DisturbedInv, InExecutor, EndRetry
<1>33. ASSUME NEW o \in Outers, DropConfig(o) PROVE DisturbedInv'
  BY <1>33 DEF JobsInv, DisturbedInv, InExecutor, DropConfig
<1>34. CASE UNCHANGED vars
  BY <1>34 DEF JobsInv, DisturbedInv, InExecutor, vars, memory
<1>35. ASSUME NEW f \in Finishers, RetryUnwritten(f) PROVE DisturbedInv'
  BY <1>35 DEF JobsInv, DisturbedInv, InExecutor, RetryUnwritten
<1> QED
  BY <1>1, <1>2, <1>3, <1>4, <1>5, <1>6, <1>7, <1>8, <1>9, <1>10,
     <1>11, <1>12, <1>13, <1>14, <1>15, <1>16, <1>17, <1>18, <1>19,
     <1>20, <1>21, <1>22, <1>23, <1>24, <1>25, <1>26, <1>27, <1>28,
     <1>29, <1>30, <1>31, <1>32, <1>33, <1>34, <1>35 DEF Next, User, Work,
     Finish, Retry, Finishers

LEMMA TrackedStep == JobsInv /\ [Next]_vars => TrackedInv'
PROOF
<1> SUFFICES ASSUME JobsInv, [Next]_vars PROVE TrackedInv'
  OBVIOUS
<1> USE JobsAssumption DEF StatementFails, books
<1>a. pc \in [Finishers -> Points] /\ outcome \in [Finishers -> {"ok", "error", "panic"}]
  BY DEF JobsInv, TypeOK
<1>1. CASE Load
  BY <1>1 DEF JobsInv, TrackedInv, InExecutor, memory, RunInv, Written, EndOf, Load
<1>2. CASE Sweep
  BY <1>2 DEF JobsInv, TrackedInv, InExecutor, memory, Sweep
<1>3. CASE Crash
  BY <1>3 DEF JobsInv, TrackedInv, InExecutor, Lost, Finishers, Histories, Crash
<1>4. CASE Trigger
  BY <1>4 DEF JobsInv, TrackedInv, InExecutor, Submit, IsNext, Unused, Trigger
<1>5. CASE SaveRetryConfig
  BY <1>5 DEF JobsInv, TrackedInv, InExecutor, memory, SaveRetryConfig
<1>6. CASE DeleteRetryConfig
  BY <1>6 DEF JobsInv, TrackedInv, InExecutor, memory, DeleteRetryConfig
<1>7. CASE DeleteJob
  BY <1>7 DEF JobsInv, TrackedInv, InExecutor, memory, DeleteJob
<1>8. ASSUME NEW r \in Runs, DeleteExecution(r) PROVE TrackedInv'
  BY <1>8 DEF JobsInv, TrackedInv, InExecutor, memory, DeleteExecution
<1>9. ASSUME NEW r \in Runs, Dispose(r) PROVE TrackedInv'
  BY <1>9 DEF JobsInv, TrackedInv, InExecutor, Dispose
<1>10. ASSUME NEW o \in Outers, NEW h \in Histories, ManualRetry(o,h) PROVE TrackedInv'
  BY <1>10 DEF JobsInv, TrackedInv, InExecutor, ManualRetry
<1>11. CASE Elapse
  BY <1>11 DEF JobsInv, TrackedInv, InExecutor, memory, Elapse
<1>12. ASSUME NEW r \in Runs, NewHistory(r) PROVE TrackedInv'
  <2>1. CASE pc' = [pc EXCEPT ![r] = "made"]
    BY <1>12, <2>1 DEF JobsInv, TrackedInv, InExecutor, NewHistory
  <2>2. CASE pc' = [pc EXCEPT ![r] = "done"]
    BY <1>12, <2>2 DEF JobsInv, TrackedInv, InExecutor, NewHistory
  <2> QED
    BY <1>12, <2>1, <2>2 DEF NewHistory
<1>13. ASSUME NEW r \in Runs, NewExecution(r) PROVE TrackedInv'
  BY <1>13 DEF JobsInv, TrackedInv, InExecutor, NewExecution
<1>14. ASSUME NEW r \in Runs, NewExecutionFails(r) PROVE TrackedInv'
  BY <1>14 DEF JobsInv, TrackedInv, InExecutor, NewExecutionFails
<1>15. ASSUME NEW r \in Runs, AddExecution(r) PROVE TrackedInv'
  BY <1>15, <1>a DEF JobsInv, TrackedInv, InExecutor, Finishers, Histories, AddExecution
<1>16. ASSUME NEW r \in Runs, NEW result \in {"ok", "error", "panic"}, Act(r,result)
     PROVE  TrackedInv'
  BY <1>16 DEF JobsInv, TrackedInv, InExecutor, Act
<1>17. ASSUME NEW f \in Finishers, SaveExecution(f) PROVE TrackedInv'
  BY <1>17 DEF JobsInv, TrackedInv, InExecutor, On, SaveExecution
<1>18. ASSUME NEW f \in Finishers, CloseHistory(f) PROVE TrackedInv'
  BY <1>18 DEF JobsInv, TrackedInv, InExecutor, On, CloseHistory
<1>19. ASSUME NEW f \in Finishers, ReadRetryConfig(f) PROVE TrackedInv'
  BY <1>19 DEF JobsInv, TrackedInv, InExecutor, ReadRetryConfig
<1>20. ASSUME NEW f \in Finishers, NoRetryConfig(f) PROVE TrackedInv'
  BY <1>20 DEF JobsInv, TrackedInv, InExecutor, NoRetryConfig
<1>21. ASSUME NEW f \in Finishers, GiveUp(f) PROVE TrackedInv'
  BY <1>21 DEF JobsInv, TrackedInv, InExecutor, On, GiveUp
<1>22. ASSUME NEW f \in Finishers, CountRetry(f) PROVE TrackedInv'
  BY <1>22 DEF JobsInv, TrackedInv, InExecutor, CountRetry
<1>23. ASSUME NEW f \in Finishers, ArmRetry(f) PROVE TrackedInv'
  BY <1>23 DEF JobsInv, TrackedInv, InExecutor, On, ArmRetry
<1>24. ASSUME NEW f \in Finishers, Leave(f) PROVE TrackedInv'
  BY <1>24 DEF JobsInv, TrackedInv, InExecutor, On, DisposerInv, Leave
<1>25. ASSUME NEW f \in Finishers, LeavePanicking(f) PROVE TrackedInv'
  BY <1>25 DEF JobsInv, TrackedInv, InExecutor, Lost, Finishers, Histories,
     LeavePanicking
<1>26. ASSUME NEW t \in timers, FireRetry(t) PROVE TrackedInv'
  BY <1>26 DEF JobsInv, TrackedInv, InExecutor, Submit, IsNext, Unused, FireRetry
<1>27. ASSUME NEW o \in Outers, FindPending(o) PROVE TrackedInv'
  BY <1>27 DEF JobsInv, TrackedInv, InExecutor, FindPending
<1>28. ASSUME NEW o \in Outers, RetryHistory(o) PROVE TrackedInv'
  BY <1>28 DEF JobsInv, TrackedInv, InExecutor, RetryHistory
<1>29. ASSUME NEW o \in Outers, RetryOfGone(o) PROVE TrackedInv'
  BY <1>29 DEF JobsInv, TrackedInv, InExecutor, RetryOfGone
<1>30. ASSUME NEW o \in Outers, Postpone(o) PROVE TrackedInv'
  BY <1>30 DEF JobsInv, TrackedInv, InExecutor, Postpone
<1>31. ASSUME NEW o \in Outers, SubmitRetry(o) PROVE TrackedInv'
  BY <1>31 DEF JobsInv, TrackedInv, InExecutor, Submit, IsNext, Unused, SubmitRetry
<1>32. ASSUME NEW o \in Outers, EndRetry(o) PROVE TrackedInv'
  BY <1>32 DEF JobsInv, TrackedInv, InExecutor, EndRetry
<1>33. ASSUME NEW o \in Outers, DropConfig(o) PROVE TrackedInv'
  BY <1>33 DEF JobsInv, TrackedInv, InExecutor, DropConfig
<1>34. CASE UNCHANGED vars
  BY <1>34 DEF JobsInv, TrackedInv, InExecutor, vars, memory
<1>35. ASSUME NEW f \in Finishers, RetryUnwritten(f) PROVE TrackedInv'
  BY <1>35 DEF JobsInv, TrackedInv, InExecutor, RetryUnwritten
<1> QED
  BY <1>1, <1>2, <1>3, <1>4, <1>5, <1>6, <1>7, <1>8, <1>9, <1>10,
     <1>11, <1>12, <1>13, <1>14, <1>15, <1>16, <1>17, <1>18, <1>19,
     <1>20, <1>21, <1>22, <1>23, <1>24, <1>25, <1>26, <1>27, <1>28,
     <1>29, <1>30, <1>31, <1>32, <1>33, <1>34, <1>35 DEF Next, User, Work,
     Finish, Retry, Finishers

\* What a step leaves alone keeps its part.
LEMMA RunFrame ==
  ASSUME NEW r \in Runs, RunPart(r),
         pc'[r] = pc[r], row'[r] = row[r], status'[r] = status[r], outcome'[r] = outcome[r],
         hist'[r] = hist[r], missed'[r] = missed[r], r \in unclosed => r \in unclosed'
  PROVE  RunPart(r)'
PROOF
  BY DEF RunPart, InExecutor, Written, EndOf, ToldEnd, HistoryTold

LEMMA DisturbedGrows == [Next]_vars => disturbed \subseteq disturbed'
PROOF
  BY DEF Next, vars, memory, User, Work, Finish, Retry, Load, Sweep, Crash, Trigger, Elapse,
     SaveRetryConfig, DeleteRetryConfig, DeleteJob, DeleteExecution, Dispose, ManualRetry,
     NewHistory, NewExecution, NewExecutionFails, AddExecution, Act, SaveExecution, CloseHistory,
     ReadRetryConfig, NoRetryConfig, GiveUp, CountRetry, ArmRetry, RetryUnwritten, Leave,
     LeavePanicking, FireRetry, FindPending, RetryHistory, RetryOfGone, Postpone, SubmitRetry,
     EndRetry, DropConfig

LEMMA RunStep == JobsInv /\ [Next]_vars => RunInv'
PROOF
<1> SUFFICES ASSUME JobsInv, [Next]_vars, NEW q \in Runs \ disturbed' PROVE RunPart(q)'
  BY DEF RunInv
<1> USE JobsAssumption DEF StatementFails, books
<1>a. pc \in [Finishers -> Points] /\ outcome \in [Finishers -> {"ok", "error", "panic"}]
  BY DEF JobsInv, TypeOK
<1>b. /\ status \in [Runs -> {"none", "running", "success", "failed"}]
      /\ row \in [Runs -> {"none", "running", "success", "failed"}]
      /\ hist \in [Histories -> Statuses]
      /\ missed \in [Runs -> {"no", "left", "swept"}]
  BY DEF JobsInv, TypeOK
<1>c. q \in Runs /\ q \in Finishers /\ q \in Histories /\ q # Disposer /\ q \notin Outers
  BY DEF Histories, Finishers
<1>q. RunPart(q) /\ q \notin disturbed
  BY DisturbedGrows DEF JobsInv, RunInv
<1>1. CASE Load
  BY <1>1, <1>a, <1>b, <1>c, <1>q, RunFrame DEF Load, memory
<1>2. CASE Sweep
  <2>1. UNCHANGED <<pc, status, outcome, hist, unclosed>>
    BY <1>2 DEF Sweep, memory
  <2>2. CASE row'[q] = row[q] /\ missed'[q] = missed[q]
    BY <2>1, <2>2, <1>a, <1>b, <1>c, <1>q, RunFrame
  <2>3. CASE row[q] = "running" /\ row'[q] = "failed" /\ missed'[q] = "swept"
    BY <2>1, <2>3, <1>a, <1>b, <1>c, <1>q DEF RunPart, InExecutor, Written, EndOf, ToldEnd, HistoryTold
  <2>4. CASE pc[q] = "lost"
    BY <2>1, <2>4 DEF RunPart, InExecutor, Written
  <2> QED
    BY <1>2, <2>2, <2>3, <2>4, <1>a, <1>b, <1>c, <1>q DEF Sweep
<1>3. CASE Crash
  <2>1. \/ pc'[q] = "lost"
        \/ pc'[q] = pc[q]
    BY <1>3, <1>a, <1>b, <1>c, <1>q DEF Crash, Lost
  <2>2. CASE pc'[q] = "lost"
    BY <2>2 DEF RunPart, InExecutor, Written
  <2>3. CASE pc'[q] = pc[q]
    BY <1>3, <2>3, <1>a, <1>b, <1>c, <1>q, RunFrame DEF Crash, Lost
  <2> QED
    BY <2>1, <2>2, <2>3
<1>4. CASE Trigger
  <2>1. \/ pc'[q] = pc[q]
        \/ pc[q] = "idle" /\ pc'[q] = "queued"
    BY <1>4, <1>a, <1>b, <1>c, <1>q DEF Trigger, Submit, IsNext, Unused
  <2>2. UNCHANGED <<row, status, outcome, hist, missed, unclosed>>
    BY <1>4 DEF Trigger
  <2> QED
    BY <2>1, <2>2, <1>a, <1>b, <1>c, <1>q, RunFrame DEF RunPart, InExecutor, Written
<1>5. CASE SaveRetryConfig
  BY <1>5, <1>a, <1>b, <1>c, <1>q, RunFrame DEF SaveRetryConfig, memory
<1>6. CASE DeleteRetryConfig
  BY <1>6, <1>a, <1>b, <1>c, <1>q, RunFrame DEF DeleteRetryConfig, memory
<1>7. CASE DeleteJob
  <2>1. UNCHANGED <<pc, status, outcome, hist, missed, unclosed>>
    BY <1>7 DEF DeleteJob, memory
  <2>2. row'[q] \in {row[q], "none"}
    BY <1>7, <1>a, <1>b, <1>c, <1>q DEF DeleteJob
  <2> QED
    BY <2>1, <2>2, <1>a, <1>b, <1>c, <1>q DEF RunPart, EndOf, ToldEnd, HistoryTold
<1>8. ASSUME NEW r \in Runs, DeleteExecution(r) PROVE RunPart(q)'
  <2>1. UNCHANGED <<pc, status, outcome, hist, missed, unclosed>>
    BY <1>8 DEF DeleteExecution, memory
  <2>2. row'[q] \in {row[q], "none"}
    BY <1>8, <1>a, <1>b, <1>c, <1>q DEF DeleteExecution
  <2> QED
    BY <2>1, <2>2, <1>a, <1>b, <1>c, <1>q DEF RunPart, EndOf, ToldEnd, HistoryTold
<1>9. ASSUME NEW r \in Runs, Dispose(r) PROVE RunPart(q)'
  <2>1. q # r
    BY <1>9 DEF Dispose
  <2> QED
    BY <1>9, <2>1, <1>a, <1>b, <1>c, <1>q, RunFrame DEF Dispose
<1>10. ASSUME NEW o \in Outers, NEW h \in Histories, ManualRetry(o,h) PROVE RunPart(q)'
  <2>1. UNCHANGED <<pc, row, status, outcome, missed, unclosed>>
    BY <1>10 DEF ManualRetry
  <2>2. hist'[q] = hist[q] \/ (hist'[q] = "retrying" /\ hist[q] # "none")
    <3>1. hist[h] # "none" /\ hist' = [[hist EXCEPT ![o] = "running"] EXCEPT ![h] = "retrying"] /\ q # o
      BY <1>10, <1>c DEF ManualRetry
    <3>2. CASE q = h
      BY <3>1, <3>2, <1>b, <1>c
    <3>3. CASE q # h
      <4>1. hist'[q] = [hist EXCEPT ![o] = "running"][q]
        BY <3>1, <3>3, <1>b, <1>c
      <4> QED
        BY <4>1, <3>1, <1>b, <1>c
    <3> QED
      BY <3>2, <3>3
  <2> QED
    BY <2>1, <2>2, <1>a, <1>b, <1>c, <1>q DEF RunPart, EndOf, ToldEnd, HistoryTold
<1>11. CASE Elapse
  BY <1>11, <1>a, <1>b, <1>c, <1>q, RunFrame DEF Elapse, memory
<1>12. ASSUME NEW r \in Runs, NewHistory(r) PROVE RunPart(q)'
  <2>1. CASE q # r
    BY <1>12, <2>1, <1>a, <1>b, <1>c, <1>q, RunFrame DEF NewHistory
  <2>2. CASE q = r
    BY <1>12, <2>2, <1>a, <1>b, <1>c, <1>q DEF NewHistory, RunPart, InExecutor, Written, EndOf, ToldEnd, HistoryTold
  <2> QED
    BY <2>1, <2>2
<1>13. ASSUME NEW r \in Runs, NewExecution(r) PROVE RunPart(q)'
  <2>1. CASE q # r
    BY <1>13, <2>1, <1>a, <1>b, <1>c, <1>q, RunFrame DEF NewExecution
  <2>2. CASE q = r
    <3>1. /\ pc'[q] = "inserted" /\ row'[q] = "running" /\ status'[q] = "running"
          /\ hist'[q] = hist[q] /\ missed'[q] = missed[q]
      BY <1>13, <2>2, <1>a, <1>b, <1>c DEF NewExecution
    <3>2. pc[q] = "made" /\ missed[q] = "no" /\ hist[q] \in {"running", "retrying"}
      BY <1>13, <2>2, <1>q DEF NewExecution, RunPart
    <3> QED
      BY <3>1, <3>2 DEF RunPart, InExecutor, Written, EndOf, ToldEnd, HistoryTold
  <2> QED
    BY <2>1, <2>2
<1>14. ASSUME NEW r \in Runs, NewExecutionFails(r) PROVE RunPart(q)'
  <2>1. CASE q # r
    BY <1>14, <2>1, <1>a, <1>b, <1>c, <1>q, RunFrame DEF NewExecutionFails
  <2>2. CASE q = r
    BY <1>14, <2>2, <1>a, <1>b, <1>c, <1>q DEF NewExecutionFails, RunPart, InExecutor, Written, EndOf, ToldEnd, HistoryTold
  <2> QED
    BY <2>1, <2>2
<1>15. ASSUME NEW r \in Runs, AddExecution(r) PROVE RunPart(q)'
  <2>1. CASE q # r
    BY <1>15, <2>1, <1>a, <1>b, <1>c, <1>q, RunFrame DEF AddExecution
  <2>2. CASE q = r
    BY <1>15, <2>2, <1>a, <1>b, <1>c, <1>q DEF AddExecution, RunPart, InExecutor, Written, EndOf, ToldEnd, HistoryTold
  <2> QED
    BY <2>1, <2>2
<1>16. ASSUME NEW r \in Runs, NEW result \in {"ok", "error", "panic"}, Act(r,result) PROVE RunPart(q)'
  <2>1. CASE q # r
    BY <1>16, <2>1, <1>a, <1>b, <1>c, <1>q, RunFrame DEF Act
  <2>2. CASE q = r
    BY <1>16, <2>2, <1>a, <1>b, <1>c, <1>q DEF Act, RunPart, InExecutor, Written, EndOf, ToldEnd, HistoryTold
  <2> QED
    BY <2>1, <2>2
<1>17. ASSUME NEW f \in Finishers, SaveExecution(f) PROVE RunPart(q)'
  <2>1. CASE q # f
    <3>1. q # On(f)
      BY <2>1, <1>17, <1>q DEF On, JobsInv, DisposerInv, SaveExecution, InExecutor
    <3> QED
      BY <1>17, <2>1, <3>1, <1>a, <1>b, <1>c, <1>q, RunFrame DEF SaveExecution
  <2>2. CASE q = f
    <3>1. On(f) = q
      BY <2>2, <1>c DEF On
    <3> QED
      BY <1>17, <2>2, <3>1, <1>a, <1>b, <1>c, <1>q DEF SaveExecution, RunPart, InExecutor, Written, EndOf, ToldEnd, HistoryTold
  <2> QED
    BY <2>1, <2>2
<1>18. ASSUME NEW f \in Finishers, CloseHistory(f) PROVE RunPart(q)'
  <2>1. CASE q # f
    <3>1. q # On(f)
      BY <2>1, <1>18, <1>q DEF On, JobsInv, DisposerInv, CloseHistory, InExecutor
    <3> QED
      BY <1>18, <2>1, <3>1, <1>a, <1>b, <1>c, <1>q, RunFrame DEF CloseHistory
  <2>2. CASE q = f
    <3>1. On(f) = q /\ pc[q] = "saved" /\ status[q] = EndOf(q) /\ row[q] \in {"none", ToldEnd(q)}
          /\ hist[q] \in {"running", "retrying"}
      BY <1>18, <2>2, <1>c, <1>q DEF On, CloseHistory, RunPart, InExecutor, Written
    <3>2. UNCHANGED <<row, status, outcome, missed>>
          /\ pc'[q] = IF outcome[q] = "error" THEN "failing" ELSE "leaving"
      BY <1>18, <2>2, <1>a, <1>c DEF CloseHistory
    <3>3. \/ hist'[q] = (IF outcome[q] = "error" THEN "failed" ELSE "success")
          \/ hist'[q] = hist[q] /\ q \in unclosed'
      BY <1>18, <2>2, <3>1, <1>b, <1>c DEF CloseHistory
    <3>4. ToldEnd(q)' = ToldEnd(q) /\ EndOf(q)' = EndOf(q) /\ status[q] # "none"
      BY <3>1, <3>2 DEF ToldEnd, EndOf
    <3>5. CASE outcome[q] = "error"
      <4>1. /\ pc'[q] = "failing" /\ outcome'[q] = "error"
            /\ hist'[q] \in {"failed", "retrying"} \/ (hist'[q] = "running" /\ q \in unclosed')
        <5>1. pc'[q] = "failing" /\ outcome'[q] = "error"
          BY <3>2, <3>5
        <5>2. hist'[q] = "failed" \/ (hist'[q] = hist[q] /\ q \in unclosed')
          BY <3>3, <3>5
        <5> QED
          BY <5>1, <5>2, <3>1
      <4> QED
        BY <4>1, <3>1, <3>2, <3>4 DEF RunPart, InExecutor, Written
    <3>6. CASE outcome[q] # "error"
      BY <3>1, <3>2, <3>3, <3>4, <3>6 DEF RunPart, InExecutor, Written, HistoryTold
    <3> QED
      BY <3>5, <3>6
  <2> QED
    BY <2>1, <2>2
<1>19. ASSUME NEW f \in Finishers, ReadRetryConfig(f) PROVE RunPart(q)'
  <2>1. CASE q # f
    <3>1. q # On(f)
      BY <2>1, <1>19, <1>q DEF On, JobsInv, DisposerInv, ReadRetryConfig, InExecutor
    <3> QED
      BY <1>19, <2>1, <3>1, <1>a, <1>b, <1>c, <1>q, RunFrame DEF ReadRetryConfig
  <2>2. CASE q = f
    <3>1. On(f) = q
      BY <2>2, <1>c DEF On
    <3> QED
      BY <1>19, <2>2, <3>1, <1>a, <1>b, <1>c, <1>q DEF ReadRetryConfig, RunPart, InExecutor, Written, EndOf, ToldEnd, HistoryTold
  <2> QED
    BY <2>1, <2>2
<1>20. ASSUME NEW f \in Finishers, NoRetryConfig(f) PROVE RunPart(q)'
  <2>1. CASE q # f
    <3>1. q # On(f)
      BY <2>1, <1>20, <1>q DEF On, JobsInv, DisposerInv, NoRetryConfig, InExecutor
    <3> QED
      BY <1>20, <2>1, <3>1, <1>a, <1>b, <1>c, <1>q, RunFrame DEF NoRetryConfig
  <2>2. CASE q = f
    <3>1. On(f) = q
      BY <2>2, <1>c DEF On
    <3> QED
      BY <1>20, <2>2, <3>1, <1>a, <1>b, <1>c, <1>q DEF NoRetryConfig, RunPart, InExecutor, Written, EndOf, ToldEnd, HistoryTold
  <2> QED
    BY <2>1, <2>2
<1>21. ASSUME NEW f \in Finishers, GiveUp(f) PROVE RunPart(q)'
  <2>1. CASE q # f
    <3>1. q # On(f)
      BY <2>1, <1>21, <1>q DEF On, JobsInv, DisposerInv, GiveUp, InExecutor
    <3> QED
      BY <1>21, <2>1, <3>1, <1>a, <1>b, <1>c, <1>q, RunFrame DEF GiveUp
  <2>2. CASE q = f
    <3>1. On(f) = q
      BY <2>2, <1>c DEF On
    <3> QED
      BY <1>21, <2>2, <3>1, <1>a, <1>b, <1>c, <1>q DEF GiveUp, RunPart, InExecutor, Written, EndOf, ToldEnd, HistoryTold
  <2> QED
    BY <2>1, <2>2
<1>22. ASSUME NEW f \in Finishers, CountRetry(f) PROVE RunPart(q)'
  <2>1. CASE q # f
    <3>1. q # On(f)
      BY <2>1, <1>22, <1>q DEF On, JobsInv, DisposerInv, CountRetry, InExecutor
    <3> QED
      BY <1>22, <2>1, <3>1, <1>a, <1>b, <1>c, <1>q, RunFrame DEF CountRetry
  <2>2. CASE q = f
    <3>1. On(f) = q
      BY <2>2, <1>c DEF On
    <3> QED
      BY <1>22, <2>2, <3>1, <1>a, <1>b, <1>c, <1>q DEF CountRetry, RunPart, InExecutor, Written, EndOf, ToldEnd, HistoryTold
  <2> QED
    BY <2>1, <2>2
<1>23. ASSUME NEW f \in Finishers, ArmRetry(f) PROVE RunPart(q)'
  <2>1. CASE q # f
    <3>1. q # On(f)
      BY <2>1, <1>23, <1>q DEF On, JobsInv, DisposerInv, ArmRetry, InExecutor
    <3> QED
      BY <1>23, <2>1, <3>1, <1>a, <1>b, <1>c, <1>q, RunFrame DEF ArmRetry
  <2>2. CASE q = f
    <3>1. On(f) = q
      BY <2>2, <1>c DEF On
    <3> QED
      BY <1>23, <2>2, <3>1, <1>a, <1>b, <1>c, <1>q DEF ArmRetry, RunPart, InExecutor, Written, EndOf, ToldEnd, HistoryTold
  <2> QED
    BY <2>1, <2>2
<1>24. ASSUME NEW f \in Finishers, Leave(f) PROVE RunPart(q)'
  <2>1. CASE q # f
    <3>1. q # On(f)
      BY <2>1, <1>24, <1>q DEF On, JobsInv, DisposerInv, Leave, InExecutor
    <3> QED
      BY <1>24, <2>1, <3>1, <1>a, <1>b, <1>c, <1>q, RunFrame DEF Leave
  <2>2. CASE q = f
    <3>1. On(f) = q
      BY <2>2, <1>c DEF On
    <3> QED
      BY <1>24, <2>2, <3>1, <1>a, <1>b, <1>c, <1>q DEF Leave, RunPart, InExecutor, Written, EndOf, ToldEnd, HistoryTold
  <2> QED
    BY <2>1, <2>2
<1>25. ASSUME NEW f \in Finishers, LeavePanicking(f) PROVE RunPart(q)'
  <2>1. \/ pc'[q] = "lost"
        \/ pc'[q] = pc[q]
    BY <1>25, <1>a, <1>b, <1>c, <1>q DEF LeavePanicking, Lost
  <2>2. CASE pc'[q] = "lost"
    BY <2>2 DEF RunPart, InExecutor, Written
  <2>3. CASE pc'[q] = pc[q]
    BY <1>25, <2>3, <1>a, <1>b, <1>c, <1>q, RunFrame DEF LeavePanicking, Lost
  <2> QED
    BY <2>1, <2>2, <2>3
<1>26. ASSUME NEW t \in timers, FireRetry(t) PROVE RunPart(q)'
  <2>1. \/ pc'[q] = pc[q]
        \/ pc[q] = "idle" /\ pc'[q] = "queued"
    BY <1>26, <1>a, <1>b, <1>c, <1>q DEF FireRetry, Submit, IsNext, Unused
  <2>2. UNCHANGED <<row, status, outcome, hist, missed, unclosed>>
    BY <1>26 DEF FireRetry
  <2> QED
    BY <2>1, <2>2, <1>a, <1>b, <1>c, <1>q, RunFrame DEF RunPart, InExecutor, Written
<1>27. ASSUME NEW o \in Outers, FindPending(o) PROVE RunPart(q)'
  BY <1>27, <1>a, <1>b, <1>c, <1>q, RunFrame DEF FindPending, memory
<1>28. ASSUME NEW o \in Outers, RetryHistory(o) PROVE RunPart(q)'
  <2>1. q # o
    BY <1>c
  <2>2. hist'[q] = hist[q] /\ (q \in unclosed => q \in unclosed')
    BY <1>28, <2>1, <1>a, <1>b, <1>c, <1>q DEF RetryHistory
  <2>3. UNCHANGED <<pc, row, status, outcome, missed>>
    BY <1>28 DEF RetryHistory
  <2> QED
    BY <2>2, <2>3, <1>a, <1>b, <1>c, <1>q, RunFrame
<1>29. ASSUME NEW o \in Outers, RetryOfGone(o) PROVE RunPart(q)'
  BY <1>29, <1>a, <1>b, <1>c, <1>q, RunFrame DEF RetryOfGone, memory
<1>30. ASSUME NEW o \in Outers, Postpone(o) PROVE RunPart(q)'
  BY <1>30, <1>a, <1>b, <1>c, <1>q, RunFrame DEF Postpone, memory
<1>31. ASSUME NEW o \in Outers, SubmitRetry(o) PROVE RunPart(q)'
  <2>1. \/ pc'[q] = pc[q]
        \/ pc[q] = "idle" /\ pc'[q] = "queued"
    BY <1>31, <1>a, <1>b, <1>c, <1>q DEF SubmitRetry, Submit, IsNext, Unused
  <2>2. UNCHANGED <<row, status, outcome, hist, missed, unclosed>>
    BY <1>31 DEF SubmitRetry
  <2> QED
    BY <2>1, <2>2, <1>a, <1>b, <1>c, <1>q, RunFrame DEF RunPart, InExecutor, Written
<1>32. ASSUME NEW o \in Outers, EndRetry(o) PROVE RunPart(q)'
  <2>1. q # o
    BY <1>c
  <2>2. hist'[q] = hist[q] /\ (q \in unclosed => q \in unclosed')
    BY <1>32, <2>1, <1>a, <1>b, <1>c, <1>q DEF EndRetry
  <2>3. UNCHANGED <<pc, row, status, outcome, missed>>
    BY <1>32 DEF EndRetry
  <2> QED
    BY <2>2, <2>3, <1>a, <1>b, <1>c, <1>q, RunFrame
<1>33. ASSUME NEW o \in Outers, DropConfig(o) PROVE RunPart(q)'
  BY <1>33, <1>a, <1>b, <1>c, <1>q, RunFrame DEF DropConfig, memory
<1>35. ASSUME NEW f \in Finishers, RetryUnwritten(f) PROVE RunPart(q)'
  <2>1. CASE q # f
    <3>1. q # On(f)
      BY <2>1, <1>35, <1>q DEF On, JobsInv, DisposerInv, RetryUnwritten, InExecutor
    <3> QED
      BY <1>35, <2>1, <3>1, <1>a, <1>b, <1>c, <1>q, RunFrame DEF RetryUnwritten
  <2>2. CASE q = f
    <3>1. On(f) = q
      BY <2>2, <1>c DEF On
    <3> QED
      BY <1>35, <2>2, <3>1, <1>a, <1>b, <1>c, <1>q DEF RetryUnwritten, RunPart, InExecutor, Written, EndOf, ToldEnd, HistoryTold
  <2> QED
    BY <2>1, <2>2
<1>34. CASE UNCHANGED vars
  BY <1>34, <1>a, <1>b, <1>c, <1>q, RunFrame DEF vars, memory
<1> QED
  BY <1>1, <1>2, <1>3, <1>4, <1>5, <1>6, <1>7, <1>8, <1>9, <1>10,
     <1>11, <1>12, <1>13, <1>14, <1>15, <1>16, <1>17, <1>18, <1>19,
     <1>20, <1>21, <1>22, <1>23, <1>24, <1>25, <1>26, <1>27, <1>28,
     <1>29, <1>30, <1>31, <1>32, <1>33, <1>34, <1>35 DEF Next, User, Work,
     Finish, Retry, Finishers

LEMMA AliveFrame ==
  ASSUME NEW r \in Runs, row[r] = "running" => Alive(r), row[r] = "running",
         pc'[r] = pc[r], missed'[r] = missed[r],
         \/ phase' = phase
         \/ phase = "down" /\ phase' = "loading"
         \/ phase = "up" /\ phase' = "closing",
         failures' = failures \/ failures' > 0
  PROVE  Alive(r)'
PROOF
  BY DEF Alive

LEMMA RunningStep == JobsInv /\ [Next]_vars => AliveInv'
PROOF
<1> SUFFICES ASSUME JobsInv, [Next]_vars, NEW q \in Runs, row'[q] = "running"
             PROVE  Alive(q)'
  BY DEF AliveInv
<1> USE JobsAssumption DEF StatementFails, books
<1>a. pc \in [Finishers -> Points] /\ failures \in Nat /\ failures + 1 > 0 /\ failures + 2 > 0
  BY DEF JobsInv, TypeOK
<1>b. /\ row \in [Runs -> {"none", "running", "success", "failed"}]
      /\ missed \in [Runs -> {"no", "left", "swept"}]
  BY DEF JobsInv, TypeOK
<1>c. q \in Finishers /\ q # Disposer
  BY DEF Histories, Finishers
<1>p. row[q] = "running" => Alive(q)
  BY DEF JobsInv, AliveInv
<1>1. CASE Load
  BY <1>1, <1>a, <1>b, <1>c, <1>p, AliveFrame DEF Load, memory
<1>2. CASE Sweep
  <2>1. CASE row'[q] = [r \in Runs |-> IF row[r] = "running" THEN "failed" ELSE row[r]][q]
    BY <2>1, <1>b
  <2>2. CASE StatementFails /\ UNCHANGED row /\ pc[q] = "lost"
    <3>1. missed'[q] = "left" /\ failures' > 0
      BY <1>2, <2>2, <1>a DEF Sweep
    <3> QED
      BY <3>1 DEF Alive
  <2>3. CASE UNCHANGED row /\ pc[q] # "lost"
    <3>1. pc'[q] = pc[q] /\ missed'[q] = missed[q] /\ failures' \in {failures, failures + 1}
      BY <1>2, <2>3, <1>b DEF Sweep, memory
    <3> QED
      BY <2>3, <3>1, <1>p, <1>a DEF Alive
  <2> QED
    BY <1>2, <2>1, <2>2, <2>3 DEF Sweep
<1>3. CASE Crash
  <2>1. row[q] = "running" /\ phase' = "down" /\ missed'[q] = missed[q] /\ failures' = failures
    BY <1>3 DEF Crash, Lost
  <2>2. CASE pc[q] \in {"idle", "done"}
    BY <1>p, <2>1, <2>2 DEF Alive
  <2>3. CASE pc[q] \notin {"idle", "done"}
    <3>1. pc'[q] = "lost"
      BY <1>3, <2>3, <1>c DEF Crash, Lost
    <3> QED
      BY <2>1, <3>1 DEF Alive
  <2> QED
    BY <2>2, <2>3
<1>4. CASE Trigger
  <2>1. \/ pc'[q] = pc[q]
        \/ pc[q] = "idle" /\ pc'[q] = "queued"
    BY <1>4, <1>a, <1>b, <1>c, <1>p, AliveFrame DEF Trigger, Submit, IsNext, Unused
  <2> QED
    BY <1>4, <2>1, <1>a, <1>b, <1>c, <1>p, AliveFrame DEF Trigger, Alive
<1>5. CASE SaveRetryConfig
  BY <1>5, <1>a, <1>b, <1>c, <1>p, AliveFrame DEF SaveRetryConfig, memory
<1>6. CASE DeleteRetryConfig
  BY <1>6, <1>a, <1>b, <1>c, <1>p, AliveFrame DEF DeleteRetryConfig, memory
<1>7. CASE DeleteJob
  BY <1>7, <1>a, <1>b, <1>c, <1>p, AliveFrame DEF DeleteJob, memory
<1>8. ASSUME NEW r \in Runs, DeleteExecution(r) PROVE Alive(q)'
  BY <1>8, <1>a, <1>b, <1>c, <1>p, AliveFrame DEF DeleteExecution, memory
<1>9. ASSUME NEW r \in Runs, Dispose(r) PROVE Alive(q)'
  BY <1>9, <1>a, <1>b, <1>c, <1>p, AliveFrame DEF Dispose, memory
<1>10. ASSUME NEW o \in Outers, NEW h \in Histories, ManualRetry(o,h) PROVE Alive(q)'
  BY <1>10, <1>a, <1>b, <1>c, <1>p, AliveFrame DEF ManualRetry, memory
<1>11. CASE Elapse
  BY <1>11, <1>a, <1>b, <1>c, <1>p, AliveFrame DEF Elapse, memory
<1>12. ASSUME NEW r \in Runs, NewHistory(r) PROVE Alive(q)'
  <2>1. CASE q # r
    BY <1>12, <2>1, <1>a, <1>b, <1>c, <1>p, AliveFrame DEF NewHistory
  <2>2. CASE q = r
    BY <1>12, <2>2, <1>a, <1>b, <1>c, <1>p, AliveFrame DEF NewHistory, Alive
  <2> QED
    BY <2>1, <2>2
<1>13. ASSUME NEW r \in Runs, NewExecution(r) PROVE Alive(q)'
  <2>1. CASE q # r
    BY <1>13, <2>1, <1>a, <1>b, <1>c, <1>p, AliveFrame DEF NewExecution
  <2>2. CASE q = r
    BY <1>13, <2>2, <1>a, <1>b, <1>c, <1>p, AliveFrame DEF NewExecution, Alive
  <2> QED
    BY <2>1, <2>2
<1>14. ASSUME NEW r \in Runs, NewExecutionFails(r) PROVE Alive(q)'
  <2>1. CASE q # r
    BY <1>14, <2>1, <1>a, <1>b, <1>c, <1>p, AliveFrame DEF NewExecutionFails
  <2>2. CASE q = r
    BY <1>14, <2>2, <1>a, <1>b, <1>c, <1>p, AliveFrame DEF NewExecutionFails, Alive
  <2> QED
    BY <2>1, <2>2
<1>15. ASSUME NEW r \in Runs, AddExecution(r) PROVE Alive(q)'
  <2>1. CASE q # r
    BY <1>15, <2>1, <1>a, <1>b, <1>c, <1>p, AliveFrame DEF AddExecution
  <2>2. CASE q = r
    BY <1>15, <2>2, <1>a, <1>b, <1>c, <1>p, AliveFrame DEF AddExecution, Alive
  <2> QED
    BY <2>1, <2>2
<1>16. ASSUME NEW r \in Runs, NEW result \in {"ok", "error", "panic"}, Act(r,result) PROVE Alive(q)'
  <2>1. CASE q # r
    BY <1>16, <2>1, <1>a, <1>b, <1>c, <1>p, AliveFrame DEF Act
  <2>2. CASE q = r
    BY <1>16, <2>2, <1>a, <1>b, <1>c, <1>p, AliveFrame DEF Act, Alive
  <2> QED
    BY <2>1, <2>2
<1>17. ASSUME NEW f \in Finishers, SaveExecution(f) PROVE Alive(q)'
  <2>1. CASE q # On(f)
    BY <1>17, <2>1, <1>a, <1>b, <1>c, <1>p, AliveFrame DEF SaveExecution, On
  <2>2. CASE q = On(f)
    <3>1. status[q] # "running"
      <4>1. CASE f = Disposer
        BY <1>17, <2>2, <4>1 DEF SaveExecution, On, JobsInv, DisposerInv, DisturbedInv, TypeOK
      <4>2. CASE f # Disposer /\ f \in disturbed
        BY <1>17, <2>2, <4>2 DEF On, Finishers, JobsInv, DisturbedInv
      <4>3. CASE f # Disposer /\ f \notin disturbed
        BY <1>17, <2>2, <4>3 DEF SaveExecution, On, Finishers, JobsInv, RunInv, RunPart, InExecutor, EndOf
      <4> QED
        BY <1>17, <4>1, <4>2, <4>3
    <3>2. row' # [row EXCEPT ![On(f)] = status[On(f)]]
      BY <2>2, <3>1, <1>b
    <3>3. row[q] = "running" /\ missed'[q] = "left" /\ failures' = failures + 1
      BY <1>17, <2>2, <3>2, <1>b DEF SaveExecution
    <3> QED
      BY <3>3, <1>a DEF Alive
  <2> QED
    BY <2>1, <2>2
<1>18. ASSUME NEW f \in Finishers, CloseHistory(f) PROVE Alive(q)'
  <2>1. CASE q # f
    BY <1>18, <2>1, <1>a, <1>b, <1>c, <1>p, AliveFrame DEF CloseHistory
  <2>2. CASE q = f
    BY <1>18, <2>2, <1>a, <1>b, <1>c, <1>p, AliveFrame DEF CloseHistory, Alive
  <2> QED
    BY <2>1, <2>2
<1>19. ASSUME NEW f \in Finishers, ReadRetryConfig(f) PROVE Alive(q)'
  <2>1. CASE q # f
    BY <1>19, <2>1, <1>a, <1>b, <1>c, <1>p, AliveFrame DEF ReadRetryConfig
  <2>2. CASE q = f
    BY <1>19, <2>2, <1>a, <1>b, <1>c, <1>p, AliveFrame DEF ReadRetryConfig, Alive
  <2> QED
    BY <2>1, <2>2
<1>20. ASSUME NEW f \in Finishers, NoRetryConfig(f) PROVE Alive(q)'
  <2>1. CASE q # f
    BY <1>20, <2>1, <1>a, <1>b, <1>c, <1>p, AliveFrame DEF NoRetryConfig
  <2>2. CASE q = f
    BY <1>20, <2>2, <1>a, <1>b, <1>c, <1>p, AliveFrame DEF NoRetryConfig, Alive
  <2> QED
    BY <2>1, <2>2
<1>21. ASSUME NEW f \in Finishers, GiveUp(f) PROVE Alive(q)'
  <2>1. CASE q # f
    BY <1>21, <2>1, <1>a, <1>b, <1>c, <1>p, AliveFrame DEF GiveUp
  <2>2. CASE q = f
    BY <1>21, <2>2, <1>a, <1>b, <1>c, <1>p, AliveFrame DEF GiveUp, Alive
  <2> QED
    BY <2>1, <2>2
<1>22. ASSUME NEW f \in Finishers, CountRetry(f) PROVE Alive(q)'
  <2>1. CASE q # f
    BY <1>22, <2>1, <1>a, <1>b, <1>c, <1>p, AliveFrame DEF CountRetry
  <2>2. CASE q = f
    BY <1>22, <2>2, <1>a, <1>b, <1>c, <1>p, AliveFrame DEF CountRetry, Alive
  <2> QED
    BY <2>1, <2>2
<1>23. ASSUME NEW f \in Finishers, ArmRetry(f) PROVE Alive(q)'
  <2>1. CASE q # f
    BY <1>23, <2>1, <1>a, <1>b, <1>c, <1>p, AliveFrame DEF ArmRetry
  <2>2. CASE q = f
    BY <1>23, <2>2, <1>a, <1>b, <1>c, <1>p, AliveFrame DEF ArmRetry, Alive
  <2> QED
    BY <2>1, <2>2
<1>24. ASSUME NEW f \in Finishers, Leave(f) PROVE Alive(q)'
  <2>1. CASE q # f
    BY <1>24, <2>1, <1>a, <1>b, <1>c, <1>p, AliveFrame DEF Leave
  <2>2. CASE q = f
    BY <1>24, <2>2, <1>a, <1>b, <1>c, <1>p, AliveFrame DEF Leave, Alive
  <2> QED
    BY <2>1, <2>2
<1>25. ASSUME NEW f \in Finishers, LeavePanicking(f) PROVE Alive(q)'
  <2>1. row[q] = "running" /\ phase' = "down" /\ missed'[q] = missed[q] /\ failures' = failures
    BY <1>25 DEF LeavePanicking, Lost
  <2>2. CASE pc[q] \in {"idle", "done"}
    BY <1>p, <2>1, <2>2 DEF Alive
  <2>3. CASE pc[q] \notin {"idle", "done"}
    <3>1. pc'[q] = "lost"
      BY <1>25, <2>3, <1>c DEF LeavePanicking, Lost
    <3> QED
      BY <2>1, <3>1 DEF Alive
  <2> QED
    BY <2>2, <2>3
<1>26. ASSUME NEW t \in timers, FireRetry(t) PROVE Alive(q)'
  <2>1. \/ pc'[q] = pc[q]
        \/ pc[q] = "idle" /\ pc'[q] = "queued"
    BY <1>26, <1>a, <1>b, <1>c, <1>p, AliveFrame DEF FireRetry, Submit, IsNext, Unused
  <2> QED
    BY <1>26, <2>1, <1>a, <1>b, <1>c, <1>p, AliveFrame DEF FireRetry, Alive
<1>27. ASSUME NEW o \in Outers, FindPending(o) PROVE Alive(q)'
  BY <1>27, <1>a, <1>b, <1>c, <1>p, AliveFrame DEF FindPending, memory
<1>28. ASSUME NEW o \in Outers, RetryHistory(o) PROVE Alive(q)'
  BY <1>28, <1>a, <1>b, <1>c, <1>p, AliveFrame DEF RetryHistory, memory
<1>29. ASSUME NEW o \in Outers, RetryOfGone(o) PROVE Alive(q)'
  BY <1>29, <1>a, <1>b, <1>c, <1>p, AliveFrame DEF RetryOfGone, memory
<1>30. ASSUME NEW o \in Outers, Postpone(o) PROVE Alive(q)'
  BY <1>30, <1>a, <1>b, <1>c, <1>p, AliveFrame DEF Postpone, memory
<1>31. ASSUME NEW o \in Outers, SubmitRetry(o) PROVE Alive(q)'
  <2>1. \/ pc'[q] = pc[q]
        \/ pc[q] = "idle" /\ pc'[q] = "queued"
    BY <1>31, <1>a, <1>b, <1>c, <1>p, AliveFrame DEF SubmitRetry, Submit, IsNext, Unused
  <2> QED
    BY <1>31, <2>1, <1>a, <1>b, <1>c, <1>p, AliveFrame DEF SubmitRetry, Alive
<1>32. ASSUME NEW o \in Outers, EndRetry(o) PROVE Alive(q)'
  BY <1>32, <1>a, <1>b, <1>c, <1>p, AliveFrame DEF EndRetry, memory
<1>33. ASSUME NEW o \in Outers, DropConfig(o) PROVE Alive(q)'
  BY <1>33, <1>a, <1>b, <1>c, <1>p, AliveFrame DEF DropConfig, memory
<1>35. ASSUME NEW f \in Finishers, RetryUnwritten(f) PROVE Alive(q)'
  <2>1. CASE q # f
    BY <1>35, <2>1, <1>a, <1>b, <1>c, <1>p, AliveFrame DEF RetryUnwritten
  <2>2. CASE q = f
    BY <1>35, <2>2, <1>a, <1>b, <1>c, <1>p, AliveFrame DEF RetryUnwritten, Alive
  <2> QED
    BY <2>1, <2>2
<1>34. CASE UNCHANGED vars
  BY <1>34, <1>a, <1>b, <1>c, <1>p, AliveFrame DEF vars, memory
<1> QED
  BY <1>1, <1>2, <1>3, <1>4, <1>5, <1>6, <1>7, <1>8, <1>9, <1>10,
     <1>11, <1>12, <1>13, <1>14, <1>15, <1>16, <1>17, <1>18, <1>19,
     <1>20, <1>21, <1>22, <1>23, <1>24, <1>25, <1>26, <1>27, <1>28,
     <1>29, <1>30, <1>31, <1>32, <1>33, <1>34, <1>35 DEF Next, User, Work,
     Finish, Retry, Finishers

LEMMA RetryStep == JobsInv /\ [Next]_vars => RetryInv'
PROOF
<1> SUFFICES ASSUME JobsInv, [Next]_vars PROVE RetryInv'
  OBVIOUS
<1> USE JobsAssumption DEF StatementFails, books
<1>a. pc \in [Finishers -> Points] /\ outcome \in [Finishers -> {"ok", "error", "panic"}]
  BY DEF JobsInv, TypeOK
<1>b. hist \in [Histories -> Statuses]
  BY DEF JobsInv, TypeOK
<1>1. CASE Load
  BY <1>1 DEF JobsInv, RetryInv, memory, Load
<1>2. CASE Sweep
  BY <1>2 DEF JobsInv, RetryInv, memory, Sweep
<1>3. CASE Crash
  BY <1>3 DEF JobsInv, RetryInv, Lost, Finishers, Histories, Crash
<1>4. CASE Trigger
  BY <1>4 DEF JobsInv, RetryInv, Submit, IsNext, Unused, Finishers, Histories, Trigger
<1>5. CASE SaveRetryConfig
  BY <1>5 DEF JobsInv, RetryInv, memory, SaveRetryConfig
<1>6. CASE DeleteRetryConfig
  BY <1>6 DEF JobsInv, RetryInv, memory, DeleteRetryConfig
<1>7. CASE DeleteJob
  BY <1>7 DEF JobsInv, RetryInv, memory, DeleteJob
<1>8. ASSUME NEW r \in Runs, DeleteExecution(r) PROVE RetryInv'
  BY <1>8 DEF JobsInv, RetryInv, memory, DeleteExecution
<1>9. ASSUME NEW r \in Runs, Dispose(r) PROVE RetryInv'
  BY <1>9 DEF JobsInv, RetryInv, Finishers, Histories, Dispose
<1>10. ASSUME NEW o \in Outers, NEW h \in Histories, ManualRetry(o,h) PROVE RetryInv'
  <2>1. \A r \in Runs : origin'[r] = origin[r] /\ r # o
    BY <1>10, JobsAssumption DEF ManualRetry, JobsInv, CountInv, Histories
  <2>2. \A r \in Runs : hist'[r] = hist[r] \/ hist'[r] = "retrying"
    BY <1>10, <2>1 DEF ManualRetry, JobsInv, TypeOK, Histories
  <2>3. {origin'[r] : r \in Runs} = {origin[r] : r \in Runs}
    BY <1>10, <2>1
  <2>4. UNCHANGED <<pc, outcome, timers, disturbed>>
    BY <1>10 DEF ManualRetry
  <2> QED
    BY <1>10, <2>2, <2>3, <2>4 DEF JobsInv, RetryInv
<1>11. CASE Elapse
  BY <1>11 DEF JobsInv, RetryInv, memory, Elapse
<1>12. ASSUME NEW r \in Runs, NewHistory(r) PROVE RetryInv'
  <2>1. \A h \in Runs : pc[h] \in {"leaving", "done", "lost"} => h # r
    BY <1>12 DEF NewHistory
  <2>2. \A h \in Runs : h # r => pc'[h] = pc[h] /\ hist'[h] = hist[h]
    BY <1>12, <1>a, <1>b DEF NewHistory, Histories, Finishers
  <2> QED
    BY <1>12, <2>1, <2>2 DEF NewHistory, JobsInv, RetryInv
<1>13. ASSUME NEW r \in Runs, NewExecution(r) PROVE RetryInv'
  BY <1>13 DEF JobsInv, RetryInv, NewExecution
<1>14. ASSUME NEW r \in Runs, NewExecutionFails(r) PROVE RetryInv'
  <2>1. \A h \in Runs : pc[h] \in {"leaving", "done", "lost"} =>
          pc'[h] = pc[h] /\ hist'[h] = hist[h]
    BY <1>14, <1>a, <1>b DEF NewExecutionFails, Histories
  <2> QED
    BY <1>14, <2>1 DEF NewExecutionFails, JobsInv, RetryInv
<1>15. ASSUME NEW r \in Runs, AddExecution(r) PROVE RetryInv'
  BY <1>15 DEF JobsInv, RetryInv, AddExecution
<1>16. ASSUME NEW r \in Runs, NEW result \in {"ok", "error", "panic"}, Act(r,result)
     PROVE  RetryInv'
  BY <1>16 DEF JobsInv, RetryInv, Act
<1>17. ASSUME NEW f \in Finishers, SaveExecution(f) PROVE RetryInv'
  BY <1>17 DEF JobsInv, RetryInv, On, SaveExecution
<1>18. ASSUME NEW f \in Finishers, CloseHistory(f) PROVE RetryInv'
  <2>1. \A h \in Runs : pc[h] \in {"leaving", "done", "lost"} =>
          /\ pc'[h] = pc[h]
          /\ hist[h] # "dead_letter" => hist'[h] # "dead_letter"
    BY <1>18, <1>a, <1>b DEF CloseHistory, Histories
  <2> QED
    BY <1>18, <2>1 DEF CloseHistory, JobsInv, RetryInv
<1>19. ASSUME NEW f \in Finishers, ReadRetryConfig(f) PROVE RetryInv'
  BY <1>19 DEF JobsInv, RetryInv, ReadRetryConfig
<1>20. ASSUME NEW f \in Finishers, NoRetryConfig(f) PROVE RetryInv'
  BY <1>20 DEF JobsInv, RetryInv, NoRetryConfig
<1>21. ASSUME NEW f \in Finishers, GiveUp(f) PROVE RetryInv'
  <2>1. \A h \in Runs \ disturbed : pc[h] \in {"leaving", "done", "lost"} =>
          pc'[h] = pc[h] /\ hist'[h] = hist[h]
    <3>1. \A h \in Runs \ disturbed : pc[h] \in {"leaving", "done", "lost"} => h # f /\ h # On(f)
      BY <1>21 DEF GiveUp, On, JobsInv, DisposerInv
    <3> QED
      BY <1>21, <3>1, <1>a, <1>b DEF GiveUp, Histories
  <2> QED
    BY <1>21, <2>1 DEF GiveUp, JobsInv, RetryInv
<1>22. ASSUME NEW f \in Finishers, CountRetry(f) PROVE RetryInv'
  BY <1>22 DEF JobsInv, RetryInv, CountRetry
<1>23. ASSUME NEW f \in Finishers, ArmRetry(f) PROVE RetryInv'
  <2>1. \A h \in Runs : pc[h] \in {"leaving", "done", "lost"} => pc'[h] = pc[h]
    BY <1>23, <1>a DEF ArmRetry
  <2>2. UNCHANGED <<origin, outcome, hist, disturbed>>
        /\ timers' = timers \cup {[of |-> On(f), count |-> snap[f] + 1]}
    BY <1>23 DEF ArmRetry
  <2>3. ASSUME On(f) \notin disturbed
        PROVE  pc'[On(f)] = "leaving" /\ outcome[On(f)] = "error" /\ hist[On(f)] # "dead_letter"
    <3>1. f # Disposer /\ On(f) = f /\ f \in Runs
      BY <1>23, <2>3 DEF ArmRetry, On, JobsInv, DisposerInv, Finishers
    <3> QED
      BY <1>23, <2>3, <3>1, <1>a DEF ArmRetry, JobsInv, RunInv, RunPart
  <2> QED
    BY <2>1, <2>2, <2>3 DEF JobsInv, RetryInv
<1>24. ASSUME NEW f \in Finishers, Leave(f) PROVE RetryInv'
  BY <1>24 DEF JobsInv, RetryInv, On, Leave
<1>25. ASSUME NEW f \in Finishers, LeavePanicking(f) PROVE RetryInv'
  BY <1>25 DEF JobsInv, RetryInv, Lost, Finishers, Histories, LeavePanicking
<1>26. ASSUME NEW t \in timers, FireRetry(t) PROVE RetryInv'
  BY <1>26 DEF JobsInv, RetryInv, Submit, IsNext, Unused, FireRetry
<1>27. ASSUME NEW o \in Outers, FindPending(o) PROVE RetryInv'
  BY <1>27 DEF JobsInv, RetryInv, FindPending
<1>28. ASSUME NEW o \in Outers, RetryHistory(o) PROVE RetryInv'
  BY <1>28 DEF JobsInv, RetryInv, RetryHistory
<1>29. ASSUME NEW o \in Outers, RetryOfGone(o) PROVE RetryInv'
  BY <1>29 DEF JobsInv, RetryInv, RetryOfGone
<1>30. ASSUME NEW o \in Outers, Postpone(o) PROVE RetryInv'
  BY <1>30 DEF JobsInv, RetryInv, Postpone
<1>31. ASSUME NEW o \in Outers, SubmitRetry(o) PROVE RetryInv'
  BY <1>31 DEF JobsInv, RetryInv, Submit, IsNext, Unused, Finishers, Histories,
     SubmitRetry
<1>32. ASSUME NEW o \in Outers, EndRetry(o) PROVE RetryInv'
  <2>1. \A h \in Runs : hist'[h] = hist[h]
    BY <1>32, <1>b DEF EndRetry, Histories
  <2> QED
    BY <1>32, <2>1 DEF EndRetry, JobsInv, RetryInv
<1>33. ASSUME NEW o \in Outers, DropConfig(o) PROVE RetryInv'
  BY <1>33 DEF JobsInv, RetryInv, DropConfig
<1>34. CASE UNCHANGED vars
  BY <1>34 DEF JobsInv, RetryInv, vars, memory
<1>35. ASSUME NEW f \in Finishers, RetryUnwritten(f) PROVE RetryInv'
  BY <1>35 DEF JobsInv, RetryInv, RetryUnwritten
<1> QED
  BY <1>1, <1>2, <1>3, <1>4, <1>5, <1>6, <1>7, <1>8, <1>9, <1>10,
     <1>11, <1>12, <1>13, <1>14, <1>15, <1>16, <1>17, <1>18, <1>19,
     <1>20, <1>21, <1>22, <1>23, <1>24, <1>25, <1>26, <1>27, <1>28,
     <1>29, <1>30, <1>31, <1>32, <1>33, <1>34, <1>35 DEF Next, User, Work,
     Finish, Retry, Finishers

LEMMA CountStep == JobsInv /\ [Next]_vars => CountInv'
PROOF
<1> SUFFICES ASSUME JobsInv, [Next]_vars PROVE CountInv'
  OBVIOUS
<1> USE JobsAssumption DEF StatementFails, books
<1>d. /\ snap \in [Finishers \cup Outers -> 0..MaxRetries]
      /\ cfg = None \/ cfg \in [count : 0..MaxRetries, next : {"past", "later"}]
      /\ timers \subseteq [of : Runs, count : 1..MaxRetries]
  BY DEF JobsInv, TypeOK
<1>1. CASE Load
  BY <1>1 DEF JobsInv, CountInv, memory, Load
<1>2. CASE Sweep
  BY <1>2 DEF JobsInv, CountInv, memory, Sweep
<1>3. CASE Crash
  BY <1>3 DEF JobsInv, CountInv, Lost, Crash
<1>4. CASE Trigger
  BY <1>4 DEF JobsInv, CountInv, Submit, IsNext, Unused, Finishers, Histories, Trigger
<1>5. CASE SaveRetryConfig
  BY <1>5 DEF JobsInv, CountInv, memory, SaveRetryConfig
<1>6. CASE DeleteRetryConfig
  BY <1>6 DEF JobsInv, CountInv, memory, DeleteRetryConfig
<1>7. CASE DeleteJob
  BY <1>7 DEF JobsInv, CountInv, memory, DeleteJob
<1>8. ASSUME NEW r \in Runs, DeleteExecution(r) PROVE CountInv'
  BY <1>8 DEF JobsInv, CountInv, memory, DeleteExecution
<1>9. ASSUME NEW r \in Runs, Dispose(r) PROVE CountInv'
  BY <1>9 DEF JobsInv, CountInv, Dispose
<1>10. ASSUME NEW o \in Outers, NEW h \in Histories, ManualRetry(o,h) PROVE CountInv'
  <2>1. origin[h].count + 1 \in Nat /\ h \in Histories \cup {None}
    BY <1>10 DEF JobsInv, CountInv
  <2>2. [of |-> h, count |-> origin[h].count + 1] \in [of : Histories \cup {None}, count : Nat]
    BY <1>10, <2>1
  <2>3. origin' \in [Histories -> [of : Histories \cup {None}, count : Nat]]
    BY <1>10, <2>2 DEF ManualRetry, JobsInv, CountInv
  <2> QED
    BY <1>10, <2>3 DEF ManualRetry, JobsInv, CountInv
<1>11. CASE Elapse
  BY <1>11 DEF JobsInv, CountInv, memory, Elapse
<1>12. ASSUME NEW r \in Runs, NewHistory(r) PROVE CountInv'
  <2>1. CASE pc' = [pc EXCEPT ![r] = "made"]
    BY <1>12, <2>1 DEF JobsInv, CountInv, NewHistory
  <2>2. CASE pc' = [pc EXCEPT ![r] = "done"]
    BY <1>12, <2>2 DEF JobsInv, CountInv, NewHistory
  <2> QED
    BY <1>12, <2>1, <2>2 DEF NewHistory
<1>13. ASSUME NEW r \in Runs, NewExecution(r) PROVE CountInv'
  BY <1>13 DEF JobsInv, CountInv, NewExecution
<1>14. ASSUME NEW r \in Runs, NewExecutionFails(r) PROVE CountInv'
  BY <1>14 DEF JobsInv, CountInv, NewExecutionFails
<1>15. ASSUME NEW r \in Runs, AddExecution(r) PROVE CountInv'
  BY <1>15 DEF JobsInv, CountInv, AddExecution
<1>16. ASSUME NEW r \in Runs, NEW result \in {"ok", "error", "panic"}, Act(r,result)
     PROVE  CountInv'
  BY <1>16 DEF JobsInv, CountInv, Act
<1>17. ASSUME NEW f \in Finishers, SaveExecution(f) PROVE CountInv'
  BY <1>17 DEF JobsInv, CountInv, On, SaveExecution
<1>18. ASSUME NEW f \in Finishers, CloseHistory(f) PROVE CountInv'
  BY <1>18 DEF JobsInv, CountInv, On, CloseHistory
<1>19. ASSUME NEW f \in Finishers, ReadRetryConfig(f) PROVE CountInv'
  BY <1>19 DEF JobsInv, CountInv, ReadRetryConfig
<1>20. ASSUME NEW f \in Finishers, NoRetryConfig(f) PROVE CountInv'
  BY <1>20 DEF JobsInv, CountInv, NoRetryConfig
<1>21. ASSUME NEW f \in Finishers, GiveUp(f) PROVE CountInv'
  BY <1>21 DEF JobsInv, CountInv, On, GiveUp
<1>22. ASSUME NEW f \in Finishers, CountRetry(f) PROVE CountInv'
  BY <1>22 DEF JobsInv, CountInv, CountRetry
<1>23. ASSUME NEW f \in Finishers, ArmRetry(f) PROVE CountInv'
  BY <1>23 DEF JobsInv, CountInv, On, ArmRetry
<1>24. ASSUME NEW f \in Finishers, Leave(f) PROVE CountInv'
  BY <1>24 DEF JobsInv, CountInv, On, Leave
<1>25. ASSUME NEW f \in Finishers, LeavePanicking(f) PROVE CountInv'
  BY <1>25 DEF JobsInv, CountInv, Lost, LeavePanicking
<1>26. ASSUME NEW t \in timers, FireRetry(t) PROVE CountInv'
  BY <1>26, <1>d DEF JobsInv, CountInv, Submit, IsNext, Unused, Finishers, Histories,
     FireRetry
<1>27. ASSUME NEW o \in Outers, FindPending(o) PROVE CountInv'
  BY <1>27 DEF JobsInv, CountInv, Points, Statuses, FindPending
<1>28. ASSUME NEW o \in Outers, RetryHistory(o) PROVE CountInv'
  <2>1. snap[o] + 1 \in Nat
    BY <1>28, JobsAssumption DEF JobsInv, TypeOK
  <2>2. [of |-> None, count |-> snap[o] + 1] \in [of : Histories \cup {None}, count : Nat]
    BY <1>28, <2>1
  <2>3. origin' \in [Histories -> [of : Histories \cup {None}, count : Nat]]
    BY <1>28, <2>2 DEF RetryHistory, JobsInv, CountInv
  <2> QED
    BY <1>28, <2>3 DEF RetryHistory, JobsInv, CountInv
<1>29. ASSUME NEW o \in Outers, RetryOfGone(o) PROVE CountInv'
  BY <1>29 DEF JobsInv, CountInv, RetryOfGone
<1>30. ASSUME NEW o \in Outers, Postpone(o) PROVE CountInv'
  BY <1>30 DEF JobsInv, CountInv, Postpone
<1>31. ASSUME NEW o \in Outers, SubmitRetry(o) PROVE CountInv'
  BY <1>31 DEF JobsInv, CountInv, Submit, IsNext, Unused, Finishers, Histories,
     SubmitRetry
<1>32. ASSUME NEW o \in Outers, EndRetry(o) PROVE CountInv'
  BY <1>32 DEF JobsInv, CountInv, EndRetry
<1>33. ASSUME NEW o \in Outers, DropConfig(o) PROVE CountInv'
  BY <1>33 DEF JobsInv, CountInv, DropConfig
<1>34. CASE UNCHANGED vars
  BY <1>34 DEF JobsInv, CountInv, vars, memory
<1>35. ASSUME NEW f \in Finishers, RetryUnwritten(f) PROVE CountInv'
  BY <1>35 DEF JobsInv, CountInv, RetryUnwritten
<1> QED
  BY <1>1, <1>2, <1>3, <1>4, <1>5, <1>6, <1>7, <1>8, <1>9, <1>10,
     <1>11, <1>12, <1>13, <1>14, <1>15, <1>16, <1>17, <1>18, <1>19,
     <1>20, <1>21, <1>22, <1>23, <1>24, <1>25, <1>26, <1>27, <1>28,
     <1>29, <1>30, <1>31, <1>32, <1>33, <1>34, <1>35 DEF Next, User, Work,
     Finish, Retry, Finishers
-----------------------------------------------------------------------------
LEMMA JobsInitially == Init => JobsInv
PROOF
<1> SUFFICES ASSUME Init PROVE JobsInv
  OBVIOUS
<1>1. 0 \in 0 .. MaxRetries /\ 0 \in Nat
  BY JobsAssumption
<1>2. TypeOK
  BY <1>1 DEF Init, TypeOK, Points, Statuses
<1>3. DisposerInv /\ DisturbedInv /\ TrackedInv /\ AliveInv
  BY DEF Init, DisposerInv, DisturbedInv, TrackedInv, AliveInv, Finishers, InExecutor
<1>4. RunInv
  BY DEF Init, RunInv, RunPart, Finishers, Histories, InExecutor, Written
<1>5. RetryInv
  BY JobsAssumption DEF Init, RetryInv, Histories
<1>6. CountInv
  BY <1>1 DEF Init, CountInv
<1> QED
  BY <1>2, <1>3, <1>4, <1>5, <1>6 DEF JobsInv

\* The invariant, for any number of runs and retries, any disruptions, faults and
\* statements that fail.
THEOREM JobsInvariant == Spec => []JobsInv
PROOF
<1>1. JobsInv /\ [Next]_vars => JobsInv'
  BY JobsTypeStep, DisposerStep, DisturbedStep, TrackedStep, RunStep, RunningStep,
     RetryStep, CountStep DEF JobsInv
<1> QED
  BY JobsInitially, <1>1, PTL DEF Spec

\* Every variable holds what the code can put there; counts stay within MaxRetries.
THEOREM JobsTypeCorrect == Spec => []TypeOK
PROOF
<1>1. JobsInv => TypeOK
  BY DEF JobsInv
<1> QED
  BY <1>1, JobsInvariant, PTL

\* An execution that has left the executor has a row and a history that tell of one end,
\* the one its action came to (updateJobExecutionResult), whatever else ran, crashed or
\* was deleted meanwhile, and whichever statements failed: a row or a history that says
\* otherwise is one whose own UPDATE did (executor.go:267, 334).
THEOREM EndsAgreeCorrect == Spec => []EndsAgree
PROOF
<1>1. JobsInv => EndsAgree
  BY DEF JobsInv, RunInv, RunPart, EndsAgree, Undisturbed, Written
<1> QED
  BY <1>1, JobsInvariant, PTL

\* Once start-up has swept the rows, one that says running belongs to an execution that
\* is, though executions begin before the sweep, or to one whose end or whose sweep was
\* a statement that failed.
THEOREM RunningIsAliveCorrect == Spec => []RunningIsAlive
PROOF
<1>1. JobsInv => RunningIsAlive
  BY DEF JobsInv, AliveInv, Alive, RunningIsAlive
<1> QED
  BY <1>1, JobsInvariant, PTL

\* A history is retried only after its execution failed, and not when it was given up.
THEOREM RetriedForCauseCorrect == Spec => []RetriedForCause
PROOF
<1>1. JobsInv => RetriedForCause
  BY DEF JobsInv, RetryInv, RetriedForCause, Undisturbed
<1> QED
  BY <1>1, JobsInvariant, PTL

\* While the action of an execution runs, nothing takes its row away: those who delete
\* rows ask the executor, or leave the running ones alone.
THEOREM DeletedWhileRunningCorrect == Spec => DeletedWhileRunning
PROOF
<1>1. JobsInv /\ [Next]_vars =>
        [\A r \in Runs : row[r] = "running" /\ row'[r] = "none" => pc[r] # "acting"]_vars
  <2> SUFFICES ASSUME JobsInv, [Next]_vars, NEW r \in Runs,
                      row[r] = "running", row'[r] = "none", pc[r] = "acting"
               PROVE  FALSE
    BY DEF JobsInv
  <2>1. row # row' /\ row \in [Runs -> {"none", "running", "success", "failed"}]
    BY DEF JobsInv, TypeOK
  <2>2. r \in tracked /\ (r \notin disturbed => status[r] = "running")
    BY DEF JobsInv, TrackedInv, RunInv, RunPart
  <2>3. phase = "up" => r \notin disturbed
    BY DEF JobsInv, DisturbedInv
  <2>4. CASE Sweep
    BY <2>4, <2>1 DEF Sweep
  <2>5. CASE DeleteJob
    BY <2>5, <2>1 DEF DeleteJob
  <2>6. ASSUME NEW q \in Runs, DeleteExecution(q) PROVE FALSE
    BY <2>6, <2>1, <2>2, <2>3 DEF DeleteExecution
  <2>7. ASSUME NEW q \in Runs, NewExecution(q) PROVE FALSE
    BY <2>7, <2>1 DEF NewExecution
  <2>8. ASSUME NEW f \in Finishers, SaveExecution(f) PROVE FALSE
    BY <2>8, <2>1, JobsAssumption
       DEF SaveExecution, On, Finishers, Histories, JobsInv, TypeOK, DisposerInv, DisturbedInv
  <2>9. CASE Load \/ Crash \/ Trigger \/ SaveRetryConfig \/ DeleteRetryConfig \/ Elapse
    BY <2>9, <2>1 DEF Load, Crash, Trigger, SaveRetryConfig, DeleteRetryConfig, Elapse
  <2>10. ASSUME NEW q \in Runs, \/ Dispose(q) \/ NewHistory(q) \/ NewExecutionFails(q) \/ AddExecution(q)
                                \/ \E result \in {"ok", "error", "panic"} : Act(q, result)
         PROVE  FALSE
    BY <2>10, <2>1 DEF Dispose, NewHistory, NewExecutionFails, AddExecution, Act
  <2>11. ASSUME NEW f \in Finishers,
                \/ CloseHistory(f) \/ ReadRetryConfig(f) \/ NoRetryConfig(f) \/ GiveUp(f)
                \/ CountRetry(f) \/ ArmRetry(f) \/ RetryUnwritten(f) \/ Leave(f) \/ LeavePanicking(f)
         PROVE  FALSE
    BY <2>11, <2>1 DEF CloseHistory, ReadRetryConfig, NoRetryConfig, GiveUp, CountRetry,
       ArmRetry, RetryUnwritten, Leave, LeavePanicking
  <2>12. ASSUME NEW o \in Outers, FindPending(o) \/ Retry(o) \/ \E h \in Histories : ManualRetry(o, h)
         PROVE  FALSE
    BY <2>12, <2>1 DEF FindPending, Retry, RetryHistory, RetryOfGone, Postpone, SubmitRetry,
       EndRetry, DropConfig, ManualRetry
  <2>13. ASSUME NEW t \in timers, FireRetry(t) PROVE FALSE
    BY <2>13, <2>1 DEF FireRetry
  <2>14. CASE UNCHANGED vars
    BY <2>14, <2>1 DEF vars
  <2> QED
    BY <2>4, <2>5, <2>6, <2>7, <2>8, <2>9, <2>10, <2>11, <2>12, <2>13, <2>14
       DEF Next, User, Work, Finish, Finishers
<1> QED
  BY <1>1, JobsInvariant, PTL DEF Spec, DeletedWhileRunning
=============================================================================
