------------------------------- MODULE RangeLock -------------------------------
(***************************************************************************)
(* rangeLock of common/drive_util/cache_file_pool.go as the code keeps it: *)
(* a list of intervals, sorted and merged on every feed, and a condition   *)
(* variable its waiters sleep on.                                          *)
(***************************************************************************)
EXTENDS Functions, Sequences

CONSTANTS Threads, Limit

ASSUME RangeLockAssumption == Limit \in Nat \ {0}

VARIABLES
  ranges,    \* <<first unit, one past the last>> of each interval
  canceled,
  asleep,    \* the threads parked on rl.cond
  want,      \* <<start, length>> of each thread inside acquire
  reply      \* what each thread's last call returned

vars == <<ranges, canceled, asleep, want, reply>>

Requests == {r \in (0 .. Limit) \X (0 .. Limit) : r[1] + r[2] <= Limit}
NotWaiting == <<>>

Init ==
  /\ ranges = <<>>
  /\ canceled = FALSE
  /\ asleep = {}
  /\ want = [t \in Threads |-> NotWaiting]
  /\ reply = [t \in Threads |-> "none"]

\* _satisfy: one interval covers the request.
Satisfy(r) ==
  \/ r[2] = 0
  \/ \E i \in 1 .. Len(ranges) :
       ranges[i][1] <= r[1] /\ r[1] + r[2] <= ranges[i][2]

\* Mutant: a contained interval shrinks the one it is merged into.
ExtendOrShrink(done, ran) ==
  IF done # <<>> /\ ran[1] <= done[Len(done)][2] THEN [done EXCEPT ![Len(done)] = <<@[1], ran[2]>>]
  ELSE Append(done, ran)

\* An interval extends the last one if it overlaps it or touches it, and never shrinks it.
Extend(done, ran) ==
  IF done # <<>> /\ ran[1] <= done[Len(done)][2]
  THEN [done EXCEPT ![Len(done)] = <<@[1], IF ran[2] > @[2] THEN ran[2] ELSE @[2]>>]
  ELSE Append(done, ran)

\* sort.Slice: by start; what becomes of equal ones does not matter.
ByStart(seq) ==
  CHOOSE s \in {[i \in DOMAIN seq |-> seq[p[i]]] : p \in Surjection(DOMAIN seq, DOMAIN seq)} :
    \A i \in 1 .. Len(seq) - 1 : s[i][1] <= s[i + 1][1]

\* _merge: one interval after the other, by start.
Merge(seq) ==
  LET s == ByStart(seq)
      merged[i \in 0 .. Len(seq)] == IF i = 0 THEN <<>> ELSE Extend(merged[i - 1], s[i])
  IN  merged[Len(seq)]

\* Mutant: a feed wakes one waiter only (Signal for Broadcast).
FeedSignals(r) ==
  /\ ranges' = Merge(Append(ranges, <<r[1], r[1] + r[2]>>))
  /\ IF asleep = {} THEN UNCHANGED asleep
     ELSE \E t \in asleep : asleep' = asleep \ {t}

\* _feed: record the interval and wake every waiter.
FeedRange(r) ==
  /\ ranges' = Merge(Append(ranges, <<r[1], r[1] + r[2]>>))
  /\ asleep' = {}
-----------------------------------------------------------------------------
\* A thread enters acquire.
Acquire(t, r) ==
  /\ want[t] = NotWaiting
  /\ want' = [want EXCEPT ![t] = r]
  /\ reply' = [reply EXCEPT ![t] = "none"]
  /\ UNCHANGED <<ranges, canceled, asleep>>

Finish(t, answer) ==
  /\ want' = [want EXCEPT ![t] = NotWaiting]
  /\ reply' = [reply EXCEPT ![t] = answer]
  /\ UNCHANGED asleep

\* One round of acquire's loop, under rl.mu; Wait unlocks and parks in one step.
Check(t) ==
  /\ want[t] # NotWaiting /\ t \notin asleep
  /\ \/ Satisfy(want[t]) /\ Finish(t, "nil")
     \/ ~Satisfy(want[t]) /\ canceled /\ Finish(t, "closed")
     \/ /\ ~Satisfy(want[t]) /\ ~canceled
        /\ asleep' = asleep \cup {t}
        /\ UNCHANGED <<want, reply>>
  /\ UNCHANGED <<ranges, canceled>>

TryExclusiveFeed(t, r) ==
  /\ want[t] = NotWaiting
  /\ \/ /\ Satisfy(r)
        /\ reply' = [reply EXCEPT ![t] = "refused"]
        /\ UNCHANGED <<ranges, asleep>>
     \/ /\ ~Satisfy(r)
        /\ FeedRange(r)
        /\ reply' = [reply EXCEPT ![t] = "granted"]
  /\ UNCHANGED <<canceled, want>>

\* feed; its caller has written at least one unit.
Feed(r) ==
  /\ r[2] > 0
  /\ FeedRange(r)
  /\ UNCHANGED <<canceled, want, reply>>

\* release; a second one returns at once.
Release ==
  /\ ~canceled
  /\ canceled' = TRUE
  /\ asleep' = {}
  /\ UNCHANGED <<ranges, want, reply>>

Next ==
  \/ \E t \in Threads :
       \/ Check(t)
       \/ \E r \in Requests : Acquire(t, r) \/ TryExclusiveFeed(t, r)
  \/ \E r \in Requests : Feed(r)
  \/ Release

\* A thread that is awake gets rl.mu in the end.
Spec == Init /\ [][Next]_vars /\ \A t \in Threads : WF_vars(Check(t))
-----------------------------------------------------------------------------
TypeOK ==
  /\ ranges \in Seq((0 .. Limit) \X (0 .. Limit))
  /\ canceled \in BOOLEAN
  /\ asleep \subseteq Threads
  /\ want \in [Threads -> Requests \cup {NotWaiting}]
  /\ reply \in [Threads -> {"none", "nil", "closed", "granted", "refused"}]

\* The list stays sorted with a gap between neighbours, so that no range is there
\* twice and none is split (TestRangeLock_MergeGapAndContained).
Merged ==
  /\ \A i \in 1 .. Len(ranges) : ranges[i][1] < ranges[i][2]
  /\ \A i \in 1 .. Len(ranges) - 1 : ranges[i][2] < ranges[i + 1][1]

\* No lost wake-up: nobody sleeps on a range that is there, or on a canceled lock
\* (TestRangeLock_AcquireWaitsForFeed, TestRangeLock_ReleaseCancelsAcquire).
SleepersMustWait == \A t \in asleep : ~Satisfy(want[t]) /\ ~canceled

\* The units of the intervals.
Fed == UNION {ranges[i][1] .. ranges[i][2] - 1 : i \in 1 .. Len(ranges)}
Abstract == INSTANCE RangeSet WITH fed <- Fed
\* The interval list with its condition variable is the growing set RangeSet
\* describes, and a wait that can end does end.
ImplementsRangeSet == Abstract!Spec

\* The list is in order, and nobody sleeps who need not.
RangesHold == TypeOK /\ Merged /\ SleepersMustWait
=============================================================================
