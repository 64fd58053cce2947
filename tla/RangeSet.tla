------------------------------- MODULE RangeSet -------------------------------
(***************************************************************************)
(* What a rangeLock promises (common/drive_util/cache_file_pool.go): a set *)
(* of units that only grows, threads that wait for a span of it, and one   *)
(* cancellation that ends all waiting.  CacheFile is written in terms of   *)
(* this set; RangeLock shows that the code's interval list implements it.  *)
(***************************************************************************)
EXTENDS Integers

CONSTANTS Threads, Limit

VARIABLES
  fed,       \* the units recorded so far
  canceled,
  want,      \* the span each thread waits for, if any
  reply      \* what each thread's last call returned

vars == <<fed, canceled, want, reply>>

\* A request [start, start+length), and the units it stands for.
Requests == {r \in (0 .. Limit) \X (0 .. Limit) : r[1] + r[2] <= Limit}
UnitsOf(r) == r[1] .. r[1] + r[2] - 1
NotWaiting == <<>>

Init ==
  /\ fed = {}
  /\ canceled = FALSE
  /\ want = [t \in Threads |-> NotWaiting]
  /\ reply = [t \in Threads |-> "none"]

Acquire(t, r) ==
  /\ want[t] = NotWaiting
  /\ want' = [want EXCEPT ![t] = r]
  /\ reply' = [reply EXCEPT ![t] = "none"]
  /\ UNCHANGED <<fed, canceled>>

\* The wait ends with nil once the span is there, else with os.ErrClosed.
Return(t) ==
  /\ want[t] # NotWaiting
  /\ \/ UnitsOf(want[t]) \subseteq fed /\ reply' = [reply EXCEPT ![t] = "nil"]
     \/ /\ ~(UnitsOf(want[t]) \subseteq fed) /\ canceled
        /\ reply' = [reply EXCEPT ![t] = "closed"]
  /\ want' = [want EXCEPT ![t] = NotWaiting]
  /\ UNCHANGED <<fed, canceled>>

\* Exactly the callers that add something are told to fill it.
TryExclusiveFeed(t, r) ==
  /\ want[t] = NotWaiting
  /\ fed' = fed \cup UnitsOf(r)
  /\ reply' = [reply EXCEPT ![t] = IF fed' = fed THEN "refused" ELSE "granted"]
  /\ UNCHANGED <<canceled, want>>

Feed(r) ==
  /\ fed' = fed \cup UnitsOf(r)
  /\ UNCHANGED <<canceled, want, reply>>

Release ==
  /\ canceled' = TRUE
  /\ UNCHANGED <<fed, want, reply>>

Next ==
  \/ \E t \in Threads :
       Return(t) \/ \E r \in Requests : Acquire(t, r) \/ TryExclusiveFeed(t, r)
  \/ \E r \in Requests : Feed(r)
  \/ Release

Spec == Init /\ [][Next]_vars /\ \A t \in Threads : WF_vars(Return(t))
=============================================================================
