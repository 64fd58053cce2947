------------------------------ MODULE DavLocks ------------------------------
(* The lock table memLS of server/webdav/lock.go.  Every call takes m.mu, so   *)
(* a call is one step; a call first collects the locks that have expired.      *)
(* A node of byName is its name: it is there as long as its refCount is not    *)
(* zero, and nobody keeps a node longer.  Of the time only matters which locks *)
(* are due.                                                                    *)
EXTENDS Naturals, FiniteSets

CONSTANTS
  Names,    \* the resources that can be named
  Above,    \* [Names -> SUBSET Names]: those walkToRoot comes to after the name
  Tokens, None

ASSUME TreeAssumption ==
  /\ Above \in [Names -> SUBSET Names]
  /\ \A n \in Names : n \notin Above[n] /\ \A m \in Above[n] : Above[m] \subseteq Above[n]
  /\ \A n \in Names : \A m, k \in Above[n] : m = k \/ m \in Above[k] \/ k \in Above[m]
  /\ Tokens \subseteq Nat /\ None \notin Tokens

VARIABLES
  ls,       \* the table, see Table
  closures  \* the release functions handed out: the nodes each of them holds

lockVars == <<ls, closures>>

\* token: of the node's lock, None when it is not locked itself; zero: ZeroDepth;
\* finite: Duration >= 0; queued: byExpiry; due: locks whose expiry has come.
Table ==
  [token : [Names -> Tokens \cup {None}], zero : [Names -> BOOLEAN],
   finite : [Names -> BOOLEAN], ref : [Names -> Nat],
   held : SUBSET Names, queued : SUBSET Names, due : SUBSET Names]

Init ==
  /\ ls = [token |-> [n \in Names |-> None], zero |-> [n \in Names |-> FALSE],
           finite |-> [n \in Names |-> FALSE], ref |-> [n \in Names |-> 0],
           held |-> {}, queued |-> {}, due |-> {}]
  /\ closures = {}

ToRoot(n) == {n} \cup Above[n]
Locked(l) == {n \in Names : l.token[n] # None}
Of(l, t) == {n \in Names : l.token[n] = t}
-----------------------------------------------------------------------------
(* What the methods do to a table l.                                           *)

\* Mutant: the walk to the root is left out.
RemovedShort(l, S) ==
  [l EXCEPT !.token = [n \in Names |-> IF n \in S THEN None ELSE l.token[n]],
            !.ref = [m \in Names |-> IF m \in S THEN l.ref[m] - 1 ELSE l.ref[m]],
            !.queued = @ \ S, !.due = @ \ S]

\* remove, for each of the nodes S.
Removed(l, S) ==
  [l EXCEPT !.token = [n \in Names |-> IF n \in S THEN None ELSE l.token[n]],
            !.ref = [m \in Names |-> l.ref[m] - Cardinality({n \in S : m \in ToRoot(n)})],
            !.queued = @ \ S, !.due = @ \ S]

\* collectExpiredNodes.
Collected(l) == Removed(l, l.queued \cap l.due)

\* Mutant: a lock of infinite depth does not look at the locks below it.
CanCreateAbove(l, n, zeroDepth) ==
  /\ l.token[n] = None
  /\ \A m \in Above[n] : l.token[m] = None \/ l.zero[m]

CanCreate(l, n, zeroDepth) ==
  /\ l.token[n] = None
  /\ zeroDepth \/ l.ref[n] = 0
  /\ \A m \in Above[n] : l.token[m] = None \/ l.zero[m]

Created(l, n, t, zeroDepth, finite) ==
  [l EXCEPT !.token[n] = t, !.zero[n] = zeroDepth, !.finite[n] = finite,
            !.ref = [m \in Names |-> IF m \in ToRoot(n) THEN l.ref[m] + 1 ELSE l.ref[m]],
            !.queued = IF finite THEN @ \cup {n} ELSE @]

\* lookup: the nodes one of the conditions finds for a name.
Lookup(l, n, conditions) ==
  {m \in ToRoot(n) : /\ l.token[m] \in conditions
                     /\ m \notin l.held
                     /\ m = n \/ ~l.zero[m]}

Hold(l, S) == [l EXCEPT !.held = @ \cup S, !.queued = @ \ S]

Unhold(l, S) == [l EXCEPT !.held = @ \ S, !.queued = @ \cup {n \in S : l.finite[n]}]

Refreshed(l, n, finite) ==
  [l EXCEPT !.finite[n] = finite, !.due = @ \ {n},
            !.queued = IF finite THEN @ \cup {n} ELSE @ \ {n}]
-----------------------------------------------------------------------------
(* The methods.                                                                *)

Create(n, t, zeroDepth, finite) ==
  LET l == Collected(ls) IN
  /\ CanCreate(l, n, zeroDepth)
  /\ t \in Tokens /\ Of(ls, t) = {}      \* nextToken: never one in use
  /\ ls' = Created(l, n, t, zeroDepth, finite)
  /\ UNCHANGED closures

\* Confirm for the names S (one or two) succeeds, and holds the nodes H.
Confirm(S, H, conditions) ==
  LET l == Collected(ls) IN
  /\ \E pick \in [S -> Names] :
       /\ \A n \in S : pick[n] \in Lookup(l, n, conditions)
       /\ H = {pick[n] : n \in S}
  /\ ls' = Hold(l, H)
  /\ closures' = closures \cup {H}

Release(H) ==
  /\ H \in closures
  /\ ls' = Unhold(ls, H)
  /\ closures' = closures \ {H}

Refresh(t, finite) ==
  LET l == Collected(ls) IN
  /\ \E n \in Of(l, t) : n \notin l.held /\ ls' = Refreshed(l, n, finite)
  /\ UNCHANGED closures

Unlock(t) ==
  LET l == Collected(ls) IN
  /\ \E n \in Of(l, t) : n \notin l.held /\ ls' = Removed(l, {n})
  /\ UNCHANGED closures

\* A deferred Unlock, by the clock of the Create before it: what is due since is not
\* collected, and a lock that is gone or held is let be.
UnlockThen(t) ==
  /\ ls' = Removed(ls, Of(ls, t) \ ls.held)
  /\ UNCHANGED closures

\* A call that is refused has collected the expired locks all the same.
Refused == ls' = Collected(ls) /\ UNCHANGED closures

\* The expiry of a lock comes, be it held or not.
Expire(n) ==
  /\ n \in Locked(ls) /\ ls.finite[n] /\ n \notin ls.due
  /\ ls' = [ls EXCEPT !.due = @ \cup {n}]
  /\ UNCHANGED closures

Next ==
  \/ \E n \in Names, t \in Tokens, z, f \in BOOLEAN : Create(n, t, z, f)
  \/ \E S, H \in SUBSET Names, C \in SUBSET Tokens : S # {} /\ Confirm(S, H, C)
  \/ \E H \in closures : Release(H)
  \/ \E t \in Tokens : Unlock(t) \/ UnlockThen(t) \/ \E f \in BOOLEAN : Refresh(t, f)
  \/ Refused
  \/ \E n \in Names : Expire(n)

Spec == Init /\ [][Next]_lockVars
-----------------------------------------------------------------------------
\* Every part of the table has its type.
LocksTypeOK == ls \in Table /\ closures \subseteq SUBSET Names

\* A node's refCount is the number of locks on it or below it: a node that is gone
\* too early makes remove panic, one that stays refuses locks for ever (canCreate).
RefsMatch ==
  \A m \in Names : ls.ref[m] = Cardinality({n \in Locked(ls) : m \in ToRoot(n)})

\* No lock lies under a lock of infinite depth, in whichever order they were asked
\* for, and a token names one lock (canCreate).
LocksDisjoint ==
  \A n, m \in Locked(ls) :
    /\ m \in Above[n] => ls.zero[m]
    /\ ls.token[n] = ls.token[m] => n = m

\* The nodes a release function has to give back are held, each by one of them, and
\* are still locked: hold and unhold do not panic.
HeldByOne ==
  /\ ls.held = UNION closures
  /\ ls.held \subseteq Locked(ls)
  /\ \A H, G \in closures : H = G \/ H \cap G = {}

\* A lock can expire exactly when it has a duration and nobody holds it (byExpiry).
ExpiresUnlessHeld ==
  ls.queued = {n \in Locked(ls) : ls.finite[n] /\ n \notin ls.held}

\* The table is consistent: counts, locks and holds agree.
LocksHold == RefsMatch /\ LocksDisjoint /\ HeldByOne /\ ExpiresUnlessHeld
=============================================================================
