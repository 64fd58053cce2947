-------------------------- MODULE Server_proofs -----------------------------
(***************************************************************************)
(* What the server promises its clients, for any number of them.  The      *)
(* WebDAV lock table is consistent, and requests respect the locks in it,  *)
(* for any tree of names, whatever expires and whatever fails (DavServer). *)
(* What is kept and served of a file is whole or known to be torn, what is *)
(* shown as a thumbnail is whole (Serving).                                *)
(***************************************************************************)
EXTENDS DavServer, Serving, FiniteSetTheorems, SequenceTheorems, TLAPS

\* What holds of a table and the release functions handed out for it: LocksHold, and
\* what it takes to keep it.
Counted(l, m) == {n \in Locked(l) : m \in ToRoot(n)}

TableInv(l, C) ==
  /\ l \in Table /\ IsFiniteSet(Locked(l))
  /\ \A m \in Names : l.ref[m] = Cardinality(Counted(l, m))
  /\ \A n, m \in Locked(l) : /\ m \in Above[n] => l.zero[m]
                             /\ l.token[n] = l.token[m] => n = m
  /\ l.held = UNION C /\ l.held \subseteq Locked(l)
  /\ \A H, G \in C : H = G \/ H \cap G = {}
  /\ l.queued = {n \in Locked(l) : l.finite[n] /\ n \notin l.held}
-----------------------------------------------------------------------------
(* What the methods do to a table.                                           *)

\* remove: the locks of S go, and the counts of what is above them with them.
LEMMA RemovedFields ==
  ASSUME NEW l \in Table, NEW S \in SUBSET Locked(l)
  PROVE  LET r == Removed(l, S) IN
         /\ r.token = [n \in Names |-> IF n \in S THEN None ELSE l.token[n]]
         /\ r.ref = [m \in Names |-> l.ref[m] - Cardinality({n \in S : m \in ToRoot(n)})]
         /\ r.queued = l.queued \ S /\ r.due = l.due \ S
         /\ r.zero = l.zero /\ r.finite = l.finite /\ r.held = l.held
         /\ DOMAIN r = DOMAIN l
         /\ Locked(r) = Locked(l) \ S
PROOF
<1>1. /\ Removed(l, S).token = [n \in Names |-> IF n \in S THEN None ELSE l.token[n]]
      /\ Removed(l, S).ref = [m \in Names |-> l.ref[m] - Cardinality({n \in S : m \in ToRoot(n)})]
      /\ Removed(l, S).queued = l.queued \ S /\ Removed(l, S).due = l.due \ S
      /\ Removed(l, S).zero = l.zero /\ Removed(l, S).finite = l.finite /\ Removed(l, S).held = l.held
      /\ DOMAIN Removed(l, S) = DOMAIN l
  BY DEF Removed, Table
<1>2. Locked(Removed(l, S)) = Locked(l) \ S
  BY <1>1 DEF Locked
<1> QED
  BY <1>1, <1>2

LEMMA RemovedKeeps ==
  ASSUME NEW l, NEW C, TableInv(l, C), NEW S \in SUBSET Locked(l), S \cap l.held = {}
  PROVE  TableInv(Removed(l, S), C) /\ Locked(Removed(l, S)) = Locked(l) \ S
PROOF
<1> DEFINE r == Removed(l, S)
<1>1. l \in Table /\ IsFiniteSet(Locked(l)) /\ Locked(l) \subseteq Names
  BY DEF TableInv, Locked
<1>2. /\ r.token = [n \in Names |-> IF n \in S THEN None ELSE l.token[n]]
      /\ r.ref = [m \in Names |-> l.ref[m] - Cardinality({n \in S : m \in ToRoot(n)})]
      /\ r.queued = l.queued \ S /\ r.due = l.due \ S
      /\ r.zero = l.zero /\ r.finite = l.finite /\ r.held = l.held
      /\ Locked(r) = Locked(l) \ S
  BY <1>1, RemovedFields
<1>3. ASSUME NEW m \in Names
      PROVE  r.ref[m] = Cardinality(Counted(r, m)) /\ r.ref[m] \in Nat
  <2> DEFINE B == {n \in S : m \in ToRoot(n)}
  <2>1. IsFiniteSet(Counted(l, m))
    BY <1>1, FS_Subset DEF Counted
  <2>2. B \subseteq Counted(l, m) /\ Counted(r, m) = Counted(l, m) \ B /\ Counted(l, m) \cap B = B
    BY <1>2 DEF Counted
  <2>3. IsFiniteSet(B) /\ IsFiniteSet(Counted(r, m))
    BY <2>1, <2>2, FS_Subset
  <2>4. Cardinality(Counted(r, m)) = Cardinality(Counted(l, m)) - Cardinality(B)
    BY <2>1, <2>2, FS_Difference
  <2>5. r.ref[m] = l.ref[m] - Cardinality(B) /\ l.ref[m] = Cardinality(Counted(l, m))
    BY <1>2 DEF TableInv
  <2>6. Cardinality(Counted(r, m)) \in Nat
    BY <2>3, FS_CardinalityType
  <2> QED
    BY <2>4, <2>5, <2>6
<1>4. r \in Table
  <2> DEFINE token == [n \in Names |-> IF n \in S THEN None ELSE l.token[n]]
             ref == [m \in Names |-> l.ref[m] - Cardinality({n \in S : m \in ToRoot(n)})]
  <2>1. token \in [Names -> Tokens \cup {None}] /\ l.queued \ S \in SUBSET Names
        /\ l.due \ S \in SUBSET Names
    BY <1>1 DEF Table
  <2>2. ref \in [Names -> Nat]
    BY <1>2, <1>3
  <2> HIDE DEF token, ref
  <2>3. [l EXCEPT !.token = token, !.ref = ref, !.queued = @ \ S, !.due = @ \ S] \in Table
    BY <1>1, <2>1, <2>2 DEF Table
  <2> QED
    BY <2>3 DEF Removed, token, ref
<1>5. IsFiniteSet(Locked(r))
  BY <1>1, <1>2, FS_Subset
<1>6. \A n, m \in Locked(r) : /\ m \in Above[n] => r.zero[m]
                              /\ r.token[n] = r.token[m] => n = m
  BY <1>1, <1>2 DEF TableInv
<1>7. r.queued = {n \in Locked(r) : r.finite[n] /\ n \notin r.held}
  BY <1>2 DEF TableInv
<1>8. r.held = UNION C /\ r.held \subseteq Locked(r) /\ \A H, G \in C : H = G \/ H \cap G = {}
  BY <1>2 DEF TableInv
<1> HIDE DEF r
<1>9. TableInv(r, C)
  BY <1>3, <1>4, <1>5, <1>6, <1>7, <1>8 DEF TableInv
<1> QED
  BY <1>2, <1>9 DEF r

\* Collecting the expired locks keeps what the table promises.
LEMMA CollectedKeeps ==
  ASSUME NEW l, NEW C, TableInv(l, C)
  PROVE  /\ TableInv(Collected(l), C)
         /\ Locked(Collected(l)) = Locked(l) \ (l.queued \cap l.due)
PROOF
<1>1. l.queued \cap l.due \in SUBSET Locked(l) /\ (l.queued \cap l.due) \cap l.held = {}
  BY DEF TableInv
<1> QED
  BY <1>1, RemovedKeeps DEF Collected

\* The locks that are left after collecting are as they were, but for the counts.
LEMMA CollectedFields ==
  ASSUME NEW l, NEW C, TableInv(l, C)
  PROVE  LET r == Collected(l) IN
         /\ \A n \in Names : r.token[n] = IF n \in l.queued \cap l.due THEN None ELSE l.token[n]
         /\ r.zero = l.zero /\ r.finite = l.finite /\ r.held = l.held
         /\ r.queued = l.queued \ l.due /\ r.due = l.due \ l.queued
PROOF
<1>1. l \in Table /\ l.queued \cap l.due \in SUBSET Locked(l)
  BY DEF TableInv
<1>2. LET S == l.queued \cap l.due  r == Removed(l, S) IN
      /\ r.token = [n \in Names |-> IF n \in S THEN None ELSE l.token[n]]
      /\ r.queued = l.queued \ S /\ r.due = l.due \ S
      /\ r.zero = l.zero /\ r.finite = l.finite /\ r.held = l.held
  BY <1>1, RemovedFields
<1> QED
  BY <1>2 DEF Collected

\* A new lock leaves the others as they are.
LEMMA CreatedFields ==
  ASSUME NEW l \in Table, NEW n \in Names, NEW t \in Tokens, NEW z \in BOOLEAN, NEW f \in BOOLEAN
  PROVE  LET r == Created(l, n, t, z, f) IN
         /\ r.token = [l.token EXCEPT ![n] = t]
         /\ r.held = l.held
         /\ \A m \in Names \ {n} : r.zero[m] = l.zero[m] /\ r.finite[m] = l.finite[m]
         /\ Locked(r) = Locked(l) \cup {n}
PROOF
<1>1. Created(l, n, t, z, f).token = [l.token EXCEPT ![n] = t]
      /\ Created(l, n, t, z, f).held = l.held
  BY DEF Created, Table
<1>2. Created(l, n, t, z, f).zero = [l.zero EXCEPT ![n] = z]
      /\ Created(l, n, t, z, f).finite = [l.finite EXCEPT ![n] = f]
  BY DEF Created, Table
<1>3. /\ \A m \in Names \ {n} : Created(l, n, t, z, f).zero[m] = l.zero[m]
      /\ \A m \in Names \ {n} : Created(l, n, t, z, f).finite[m] = l.finite[m]
  BY <1>2 DEF Table
<1>4. Locked(Created(l, n, t, z, f)) = Locked(l) \cup {n}
  BY <1>1, TreeAssumption DEF Locked, Table
<1> QED
  BY <1>1, <1>3, <1>4

LEMMA CreatedKeeps ==
  ASSUME NEW l, NEW C, TableInv(l, C), NEW n \in Names, NEW t \in Tokens,
         NEW z \in BOOLEAN, NEW f \in BOOLEAN, CanCreate(l, n, z), Of(l, t) = {}
  PROVE  TableInv(Created(l, n, t, z, f), C)
PROOF
<1> DEFINE r == Created(l, n, t, z, f)
<1>1. l \in Table /\ IsFiniteSet(Locked(l)) /\ Locked(l) \subseteq Names /\ n \notin Locked(l)
  BY DEF TableInv, Locked, CanCreate
<1>2. /\ r.token = [l.token EXCEPT ![n] = t]
      /\ r.zero = [l.zero EXCEPT ![n] = z] /\ r.finite = [l.finite EXCEPT ![n] = f]
      /\ r.ref = [m \in Names |-> IF m \in ToRoot(n) THEN l.ref[m] + 1 ELSE l.ref[m]]
      /\ r.held = l.held /\ r.queued = (IF f THEN l.queued \cup {n} ELSE l.queued)
      /\ Locked(r) = Locked(l) \cup {n}
  <2>1. /\ r.token = [l.token EXCEPT ![n] = t]
        /\ r.zero = [l.zero EXCEPT ![n] = z] /\ r.finite = [l.finite EXCEPT ![n] = f]
        /\ r.ref = [m \in Names |-> IF m \in ToRoot(n) THEN l.ref[m] + 1 ELSE l.ref[m]]
        /\ r.held = l.held /\ r.queued = (IF f THEN l.queued \cup {n} ELSE l.queued)
    BY <1>1 DEF Created, Table
  <2>2. Locked(r) = Locked(l) \cup {n}
    BY <1>1, <2>1, TreeAssumption DEF Locked, Table
  <2> QED
    BY <2>1, <2>2
<1>3. l.token \in [Names -> Tokens \cup {None}] /\ l.zero \in [Names -> BOOLEAN]
      /\ l.finite \in [Names -> BOOLEAN] /\ l.ref \in [Names -> Nat]
  BY <1>1 DEF Table
<1>11. r \in Table
  <2> DEFINE token == [l.token EXCEPT ![n] = t]
             zero == [l.zero EXCEPT ![n] = z]
             finite == [l.finite EXCEPT ![n] = f]
             ref == [m \in Names |-> IF m \in ToRoot(n) THEN l.ref[m] + 1 ELSE l.ref[m]]
             queued == IF f THEN l.queued \cup {n} ELSE l.queued
  <2>1. r = [l EXCEPT !.token = token, !.zero = zero, !.finite = finite, !.ref = ref, !.queued = queued]
    BY DEF Created
  <2>2. token \in [Names -> Tokens \cup {None}] /\ zero \in [Names -> BOOLEAN]
        /\ finite \in [Names -> BOOLEAN] /\ ref \in [Names -> Nat] /\ queued \in SUBSET Names
    BY <1>1, <1>3 DEF Table
  <2> HIDE DEF ref, token, zero, finite, queued
  <2>3. [l EXCEPT !.token = token, !.zero = zero, !.finite = finite, !.ref = ref, !.queued = queued] \in Table
    BY <1>1, <2>2 DEF Table
  <2> QED
    BY <2>1, <2>3
<1> HIDE DEF r
<1>4. ASSUME NEW m \in Names
      PROVE  r.ref[m] = Cardinality(Counted(r, m))
  <2>1. IsFiniteSet(Counted(l, m)) /\ n \notin Counted(l, m)
    BY <1>1, FS_Subset DEF Counted
  <2>2. l.ref[m] = Cardinality(Counted(l, m))
    BY DEF TableInv
  <2>3. CASE m \in ToRoot(n)
    <3>1. Counted(r, m) = Counted(l, m) \cup {n}
      BY <1>2, <2>3 DEF Counted
    <3>2. Cardinality(Counted(r, m)) = Cardinality(Counted(l, m)) + 1
      BY <2>1, <3>1, FS_AddElement
    <3> QED
      BY <1>2, <2>2, <2>3, <3>2
  <2>4. CASE m \notin ToRoot(n)
    <3>1. Counted(r, m) = Counted(l, m)
      BY <1>2, <2>4 DEF Counted
    <3> QED
      BY <1>2, <2>2, <2>4, <3>1
  <2> QED
    BY <2>3, <2>4
<1>5. ASSUME NEW p \in Locked(r), NEW m \in Locked(r), m \in Above[p]
      PROVE  r.zero[m]
  <2>1. p \in Names /\ m \in Names
    BY <1>1, <1>2
  <2>2. CASE m = n
    <3>1. p # n
      BY <2>1, <2>2, <1>5, TreeAssumption
    <3>2. p \in Counted(l, n)
      BY <1>2, <1>5, <2>2, <3>1 DEF Counted, ToRoot
    <3>3. l.ref[n] # 0
      <4>1. IsFiniteSet(Counted(l, n))
        BY <1>1, FS_Subset DEF Counted
      <4>2. l.ref[n] = Cardinality(Counted(l, n))
        BY DEF TableInv
      <4> QED
        BY <3>2, <4>1, <4>2, FS_EmptySet
    <3>4. z = TRUE
      BY <3>3 DEF CanCreate
    <3> QED
      BY <1>2, <1>3, <2>2, <3>4
  <2>3. CASE m # n /\ p = n
    BY <1>2, <1>3, <1>5, <2>1, <2>3 DEF CanCreate, Locked
  <2>4. CASE m # n /\ p # n
    <3>1. m \in Locked(l) /\ p \in Locked(l)
      BY <1>2, <2>4
    <3> QED
      BY <1>2, <1>3, <1>5, <2>1, <2>4, <3>1 DEF TableInv
  <2> QED
    BY <2>2, <2>3, <2>4
<1>6. ASSUME NEW p \in Locked(r), NEW m \in Locked(r), r.token[p] = r.token[m]
      PROVE  p = m
  <2>1. \A k \in Locked(l) : l.token[k] # t /\ k # n /\ r.token[k] = l.token[k]
    BY <1>1, <1>2, <1>3 DEF Of
  <2>2. r.token[n] = t
    BY <1>2, <1>3
  <2>3. \A k, j \in Locked(l) : l.token[k] = l.token[j] => k = j
    BY DEF TableInv
  <2> QED
    BY <1>2, <1>6, <2>1, <2>2, <2>3
<1>7. IsFiniteSet(Locked(r))
  BY <1>1, <1>2, FS_AddElement
<1>8. r.held = UNION C /\ r.held \subseteq Locked(r) /\ \A H, G \in C : H = G \/ H \cap G = {}
  BY <1>2 DEF TableInv
<1>9. r.queued = {k \in Locked(r) : r.finite[k] /\ k \notin r.held}
  <2>1. n \notin l.held
    BY <1>1 DEF TableInv
  <2>2. l.queued = {k \in Locked(l) : l.finite[k] /\ k \notin l.held}
    BY DEF TableInv
  <2>3. r.finite[n] = f /\ \A k \in Locked(l) : r.finite[k] = l.finite[k]
    BY <1>1, <1>2, <1>3
  <2> QED
    BY <1>1, <1>2, <2>1, <2>2, <2>3
<1>10. TableInv(r, C)
  BY <1>2, <1>4, <1>5, <1>6, <1>7, <1>8, <1>9, <1>11 DEF TableInv
<1> QED
  BY <1>10 DEF r

\* Holding locks nobody holds, and giving back what a release function holds.
LEMMA HoldKeeps ==
  ASSUME NEW l, NEW C, TableInv(l, C), NEW H \in SUBSET Locked(l), H \cap l.held = {}
  PROVE  TableInv(Hold(l, H), C \cup {H})
PROOF
<1> DEFINE r == Hold(l, H)
<1>1. l \in Table /\ H \subseteq Names
  BY DEF TableInv, Locked
<1>2. /\ r.token = l.token /\ r.zero = l.zero /\ r.finite = l.finite /\ r.ref = l.ref
      /\ r.held = l.held \cup H /\ r.queued = l.queued \ H
  BY <1>1 DEF Hold, Table
<1>3. r \in Table
  BY <1>1 DEF Hold, Table
<1> HIDE DEF r
<1>4. Locked(r) = Locked(l) /\ \A m \in Names : Counted(r, m) = Counted(l, m)
  BY <1>2 DEF Locked, Counted
<1>5. r.held = UNION (C \cup {H}) /\ r.held \subseteq Locked(r)
  BY <1>2, <1>4 DEF TableInv
<1>6. \A G, K \in C \cup {H} : G = K \/ G \cap K = {}
  BY DEF TableInv
<1>7. r.queued = {k \in Locked(r) : r.finite[k] /\ k \notin r.held}
  BY <1>2, <1>4 DEF TableInv
<1>8. TableInv(r, C \cup {H})
  BY <1>2, <1>3, <1>4, <1>5, <1>6, <1>7 DEF TableInv
<1> QED
  BY <1>8 DEF r

LEMMA UnholdKeeps ==
  ASSUME NEW l, NEW C, TableInv(l, C), NEW H \in C
  PROVE  TableInv(Unhold(l, H), C \ {H})
PROOF
<1> DEFINE r == Unhold(l, H)
<1>1. l \in Table /\ H \subseteq l.held /\ H \subseteq Names
  BY DEF TableInv, Locked
<1>2. /\ r.token = l.token /\ r.zero = l.zero /\ r.finite = l.finite /\ r.ref = l.ref
      /\ r.held = l.held \ H /\ r.queued = l.queued \cup {n \in H : l.finite[n]}
  BY <1>1 DEF Unhold, Table
<1>3. r \in Table
  BY <1>1 DEF Unhold, Table
<1> HIDE DEF r
<1>4. Locked(r) = Locked(l) /\ \A m \in Names : Counted(r, m) = Counted(l, m)
  BY <1>2 DEF Locked, Counted
<1>5. \A G, K \in C : G = K \/ G \cap K = {}
  BY DEF TableInv
<1>6. r.held = UNION (C \ {H}) /\ r.held \subseteq Locked(r)
  BY <1>2, <1>4, <1>5 DEF TableInv
<1>7. r.queued = {k \in Locked(r) : r.finite[k] /\ k \notin r.held}
  BY <1>1, <1>2, <1>4 DEF TableInv
<1>8. TableInv(r, C \ {H})
  BY <1>2, <1>3, <1>4, <1>5, <1>6, <1>7 DEF TableInv
<1> QED
  BY <1>8 DEF r

LEMMA RefreshedKeeps ==
  ASSUME NEW l, NEW C, TableInv(l, C), NEW n \in Locked(l), n \notin l.held, NEW f \in BOOLEAN
  PROVE  TableInv(Refreshed(l, n, f), C)
PROOF
<1> DEFINE r == Refreshed(l, n, f)
<1>1. l \in Table /\ n \in Names
  BY DEF TableInv, Locked
<1>2. /\ r.token = l.token /\ r.zero = l.zero /\ r.finite = [l.finite EXCEPT ![n] = f]
      /\ r.ref = l.ref /\ r.held = l.held
      /\ r.queued = (IF f THEN l.queued \cup {n} ELSE l.queued \ {n})
  BY <1>1 DEF Refreshed, Table
<1>3. r \in Table
  <2> DEFINE fin == [l.finite EXCEPT ![n] = f]
             q == IF f THEN l.queued \cup {n} ELSE l.queued \ {n}
  <2>1. fin \in [Names -> BOOLEAN] /\ q \in SUBSET Names
    BY <1>1 DEF Table
  <2>2. r = [l EXCEPT !.finite = fin, !.due = @ \ {n}, !.queued = q]
    BY <1>1 DEF Refreshed, Table
  <2> HIDE DEF fin, q
  <2>3. [l EXCEPT !.finite = fin, !.due = @ \ {n}, !.queued = q] \in Table
    BY <1>1, <2>1 DEF Table
  <2> QED
    BY <2>2, <2>3
<1> HIDE DEF r
<1>4. Locked(r) = Locked(l) /\ \A m \in Names : Counted(r, m) = Counted(l, m)
  BY <1>2 DEF Locked, Counted
<1>5. r.queued = {k \in Locked(r) : r.finite[k] /\ k \notin r.held}
  <2>1. l.queued = {k \in Locked(l) : l.finite[k] /\ k \notin l.held}
    BY DEF TableInv
  <2>2. l.finite \in [Names -> BOOLEAN] /\ Locked(l) \subseteq Names
    BY <1>1 DEF Table, Locked
  <2>3. r.finite[n] = f /\ \A k \in Locked(l) : k # n => r.finite[k] = l.finite[k]
    BY <1>1, <1>2, <2>2
  <2> QED
    BY <1>2, <1>4, <2>1, <2>3
<1>6. TableInv(r, C)
  BY <1>2, <1>3, <1>4, <1>5 DEF TableInv
<1> QED
  BY <1>6 DEF r

LEMMA ExpireKeeps ==
  ASSUME NEW l, NEW C, TableInv(l, C), NEW n \in Names
  PROVE  TableInv([l EXCEPT !.due = @ \cup {n}], C)
PROOF
<1> DEFINE r == [l EXCEPT !.due = @ \cup {n}]
<1>1. l \in Table
  BY DEF TableInv
<1>2. /\ r.token = l.token /\ r.zero = l.zero /\ r.finite = l.finite
      /\ r.ref = l.ref /\ r.held = l.held /\ r.queued = l.queued
  BY <1>1 DEF Table
<1>3. r \in Table
  BY <1>1 DEF Table
<1> HIDE DEF r
<1>4. Locked(r) = Locked(l) /\ \A m \in Names : Counted(r, m) = Counted(l, m)
  BY <1>2 DEF Locked, Counted
<1>5. TableInv(r, C)
  BY <1>2, <1>3, <1>4 DEF TableInv
<1> QED
  BY <1>5 DEF r

LocksInv == TableInv(ls, closures)

\* Only a lock that nobody holds may go or change, when it has a duration or its token
\* is in T.
Only(l, r, T) ==
  \A n \in Locked(l) : n \in l.held \/ (~l.finite[n] /\ l.token[n] \notin T) =>
    r.token[n] = l.token[n] /\ r.zero[n] = l.zero[n] /\ r.finite[n] = l.finite[n]

\* No lock is new.
Fewer(l, r) == \A n \in Locked(r) : n \in Locked(l) /\ r.token[n] = l.token[n]

\* What every method does first.
LEMMA CollectedOnly ==
  ASSUME NEW l, NEW C, TableInv(l, C)
  PROVE  /\ Collected(l) \in Table /\ TableInv(Collected(l), C) /\ Collected(l).held = l.held
         /\ Only(l, Collected(l), {}) /\ Fewer(l, Collected(l))
         /\ Locked(Collected(l)) \subseteq Locked(l)
PROOF
<1> DEFINE r == Collected(l)
<1>1. TableInv(r, C) /\ Locked(r) = Locked(l) \ (l.queued \cap l.due)
  BY CollectedKeeps
<1>2. /\ \A n \in Names : r.token[n] = IF n \in l.queued \cap l.due THEN None ELSE l.token[n]
      /\ r.zero = l.zero /\ r.finite = l.finite /\ r.held = l.held
  BY CollectedFields
<1> HIDE DEF r
<1>3. Locked(l) \subseteq Names
  BY DEF Locked
<1>4. l.queued = {n \in Locked(l) : l.finite[n] /\ n \notin l.held}
  BY DEF TableInv
<1>5. Only(l, r, {})
  BY <1>2, <1>3, <1>4 DEF Only
<1>6. Fewer(l, r)
  BY <1>1, <1>2, <1>3 DEF Fewer
<1>7. r \in Table
  BY <1>1 DEF TableInv
<1> QED
  BY <1>1, <1>2, <1>5, <1>6, <1>7 DEF r

LEMMA CreateDoes ==
  ASSUME LocksInv, NEW n \in Names, NEW t \in Tokens, NEW z \in BOOLEAN, NEW f \in BOOLEAN,
         Create(n, t, z, f)
  PROVE  /\ LocksInv' /\ UNCHANGED closures /\ n \notin Locked(Collected(ls))
         /\ Only(ls, ls', {})
         /\ \A m \in Locked(ls') : \/ m = n /\ ls'.token[m] = t
                                   \/ m \in Locked(ls) /\ ls'.token[m] = ls.token[m]
PROOF
<1> DEFINE l == Collected(ls)
<1>1. /\ l \in Table /\ TableInv(l, closures) /\ l.held = ls.held /\ Only(ls, l, {}) /\ Fewer(ls, l)
      /\ Locked(l) \subseteq Locked(ls)
  BY CollectedOnly DEF LocksInv
<1>2. CanCreate(l, n, z) /\ Of(ls, t) = {} /\ ls' = Created(l, n, t, z, f) /\ closures' = closures
  BY DEF Create
<1> HIDE DEF l
<1>3. n \notin Locked(l)
  BY <1>2 DEF CanCreate, Locked
<1>4. Of(l, t) = {}
  BY <1>1, <1>2, TreeAssumption DEF Of, Fewer, Locked
<1>5. TableInv(ls', closures)
  BY <1>1, <1>2, <1>4, CreatedKeeps
<1>6. /\ ls'.token = [l.token EXCEPT ![n] = t]
      /\ \A m \in Names \ {n} : ls'.zero[m] = l.zero[m] /\ ls'.finite[m] = l.finite[m]
      /\ Locked(ls') = Locked(l) \cup {n}
  BY <1>1, <1>2, CreatedFields
<1>7. l.token \in [Names -> Tokens \cup {None}] /\ Locked(l) \subseteq Names /\ Locked(ls) \subseteq Names
  BY <1>1 DEF Table, Locked
<1>8. ASSUME NEW m \in Locked(ls), m \in ls.held \/ ~ls.finite[m]
      PROVE  ls'.token[m] = ls.token[m] /\ ls'.zero[m] = ls.zero[m] /\ ls'.finite[m] = ls.finite[m]
  <2>1. l.token[m] = ls.token[m] /\ l.zero[m] = ls.zero[m] /\ l.finite[m] = ls.finite[m]
    BY <1>1, <1>8 DEF Only
  <2>2. m # n
    BY <1>3, <1>7, <2>1 DEF Locked
  <2> QED
    BY <1>6, <1>7, <2>1, <2>2
<1>9. \A m \in Locked(ls') : \/ m = n /\ ls'.token[m] = t
                             \/ m \in Locked(ls) /\ ls'.token[m] = ls.token[m]
  BY <1>1, <1>6, <1>7 DEF Fewer
<1>10. Only(ls, ls', {})
  BY <1>8 DEF Only
<1>11. LocksInv'
  BY <1>2, <1>5 DEF LocksInv
<1> QED
  BY <1>2, <1>3, <1>9, <1>10, <1>11 DEF l

\* A temporary lock is one its request can count on.
LEMMA CreateTemporary ==
  ASSUME LocksInv, NEW n \in Names, NEW t \in Tokens, Create(n, t, TRUE, FALSE)
  PROVE  ls'.token[n] = t /\ ls'.zero[n] /\ ~ls'.finite[n]
PROOF
<1> DEFINE l == Collected(ls)
<1>1. l \in Table
  BY CollectedOnly DEF LocksInv
<1>2. ls' = Created(l, n, t, TRUE, FALSE)
  BY DEF Create
<1> HIDE DEF l
<1>3. /\ ls'.token = [l.token EXCEPT ![n] = t]
      /\ ls'.zero = [l.zero EXCEPT ![n] = TRUE] /\ ls'.finite = [l.finite EXCEPT ![n] = FALSE]
  BY <1>1, <1>2 DEF Created, Table
<1> QED
  BY <1>1, <1>3 DEF Table

LEMMA ConfirmDoes ==
  ASSUME LocksInv, NEW S \in SUBSET Names, NEW H, NEW T \in SUBSET Tokens, Confirm(S, H, T)
  PROVE  /\ LocksInv' /\ Only(ls, ls', {}) /\ Fewer(ls, ls')
         /\ closures' = closures \cup {H} /\ H \in SUBSET Names /\ (S # {} => H # {}) /\ H \cap ls.held = {}
         /\ \A n \in H : ls'.token[n] \in T
         /\ \A k \in S : \E m \in H \cap ToRoot(k) : m = k \/ ~ls'.zero[m]
PROOF
<1> DEFINE l == Collected(ls)
<1>1. /\ l \in Table /\ TableInv(l, closures) /\ l.held = ls.held /\ Only(ls, l, {}) /\ Fewer(ls, l)
      /\ Locked(l) \subseteq Locked(ls)
  BY CollectedOnly DEF LocksInv
<1>2. PICK pick \in [S -> Names] : /\ \A n \in S : pick[n] \in Lookup(l, n, T)
                                   /\ H = {pick[n] : n \in S}
  BY DEF Confirm
<1>3. ls' = Hold(l, H) /\ closures' = closures \cup {H}
  BY DEF Confirm
<1> HIDE DEF l
<1>4. \A n \in S : /\ pick[n] \in ToRoot(n) /\ l.token[pick[n]] \in T /\ pick[n] \notin l.held
                   /\ pick[n] = n \/ ~l.zero[pick[n]]
  BY <1>2 DEF Lookup
<1>5. H \in SUBSET Locked(l) /\ H \cap l.held = {} /\ \A n \in H : l.token[n] \in T
  BY <1>2, <1>4, TreeAssumption DEF Locked
<1>6. TableInv(ls', closures \cup {H})
  BY <1>1, <1>3, <1>5, HoldKeeps
<1>7. ls'.token = l.token /\ ls'.zero = l.zero /\ ls'.finite = l.finite
  BY <1>1, <1>3 DEF Hold, Table
<1>8. Only(ls, ls', {}) /\ Fewer(ls, ls')
  BY <1>1, <1>7 DEF Only, Fewer, Locked
<1>9. \A k \in S : \E m \in H \cap ToRoot(k) : m = k \/ ~ls'.zero[m]
  BY <1>2, <1>4, <1>7
<1>10. S # {} => H # {}
  BY <1>2
<1>11. LocksInv'
  BY <1>3, <1>6 DEF LocksInv
<1> QED
  BY <1>1, <1>3, <1>5, <1>7, <1>8, <1>9, <1>10, <1>11 DEF Locked

LEMMA ReleaseDoes ==
  ASSUME LocksInv, NEW H, Release(H)
  PROVE  LocksInv' /\ Only(ls, ls', {}) /\ Fewer(ls, ls') /\ closures' = closures \ {H}
PROOF
<1>1. H \in closures /\ ls' = Unhold(ls, H) /\ closures' = closures \ {H}
  BY DEF Release
<1>2. TableInv(ls', closures \ {H})
  BY <1>1, UnholdKeeps DEF LocksInv
<1>3. ls \in Table
  BY DEF LocksInv, TableInv
<1>4. ls'.token = ls.token /\ ls'.zero = ls.zero /\ ls'.finite = ls.finite
  BY <1>1, <1>3 DEF Unhold, Table
<1>5. Only(ls, ls', {}) /\ Fewer(ls, ls')
  BY <1>4 DEF Only, Fewer, Locked
<1> QED
  BY <1>1, <1>2, <1>5 DEF LocksInv

LEMMA RefreshDoes ==
  ASSUME LocksInv, NEW t \in Tokens, NEW f \in BOOLEAN, Refresh(t, f)
  PROVE  LocksInv' /\ Only(ls, ls', {t}) /\ Fewer(ls, ls') /\ UNCHANGED closures
PROOF
<1> DEFINE l == Collected(ls)
<1>1. /\ l \in Table /\ TableInv(l, closures) /\ l.held = ls.held /\ Only(ls, l, {}) /\ Fewer(ls, l)
      /\ Locked(l) \subseteq Locked(ls)
  BY CollectedOnly DEF LocksInv
<1>2. PICK n \in Of(l, t) : n \notin l.held /\ ls' = Refreshed(l, n, f)
  BY DEF Refresh
<1>3. closures' = closures
  BY DEF Refresh
<1> HIDE DEF l
<1>4. n \in Locked(l) /\ n \in Names /\ l.token[n] = t
  BY <1>2, TreeAssumption DEF Of, Locked
<1>5. TableInv(ls', closures)
  BY <1>1, <1>2, <1>4, RefreshedKeeps
<1>6. ls'.token = l.token /\ ls'.zero = l.zero /\ ls'.finite = [l.finite EXCEPT ![n] = f]
  BY <1>1, <1>2 DEF Refreshed, Table
<1>7. l.finite \in [Names -> BOOLEAN] /\ Locked(ls) \subseteq Names
  BY <1>1 DEF Table, Locked
<1>8. Fewer(ls, ls')
  BY <1>1, <1>6 DEF Fewer, Locked
<1>9. ASSUME NEW m \in Locked(ls), m \in ls.held \/ (~ls.finite[m] /\ ls.token[m] \notin {t})
      PROVE  ls'.token[m] = ls.token[m] /\ ls'.zero[m] = ls.zero[m] /\ ls'.finite[m] = ls.finite[m]
  <2>1. l.token[m] = ls.token[m] /\ l.zero[m] = ls.zero[m] /\ l.finite[m] = ls.finite[m]
    BY <1>1, <1>9 DEF Only
  <2>2. m # n
    BY <1>1, <1>2, <1>4, <1>9, <2>1
  <2> QED
    BY <1>6, <1>7, <2>1, <2>2
<1>10. Only(ls, ls', {t})
  BY <1>9 DEF Only
<1> QED
  BY <1>3, <1>5, <1>8, <1>10 DEF LocksInv

LEMMA UnlockDoes ==
  ASSUME LocksInv, NEW t \in Tokens, Unlock(t)
  PROVE  /\ LocksInv' /\ Only(ls, ls', {t}) /\ Fewer(ls, ls') /\ UNCHANGED closures
         /\ \A n \in Locked(ls') : ls'.token[n] # t
PROOF
<1> DEFINE l == Collected(ls)
<1>1. /\ l \in Table /\ TableInv(l, closures) /\ l.held = ls.held /\ Only(ls, l, {}) /\ Fewer(ls, l)
      /\ Locked(l) \subseteq Locked(ls)
  BY CollectedOnly DEF LocksInv
<1>2. PICK n \in Of(l, t) : n \notin l.held /\ ls' = Removed(l, {n})
  BY DEF Unlock
<1>3. closures' = closures
  BY DEF Unlock
<1> HIDE DEF l
<1>4. n \in Locked(l) /\ n \in Names /\ l.token[n] = t /\ {n} \cap l.held = {} /\ {n} \in SUBSET Locked(l)
  BY <1>2, TreeAssumption DEF Of, Locked
<1>5. TableInv(ls', closures) /\ Locked(ls') = Locked(l) \ {n}
  BY <1>1, <1>2, <1>4, RemovedKeeps
<1>6. /\ ls'.token = [m \in Names |-> IF m \in {n} THEN None ELSE l.token[m]]
      /\ ls'.zero = l.zero /\ ls'.finite = l.finite
  BY <1>1, <1>2, <1>4, RemovedFields
<1>7. Locked(ls) \subseteq Names /\ Locked(l) \subseteq Names
  BY DEF Locked
<1>8. Fewer(ls, ls')
  BY <1>1, <1>5, <1>6, <1>7 DEF Fewer
<1>9. ASSUME NEW m \in Locked(ls), m \in ls.held \/ (~ls.finite[m] /\ ls.token[m] \notin {t})
      PROVE  ls'.token[m] = ls.token[m] /\ ls'.zero[m] = ls.zero[m] /\ ls'.finite[m] = ls.finite[m]
  <2>1. l.token[m] = ls.token[m] /\ l.zero[m] = ls.zero[m] /\ l.finite[m] = ls.finite[m]
    BY <1>1, <1>9 DEF Only
  <2>2. m # n
    BY <1>1, <1>2, <1>4, <1>9, <2>1
  <2> QED
    BY <1>6, <1>7, <2>1, <2>2
<1>10. Only(ls, ls', {t})
  BY <1>9 DEF Only
<1>11. \A m \in Locked(ls') : ls'.token[m] # t
  <2>1. \A m, k \in Locked(l) : l.token[m] = l.token[k] => m = k
    BY <1>1 DEF TableInv
  <2> QED
    BY <1>4, <1>5, <1>6, <1>7, <2>1
<1> QED
  BY <1>3, <1>5, <1>8, <1>10, <1>11 DEF LocksInv

LEMMA UnlockThenDoes ==
  ASSUME LocksInv, NEW t \in Tokens, UnlockThen(t)
  PROVE  /\ LocksInv' /\ Only(ls, ls', {t}) /\ Fewer(ls, ls') /\ UNCHANGED closures
         /\ \A n \in Locked(ls') : ls'.token[n] = t => n \in ls.held
PROOF
<1> DEFINE S == Of(ls, t) \ ls.held
<1>1. ls \in Table
  BY DEF LocksInv, TableInv
<1>2. S \in SUBSET Locked(ls) /\ S \cap ls.held = {}
  BY TreeAssumption DEF Of, Locked
<1>3. ls' = Removed(ls, S) /\ closures' = closures
  BY DEF UnlockThen
<1>4. TableInv(ls', closures) /\ Locked(ls') = Locked(ls) \ S
  BY <1>2, <1>3, RemovedKeeps DEF LocksInv
<1>5. /\ ls'.token = [m \in Names |-> IF m \in S THEN None ELSE ls.token[m]]
      /\ ls'.zero = ls.zero /\ ls'.finite = ls.finite
  BY <1>1, <1>2, <1>3, RemovedFields
<1>6. Locked(ls) \subseteq Names /\ \A m \in S : m \notin ls.held /\ ls.token[m] = t
  BY DEF Locked, Of
<1> HIDE DEF S
<1>7. Only(ls, ls', {t}) /\ Fewer(ls, ls')
  BY <1>4, <1>5, <1>6 DEF Only, Fewer
<1>8. \A n \in Locked(ls') : ls'.token[n] = t => n \in ls.held
  BY <1>4, <1>5, <1>6 DEF S, Of
<1> QED
  BY <1>3, <1>4, <1>7, <1>8 DEF LocksInv

LEMMA RefusedDoes ==
  ASSUME LocksInv, Refused
  PROVE  LocksInv' /\ Only(ls, ls', {}) /\ Fewer(ls, ls') /\ UNCHANGED closures
PROOF
<1>1. ls' = Collected(ls) /\ closures' = closures
  BY DEF Refused
<1> QED
  BY <1>1, CollectedOnly DEF LocksInv

LEMMA ExpireDoes ==
  ASSUME LocksInv, NEW n \in Names, Expire(n)
  PROVE  LocksInv' /\ Only(ls, ls', {}) /\ Fewer(ls, ls') /\ UNCHANGED closures
PROOF
<1>1. ls' = [ls EXCEPT !.due = @ \cup {n}] /\ closures' = closures /\ ls \in Table
  BY DEF Expire, LocksInv, TableInv
<1>2. TableInv(ls', closures)
  BY <1>1, ExpireKeeps DEF LocksInv
<1>3. ls'.token = ls.token /\ ls'.zero = ls.zero /\ ls'.finite = ls.finite
  BY <1>1 DEF Table
<1>4. Only(ls, ls', {}) /\ Fewer(ls, ls')
  BY <1>3 DEF Only, Fewer, Locked
<1> QED
  BY <1>1, <1>2, <1>4 DEF LocksInv
-----------------------------------------------------------------------------
(* Between two steps of a request.                                           *)

Places == {"idle", "lock", "lock2", "If", "act", "open", "remove", "make", "free",
           "LOCK", "locked", "UNLOCK", "REFRESH"}
Temps == {<<>>} \cup {<<t>> : t \in Tokens} \cup {<<t, u>> : t \in Tokens, u \in Tokens}

TypesInv ==
  /\ content \in [Names -> {"none", "dir", "part", "full"}]
  /\ req \in [Clients -> Requests] /\ asked \in 0..MaxRequests
  /\ pc \in [Clients -> Places]
  /\ shown \in [Clients -> SUBSET Tokens] /\ told \in SUBSET Tokens
  /\ hold \in [Clients -> SUBSET Names]
  /\ temp \in [Clients -> Temps]

\* The temporary locks of a request are its own.
TempsInv ==
  /\ \A c \in Clients : TempOf(c) \cap told = {}
  /\ \A c, d \in Clients : TempOf(c) \cap shown[d] = {} /\ (c = d \/ TempOf(c) \cap TempOf(d) = {})

\* The release functions are those of requests, and no two of one hold.
HoldsInv ==
  /\ closures = {hold[c] : c \in Clients} \ {{}}
  /\ \A c, d \in Clients : c = d \/ hold[c] \cap hold[d] = {}

\* Whoever made a lock, or was told of it, can remove it.
KnownInv == \A n \in Locked(ls) : ls.token[n] \in told \cup UNION {TempOf(c) : c \in Clients}

\* A request has temporary locks, or what Confirm holds, from then on until it is done.
Place(c) ==
  /\ temp[c] # <<>> => hold[c] = {}
  /\ pc[c] \in {"idle", "lock", "If", "LOCK", "UNLOCK", "REFRESH"} => temp[c] = <<>> /\ hold[c] = {}
  /\ pc[c] \in {"lock2", "locked"} => \E t \in Tokens : temp[c] = <<t>>
  /\ pc[c] = "lock2" => req[c].method = "MOVE"

\* What makes it safe for a request to change what it names.
ByTemp(c, k) == ls.token[k] \in TempOf(c) /\ ls.zero[k] /\ ~ls.finite[k]
ByHold(c, k) == \E m \in hold[c] \cap ToRoot(k) : ls.token[m] \in shown[c] /\ (m = k \/ ~ls.zero[m])

Cover(c) ==
  /\ \A m \in hold[c] : ls.token[m] \in shown[c]
  /\ Acting(c) => \A k \in Claims(c) : ByTemp(c, k) \/ ByHold(c, k)
  /\ pc[c] = "lock2" => ByTemp(c, req[c].path)

DavInv ==
  /\ LocksInv /\ TypesInv /\ TempsInv /\ HoldsInv /\ KnownInv
  /\ \A c \in Clients : Place(c) /\ Cover(c)

\* What a client asked for, and what it has of the lock table, is as it was.
Still(d) ==
  /\ temp'[d] = temp[d] /\ hold'[d] = hold[d] /\ shown'[d] = shown[d] /\ req'[d] = req[d]

LEMMA ClaimsAreNames ==
  ASSUME TypesInv, NEW c \in Clients
  PROVE  /\ req[c].path \in Names /\ req[c].dest \in Names /\ req[c].zero \in BOOLEAN
         /\ req[c].finite \in BOOLEAN /\ Claims(c) \in SUBSET Names /\ Claims(c) # {}
PROOF
<1>1. req[c] \in Request
  BY RequestsAssumption DEF TypesInv
<1>2. req[c].path \in Names /\ req[c].dest \in Names /\ req[c].zero \in BOOLEAN /\ req[c].finite \in BOOLEAN
  BY <1>1 DEF Request
<1> QED
  BY <1>2 DEF Claims

LEMMA TempOfIs ==
  ASSUME NEW s
  PROVE  /\ s = <<>> => {s[i] : i \in DOMAIN s} = {}
         /\ \A t : s = <<t>> => {s[i] : i \in DOMAIN s} = {t}
         /\ \A t, u : s = <<t, u>> => {s[i] : i \in DOMAIN s} = {t, u}
PROOF
<1>1. s = <<>> => {s[i] : i \in DOMAIN s} = {}
  OBVIOUS
<1>2. ASSUME NEW t, s = <<t>>
      PROVE  {s[i] : i \in DOMAIN s} = {t}
  <2>1. DOMAIN s = {1} /\ s[1] = t
    BY <1>2
  <2> QED
    BY <2>1
<1>3. ASSUME NEW t, NEW u, s = <<t, u>>
      PROVE  {s[i] : i \in DOMAIN s} = {t, u}
  <2>1. DOMAIN s = {1, 2} /\ s[1] = t /\ s[2] = u
    BY <1>3
  <2> QED
    BY <2>1
<1> QED
  BY <1>1, <1>2, <1>3

LEMMA TempTokens ==
  ASSUME TypesInv, NEW c \in Clients
  PROVE  TempOf(c) \in SUBSET Tokens
PROOF
<1>1. temp[c] \in Temps
  BY DEF TypesInv
<1>2. /\ temp[c] = <<>> => TempOf(c) = {}
      /\ \A t : temp[c] = <<t>> => TempOf(c) = {t}
      /\ \A t, u : temp[c] = <<t, u>> => TempOf(c) = {t, u}
  BY TempOfIs DEF TempOf
<1> QED
  BY <1>1, <1>2 DEF Temps

\* What a request counts on is left alone by whatever the others do.
LEMMA StillCovered ==
  ASSUME DavInv, NEW d \in Clients, NEW T, Only(ls, ls', T), T \cap TempOf(d) = {}, Still(d)
  PROVE  /\ TempOf(d)' = TempOf(d) /\ Claims(d)' = Claims(d)
         /\ \A m \in hold[d] : ls'.token[m] \in shown'[d]
         /\ \A k \in Names : ByTemp(d, k) => ByTemp(d, k)'
         /\ \A k \in Names : ByHold(d, k) => ByHold(d, k)'
PROOF
<1>1. TempOf(d)' = TempOf(d) /\ Claims(d)' = Claims(d)
  BY DEF Still, TempOf, Claims
<1>2. Locked(ls) = {n \in Names : ls.token[n] # None} /\ TempOf(d) \subseteq Tokens /\ None \notin Tokens
  BY TempTokens, TreeAssumption DEF Locked, DavInv
<1>3. hold[d] \subseteq ls.held /\ ls.held \subseteq Locked(ls)
  <2>1. hold[d] = {} \/ hold[d] \in closures
    BY DEF DavInv, HoldsInv
  <2>2. ls.held = UNION closures /\ ls.held \subseteq Locked(ls)
    BY DEF DavInv, LocksInv, TableInv
  <2> QED
    BY <2>1, <2>2
<1>4. \A m \in hold[d] : ls'.token[m] = ls.token[m] /\ ls'.zero[m] = ls.zero[m] /\ ls.token[m] \in shown[d]
  BY <1>3 DEF Only, DavInv, Cover
<1>5. ASSUME NEW k \in Names, ByTemp(d, k)
      PROVE  ByTemp(d, k)'
  <2>1. ls.token[k] \in TempOf(d) /\ ls.zero[k] /\ ~ls.finite[k]
    BY <1>5 DEF ByTemp
  <2>2. k \in Locked(ls) /\ ls.token[k] \notin T
    BY <1>2, <2>1
  <2>3. ls'.token[k] = ls.token[k] /\ ls'.zero[k] = ls.zero[k] /\ ls'.finite[k] = ls.finite[k]
    BY <2>1, <2>2 DEF Only
  <2> QED
    BY <1>1, <2>1, <2>3 DEF ByTemp
<1>6. ASSUME NEW k \in Names, ByHold(d, k)
      PROVE  ByHold(d, k)'
  <2>1. hold'[d] = hold[d] /\ shown'[d] = shown[d]
    BY DEF Still
  <2> QED
    BY <1>4, <1>6, <2>1 DEF ByHold
<1> QED
  BY <1>1, <1>4, <1>5, <1>6 DEF Still

LEMMA OthersKeep ==
  ASSUME DavInv, NEW d \in Clients, NEW T, Only(ls, ls', T), T \cap TempOf(d) = {}, Still(d),
         pc'[d] = pc[d]
  PROVE  Place(d)' /\ Cover(d)' /\ TempOf(d)' = TempOf(d)
PROOF
<1>1. /\ TempOf(d)' = TempOf(d) /\ Claims(d)' = Claims(d)
      /\ \A m \in hold[d] : ls'.token[m] \in shown'[d]
      /\ \A k \in Names : ByTemp(d, k) => ByTemp(d, k)'
      /\ \A k \in Names : ByHold(d, k) => ByHold(d, k)'
  BY StillCovered
<1>2. Place(d) /\ Cover(d)
  BY DEF DavInv
<1>3. req[d].path \in Names /\ Claims(d) \subseteq Names
  BY ClaimsAreNames DEF DavInv
<1>4. Place(d)'
  BY <1>2 DEF Place, Still
<1>5. Cover(d)'
  <2>1. \A m \in hold'[d] : ls'.token[m] \in shown'[d]
    BY <1>1 DEF Still
  <2>2. ASSUME Acting(d)', NEW k \in Claims(d)'
        PROVE  ByTemp(d, k)' \/ ByHold(d, k)'
    <3>1. Acting(d) /\ k \in Claims(d) /\ k \in Names
      BY <1>1, <1>3, <2>2 DEF Acting
    <3> QED
      BY <1>1, <1>2, <3>1 DEF Cover
  <2>3. ASSUME pc'[d] = "lock2"
        PROVE  ByTemp(d, req[d].path)'
    <3>1. PICK k \in Names : k = req[d].path
      BY <1>3
    <3>2. ByTemp(d, k)' /\ req'[d].path = k
      BY <1>1, <1>2, <2>3, <3>1 DEF Cover, Still
    <3> QED
      BY <3>2 DEF ByTemp
  <2> QED
    BY <2>1, <2>2, <2>3 DEF Cover
<1> QED
  BY <1>1, <1>4, <1>5
-----------------------------------------------------------------------------
(* Each step of a request.                                                   *)

LEMMA Combine ==
  ASSUME DavInv, NEW c \in Clients, NEW T, Only(ls, ls', T),
         \A d \in Clients \ {c} : T \cap TempOf(d) = {} /\ Still(d) /\ pc'[d] = pc[d],
         LocksInv', TypesInv', TempsInv', HoldsInv', KnownInv', Place(c)', Cover(c)'
  PROVE  DavInv'
PROOF
<1>1. ASSUME NEW d \in Clients \ {c}
      PROVE  Place(d)' /\ Cover(d)'
  BY OthersKeep
<1> QED
  BY <1>1 DEF DavInv

\* A call of the drive leaves the locks alone.
LEMMA DriveStep ==
  ASSUME DavInv, NEW c \in Clients, Acting(c), NEW l \in {"open", "remove", "make", "free"}, Goto(c, l),
         content' \in [Names -> {"none", "dir", "part", "full"}],
         UNCHANGED <<lockVars, req, shown, temp, hold, told, asked>>
  PROVE  DavInv'
PROOF
<1>1. /\ ls' = ls /\ closures' = closures /\ req' = req /\ shown' = shown /\ temp' = temp
      /\ hold' = hold /\ told' = told /\ asked' = asked
  BY DEF lockVars
<1>2. pc' = [pc EXCEPT ![c] = l] /\ pc \in [Clients -> Places]
  BY DEF Goto, DavInv, TypesInv
<1>3. Only(ls, ls', {})
  BY <1>1 DEF Only
<1>4. \A d \in Clients : Still(d) /\ TempOf(d)' = TempOf(d)
  BY <1>1 DEF Still, TempOf
<1>5. \A d \in Clients \ {c} : {} \cap TempOf(d) = {} /\ Still(d) /\ pc'[d] = pc[d]
  BY <1>2, <1>4
<1>6. LocksInv'
  BY <1>1 DEF DavInv, LocksInv
<1>7. TypesInv'
  BY <1>1, <1>2 DEF DavInv, TypesInv, Places
<1>8. TempsInv'
  BY <1>1, <1>4 DEF DavInv, TempsInv
<1>9. HoldsInv'
  BY <1>1 DEF DavInv, HoldsInv
<1>10. KnownInv'
  BY <1>1, <1>4 DEF DavInv, KnownInv
<1>11. pc'[c] = l /\ Place(c) /\ Cover(c)
  BY <1>2 DEF DavInv
<1>12. Place(c)'
  BY <1>1, <1>11 DEF Place
<1>13. Cover(c)'
  <2>1. /\ Claims(c)' = Claims(c)
        /\ \A m \in hold[c] : ls'.token[m] \in shown'[c]
        /\ \A k \in Names : ByTemp(c, k) => ByTemp(c, k)'
        /\ \A k \in Names : ByHold(c, k) => ByHold(c, k)'
    BY <1>3, <1>4, StillCovered
  <2>2. Claims(c) \subseteq Names
    BY ClaimsAreNames DEF DavInv
  <2>3. \A k \in Claims(c)' : ByTemp(c, k)' \/ ByHold(c, k)'
    BY <1>11, <2>1, <2>2 DEF Cover
  <2> QED
    BY <1>1, <1>11, <2>1, <2>3 DEF Cover
<1> QED
  BY <1>3, <1>5, <1>6, <1>7, <1>8, <1>9, <1>10, <1>12, <1>13, Combine

LEMMA BeginKeeps ==
  ASSUME DavInv, NEW c \in Clients, Begin(c)
  PROVE  DavInv'
PROOF
<1>1. PICK r \in Requests, S \in {{}, told} :
        /\ req' = [req EXCEPT ![c] = r] /\ shown' = [shown EXCEPT ![c] = S]
        /\ Goto(c, IF r.method \in {"LOCK", "UNLOCK", "REFRESH"} THEN r.method
                   ELSE IF S # {} THEN "If" ELSE "lock")
  BY DEF Begin
<1>2. PICK l \in {"LOCK", "UNLOCK", "REFRESH", "If", "lock"} : pc' = [pc EXCEPT ![c] = l]
  BY <1>1 DEF Goto
<1>3. /\ ls' = ls /\ closures' = closures /\ content' = content /\ temp' = temp /\ hold' = hold
      /\ told' = told /\ asked' = asked + 1 /\ asked < MaxRequests /\ pc[c] = "idle"
  BY DEF Begin, lockVars
<1>4. /\ TypesInv /\ TempsInv /\ Place(c)
  BY DEF DavInv
<1>5. temp[c] = <<>> /\ hold[c] = {}
  BY <1>3, <1>4 DEF Place
<1>6. Only(ls, ls', {})
  BY <1>3 DEF Only
<1>7. \A d \in Clients \ {c} : {} \cap TempOf(d) = {} /\ Still(d) /\ pc'[d] = pc[d]
  BY <1>1, <1>2, <1>3, <1>4 DEF Still, TypesInv
<1>8. \A d \in Clients : TempOf(d)' = TempOf(d)
  BY <1>3 DEF TempOf
<1>9. LocksInv'
  BY <1>3 DEF DavInv, LocksInv
<1>10. TypesInv'
  <2>1. asked' \in 0..MaxRequests
    BY <1>3, <1>4, RequestsAssumption DEF TypesInv
  <2>2. S \in SUBSET Tokens
    BY <1>4 DEF TypesInv
  <2> QED
    BY <1>1, <1>2, <1>3, <1>4, <2>1, <2>2 DEF TypesInv, Places
<1>11. TempsInv'
  <2>1. \A d \in Clients : shown'[d] = shown[d] \/ shown'[d] \subseteq told
    BY <1>1, <1>4 DEF TypesInv
  <2> QED
    BY <1>3, <1>4, <1>8, <2>1 DEF TempsInv
<1>12. HoldsInv'
  BY <1>3 DEF DavInv, HoldsInv
<1>13. KnownInv'
  BY <1>3, <1>8 DEF DavInv, KnownInv
<1>14. pc'[c] \in {"LOCK", "UNLOCK", "REFRESH", "If", "lock"}
  BY <1>2, <1>4 DEF TypesInv
<1>15. Place(c)' /\ Cover(c)'
  BY <1>3, <1>5, <1>14 DEF Place, Cover, Acting
<1> QED
  BY <1>6, <1>7, <1>9, <1>10, <1>11, <1>12, <1>13, <1>15, Combine

\* A request makes a lock of its own.
LEMMA MadeKeeps ==
  ASSUME DavInv, NEW c \in Clients, NEW n \in Names, NEW t \in Tokens, NEW z \in BOOLEAN, NEW f \in BOOLEAN,
         Fresh(t), Create(n, t, z, f),
         NEW s \in Temps, {s[i] : i \in DOMAIN s} = TempOf(c) \cup {t}, temp' = [temp EXCEPT ![c] = s],
         NEW l \in Places, Goto(c, l), UNCHANGED <<content, req, shown, hold, told, asked>>,
         Place(c)', Cover(c)'
  PROVE  DavInv'
PROOF
<1>1. /\ content' = content /\ req' = req /\ shown' = shown /\ hold' = hold
      /\ told' = told /\ asked' = asked /\ pc' = [pc EXCEPT ![c] = l]
  BY DEF Goto
<1>2. LocksInv /\ TypesInv /\ TempsInv
  BY DEF DavInv
<1>3. /\ LocksInv' /\ closures' = closures /\ Only(ls, ls', {})
      /\ \A m \in Locked(ls') : \/ m = n /\ ls'.token[m] = t
                                \/ m \in Locked(ls) /\ ls'.token[m] = ls.token[m]
  BY <1>2, CreateDoes
<1>4. t \notin told /\ \A d \in Clients : t \notin TempOf(d) /\ t \notin shown[d]
  BY DEF Fresh
<1>5. \A d \in Clients \ {c} : {} \cap TempOf(d) = {} /\ Still(d) /\ pc'[d] = pc[d] /\ TempOf(d)' = TempOf(d)
  BY <1>1, <1>2 DEF Still, TypesInv, TempOf
<1>6. TempOf(c)' = TempOf(c) \cup {t}
  <2>1. temp'[c] = s
    BY <1>2 DEF TypesInv
  <2> QED
    BY <2>1 DEF TempOf
<1>7. TypesInv'
  BY <1>1, <1>2 DEF TypesInv
<1>8. TempsInv'
  BY <1>1, <1>2, <1>4, <1>5, <1>6 DEF TempsInv
<1>9. HoldsInv'
  BY <1>1, <1>3 DEF DavInv, HoldsInv
<1>10. KnownInv'
  <2>1. ASSUME NEW m \in Locked(ls')
        PROVE  ls'.token[m] \in told' \cup UNION {TempOf(d)' : d \in Clients}
    <3>1. CASE ls'.token[m] = t
      BY <1>6, <3>1
    <3>2. CASE m \in Locked(ls) /\ ls'.token[m] = ls.token[m]
      <4>1. ls.token[m] \in told \/ \E d \in Clients : ls.token[m] \in TempOf(d)
        BY <3>2 DEF DavInv, KnownInv
      <4>2. \A d \in Clients : TempOf(d) \subseteq TempOf(d)'
        BY <1>5, <1>6
      <4> QED
        BY <1>1, <3>2, <4>1, <4>2
    <3> QED
      BY <1>3, <3>1, <3>2
  <2> QED
    BY <2>1 DEF KnownInv
<1> QED
  BY <1>3, <1>5, <1>7, <1>8, <1>9, <1>10, Combine

\* A request that is refused, or done with a lock it was told of.
LEMMA QuietKeeps ==
  ASSUME DavInv, NEW c \in Clients, NEW T, LocksInv', Only(ls, ls', T), Fewer(ls, ls'), UNCHANGED closures,
         \A d \in Clients : T \cap TempOf(d) = {},
         NEW l \in {"idle", "free"}, Goto(c, l), l = "idle" => temp[c] = <<>> /\ hold[c] = {},
         told' \in SUBSET told, \A n \in Locked(ls') : ls'.token[n] \in told => ls'.token[n] \in told',
         UNCHANGED <<content, req, shown, temp, hold, asked>>
  PROVE  DavInv'
PROOF
<1>1. /\ content' = content /\ req' = req /\ shown' = shown /\ hold' = hold /\ temp' = temp
      /\ asked' = asked /\ pc' = [pc EXCEPT ![c] = l]
  BY DEF Goto
<1>2. TypesInv /\ TempsInv /\ HoldsInv /\ KnownInv
  BY DEF DavInv
<1>3. \A d \in Clients : Still(d) /\ TempOf(d)' = TempOf(d)
  BY <1>1 DEF Still, TempOf
<1>4. \A d \in Clients \ {c} : T \cap TempOf(d) = {} /\ Still(d) /\ pc'[d] = pc[d]
  BY <1>1, <1>2, <1>3 DEF TypesInv
<1>5. pc'[c] = l
  BY <1>1, <1>2 DEF TypesInv
<1>6. TypesInv'
  BY <1>1, <1>2 DEF TypesInv, Places
<1>7. TempsInv'
  BY <1>1, <1>2, <1>3 DEF TempsInv
<1>8. HoldsInv'
  BY <1>1, <1>2 DEF HoldsInv
<1>9. KnownInv'
  <2>1. ASSUME NEW m \in Locked(ls')
        PROVE  ls'.token[m] \in told' \cup UNION {TempOf(d)' : d \in Clients}
    <3>1. m \in Locked(ls) /\ ls'.token[m] = ls.token[m]
      BY DEF Fewer
    <3>2. ls.token[m] \in told \/ \E d \in Clients : ls.token[m] \in TempOf(d)
      BY <1>2, <3>1 DEF KnownInv
    <3> QED
      BY <1>3, <3>1, <3>2
  <2> QED
    BY <2>1 DEF KnownInv
<1>10. Place(c)'
  BY <1>1, <1>5 DEF Place, DavInv
<1>11. Cover(c)'
  <2>1. \A m \in hold[c] : ls'.token[m] \in shown'[c]
    BY <1>3, StillCovered
  <2> QED
    BY <1>1, <1>5, <2>1 DEF Cover, Acting
<1> QED
  BY <1>4, <1>6, <1>7, <1>8, <1>9, <1>10, <1>11, Combine

LEMMA RefusedKeeps ==
  ASSUME DavInv, NEW c \in Clients, Refused,
         NEW l \in {"idle", "free"}, Goto(c, l), l = "idle" => temp[c] = <<>> /\ hold[c] = {},
         UNCHANGED <<content, req, shown, temp, hold, told, asked>>
  PROVE  DavInv'
PROOF
<1>1. LocksInv' /\ Only(ls, ls', {}) /\ Fewer(ls, ls') /\ UNCHANGED closures
  BY RefusedDoes DEF DavInv
<1>2. told' \in SUBSET told /\ \A n \in Locked(ls') : ls'.token[n] \in told => ls'.token[n] \in told'
  OBVIOUS
<1>3. UNCHANGED <<content, req, shown, temp, hold, asked>>
  OBVIOUS
<1> QED
  BY <1>1, <1>2, <1>3, QuietKeeps

LEMMA LockFirstKeeps ==
  ASSUME DavInv, NEW c \in Clients, LockFirst(c)
  PROVE  DavInv'
PROOF
<1> DEFINE n == IF req[c].method = "COPY" THEN req[c].dest ELSE req[c].path
<1>1. pc[c] = "lock" /\ UNCHANGED <<content, req, shown, hold, told, asked>>
  BY DEF LockFirst
<1>2. temp[c] = <<>> /\ hold[c] = {} /\ TempOf(c) = {}
  BY <1>1, TempOfIs DEF DavInv, Place, TempOf
<1>3. n \in Names /\ pc \in [Clients -> Places] /\ temp \in [Clients -> Temps]
  BY ClaimsAreNames DEF DavInv, TypesInv
<1>4. CASE \E t \in Tokens : /\ Fresh(t) /\ Create(n, t, TRUE, FALSE)
                             /\ temp' = [temp EXCEPT ![c] = <<t>>]
                             /\ Goto(c, IF req[c].method = "MOVE" THEN "lock2" ELSE "act")
  <2>1. PICK t \in Tokens : /\ Fresh(t) /\ Create(n, t, TRUE, FALSE)
                            /\ temp' = [temp EXCEPT ![c] = <<t>>]
                            /\ Goto(c, IF req[c].method = "MOVE" THEN "lock2" ELSE "act")
    BY <1>4
  <2>2. ls'.token[n] = t /\ ls'.zero[n] /\ ~ls'.finite[n]
    BY <1>3, <2>1, CreateTemporary DEF DavInv
  <2>3. temp'[c] = <<t>>
    BY <1>3, <2>1
  <2>4. TempOf(c)' = {t} /\ {<<t>>[i] : i \in DOMAIN <<t>>} = {t}
    BY <2>3, TempOfIs DEF TempOf
  <2>5. pc'[c] = (IF req[c].method = "MOVE" THEN "lock2" ELSE "act")
    BY <1>3, <2>1 DEF Goto
  <2>6. Place(c)'
    BY <1>1, <1>2, <2>3, <2>5 DEF Place
  <2>7. Cover(c)'
    <3>1. PICK k \in Names : k = n
      BY <1>3
    <3>2. ByTemp(c, k)'
      BY <2>2, <2>4, <3>1 DEF ByTemp
    <3>3. CASE req[c].method = "MOVE"
      <4>1. req'[c].path = k
        BY <1>1, <3>1, <3>3
      <4>2. ByTemp(c, req[c].path)'
        BY <3>2, <4>1 DEF ByTemp
      <4> QED
        BY <1>1, <1>2, <2>5, <3>3, <4>2 DEF Cover, Acting
    <3>4. CASE req[c].method # "MOVE"
      <4>1. Claims(c)' = {k}
        BY <1>1, <3>1, <3>4 DEF Claims
      <4> QED
        BY <1>1, <1>2, <2>5, <3>2, <3>4, <4>1 DEF Cover, Acting
    <3> QED
      BY <3>3, <3>4
  <2>8. <<t>> \in Temps /\ (IF req[c].method = "MOVE" THEN "lock2" ELSE "act") \in Places
    BY DEF Temps, Places
  <2>9. {<<t>>[i] : i \in DOMAIN <<t>>} = TempOf(c) \cup {t}
    BY <1>2, <2>4
  <2> HIDE DEF n
  <2>10. TRUE \in BOOLEAN /\ FALSE \in BOOLEAN
    OBVIOUS
  <2> QED
    BY <1>1, <1>3, <2>1, <2>6, <2>7, <2>8, <2>9, <2>10, MadeKeeps
<1>5. CASE Refused /\ Goto(c, "idle") /\ UNCHANGED temp
  BY <1>1, <1>2, <1>5, RefusedKeeps
<1> QED
  BY <1>4, <1>5 DEF LockFirst

LEMMA LockSecondKeeps ==
  ASSUME DavInv, NEW c \in Clients, LockSecond(c)
  PROVE  DavInv'
PROOF
<1> DEFINE n == req[c].dest
<1>1. pc[c] = "lock2" /\ UNCHANGED <<content, req, shown, hold, told, asked>>
  BY DEF LockSecond
<1>2. /\ n \in Names /\ req[c].path \in Names /\ pc \in [Clients -> Places] /\ temp \in [Clients -> Temps]
      /\ LocksInv /\ TypesInv /\ Place(c) /\ Cover(c)
  BY ClaimsAreNames DEF DavInv, TypesInv
<1>3. PICK u \in Tokens : temp[c] = <<u>>
  BY <1>1, <1>2 DEF Place
<1>4. TempOf(c) = {u} /\ hold[c] = {} /\ req[c].method = "MOVE"
  BY <1>1, <1>2, <1>3, TempOfIs DEF Place, TempOf
<1>5. CASE \E t \in Tokens : /\ Fresh(t) /\ Create(n, t, TRUE, FALSE)
                             /\ temp' = [temp EXCEPT ![c] = <<t>> \o @]
                             /\ Goto(c, "act")
  <2>1. PICK t \in Tokens : /\ Fresh(t) /\ Create(n, t, TRUE, FALSE)
                            /\ temp' = [temp EXCEPT ![c] = <<t>> \o @]
                            /\ Goto(c, "act")
    BY <1>5
  <2>2. temp' = [temp EXCEPT ![c] = <<t, u>>]
    <3>1. <<t>> \o <<u>> = <<t, u>>
      <4> DEFINE s == <<t>> \o <<u>>
      <4>1. <<t>> \in Seq(Tokens) /\ <<u>> \in Seq(Tokens)
        OBVIOUS
      <4>2. s \in Seq(Tokens) /\ Len(s) = 2 /\ s[1] = t /\ s[2] = u
        BY <4>1
      <4> HIDE DEF s
      <4>3. s = <<t, u>>
        BY <4>2
      <4> QED
        BY <4>3 DEF s
    <3>2. temp' = [temp EXCEPT ![c] = <<t>> \o temp[c]]
      BY <2>1
    <3> QED
      BY <1>3, <3>1, <3>2
  <2>3. temp'[c] = <<t, u>> /\ pc'[c] = "act"
    BY <1>2, <2>1, <2>2 DEF Goto
  <2>4. TempOf(c)' = {t, u} /\ {<<t, u>>[i] : i \in DOMAIN <<t, u>>} = {t, u}
    BY <2>3, TempOfIs DEF TempOf
  <2>5. Place(c)'
    BY <1>1, <1>4, <2>3 DEF Place
  <2>6. PICK k \in Names, j \in Names : k = n /\ j = req[c].path
    BY <1>2
  <2>7. ByTemp(c, k)'
    BY <1>2, <2>1, <2>4, <2>6, CreateTemporary DEF ByTemp
  <2>8. ByTemp(c, j)'
    <3>1. ls.token[j] = u /\ ls.zero[j] /\ ~ls.finite[j]
      BY <1>1, <1>2, <1>4, <2>6 DEF Cover, ByTemp
    <3>2. j \in Locked(ls)
      BY <3>1, TreeAssumption DEF Locked
    <3>3. Only(ls, ls', {})
      BY <1>2, <2>1, CreateDoes
    <3> QED
      BY <2>4, <3>1, <3>2, <3>3 DEF Only, ByTemp
  <2>9. Cover(c)'
    <3>1. Claims(c)' = {j, k}
      BY <1>1, <1>4, <2>6 DEF Claims
    <3> QED
      BY <1>1, <1>4, <2>3, <2>7, <2>8, <3>1 DEF Cover
  <2>10. <<t, u>> \in Temps /\ "act" \in Places
    BY DEF Temps, Places
  <2>11. {<<t, u>>[i] : i \in DOMAIN <<t, u>>} = TempOf(c) \cup {t}
    BY <1>4, <2>4
  <2> HIDE DEF n
  <2>12. TRUE \in BOOLEAN /\ FALSE \in BOOLEAN
    OBVIOUS
  <2> QED
    BY <1>1, <1>2, <2>1, <2>2, <2>5, <2>9, <2>10, <2>11, <2>12, MadeKeeps
<1>6. CASE Refused /\ Goto(c, "free") /\ UNCHANGED temp
  BY <1>1, <1>6, RefusedKeeps
<1> QED
  BY <1>5, <1>6 DEF LockSecond

LEMMA NewLockKeeps ==
  ASSUME DavInv, NEW c \in Clients, NewLock(c)
  PROVE  DavInv'
PROOF
<1> DEFINE r == req[c]
<1>1. pc[c] = "LOCK" /\ UNCHANGED <<content, req, shown, hold, told, asked>>
  BY DEF NewLock
<1>2. temp[c] = <<>> /\ hold[c] = {} /\ TempOf(c) = {}
  BY <1>1, TempOfIs DEF DavInv, Place, TempOf
<1>3. /\ r.path \in Names /\ r.zero \in BOOLEAN /\ r.finite \in BOOLEAN
      /\ pc \in [Clients -> Places] /\ temp \in [Clients -> Temps]
  BY ClaimsAreNames DEF DavInv, TypesInv
<1>4. CASE \E t \in Tokens : /\ Fresh(t) /\ Create(r.path, t, r.zero, r.finite)
                             /\ temp' = [temp EXCEPT ![c] = <<t>>]
                             /\ Goto(c, "locked")
  <2>1. PICK t \in Tokens : /\ Fresh(t) /\ Create(r.path, t, r.zero, r.finite)
                            /\ temp' = [temp EXCEPT ![c] = <<t>>]
                            /\ Goto(c, "locked")
    BY <1>4
  <2>2. temp'[c] = <<t>> /\ pc'[c] = "locked" /\ hold'[c] = {}
    BY <1>1, <1>2, <1>3, <2>1 DEF Goto
  <2>3. Place(c)' /\ Cover(c)'
    BY <2>2 DEF Place, Cover, Acting
  <2>4. <<t>> \in Temps /\ "locked" \in Places
    BY DEF Temps, Places
  <2>5. {<<t>>[i] : i \in DOMAIN <<t>>} = TempOf(c) \cup {t}
    BY <1>2, TempOfIs
  <2> HIDE DEF r
  <2> QED
    BY <1>1, <1>3, <2>1, <2>3, <2>4, <2>5, MadeKeeps
<1>5. CASE Refused /\ Goto(c, "idle") /\ UNCHANGED temp
  BY <1>1, <1>2, <1>5, RefusedKeeps
<1> QED
  BY <1>4, <1>5 DEF NewLock

LEMMA AnswerLockKeeps ==
  ASSUME DavInv, NEW c \in Clients, AnswerLock(c)
  PROVE  DavInv'
PROOF
<1>1. /\ pc[c] = "locked" /\ UNCHANGED <<content, req, shown, hold, asked>>
      /\ ls' = ls /\ closures' = closures
  BY DEF AnswerLock, lockVars
<1>2. LocksInv /\ TypesInv /\ TempsInv /\ HoldsInv /\ KnownInv /\ Place(c) /\ Cover(c)
  BY DEF DavInv
<1>3. LocksInv' /\ Only(ls, ls', {}) /\ Fewer(ls, ls') /\ UNCHANGED closures
  BY <1>1, <1>2 DEF LocksInv, Only, Fewer
<1>4. CASE Goto(c, "free") /\ UNCHANGED <<told, temp>>
  <2>1. told' \in SUBSET told /\ \A n \in Locked(ls') : ls'.token[n] \in told => ls'.token[n] \in told'
    BY <1>4
  <2> QED
    BY <1>1, <1>3, <1>4, <2>1, QuietKeeps
<1>5. CASE /\ told' = told \cup {Head(temp[c])} /\ temp' = [temp EXCEPT ![c] = <<>>]
           /\ Goto(c, "idle")
  <2>1. PICK t \in Tokens : temp[c] = <<t>>
    BY <1>1, <1>2 DEF Place
  <2>2. TempOf(c) = {t} /\ hold[c] = {} /\ told' = told \cup {t}
    <3>1. Head(<<t>>) = t
      OBVIOUS
    <3>2. TempOf(c) = {t}
      BY <2>1, TempOfIs DEF TempOf
    <3> QED
      BY <1>2, <1>5, <2>1, <3>1, <3>2 DEF Place
  <2>3. temp'[c] = <<>> /\ pc'[c] = "idle" /\ hold'[c] = {}
    BY <1>1, <1>2, <1>5, <2>2 DEF TypesInv, Goto
  <2>4. TempOf(c)' = {}
    BY <2>3 DEF TempOf
  <2>5. \A d \in Clients \ {c} : {} \cap TempOf(d) = {} /\ Still(d) /\ pc'[d] = pc[d] /\ TempOf(d)' = TempOf(d)
    BY <1>1, <1>2, <1>5 DEF Still, TypesInv, TempOf, Goto
  <2>6. TypesInv'
    BY <1>1, <1>2, <1>5, <2>2 DEF TypesInv, Temps, Places, Goto
  <2>7. TempsInv'
    <3>1. \A d \in Clients \ {c} : t \notin TempOf(d)
      BY <1>2, <2>2 DEF TempsInv
    <3> QED
      BY <1>1, <1>2, <2>2, <2>4, <2>5, <3>1 DEF TempsInv
  <2>8. HoldsInv'
    BY <1>1, <1>2 DEF HoldsInv
  <2>9. KnownInv'
    <3>1. \A d \in Clients : TempOf(d) \subseteq TempOf(d)' \cup {t}
      BY <2>2, <2>5
    <3> QED
      BY <1>1, <1>2, <2>2, <3>1 DEF KnownInv
  <2>10. Place(c)' /\ Cover(c)'
    BY <2>3 DEF Place, Cover, Acting
  <2> QED
    BY <1>3, <2>5, <2>6, <2>7, <2>8, <2>9, <2>10, Combine
<1> QED
  BY <1>4, <1>5 DEF AnswerLock

LEMMA ConfirmIfKeeps ==
  ASSUME DavInv, NEW c \in Clients, ConfirmIf(c)
  PROVE  DavInv'
PROOF
<1>1. /\ pc[c] = "If" /\ UNCHANGED <<content, req, shown, temp, told, asked>>
  BY DEF ConfirmIf
<1>2. LocksInv /\ TypesInv /\ TempsInv /\ HoldsInv /\ KnownInv /\ Place(c) /\ Cover(c)
  BY DEF DavInv
<1>3. temp[c] = <<>> /\ hold[c] = {}
  BY <1>1, <1>2 DEF Place
<1>4. Claims(c) \in SUBSET Names /\ Claims(c) # {} /\ shown[c] \in SUBSET Tokens
  BY <1>2, ClaimsAreNames DEF TypesInv
<1>5. CASE \E H \in SUBSET Names : /\ Confirm(Claims(c), H, shown[c])
                                   /\ hold' = [hold EXCEPT ![c] = H] /\ Goto(c, "act")
  <2>1. PICK H \in SUBSET Names : /\ Confirm(Claims(c), H, shown[c])
                                  /\ hold' = [hold EXCEPT ![c] = H] /\ Goto(c, "act")
    BY <1>5
  <2>2. /\ LocksInv' /\ Only(ls, ls', {}) /\ Fewer(ls, ls')
        /\ closures' = closures \cup {H} /\ H # {} /\ H \cap ls.held = {}
        /\ \A n \in H : ls'.token[n] \in shown[c]
        /\ \A k \in Claims(c) : \E m \in H \cap ToRoot(k) : m = k \/ ~ls'.zero[m]
    <3>1. PICK S \in SUBSET Names, T \in SUBSET Tokens : S = Claims(c) /\ T = shown[c]
      BY <1>4
    <3>2. Confirm(S, H, T)
      BY <2>1, <3>1 DEF Confirm
    <3>3. /\ LocksInv' /\ Only(ls, ls', {}) /\ Fewer(ls, ls')
          /\ closures' = closures \cup {H} /\ (S # {} => H # {}) /\ H \cap ls.held = {}
          /\ \A n \in H : ls'.token[n] \in T
          /\ \A k \in S : \E m \in H \cap ToRoot(k) : m = k \/ ~ls'.zero[m]
      BY <1>2, <3>2, ConfirmDoes
    <3> QED
      BY <1>4, <3>1, <3>3
  <2>3. hold'[c] = H /\ pc'[c] = "act" /\ \A d \in Clients \ {c} : hold'[d] = hold[d] /\ pc'[d] = pc[d]
    BY <1>2, <2>1 DEF TypesInv, Goto
  <2>4. \A d \in Clients : TempOf(d)' = TempOf(d)
    BY <1>1 DEF TempOf
  <2>5. \A d \in Clients \ {c} : {} \cap TempOf(d) = {} /\ Still(d) /\ pc'[d] = pc[d]
    BY <1>1, <2>3 DEF Still
  <2>6. TypesInv'
    BY <1>1, <1>2, <2>1 DEF TypesInv, Places, Goto
  <2>7. TempsInv'
    BY <1>1, <1>2, <2>4 DEF TempsInv
  <2>8. HoldsInv'
    <3>1. \A d \in Clients : hold[d] \subseteq ls.held
      <4>1. \A d \in Clients : hold[d] = {} \/ hold[d] \in closures
        BY <1>2 DEF HoldsInv
      <4>2. ls.held = UNION closures
        BY <1>2 DEF LocksInv, TableInv
      <4> QED
        BY <4>1, <4>2
    <3>2. closures' = {hold'[d] : d \in Clients} \ {{}}
      BY <1>2, <1>3, <2>2, <2>3 DEF HoldsInv
    <3>3. \A d, e \in Clients : d = e \/ hold'[d] \cap hold'[e] = {}
      BY <1>2, <2>2, <2>3, <3>1 DEF HoldsInv
    <3> QED
      BY <3>2, <3>3 DEF HoldsInv
  <2>9. KnownInv'
    BY <1>1, <1>2, <2>2, <2>4 DEF KnownInv, Fewer
  <2>10. Place(c)'
    BY <1>1, <1>3, <2>3 DEF Place
  <2>11. Cover(c)'
    <3>1. Claims(c)' = Claims(c)
      BY <1>1 DEF Claims
    <3>2. ASSUME NEW k \in Claims(c)
          PROVE  ByHold(c, k)'
      BY <1>1, <2>2, <2>3 DEF ByHold
    <3> QED
      BY <1>1, <2>2, <2>3, <3>1, <3>2 DEF Cover
  <2> QED
    BY <2>2, <2>5, <2>6, <2>7, <2>8, <2>9, <2>10, <2>11, Combine
<1>6. CASE Refused /\ Goto(c, "idle") /\ UNCHANGED hold
  BY <1>1, <1>3, <1>6, RefusedKeeps
<1> QED
  BY <1>5, <1>6 DEF ConfirmIf

LEMMA FreeKeeps ==
  ASSUME DavInv, NEW c \in Clients, Free(c)
  PROVE  DavInv'
PROOF
<1>1. /\ pc[c] = "free" /\ UNCHANGED <<content, req, shown, told, asked>>
  BY DEF Free
<1>2. LocksInv /\ TypesInv /\ TempsInv /\ HoldsInv /\ KnownInv /\ Place(c) /\ Cover(c)
  BY DEF DavInv
<1>3. CASE /\ temp[c] # <<>> /\ UnlockThen(Head(temp[c]))
           /\ temp' = [temp EXCEPT ![c] = Tail(@)]
           /\ Goto(c, IF Len(temp[c]) = 1 THEN "idle" ELSE "free")
           /\ UNCHANGED hold
  <2>1. PICK t \in Tokens, l \in {"idle", "free"}, s \in Temps :
          /\ Head(temp[c]) = t /\ Tail(temp[c]) = s /\ t \in TempOf(c)
          /\ TempOf(c) \subseteq {t} \cup {s[i] : i \in DOMAIN s} /\ {s[i] : i \in DOMAIN s} \subseteq TempOf(c)
          /\ l = (IF Len(temp[c]) = 1 THEN "idle" ELSE "free") /\ (l = "idle" => s = <<>>)
    <3>1. CASE \E t \in Tokens : temp[c] = <<t>>
      <4>1. PICK t \in Tokens : temp[c] = <<t>>
        BY <3>1
      <4>2. Head(<<t>>) = t /\ Tail(<<t>>) = <<>> /\ Len(<<t>>) = 1
        OBVIOUS
      <4>3. TempOf(c) = {t} /\ <<>> \in Temps
        BY <4>1, TempOfIs DEF TempOf, Temps
      <4> QED
        BY <4>1, <4>2, <4>3
    <3>2. CASE \E t, u \in Tokens : temp[c] = <<t, u>>
      <4>1. PICK t \in Tokens, u \in Tokens : temp[c] = <<t, u>>
        BY <3>2
      <4>2. Head(<<t, u>>) = t /\ Tail(<<t, u>>) = <<u>> /\ Len(<<t, u>>) # 1
        OBVIOUS
      <4>3. TempOf(c) = {t, u} /\ {<<u>>[i] : i \in DOMAIN <<u>>} = {u} /\ <<u>> \in Temps
        BY <4>1, TempOfIs DEF TempOf, Temps
      <4> QED
        BY <4>1, <4>2, <4>3
    <3> QED
      BY <1>2, <1>3, <3>1, <3>2 DEF TypesInv, Temps
  <2>2. /\ LocksInv' /\ Only(ls, ls', {t}) /\ Fewer(ls, ls') /\ closures' = closures
        /\ \A n \in Locked(ls') : ls'.token[n] = t => n \in ls.held
    BY <1>2, <1>3, <2>1, UnlockThenDoes
  <2>3. temp' = [temp EXCEPT ![c] = s] /\ pc' = [pc EXCEPT ![c] = l] /\ hold' = hold
    BY <1>3, <2>1 DEF Goto
  <2>4. /\ temp'[c] = s /\ pc'[c] = l /\ TempOf(c)' = {s[i] : i \in DOMAIN s}
        /\ \A d \in Clients \ {c} : temp'[d] = temp[d] /\ pc'[d] = pc[d] /\ TempOf(d)' = TempOf(d)
    BY <1>2, <2>3 DEF TypesInv, TempOf
  <2>5. \A d \in Clients \ {c} : {t} \cap TempOf(d) = {} /\ Still(d) /\ pc'[d] = pc[d]
    BY <1>1, <1>2, <2>1, <2>3, <2>4 DEF Still, TempsInv
  <2>6. TypesInv'
    BY <1>1, <1>2, <2>3 DEF TypesInv, Places
  <2>7. TempsInv'
    BY <1>1, <1>2, <2>1, <2>4 DEF TempsInv
  <2>8. HoldsInv'
    BY <1>2, <2>2, <2>3 DEF HoldsInv
  <2>9. hold[c] = {}
    BY <1>2, <1>3 DEF Place
  <2>10. KnownInv'
    <3>1. ASSUME NEW m \in Locked(ls')
          PROVE  ls'.token[m] \in told' \cup UNION {TempOf(d)' : d \in Clients}
      <4>1. m \in Locked(ls) /\ ls'.token[m] = ls.token[m]
        BY <2>2 DEF Fewer
      <4>2. ls.token[m] # t
        <5>1. ASSUME m \in ls.held
              PROVE  ls.token[m] # t
          <6>1. PICK d \in Clients : m \in hold[d]
            BY <1>2, <5>1 DEF LocksInv, TableInv, HoldsInv
          <6>2. ls.token[m] \in shown[d]
            BY <6>1 DEF DavInv, Cover
          <6> QED
            BY <1>2, <2>1, <6>2 DEF TempsInv
        <5> QED
          BY <2>2, <4>1, <5>1
      <4>3. ls.token[m] \in told \/ \E d \in Clients : ls.token[m] \in TempOf(d)
        BY <1>2, <4>1 DEF KnownInv
      <4> QED
        BY <1>1, <2>1, <2>4, <4>1, <4>2, <4>3
    <3> QED
      BY <3>1 DEF KnownInv
  <2>11. Place(c)' /\ Cover(c)'
    BY <2>1, <2>3, <2>4, <2>9 DEF Place, Cover, Acting
  <2> QED
    BY <2>2, <2>5, <2>6, <2>7, <2>8, <2>10, <2>11, Combine
<1>4. CASE /\ hold[c] # {} /\ Release(hold[c])
           /\ hold' = [hold EXCEPT ![c] = {}] /\ Goto(c, "idle")
           /\ UNCHANGED temp
  <2>1. LocksInv' /\ Only(ls, ls', {}) /\ Fewer(ls, ls') /\ closures' = closures \ {hold[c]}
    BY <1>2, <1>4, ReleaseDoes
  <2>2. hold'[c] = {} /\ pc'[c] = "idle" /\ \A d \in Clients \ {c} : hold'[d] = hold[d] /\ pc'[d] = pc[d]
    BY <1>2, <1>4 DEF TypesInv, Goto
  <2>3. temp[c] = <<>>
    BY <1>2, <1>4 DEF Place
  <2>4. \A d \in Clients : TempOf(d)' = TempOf(d)
    BY <1>4 DEF TempOf
  <2>5. \A d \in Clients \ {c} : {} \cap TempOf(d) = {} /\ Still(d) /\ pc'[d] = pc[d]
    BY <1>1, <1>4, <2>2 DEF Still
  <2>6. TypesInv'
    BY <1>1, <1>2, <1>4 DEF TypesInv, Places, Goto
  <2>7. TempsInv'
    BY <1>1, <1>2, <2>4 DEF TempsInv
  <2>8. HoldsInv'
    <3>1. \A d \in Clients \ {c} : hold[d] # hold[c]
      BY <1>2, <1>4 DEF HoldsInv
    <3>2. closures' = {hold'[d] : d \in Clients} \ {{}}
      BY <1>2, <2>1, <2>2, <3>1 DEF HoldsInv
    <3>3. \A d, e \in Clients : d = e \/ hold'[d] \cap hold'[e] = {}
      BY <1>2, <2>2 DEF HoldsInv
    <3> QED
      BY <3>2, <3>3 DEF HoldsInv
  <2>9. KnownInv'
    BY <1>1, <1>2, <2>1, <2>4 DEF KnownInv, Fewer
  <2>10. Place(c)' /\ Cover(c)'
    BY <1>4, <2>2, <2>3 DEF Place, Cover, Acting
  <2> QED
    BY <2>1, <2>5, <2>6, <2>7, <2>8, <2>9, <2>10, Combine
<1> QED
  BY <1>3, <1>4 DEF Free

LEMMA UnlockOwnKeeps ==
  ASSUME DavInv, NEW c \in Clients, UnlockOwn(c)
  PROVE  DavInv'
PROOF
<1>1. /\ pc[c] = "UNLOCK" /\ UNCHANGED <<content, req, shown, temp, hold, asked>> /\ Goto(c, "idle")
  BY DEF UnlockOwn
<1>2. temp[c] = <<>> /\ hold[c] = {}
  BY <1>1 DEF DavInv, Place
<1>3. PICK t \in shown[c] : \/ Unlock(t) /\ told' = told \ {t}
                            \/ Refused /\ UNCHANGED told
  BY DEF UnlockOwn
<1>4. t \in Tokens /\ \A d \in Clients : {t} \cap TempOf(d) = {}
  BY DEF DavInv, TypesInv, TempsInv
<1>5. CASE Unlock(t) /\ told' = told \ {t}
  <2>1. /\ LocksInv' /\ Only(ls, ls', {t}) /\ Fewer(ls, ls') /\ UNCHANGED closures
        /\ \A n \in Locked(ls') : ls'.token[n] # t
    BY <1>4, <1>5, UnlockDoes DEF DavInv
  <2>2. told' \in SUBSET told /\ \A n \in Locked(ls') : ls'.token[n] \in told => ls'.token[n] \in told'
    BY <1>5, <2>1
  <2> QED
    BY <1>1, <1>2, <1>4, <2>1, <2>2, QuietKeeps
<1>6. CASE Refused /\ UNCHANGED told
  BY <1>1, <1>2, <1>6, RefusedKeeps
<1> QED
  BY <1>3, <1>5, <1>6

LEMMA RefreshOwnKeeps ==
  ASSUME DavInv, NEW c \in Clients, RefreshOwn(c)
  PROVE  DavInv'
PROOF
<1>1. /\ pc[c] = "REFRESH" /\ UNCHANGED <<content, req, shown, temp, hold, told, asked>> /\ Goto(c, "idle")
  BY DEF RefreshOwn
<1>2. temp[c] = <<>> /\ hold[c] = {} /\ req[c].finite \in BOOLEAN
  BY <1>1, ClaimsAreNames DEF DavInv, Place
<1>3. PICK t \in shown[c] : Refresh(t, req[c].finite) \/ Refused
  BY DEF RefreshOwn
<1>4. t \in Tokens /\ \A d \in Clients : {t} \cap TempOf(d) = {}
  BY DEF DavInv, TypesInv, TempsInv
<1>5. CASE Refresh(t, req[c].finite)
  <2>1. LocksInv' /\ Only(ls, ls', {t}) /\ Fewer(ls, ls') /\ UNCHANGED closures
    BY <1>2, <1>4, <1>5, RefreshDoes DEF DavInv
  <2>2. told' \in SUBSET told /\ \A n \in Locked(ls') : ls'.token[n] \in told => ls'.token[n] \in told'
    BY <1>1
  <2> QED
    BY <1>1, <1>2, <1>4, <2>1, <2>2, QuietKeeps
<1>6. CASE Refused
  BY <1>1, <1>2, <1>6, RefusedKeeps
<1> QED
  BY <1>3, <1>5, <1>6

LEMMA ExpiresKeeps ==
  ASSUME DavInv, LockExpires
  PROVE  DavInv'
PROOF
<1>1. /\ LocksInv' /\ Only(ls, ls', {}) /\ Fewer(ls, ls') /\ UNCHANGED closures
  BY ExpireDoes DEF LockExpires, DavInv
<1>2. /\ content' = content /\ req' = req /\ shown' = shown /\ pc' = pc /\ temp' = temp
      /\ hold' = hold /\ told' = told /\ asked' = asked
  BY DEF LockExpires, clientVars
<1>3. \A d \in Clients : {} \cap TempOf(d) = {} /\ Still(d) /\ pc'[d] = pc[d] /\ TempOf(d)' = TempOf(d)
  BY <1>2 DEF Still, TempOf
<1>4. \A d \in Clients : Place(d)' /\ Cover(d)'
  BY <1>1, <1>3, OthersKeep
<1>5. TypesInv'
  BY <1>2 DEF DavInv, TypesInv
<1>6. TempsInv'
  BY <1>2, <1>3 DEF DavInv, TempsInv
<1>7. HoldsInv'
  BY <1>1, <1>2 DEF DavInv, HoldsInv
<1>8. KnownInv'
  BY <1>1, <1>2, <1>3 DEF DavInv, KnownInv, Fewer
<1> QED
  BY <1>1, <1>4, <1>5, <1>6, <1>7, <1>8 DEF DavInv

\* Each call of the drive is one of a request that is at work on it.
LEMMA DriveKeeps ==
  ASSUME DavInv, NEW c \in Clients,
         \/ CallFails(c) \/ StatDelete(c) \/ Delete(c) \/ OpenPut(c) \/ ClosePut(c) \/ Mkcol(c) \/ Proppatch(c)
         \/ StatDest(c, "MOVE", "act") \/ StatDest(c, "COPY", "open")
         \/ RemoveDest(c) \/ Rename(c) \/ OpenSource(c) \/ CopyTo(c)
  PROVE  DavInv'
PROOF
<1> DEFINE Kinds == {"none", "dir", "part", "full"}
<1>1. TypesInv /\ pc[c] \in Places /\ content \in [Names -> Kinds]
  BY DEF DavInv, TypesInv
<1>2. req[c].path \in Names /\ req[c].dest \in Names
  BY <1>1, ClaimsAreNames
<1>3. \A n, m \in Names, k \in Kinds :
        /\ Deleted(content, n) \in [Names -> Kinds] /\ MadeDir(content, n) \in [Names -> Kinds]
        /\ Saved(content, n, k) \in [Names -> Kinds] /\ Moved(content, n, m) \in [Names -> Kinds]
  BY <1>1 DEF Deleted, MadeDir, Saved, Moved, WithParents
<1>4. \A l : Goto(c, l) /\ Acting(c) /\ l \in {"open", "remove", "make", "free"}
             /\ content' \in [Names -> Kinds] /\ UNCHANGED <<lockVars, req, shown, temp, hold, told, asked>>
             => DavInv'
  BY DriveStep
<1> USE DEF InDrive, Acting
<1>5. CASE CallFails(c)
  <2>1. Acting(c) \/ pc[c] = "rename"
    BY <1>5 DEF CallFails
  <2>2. Acting(c)
    BY <1>1, <2>1 DEF Places
  <2> QED
    BY <1>1, <1>4, <1>5, <2>2 DEF CallFails
<1>6. CASE StatDelete(c)
  BY <1>1, <1>4, <1>6 DEF StatDelete
<1>7. CASE Delete(c)
  BY <1>2, <1>3, <1>4, <1>7 DEF Delete
<1>8. CASE OpenPut(c)
  BY <1>1, <1>4, <1>8 DEF OpenPut
<1>9. CASE ClosePut(c)
  BY <1>1, <1>2, <1>3, <1>4, <1>9 DEF ClosePut
<1>10. CASE Mkcol(c)
  BY <1>2, <1>3, <1>4, <1>10 DEF Mkcol
<1>11. CASE Proppatch(c)
  BY <1>1, <1>4, <1>11 DEF Proppatch
<1>12. CASE StatDest(c, "MOVE", "act")
  BY <1>1, <1>4, <1>12 DEF StatDest
<1>13. CASE StatDest(c, "COPY", "open")
  BY <1>1, <1>4, <1>13 DEF StatDest
<1>14. CASE RemoveDest(c)
  BY <1>2, <1>3, <1>4, <1>14 DEF RemoveDest
<1>15. CASE Rename(c)
  BY <1>2, <1>3, <1>4, <1>15 DEF Rename
<1>16. CASE OpenSource(c)
  BY <1>1, <1>4, <1>16 DEF OpenSource
<1>17. CASE CopyTo(c)
  BY <1>2, <1>3, <1>4, <1>17 DEF CopyTo
<1> QED
  BY <1>5, <1>6, <1>7, <1>8, <1>9, <1>10, <1>11, <1>12, <1>13, <1>14, <1>15, <1>16, <1>17
-----------------------------------------------------------------------------
LEMMA TableEmpty ==
  Init => LocksInv /\ Locked(ls) = {}
PROOF
<1> SUFFICES ASSUME Init PROVE LocksInv /\ Locked(ls) = {}
  OBVIOUS
<1>1. /\ ls = [token |-> [n \in Names |-> None], zero |-> [n \in Names |-> FALSE],
               finite |-> [n \in Names |-> FALSE], ref |-> [n \in Names |-> 0],
               held |-> {}, queued |-> {}, due |-> {}]
      /\ closures = {}
  BY DEF Init
<1>2. Locked(ls) = {} /\ \A m \in Names : Counted(ls, m) = {} /\ ls.ref[m] = 0
  BY <1>1 DEF Locked, Counted
<1>3. IsFiniteSet({}) /\ Cardinality({}) = 0
  BY FS_EmptySet
<1>4. ls \in Table
  BY <1>1 DEF Table
<1>5. ls.held = {} /\ ls.queued = {}
  BY <1>1
<1>6. \A m \in Names : ls.ref[m] = Cardinality(Counted(ls, m))
  BY <1>2, <1>3
<1>7. TableInv(ls, closures)
  BY <1>1, <1>2, <1>3, <1>4, <1>5, <1>6 DEF TableInv
<1> QED
  BY <1>2, <1>7 DEF LocksInv

LEMMA DavStarts ==
  DavInit => DavInv
PROOF
<1> SUFFICES ASSUME DavInit PROVE DavInv
  OBVIOUS
<1>1. LocksInv /\ Locked(ls) = {} /\ closures = {}
  BY TableEmpty DEF DavInit, Init
<1>2. /\ content = [n \in Names |-> "none"] /\ req \in [Clients -> Requests]
      /\ shown = [c \in Clients |-> {}] /\ pc = [c \in Clients |-> "idle"]
      /\ temp = [c \in Clients |-> <<>>] /\ hold = [c \in Clients |-> {}]
      /\ told = {} /\ asked = 0
  BY DEF DavInit
<1>3. TypesInv
  BY <1>2, RequestsAssumption DEF TypesInv, Temps, Places
<1>4. \A c \in Clients : temp[c] = <<>> /\ TempOf(c) = {} /\ hold[c] = {} /\ pc[c] = "idle"
  BY <1>2, TempOfIs DEF TempOf
<1>5. TempsInv
  BY <1>4 DEF TempsInv
<1>6. HoldsInv /\ KnownInv
  BY <1>1, <1>4 DEF HoldsInv, KnownInv
<1>7. \A c \in Clients : Place(c) /\ Cover(c)
  BY <1>4 DEF Place, Cover, Acting
<1> QED
  BY <1>1, <1>3, <1>5, <1>6, <1>7 DEF DavInv

LEMMA DavSteps ==
  DavInv /\ [DavNext]_davVars => DavInv'
PROOF
<1> SUFFICES ASSUME DavInv, [DavNext]_davVars PROVE DavInv'
  OBVIOUS
<1>1. CASE LockExpires
  BY <1>1, ExpiresKeeps
<1>2. ASSUME NEW c \in Clients, DavStep(c)
      PROVE  DavInv'
  BY <1>2, BeginKeeps, LockFirstKeeps, LockSecondKeeps, ConfirmIfKeeps, FreeKeeps, NewLockKeeps,
     AnswerLockKeeps, UnlockOwnKeeps, RefreshOwnKeeps, DriveKeeps DEF DavStep
<1>3. CASE UNCHANGED davVars
  <2>1. /\ ls' = ls /\ closures' = closures /\ content' = content /\ req' = req /\ shown' = shown
        /\ pc' = pc /\ temp' = temp /\ hold' = hold /\ told' = told /\ asked' = asked
    BY <1>3 DEF davVars, lockVars, clientVars
  <2>2. \A c \in Clients : TempOf(c)' = TempOf(c)
    BY <2>1 DEF TempOf
  <2>3. LocksInv' /\ TypesInv' /\ HoldsInv'
    BY <2>1 DEF DavInv, LocksInv, TypesInv, HoldsInv
  <2>4. TempsInv' /\ KnownInv'
    BY <2>1, <2>2 DEF DavInv, TempsInv, KnownInv
  <2>5. \A d \in Clients : Place(d)' /\ Cover(d)'
    <3>1. Only(ls, ls', {}) /\ \A d \in Clients : {} \cap TempOf(d) = {} /\ Still(d) /\ pc'[d] = pc[d]
      BY <2>1 DEF Only, Still
    <3> QED
      BY <3>1, OthersKeep
  <2> QED
    BY <2>3, <2>4, <2>5 DEF DavInv
<1> QED
  BY <1>1, <1>2, <1>3 DEF DavNext

THEOREM DavServerInvariant == DavSpec => []DavInv
PROOF
  BY DavStarts, DavSteps, PTL DEF DavSpec
-----------------------------------------------------------------------------
(* What follows of it.                                                       *)

LEMMA LocksInvHolds ==
  LocksInv => LocksHold
PROOF
<1> SUFFICES ASSUME TableInv(ls, closures) PROVE LocksHold
  BY DEF LocksInv
<1>1. RefsMatch
  BY DEF TableInv, RefsMatch, Counted
<1>2. LocksDisjoint
  BY DEF TableInv, LocksDisjoint
<1>3. HeldByOne
  BY DEF TableInv, HeldByOne
<1>4. ExpiresUnlessHeld
  BY DEF TableInv, ExpiresUnlessHeld
<1> QED
  BY <1>1, <1>2, <1>3, <1>4 DEF LocksHold

\* Counts, locks and holds of the lock table agree, whoever calls its methods in
\* whichever order (memLS).
THEOREM LockTableCorrect == Spec => []LocksHold
PROOF
<1>1. Init => LocksInv
  BY TableEmpty
<1>2. LocksInv /\ [Next]_lockVars => LocksInv'
  <2> SUFFICES ASSUME LocksInv, [Next]_lockVars PROVE LocksInv'
    OBVIOUS
  <2>1. ASSUME NEW n \in Names, NEW t \in Tokens, NEW z \in BOOLEAN, NEW f \in BOOLEAN, Create(n, t, z, f)
        PROVE  LocksInv'
    BY <2>1, CreateDoes
  <2>2. ASSUME NEW S \in SUBSET Names, NEW H, NEW T \in SUBSET Tokens, Confirm(S, H, T)
        PROVE  LocksInv'
    BY <2>2, ConfirmDoes
  <2>3. ASSUME NEW H, Release(H)
        PROVE  LocksInv'
    BY <2>3, ReleaseDoes
  <2>4. ASSUME NEW t \in Tokens, Unlock(t) \/ UnlockThen(t) \/ \E f \in BOOLEAN : Refresh(t, f)
        PROVE  LocksInv'
    BY <2>4, UnlockDoes, UnlockThenDoes, RefreshDoes
  <2>5. CASE Refused
    BY <2>5, RefusedDoes
  <2>6. ASSUME NEW n \in Names, Expire(n)
        PROVE  LocksInv'
    BY <2>6, ExpireDoes
  <2>7. CASE UNCHANGED lockVars
    BY <2>7 DEF lockVars, LocksInv
  <2> QED
    BY <2>1, <2>2, <2>3, <2>4, <2>5, <2>6, <2>7 DEF Next
<1> QED
  BY <1>1, <1>2, LocksInvHolds, PTL DEF Spec

\* The same under the requests, for any names, clients and number of requests.
THEOREM LocksHoldCorrect == DavSpec => []LocksHold
PROOF
<1>1. DavInv => LocksHold
  BY LocksInvHolds DEF DavInv
<1> QED
  BY <1>1, DavServerInvariant, PTL

\* A resource is covered by one lock: the locks two requests count on for it, or the
\* lock of a request and another one that holds for it, are the same.
LEMMA OneCovers ==
  ASSUME LocksInv, NEW k \in Names, NEW n \in Locked(ls) \cap ToRoot(k), NEW m \in Locked(ls) \cap ToRoot(k),
         n = k \/ ~ls.zero[n], m = k \/ ~ls.zero[m]
  PROVE  n = m
PROOF
<1>1. n \in Above[m] => ls.zero[n]
  BY DEF LocksInv, TableInv
<1>2. m \in Above[n] => ls.zero[m]
  BY DEF LocksInv, TableInv
<1>3. CASE n = k
  BY <1>2, <1>3 DEF ToRoot
<1>4. CASE m = k
  BY <1>1, <1>4 DEF ToRoot
<1>5. CASE n # k /\ m # k
  <2>1. n \in Above[k] /\ m \in Above[k]
    BY <1>5 DEF ToRoot
  <2>2. n = m \/ n \in Above[m] \/ m \in Above[n]
    BY <2>1, TreeAssumption
  <2> QED
    BY <1>1, <1>2, <1>5, <2>2
<1> QED
  BY <1>3, <1>4, <1>5

\* The lock an acting request counts on for a resource.
LEMMA CoveredBy ==
  ASSUME DavInv, NEW c \in Clients, Acting(c), NEW k \in Claims(c)
  PROVE  \E n \in Locked(ls) \cap ToRoot(k) :
           /\ n = k \/ ~ls.zero[n]
           /\ \/ n = k /\ ls.zero[k] /\ ls.token[n] \in TempOf(c)
              \/ n \in hold[c] /\ ls.token[n] \in shown[c]
PROOF
<1>1. k \in Names
  BY ClaimsAreNames DEF DavInv
<1>2. TempOf(c) \subseteq Tokens /\ shown[c] \subseteq Tokens /\ hold[c] \subseteq Names /\ None \notin Tokens
  BY TempTokens, TreeAssumption DEF DavInv, TypesInv
<1>3. ByTemp(c, k) \/ ByHold(c, k)
  BY DEF DavInv, Cover
<1>4. CASE ByTemp(c, k)
  BY <1>1, <1>2, <1>4 DEF ByTemp, Locked, ToRoot
<1>5. CASE ByHold(c, k)
  BY <1>1, <1>2, <1>5 DEF ByHold, Locked
<1> QED
  BY <1>3, <1>4, <1>5

\* Requests clean up after themselves and do not meet on a resource, whatever fails or
\* expires on the way (confirmLocks, handleLock).
THEOREM RequestsHoldCorrect == DavSpec => []RequestsHold
PROOF
<1>1. DavInv => DavTypeOK
  <2> SUFFICES ASSUME DavInv PROVE DavTypeOK
    OBVIOUS
  <2>1. ls \in Table /\ closures \subseteq SUBSET Names
    <3>1. ls \in Table /\ ls.held = UNION closures
      BY DEF DavInv, LocksInv, TableInv
    <3>2. ls.held \subseteq Names
      BY <3>1 DEF Table
    <3> QED
      BY <3>1, <3>2
  <2>2. Temps \subseteq UNION {[1..k -> Tokens] : k \in 0..2}
    <3>1. <<>> \in [1..0 -> Tokens]
      OBVIOUS
    <3>2. \A t \in Tokens : <<t>> \in [1..1 -> Tokens]
      OBVIOUS
    <3>3. \A t, u \in Tokens : <<t, u>> \in [1..2 -> Tokens]
      OBVIOUS
    <3>4. 0 \in 0..2 /\ 1 \in 0..2 /\ 2 \in 0..2
      OBVIOUS
    <3>5. \A k \in 0..2 : [1..k -> Tokens] \subseteq UNION {[1..j -> Tokens] : j \in 0..2}
      OBVIOUS
    <3>6. ASSUME NEW s \in Temps
          PROVE  s \in UNION {[1..k -> Tokens] : k \in 0..2}
      <4>1. CASE s = <<>>
        BY <3>1, <3>4, <3>5, <4>1
      <4>2. CASE \E t \in Tokens : s = <<t>>
        BY <3>2, <3>4, <3>5, <4>2
      <4>3. CASE \E t, u \in Tokens : s = <<t, u>>
        BY <3>3, <3>4, <3>5, <4>3
      <4> QED
        BY <4>1, <4>2, <4>3 DEF Temps
    <3> QED
      BY <3>6
  <2>3. temp \in [Clients -> UNION {[1..k -> Tokens] : k \in 0..2}]
    BY <2>2 DEF DavInv, TypesInv
  <2> QED
    BY <2>1, <2>3 DEF DavTypeOK, LocksTypeOK, DavInv, TypesInv, Places
<1>2. DavInv => NothingLeaks
  BY DEF DavInv, KnownInv, HoldsInv, Place, NothingLeaks
<1>3. DavInv => ActsAlone
  <2> SUFFICES ASSUME DavInv, NEW c \in Clients, NEW d \in Clients, c # d, Acting(c), Acting(d),
                      NEW k \in Claims(c) \cap Claims(d)
               PROVE  FALSE
    BY DEF ActsAlone
  <2>1. PICK n \in Locked(ls) \cap ToRoot(k) :
           /\ n = k \/ ~ls.zero[n]
           /\ \/ n = k /\ ls.zero[k] /\ ls.token[n] \in TempOf(c)
              \/ n \in hold[c] /\ ls.token[n] \in shown[c]
    BY CoveredBy
  <2>2. PICK m \in Locked(ls) \cap ToRoot(k) :
           /\ m = k \/ ~ls.zero[m]
           /\ \/ m = k /\ ls.zero[k] /\ ls.token[m] \in TempOf(d)
              \/ m \in hold[d] /\ ls.token[m] \in shown[d]
    BY CoveredBy
  <2>3. n = m
    BY <2>1, <2>2, OneCovers, ClaimsAreNames DEF DavInv
  <2>4. /\ TempOf(c) \cap TempOf(d) = {} /\ TempOf(c) \cap shown[d] = {} /\ TempOf(d) \cap shown[c] = {}
        /\ hold[c] \cap hold[d] = {}
    BY DEF DavInv, TempsInv, HoldsInv
  <2> QED
    BY <2>1, <2>2, <2>3, <2>4
<1> QED
  BY <1>1, <1>2, <1>3, DavServerInvariant, PTL DEF RequestsHold

\* A resource that a client has locked is not changed by a request that names it without
\* showing the token, whatever the two did before.
THEOREM LockProtectsCorrect == DavSpec => LockProtects
PROOF
<1> DEFINE A == \A c \in Clients, k \in Names :
                  pc'[c] # pc[c] /\ Protected(c, k) /\ k \in Claims(c) => content'[k] = content[k]
<1>1. DavInv /\ [DavNext]_davVars => [A]_davVars
  <2> SUFFICES ASSUME DavInv, DavNext, NEW c \in Clients, NEW k \in Names,
                      pc'[c] # pc[c], Protected(c, k), k \in Claims(c)
               PROVE  content'[k] = content[k]
    OBVIOUS
  <2>1. CASE LockExpires
    BY <2>1 DEF LockExpires
  <2>2. ASSUME NEW d \in Clients, DavStep(d)
        PROVE  content'[k] = content[k]
    <3>1. \E l : pc' = [pc EXCEPT ![d] = l]
      BY <2>2 DEF DavStep, Goto, Begin, LockFirst, LockSecond, ConfirmIf, Free, CallFails, StatDelete, Delete,
         OpenPut, ClosePut, Mkcol, Proppatch, StatDest, RemoveDest, Rename, OpenSource, CopyTo, NewLock,
         AnswerLock, UnlockOwn, RefreshOwn
    <3>2. c = d
      BY <3>1 DEF DavInv, TypesInv
    <3>3. content' = content \/ Acting(d)
      BY <2>2 DEF DavStep, Acting, InDrive, Begin, LockFirst, LockSecond, ConfirmIf, Free, CallFails, StatDelete,
         Delete, OpenPut, ClosePut, Mkcol, Proppatch, StatDest, RemoveDest, Rename, OpenSource, CopyTo, NewLock,
         AnswerLock, UnlockOwn, RefreshOwn
    <3>4. ~Acting(c)
      <4> SUFFICES ASSUME Acting(c) PROVE FALSE
        OBVIOUS
      <4>1. PICK n \in Locked(ls) \cap ToRoot(k) :
               /\ n = k \/ ~ls.zero[n]
               /\ \/ n = k /\ ls.zero[k] /\ ls.token[n] \in TempOf(c)
                  \/ n \in hold[c] /\ ls.token[n] \in shown[c]
        BY CoveredBy
      <4>2. PICK m \in ToRoot(k) : ls.token[m] \in told \ shown[c] /\ (m = k \/ ~ls.zero[m])
        BY DEF Protected
      <4>3. m \in Locked(ls)
        BY <4>2, TreeAssumption DEF DavInv, TypesInv, Locked, ToRoot
      <4>4. n = m
        BY <4>1, <4>2, <4>3, OneCovers DEF DavInv
      <4>5. TempOf(c) \cap told = {}
        BY DEF DavInv, TempsInv
      <4> QED
        BY <4>1, <4>2, <4>4, <4>5
    <3> QED
      BY <3>2, <3>3, <3>4
  <2> QED
    BY <2>1, <2>2 DEF DavNext
<1> QED
  BY <1>1, DavServerInvariant, PTL DEF DavSpec, LockProtects
-----------------------------------------------------------------------------
(* Requests of the API that transfer files.                               *)

CallRecords ==
  [kind : {"none", "write", "bucket", "form", "stream", "zip"},
   at : {"none", "begun", "read", "taken", "waiting", "ready", "streaming", "zipping", "ended"},
   file : Files \cup {"none"}, body : Body, override : BOOLEAN, ans : {"none", "ok", "error", "cut"}]

ApiTypes ==
  /\ call \in [Calls -> CallRecords]
  /\ task \in [Calls -> {"none", "queued", "running", "stopping", "done", "failed", "canceled", "dropped"}]
  /\ temps \subseteq Calls /\ removes \in 0 .. MaxRemoves
  /\ stored \in [Files -> Calls \cup {Seed, NoFile, Torn}]
  /\ save \in [Calls -> {"none", "cleared", "alone", "mixed", "adrift", "broken", "saved"}]
  /\ zip \in [Calls -> [tree : Seq(Files), put : Seq(Files)]]

Uploads == {"write", "bucket", "form"}

\* A task is that of a request whose body arrived whole, or that has none.
BodyInv ==
  \A c \in Calls :
    /\ call[c].kind = "none" \/ call[c].at \in {"begun", "read", "taken"} => task[c] = "none"
    /\ call[c].kind \in Uploads => call[c].file \in Files
    /\ call[c].at = "read" => call[c].kind \in {"write", "bucket"}
    /\ call[c].at = "taken" => call[c].kind \in Uploads
    /\ call[c].at = "taken" \/ (call[c].kind = "write" /\ task[c] # "none") => call[c].body = "whole"

\* Only bodies are in temporary files.
BodiesKept == TempsAreUsed /\ \A c \in temps : call[c].kind \in {"write", "bucket"}

\* What a save leaves of a file that is torn.
Tears == {"alone", "mixed", "broken"}
\* Who copies alone is the only one who ever tore the file it copies into.
AloneInv ==
  \A c \in Calls : save[c] = "alone" =>
    Saves(c) /\ \A d \in Calls \ {c} : call[d].file = call[c].file => save[d] \notin Tears

\* What a file holds is of a request that was made.
StoredInv ==
  /\ StoredIsWhole /\ AloneInv
  /\ \A f \in Files : stored[f] \in Calls => call[stored[f]].kind # "none"
  /\ \A c \in Calls : save[c] # "none" => call[c].kind \in Uploads

\* What is in a zip is the beginning of what was asked for, and all of it at its end.
ZipInv ==
  \A c \in Calls :
    /\ Len(zip[c].put) \in 0 .. Len(zip[c].tree) /\ zip[c].put = SubSeq(zip[c].tree, 1, Len(zip[c].put))
    /\ call[c].at \notin {"zipping", "ended"} => zip[c].put = <<>>
    /\ call[c].kind = "zip" =>
         (call[c].at # "ended" => call[c].ans = "none") /\ (call[c].ans = "ok" => zip[c].put = zip[c].tree)

WorkersInv == IsFiniteSet(Running) /\ Cardinality(Running) <= Workers

ApiInv == ApiTypes /\ BodyInv /\ BodiesKept /\ StoredInv /\ ZipInv /\ WorkersInv
-----------------------------------------------------------------------------
\* A request goes on to another place.
LEMMA GoesToDoes ==
  ASSUME ApiTypes, NEW c \in Calls, NEW p, GoesTo(c, p),
         p \in {"read", "taken", "waiting", "ready", "streaming", "zipping"}
  PROVE  /\ call' \in [Calls -> CallRecords] /\ \A d \in Calls \ {c} : call'[d] = call[d]
         /\ call'[c].kind = call[c].kind /\ call'[c].at = p /\ call'[c].file = call[c].file
         /\ call'[c].body = call[c].body /\ call'[c].ans = call[c].ans
PROOF
<1>1. call[c] \in CallRecords /\ call \in [Calls -> CallRecords]
  BY DEF ApiTypes
<1>2. call' = [call EXCEPT ![c] = [call[c] EXCEPT !.at = p]]
  BY DEF GoesTo
<1>3. call'[c] = [call[c] EXCEPT !.at = p] /\ \A d \in Calls \ {c} : call'[d] = call[d]
  BY <1>1, <1>2
<1>4. [call[c] EXCEPT !.at = p] \in CallRecords
  BY <1>1 DEF CallRecords
<1>5. call' \in [Calls -> CallRecords]
  BY <1>1, <1>2, <1>4
<1> QED
  BY <1>1, <1>3, <1>5 DEF CallRecords

\* A request ends with an answer.
LEMMA EndCallDoes ==
  ASSUME ApiTypes, NEW c \in Calls, NEW a \in {"ok", "error", "cut"}, EndCall(c, a)
  PROVE  /\ call' \in [Calls -> CallRecords] /\ \A d \in Calls \ {c} : call'[d] = call[d]
         /\ call'[c].kind = call[c].kind /\ call'[c].at = "ended" /\ call'[c].file = call[c].file
         /\ call'[c].body = call[c].body /\ call'[c].ans = a
PROOF
<1>1. call[c] \in CallRecords /\ call \in [Calls -> CallRecords]
  BY DEF ApiTypes
<1>2. call' = [call EXCEPT ![c] = [call[c] EXCEPT !.at = "ended", !.ans = a]]
  BY <1>1 DEF EndCall, CallRecords
<1>3. call'[c] = [call[c] EXCEPT !.at = "ended", !.ans = a] /\ \A d \in Calls \ {c} : call'[d] = call[d]
  BY <1>1, <1>2
<1>4. [call[c] EXCEPT !.at = "ended", !.ans = a] \in CallRecords
  BY <1>1 DEF CallRecords
<1>5. call' \in [Calls -> CallRecords]
  BY <1>1, <1>2, <1>4
<1> QED
  BY <1>1, <1>3, <1>5 DEF CallRecords

\* What a step leaves of the parts it does not touch.
LEMMA WorkersStay ==
  ASSUME WorkersInv, UNCHANGED task
  PROVE  WorkersInv'
PROOF
  BY DEF WorkersInv, Running

LEMMA ZipStays ==
  ASSUME ApiTypes, ZipInv, UNCHANGED zip, NEW c \in Calls, \A d \in Calls \ {c} : call'[d] = call[d],
         call'[c].kind = call[c].kind, call[c].at \notin {"zipping", "ended"} \/ call'[c].at \in {"zipping", "ended"},
         call'[c].kind = "zip" => call'[c].ans # "ok" /\ (call'[c].at # "ended" => call'[c].ans = "none")
  PROVE  ZipInv'
PROOF
<1>1. ASSUME NEW d \in Calls
      PROVE  /\ call[d].at \notin {"zipping", "ended"} \/ call'[d].at \in {"zipping", "ended"}
             /\ call'[d].kind = "zip" =>
                  (call'[d].at # "ended" => call'[d].ans = "none") /\ (call'[d].ans = "ok" => zip[d].put = zip[d].tree)
  BY DEF ZipInv
<1> QED
  BY <1>1 DEF ZipInv

\* A step of a request that is not one of its save.
LEMMA StoredStays ==
  ASSUME ApiTypes, StoredInv, UNCHANGED <<stored, save>>, NEW c \in Calls,
         \A d \in Calls \ {c} : call'[d] = call[d] /\ task'[d] = task[d],
         call'[c].kind = call[c].kind, call'[c].file = call[c].file, call'[c].body = call[c].body,
         Saves(c) => Saves(c)',
         call[c].kind = "write" /\ task'[c] = "done" => task[c] = "done",
         call[c].kind \in {"bucket", "form"} /\ call'[c].ans = "ok" => call[c].ans = "ok"
  PROVE  StoredInv'
PROOF
<1>1. ASSUME NEW d \in Calls
      PROVE  /\ call'[d].kind = call[d].kind /\ call'[d].file = call[d].file /\ call'[d].body = call[d].body
             /\ Saves(d) => Saves(d)'
             /\ call[d].kind = "write" /\ task'[d] = "done" => task[d] = "done"
             /\ call[d].kind \in {"bucket", "form"} /\ call'[d].ans = "ok" => call[d].ans = "ok"
  <2>1. CASE d = c
    BY <2>1
  <2>2. CASE d # c
    BY <2>2 DEF Saves
  <2> QED
    BY <2>1, <2>2
<1>2. AloneInv'
  BY <1>1 DEF StoredInv, AloneInv
<1>3. StoredIsWhole'
  BY <1>1 DEF StoredInv, StoredIsWhole
<1> QED
  BY <1>1, <1>2, <1>3 DEF StoredInv

\* The same of a request that is not in its save.
LEMMA StoredRests ==
  ASSUME ApiInv, UNCHANGED <<stored, save, task>>, NEW c \in Calls, \A d \in Calls \ {c} : call'[d] = call[d],
         call'[c].kind = call[c].kind, call'[c].file = call[c].file, call'[c].body = call[c].body,
         call[c].at # "taken" \/ call[c].kind \notin {"bucket", "form"}, 
         call'[c].ans # "ok" \/ call'[c].ans = call[c].ans \/ call[c].kind \notin {"bucket", "form"}
  PROVE  StoredInv'
PROOF
<1>1. Saves(c) => Saves(c)'
  BY DEF Saves
<1> QED
  BY <1>1, StoredStays DEF ApiInv
-----------------------------------------------------------------------------
LEMMA BeginCallKeeps ==
  ASSUME ApiInv, NEW c \in Calls, NEW k \in {"write", "bucket", "form", "stream", "zip"}, NEW f \in Files \cup {"none"},
         NEW b \in Body, NEW o \in BOOLEAN, k \in Uploads => f \in Files, BeginCall(c, k, f, b, o)
  PROVE  ApiInv'
PROOF
<1> DEFINE row == [kind |-> k, at |-> "begun", file |-> f, body |-> b, override |-> o, ans |-> "none"]
<1>1. /\ call[c].kind = "none" /\ call[c].at = "none" /\ call' = [call EXCEPT ![c] = row]
      /\ UNCHANGED <<task, temps, stored, save, goneAway, zip, removes>>
  BY DEF BeginCall, At
<1>2. row \in CallRecords
  BY DEF CallRecords
<1>3. row.kind = k /\ row.at = "begun" /\ row.file = f /\ row.body = b /\ row.ans = "none"
  OBVIOUS
<1> HIDE DEF row
<1>4. call' \in [Calls -> CallRecords] /\ call'[c] = row /\ \A d \in Calls \ {c} : call'[d] = call[d]
  BY <1>1, <1>2 DEF ApiInv, ApiTypes
<1>5. ApiTypes'
  BY <1>1, <1>4 DEF ApiInv, ApiTypes
<1>6. BodyInv'
  BY <1>1, <1>3, <1>4 DEF ApiInv, BodyInv, Uploads
<1>7. BodiesKept'
  BY <1>1, <1>3, <1>4 DEF ApiInv, BodiesKept, TempsAreUsed, ApiTypes
<1>8. StoredInv'
  <2>1. save[c] = "none" /\ UNCHANGED <<stored, save, task>>
    BY <1>1 DEF ApiInv, StoredInv, Uploads
  <2>2. /\ \A d \in Calls : save[d] # "none" => call'[d] = call[d] /\ (Saves(d) => Saves(d)')
        /\ \A d \in Calls : call[d].kind # "none" => call'[d] = call[d]
    BY <1>1, <1>4, <2>1 DEF Saves
  <2>3. AloneInv'
    BY <2>1, <2>2 DEF ApiInv, StoredInv, AloneInv, Tears
  <2>4. StoredIsWhole'
    <3>1. \A f2 \in Files : stored'[f2] \in Calls => call'[stored'[f2]].body = "whole" /\ call'[stored'[f2]].file = f2
      BY <2>1, <2>2 DEF ApiInv, StoredInv, StoredIsWhole
    <3>2. \A f2 \in Files : stored'[f2] = Torn <=> \E d \in Calls : call'[d].file = f2 /\ save'[d] \in {"alone", "mixed", "broken"}
      BY <2>1, <2>2 DEF ApiInv, StoredInv, StoredIsWhole
    <3>3. \A d \in Calls : save'[d] # "none" => call'[d].body = "whole"
      BY <2>1, <2>2 DEF ApiInv, StoredInv, StoredIsWhole
    <3>4. ASSUME NEW d \in Calls,
                 (call'[d].kind = "write" /\ task'[d] = "done") \/ (call'[d].kind \in {"bucket", "form"} /\ call'[d].ans = "ok")
          PROVE  save'[d] \in {"saved", "mixed", "adrift"}
      <4>1. d # c
        BY <1>1, <1>3, <1>4, <3>4 DEF ApiInv, BodyInv, Uploads
      <4> QED
        BY <1>4, <2>1, <3>4, <4>1 DEF ApiInv, StoredInv, StoredIsWhole
    <3> QED
      BY <3>1, <3>2, <3>3, <3>4 DEF StoredIsWhole
  <2> QED
    BY <2>1, <2>2, <2>3, <2>4 DEF ApiInv, StoredInv
<1>9. ZipInv'
  BY <1>1, <1>3, <1>4 DEF ApiInv, ZipInv
<1> QED
  BY <1>1, <1>5, <1>6, <1>7, <1>8, <1>9, WorkersStay DEF ApiInv

LEMMA ReadBodyKeeps ==
  ASSUME ApiInv, NEW c \in Calls, ReadBody(c)
  PROVE  ApiInv'
PROOF
<1>1. call[c].kind \in {"write", "bucket"} /\ call[c].at = "begun" /\ UNCHANGED <<task, stored, save, goneAway, zip, removes>>
  BY DEF ReadBody
<1>2. CASE EndCall(c, "error") /\ UNCHANGED temps
  <2>1. /\ call' \in [Calls -> CallRecords] /\ \A d \in Calls \ {c} : call'[d] = call[d]
        /\ call'[c].kind = call[c].kind /\ call'[c].at = "ended" /\ call'[c].file = call[c].file
        /\ call'[c].body = call[c].body /\ call'[c].ans = "error"
    BY <1>2, EndCallDoes DEF ApiInv
  <2>2. BodyInv'
    BY <1>1, <2>1 DEF ApiInv, BodyInv, Uploads
  <2>3. BodiesKept'
    BY <1>1, <1>2, <2>1 DEF ApiInv, BodiesKept, TempsAreUsed, ApiTypes
  <2>4. StoredInv' /\ ZipInv' /\ WorkersInv'
    BY <1>1, <2>1, StoredRests, ZipStays, WorkersStay DEF ApiInv
  <2> QED
    BY <1>1, <1>2, <2>1, <2>2, <2>3, <2>4 DEF ApiInv, ApiTypes
<1>3. CASE GoesTo(c, "read") /\ temps' = temps \cup {c}
  <2>1. /\ call' \in [Calls -> CallRecords] /\ \A d \in Calls \ {c} : call'[d] = call[d]
        /\ call'[c].kind = call[c].kind /\ call'[c].at = "read" /\ call'[c].file = call[c].file
        /\ call'[c].body = call[c].body /\ call'[c].ans = call[c].ans
    BY <1>3, GoesToDoes DEF ApiInv
  <2>2. BodyInv'
    BY <1>1, <2>1 DEF ApiInv, BodyInv, Uploads
  <2>3. BodiesKept'
    BY <1>1, <1>3, <2>1 DEF ApiInv, BodiesKept, TempsAreUsed, ApiTypes
  <2>4. StoredInv' /\ ZipInv' /\ WorkersInv'
    BY <1>1, <2>1, StoredRests, ZipStays, WorkersStay DEF ApiInv
  <2> QED
    BY <1>1, <1>3, <2>1, <2>2, <2>3, <2>4 DEF ApiInv, ApiTypes
<1> QED
  BY <1>2, <1>3 DEF ReadBody

LEMMA CheckBodyKeeps ==
  ASSUME ApiInv, NEW c \in Calls, CheckBody(c)
  PROVE  ApiInv'
PROOF
<1>1. /\ call[c].at = "read" /\ call[c].kind \in {"write", "bucket"}
      /\ UNCHANGED <<task, stored, save, goneAway, zip, removes>>
  BY DEF CheckBody, ApiInv, BodyInv
<1>2. CASE EndCall(c, "error") /\ temps' = temps \ {c}
  <2>1. /\ call' \in [Calls -> CallRecords] /\ \A d \in Calls \ {c} : call'[d] = call[d]
        /\ call'[c].kind = call[c].kind /\ call'[c].at = "ended" /\ call'[c].file = call[c].file
        /\ call'[c].body = call[c].body /\ call'[c].ans = "error"
    BY <1>2, EndCallDoes DEF ApiInv
  <2>2. BodyInv'
    BY <1>1, <2>1 DEF ApiInv, BodyInv, Uploads
  <2>3. BodiesKept'
    BY <1>1, <1>2, <2>1 DEF ApiInv, BodiesKept, TempsAreUsed, ApiTypes
  <2>4. StoredInv' /\ ZipInv' /\ WorkersInv'
    BY <1>1, <2>1, StoredRests, ZipStays, WorkersStay DEF ApiInv
  <2> QED
    BY <1>1, <1>2, <2>1, <2>2, <2>3, <2>4 DEF ApiInv, ApiTypes
<1>3. CASE call[c].body # "short" /\ GoesTo(c, "taken") /\ UNCHANGED temps
  <2>1. /\ call' \in [Calls -> CallRecords] /\ \A d \in Calls \ {c} : call'[d] = call[d]
        /\ call'[c].kind = call[c].kind /\ call'[c].at = "taken" /\ call'[c].file = call[c].file
        /\ call'[c].body = call[c].body /\ call'[c].ans = call[c].ans
    BY <1>3, GoesToDoes DEF ApiInv
  <2>2. call[c].body = "whole"
    BY <1>3 DEF ApiInv, ApiTypes, CallRecords, Body
  <2>3. BodyInv'
    BY <1>1, <2>1, <2>2 DEF ApiInv, BodyInv, Uploads
  <2>4. BodiesKept'
    BY <1>1, <1>3, <2>1 DEF ApiInv, BodiesKept, TempsAreUsed, ApiTypes
  <2>5. StoredInv' /\ ZipInv' /\ WorkersInv'
    BY <1>1, <2>1, StoredRests, ZipStays, WorkersStay DEF ApiInv
  <2> QED
    BY <1>1, <1>3, <2>1, <2>3, <2>4, <2>5 DEF ApiInv, ApiTypes
<1> QED
  BY <1>2, <1>3 DEF CheckBody

\* A form is read into no temporary file.
LEMMA ReadFormKeeps ==
  ASSUME ApiInv, NEW c \in Calls, ReadForm(c)
  PROVE  ApiInv'
PROOF
<1>1. call[c].kind = "form" /\ call[c].at = "begun" /\ UNCHANGED <<task, temps, stored, save, goneAway, zip, removes>>
  BY DEF ReadForm, At
<1>2. CASE EndCall(c, "error")
  <2>1. /\ call' \in [Calls -> CallRecords] /\ \A d \in Calls \ {c} : call'[d] = call[d]
        /\ call'[c].kind = call[c].kind /\ call'[c].at = "ended" /\ call'[c].file = call[c].file
        /\ call'[c].body = call[c].body /\ call'[c].ans = "error"
    BY <1>2, EndCallDoes DEF ApiInv
  <2>2. BodyInv'
    BY <1>1, <2>1 DEF ApiInv, BodyInv, Uploads
  <2>3. BodiesKept'
    BY <1>1, <2>1 DEF ApiInv, BodiesKept, TempsAreUsed, ApiTypes
  <2>4. StoredInv' /\ ZipInv' /\ WorkersInv'
    BY <1>1, <2>1, StoredRests, ZipStays, WorkersStay DEF ApiInv
  <2> QED
    BY <1>1, <2>1, <2>2, <2>3, <2>4 DEF ApiInv, ApiTypes
<1>3. CASE call[c].body # "short" /\ GoesTo(c, "taken")
  <2>1. /\ call' \in [Calls -> CallRecords] /\ \A d \in Calls \ {c} : call'[d] = call[d]
        /\ call'[c].kind = call[c].kind /\ call'[c].at = "taken" /\ call'[c].file = call[c].file
        /\ call'[c].body = call[c].body /\ call'[c].ans = call[c].ans
    BY <1>3, GoesToDoes DEF ApiInv
  <2>2. call[c].body = "whole"
    BY <1>3 DEF ApiInv, ApiTypes, CallRecords, Body
  <2>3. BodyInv'
    BY <1>1, <2>1, <2>2 DEF ApiInv, BodyInv, Uploads
  <2>4. BodiesKept'
    BY <1>1, <2>1 DEF ApiInv, BodiesKept, TempsAreUsed, ApiTypes
  <2>5. StoredInv' /\ ZipInv' /\ WorkersInv'
    BY <1>1, <2>1, StoredRests, ZipStays, WorkersStay DEF ApiInv
  <2> QED
    BY <1>1, <2>1, <2>3, <2>4, <2>5 DEF ApiInv, ApiTypes
<1> QED
  BY <1>2, <1>3 DEF ReadForm
-----------------------------------------------------------------------------
\* Tasks that do not run, or ran already.
LEMMA WorkersKept ==
  ASSUME ApiTypes, WorkersInv, NEW c \in Calls, NEW t, task' = [task EXCEPT ![c] = t],
         t \in {"running", "stopping"} => task[c] \in {"running", "stopping"}
  PROVE  WorkersInv'
PROOF
<1>1. Running' \subseteq Running
  BY DEF Running, ApiTypes
<1>2. IsFiniteSet(Running') /\ Cardinality(Running') <= Cardinality(Running)
  BY <1>1, FS_Subset DEF WorkersInv
<1>3. Cardinality(Running') \in Nat /\ Cardinality(Running) \in Nat
  BY <1>2, FS_CardinalityType DEF WorkersInv
<1> QED
  BY <1>2, <1>3, ApiAssumption DEF WorkersInv

LEMMA SubmitKeeps ==
  ASSUME ApiInv, NEW c \in Calls, Submit(c)
  PROVE  ApiInv'
PROOF
<1>1. PICK p \in {"waiting", "ready"} :
        /\ GoesTo(c, p) /\ (p = "waiting" => call[c].kind = "write" /\ call[c].at = "taken")
        /\ p = "ready" => call[c].kind = "stream" /\ call[c].at = "begun"
  BY DEF Submit, At
<1>2. /\ task' = [task EXCEPT ![c] = "queued"] /\ UNCHANGED <<temps, stored, save, goneAway, zip, removes>>
  BY DEF Submit
<1>3. /\ call' \in [Calls -> CallRecords] /\ \A d \in Calls \ {c} : call'[d] = call[d]
      /\ call'[c].kind = call[c].kind /\ call'[c].at = p /\ call'[c].file = call[c].file
      /\ call'[c].body = call[c].body /\ call'[c].ans = call[c].ans
  BY <1>1, GoesToDoes DEF ApiInv
<1>4. /\ task'[c] = "queued" /\ \A d \in Calls \ {c} : task'[d] = task[d]
      /\ task' \in [Calls -> {"none", "queued", "running", "stopping", "done", "failed", "canceled", "dropped"}]
  BY <1>2 DEF ApiInv, ApiTypes
<1>5. BodyInv'
  BY <1>1, <1>3, <1>4 DEF ApiInv, BodyInv, Uploads
<1>6. BodiesKept'
  BY <1>1, <1>2, <1>3, <1>4 DEF ApiInv, BodiesKept, TempsAreUsed, ApiTypes
<1>7. StoredInv' /\ ZipInv'
  <2>1. call[c].at \notin {"zipping", "ended"} /\ call'[c].kind # "zip" /\ call[c].kind \notin {"bucket", "form"}
    BY <1>1, <1>3
  <2>2. ~Saves(c)
    BY <1>1, <2>1 DEF Saves, ApiInv, BodyInv
  <2>3. StoredInv'
    BY <1>2, <1>3, <1>4, <2>1, <2>2, StoredStays DEF ApiInv
  <2> QED
    BY <1>2, <1>3, <2>1, <2>3, ZipStays DEF ApiInv
<1>8. WorkersInv'
  BY <1>2, WorkersKept DEF ApiInv
<1> QED
  BY <1>2, <1>3, <1>4, <1>5, <1>6, <1>7, <1>8 DEF ApiInv, ApiTypes

\* A task goes on: what it read is still to be written, or its temporary file has gone.
LEMMA TaskKeeps ==
  ASSUME ApiInv, NEW c \in Calls, NEW t \in {"running", "stopping", "done", "failed", "canceled", "dropped"},
         task' = [task EXCEPT ![c] = t], task[c] # "none", UNCHANGED <<call, zip, removes>>,
         temps' \subseteq temps, c \in temps' => t \in {"running", "stopping", "dropped"}
  PROVE  /\ BodyInv' /\ BodiesKept' /\ ZipInv' /\ temps' \subseteq Calls
         /\ task' \in [Calls -> {"none", "queued", "running", "stopping", "done", "failed", "canceled", "dropped"}]
PROOF
<1>1. /\ task'[c] = t /\ \A d \in Calls \ {c} : task'[d] = task[d]
      /\ task' \in [Calls -> {"none", "queued", "running", "stopping", "done", "failed", "canceled", "dropped"}]
  BY DEF ApiInv, ApiTypes
<1>2. BodyInv'
  BY <1>1 DEF ApiInv, BodyInv, Uploads
<1>3. BodiesKept'
  BY <1>1 DEF ApiInv, BodiesKept, TempsAreUsed, ApiTypes
<1> QED
  BY <1>1, <1>2, <1>3 DEF ApiInv, ZipInv, ApiTypes

\* And nothing is written to a file by that.
LEMMA TaskRests ==
  ASSUME ApiInv, NEW c \in Calls, NEW t \in {"running", "stopping", "done", "dropped"}, task' = [task EXCEPT ![c] = t],
         UNCHANGED <<call, stored, save>>,
         call[c].kind = "write" => t \in {"running", "stopping"} \/ (t = "dropped" /\ task[c] = "queued")
  PROVE  StoredInv'
PROOF
<1>1. /\ task'[c] = t /\ \A d \in Calls \ {c} : task'[d] = task[d]
  BY DEF ApiInv, ApiTypes
<1>2. Saves(c) => Saves(c)'
  BY <1>1 DEF Saves
<1> QED
  BY <1>1, <1>2, StoredStays DEF ApiInv

\* A worker that is free takes a task.
LEMMA StartTaskKeeps ==
  ASSUME ApiInv, NEW c \in Calls, StartTask(c)
  PROVE  ApiInv'
PROOF
<1>1. /\ task[c] = "queued" /\ Cardinality(Running) < Workers /\ task' = [task EXCEPT ![c] = "running"]
      /\ UNCHANGED <<call, temps, stored, save, goneAway, zip, removes>>
  BY DEF StartTask
<1>2. /\ BodyInv' /\ BodiesKept' /\ ZipInv'
      /\ task' \in [Calls -> {"none", "queued", "running", "stopping", "done", "failed", "canceled", "dropped"}]
  BY <1>1, TaskKeeps
<1>3. Running' = Running \cup {c} /\ c \notin Running
  BY <1>1 DEF ApiInv, ApiTypes, Running
<1>4. IsFiniteSet(Running)
  BY DEF ApiInv, WorkersInv
<1>5. IsFiniteSet(Running') /\ Cardinality(Running') = Cardinality(Running) + 1
  BY <1>3, <1>4, FS_AddElement
<1>6. Cardinality(Running) \in Nat
  BY <1>4, FS_CardinalityType
<1>7. WorkersInv'
  BY <1>1, <1>5, <1>6, ApiAssumption DEF WorkersInv
<1> QED
  BY <1>1, <1>2, <1>7, TaskRests DEF ApiInv, ApiTypes

SaveKinds == {"none", "cleared", "alone", "mixed", "adrift", "broken", "saved"}

\* Who saves has a body that came whole, and a place for it.
LEMMA SavesMean ==
  ASSUME ApiInv, NEW c \in Calls, Saves(c)
  PROVE  call[c].kind \in Uploads /\ call[c].file \in Files /\ call[c].body = "whole"
PROOF
  BY DEF Saves, ApiInv, BodyInv, Uploads

\* A save ends with the request or with the task it is of.
LEMMA EndSaveDoes ==
  ASSUME ApiInv, NEW c \in Calls, Saves(c), NEW how \in {"done", "failed", "canceled"}, EndSave(c, how), UNCHANGED <<zip, removes>>
  PROVE  /\ BodyInv' /\ BodiesKept' /\ ZipInv' /\ WorkersInv' /\ temps' \subseteq Calls /\ call' \in [Calls -> CallRecords]
         /\ task' \in [Calls -> {"none", "queued", "running", "stopping", "done", "failed", "canceled", "dropped"}]
         /\ \A d \in Calls : call'[d].kind = call[d].kind /\ call'[d].file = call[d].file /\ call'[d].body = call[d].body
         /\ \A d \in Calls \ {c} : call'[d] = call[d] /\ task'[d] = task[d]
         /\ how # "done" => ~(call'[c].kind = "write" /\ task'[c] = "done")
         /\ how # "done" => ~(call'[c].kind \in {"bucket", "form"} /\ call'[c].ans = "ok")
PROOF
<1>1. temps' = temps \ {c}
  BY DEF EndSave
<1>2. CASE call[c].kind = "write"
  <2>1. task' = [task EXCEPT ![c] = how] /\ UNCHANGED call /\ task[c] \in {"running", "stopping"}
    BY <1>2 DEF EndSave, Saves
  <2>2. /\ BodyInv' /\ BodiesKept' /\ ZipInv' /\ temps' \subseteq Calls
        /\ task' \in [Calls -> {"none", "queued", "running", "stopping", "done", "failed", "canceled", "dropped"}]
    BY <1>1, <2>1, TaskKeeps
  <2>3. WorkersInv'
    BY <2>1, WorkersKept DEF ApiInv
  <2>4. task'[c] = how /\ \A d \in Calls \ {c} : task'[d] = task[d]
    BY <2>1 DEF ApiInv, ApiTypes
  <2> QED
    BY <1>2, <2>1, <2>2, <2>3, <2>4 DEF ApiInv, ApiTypes
<1>3. CASE call[c].kind # "write"
  <2>1. call[c].kind \in {"bucket", "form"} /\ call[c].at = "taken" /\ UNCHANGED task
    BY <1>3 DEF EndSave, Saves
  <2>2. PICK a \in {"ok", "error"} : EndCall(c, a) /\ (how # "done" => a = "error")
    BY <1>3 DEF EndSave
  <2>3. /\ call' \in [Calls -> CallRecords] /\ \A d \in Calls \ {c} : call'[d] = call[d]
        /\ call'[c].kind = call[c].kind /\ call'[c].at = "ended" /\ call'[c].file = call[c].file
        /\ call'[c].body = call[c].body /\ call'[c].ans = a
    BY <2>2, EndCallDoes DEF ApiInv
  <2>4. BodyInv'
    BY <2>1, <2>3 DEF ApiInv, BodyInv, Uploads
  <2>5. BodiesKept'
    BY <1>1, <2>1, <2>3 DEF ApiInv, BodiesKept, TempsAreUsed, ApiTypes
  <2>6. ZipInv'
    <3>1. call'[c].kind # "zip" /\ call'[c].at \in {"zipping", "ended"}
      BY <2>1, <2>3
    <3> QED
      BY <2>3, <3>1, ZipStays DEF ApiInv
  <2>7. WorkersInv'
    BY <2>1, WorkersStay DEF ApiInv
  <2>8. temps' \subseteq Calls
    BY <1>1 DEF ApiInv, ApiTypes
  <2>9. \A d \in Calls : call'[d].kind = call[d].kind /\ call'[d].file = call[d].file /\ call'[d].body = call[d].body
    BY <2>3
  <2>10. how # "done" => ~(call'[c].kind = "write" /\ task'[c] = "done") /\ ~(call'[c].kind \in {"bucket", "form"} /\ call'[c].ans = "ok")
    BY <1>3, <2>2, <2>3
  <2> QED
    BY <2>1, <2>3, <2>4, <2>5, <2>6, <2>7, <2>8, <2>9, <2>10 DEF ApiInv, ApiTypes
<1> QED
  BY <1>2, <1>3

\* A step of a save, of which one knows what becomes of the file and of who copies into it.
LEMMA StoredThen ==
  ASSUME ApiInv, NEW c \in Calls, NEW f \in Files, f = call[c].file, call[c].body = "whole", call[c].kind \in Uploads,
         stored' \in [Files -> Calls \cup {Seed, NoFile, Torn}], save' \in [Calls -> SaveKinds],
         \A d \in Calls : call'[d].kind = call[d].kind /\ call'[d].file = call[d].file /\ call'[d].body = call[d].body,
         \A d \in Calls \ {c} : call'[d] = call[d] /\ task'[d] = task[d],
         \A g \in Files \ {f} : stored'[g] = stored[g],
         \A d \in Calls : call[d].file # f => save'[d] = save[d],
         stored'[f] = Torn <=> \E d \in Calls : call[d].file = f /\ save'[d] \in Tears,
         stored'[f] \in {c, stored[f], Torn},
         \A d \in Calls \ {c} : save'[d] = save[d] \/ (save[d] \in Tears /\ save'[d] \in {"mixed", "adrift"}),
         \A d \in Calls : save'[d] = "alone" /\ call[d].file = f =>
           Saves(d)' /\ \A e \in Calls \ {d} : call[e].file = f => save'[e] \notin Tears,
         (call'[c].kind = "write" /\ task'[c] = "done") \/ (call'[c].kind \in {"bucket", "form"} /\ call'[c].ans = "ok")
           => save'[c] \in {"saved", "mixed", "adrift"}
  PROVE  StoredInv'
PROOF
<1>1. AloneInv'
  <2> SUFFICES ASSUME NEW d \in Calls, save'[d] = "alone"
               PROVE  Saves(d)' /\ \A e \in Calls \ {d} : call[e].file = call[d].file => save'[e] \notin Tears
    BY DEF AloneInv
  <2>1. CASE call[d].file = f
    BY <2>1
  <2>2. CASE call[d].file # f
    <3>1. save[d] = "alone" /\ d # c /\ \A e \in Calls : call[e].file = call[d].file => save'[e] = save[e]
      BY <2>2
    <3>2. Saves(d) /\ \A e \in Calls \ {d} : call[e].file = call[d].file => save[e] \notin Tears
      BY <3>1 DEF ApiInv, StoredInv, AloneInv
    <3>3. Saves(d)'
      BY <3>1, <3>2 DEF Saves
    <3> QED
      BY <3>1, <3>2, <3>3
  <2> QED
    BY <2>1, <2>2
<1>2. Torn \notin Calls
  BY ApiAssumption DEF Torn
<1>3. \A g \in Files : stored'[g] \in Calls => call'[stored'[g]].body = "whole" /\ call'[stored'[g]].file = g /\ call'[stored'[g]].kind # "none"
  <2> SUFFICES ASSUME NEW g \in Files, stored'[g] \in Calls
               PROVE  call[stored'[g]].body = "whole" /\ call[stored'[g]].file = g /\ call[stored'[g]].kind # "none"
    OBVIOUS
  <2>1. CASE stored'[g] = stored[g]
    BY <2>1 DEF ApiInv, StoredInv, StoredIsWhole
  <2>2. CASE g = f /\ stored'[g] = c
    BY <2>2 DEF Uploads
  <2> QED
    BY <1>2, <2>1, <2>2
<1>4. ASSUME NEW g \in Files
      PROVE  stored'[g] = Torn <=> \E d \in Calls : call'[d].file = g /\ save'[d] \in {"alone", "mixed", "broken"}
  <2>1. CASE g = f
    BY <2>1 DEF Tears
  <2>2. CASE g # f
    <3>1. stored'[g] = stored[g] /\ \A d \in Calls : call[d].file = g => save'[d] = save[d]
      BY <2>2
    <3> QED
      BY <3>1 DEF ApiInv, StoredInv, StoredIsWhole
  <2> QED
    BY <2>1, <2>2
<1>5. ASSUME NEW d \in Calls
      PROVE  /\ save'[d] # "none" => call'[d].body = "whole" /\ call'[d].kind \in Uploads
             /\ (call'[d].kind = "write" /\ task'[d] = "done") \/ (call'[d].kind \in {"bucket", "form"} /\ call'[d].ans = "ok")
                  => save'[d] \in {"saved", "mixed", "adrift"}
  <2>1. CASE d = c
    BY <2>1
  <2>2. CASE d # c
    <3>1. /\ save[d] # "none" => call[d].body = "whole" /\ call[d].kind \in Uploads
          /\ (call[d].kind = "write" /\ task[d] = "done") \/ (call[d].kind \in {"bucket", "form"} /\ call[d].ans = "ok")
               => save[d] \in {"saved", "mixed", "adrift"}
      BY DEF ApiInv, StoredInv, StoredIsWhole
    <3>2. call'[d] = call[d] /\ task'[d] = task[d]
      BY <2>2
    <3>3. save'[d] = save[d] \/ (save[d] # "none" /\ save'[d] \in {"mixed", "adrift"})
      BY <2>2 DEF Tears
    <3> QED
      BY <3>1, <3>2, <3>3
  <2> QED
    BY <2>1, <2>2
<1>6. StoredIsWhole'
  BY <1>3, <1>4, <1>5 DEF StoredIsWhole
<1> QED
  BY <1>1, <1>3, <1>5, <1>6 DEF StoredInv

\* A save ends and leaves the file as it is.
LEMMA SaveGivenUp ==
  ASSUME ApiInv, NEW c \in Calls, Saves(c), save[c] \in {"none", "cleared"}, EndSave(c, "failed"),
         UNCHANGED <<stored, save, zip, removes>>
  PROVE  ApiInv'
PROOF
<1>1. /\ BodyInv' /\ BodiesKept' /\ ZipInv' /\ WorkersInv' /\ temps' \subseteq Calls /\ call' \in [Calls -> CallRecords]
      /\ task' \in [Calls -> {"none", "queued", "running", "stopping", "done", "failed", "canceled", "dropped"}]
      /\ \A d \in Calls : call'[d].kind = call[d].kind /\ call'[d].file = call[d].file /\ call'[d].body = call[d].body
      /\ \A d \in Calls \ {c} : call'[d] = call[d] /\ task'[d] = task[d]
      /\ ~(call'[c].kind = "write" /\ task'[c] = "done")
      /\ ~(call'[c].kind \in {"bucket", "form"} /\ call'[c].ans = "ok")
  BY EndSaveDoes
<1>2. StoredInv'
  <2>1. AloneInv'
    <3>1. \A d \in Calls : save[d] = "alone" => d # c
      OBVIOUS
    <3>2. \A d \in Calls \ {c} : Saves(d) => Saves(d)'
      BY <1>1 DEF Saves
    <3> QED
      BY <1>1, <3>1, <3>2 DEF ApiInv, StoredInv, AloneInv
  <2>2. StoredIsWhole'
    <3>1. ASSUME NEW d \in Calls,
                 (call'[d].kind = "write" /\ task'[d] = "done") \/ (call'[d].kind \in {"bucket", "form"} /\ call'[d].ans = "ok")
          PROVE  save'[d] \in {"saved", "mixed", "adrift"}
      <4>1. d # c
        BY <1>1, <3>1
      <4> QED
        BY <1>1, <3>1, <4>1 DEF ApiInv, StoredInv, StoredIsWhole
    <3>2. \A g \in Files : stored'[g] = Torn <=> \E d \in Calls : call'[d].file = g /\ save'[d] \in {"alone", "mixed", "broken"}
      BY <1>1 DEF ApiInv, StoredInv, StoredIsWhole
    <3>3. /\ \A g \in Files : stored'[g] \in Calls => call'[stored'[g]].body = "whole" /\ call'[stored'[g]].file = g
          /\ \A d \in Calls : save'[d] # "none" => call'[d].body = "whole"
      BY <1>1 DEF ApiInv, StoredInv, StoredIsWhole
    <3> QED
      BY <3>1, <3>2, <3>3 DEF StoredIsWhole
  <2> QED
    BY <1>1, <2>1, <2>2 DEF ApiInv, StoredInv
<1> QED
  BY <1>1, <1>2 DEF ApiInv, ApiTypes

LEMMA LookAtKeeps ==
  ASSUME ApiInv, NEW c \in Calls, LookAt(c)
  PROVE  ApiInv'
PROOF
<1>1. Saves(c) /\ save[c] = "none" /\ UNCHANGED <<stored, goneAway, zip, removes>>
  BY DEF LookAt
<1>2. CASE EndSave(c, "failed") /\ UNCHANGED save
  BY <1>1, <1>2, SaveGivenUp
<1>3. CASE save' = [save EXCEPT ![c] = "cleared"] /\ UNCHANGED <<call, task, temps>>
  <2> DEFINE f == call[c].file
  <2>1. call[c].kind \in Uploads /\ f \in Files /\ call[c].body = "whole"
    BY <1>1, SavesMean
  <2>2. save' \in [Calls -> SaveKinds] /\ save'[c] = "cleared" /\ \A d \in Calls \ {c} : save'[d] = save[d]
    BY <1>3 DEF ApiInv, ApiTypes, SaveKinds
  <2>3. \A d \in Calls : save'[d] \in Tears <=> save[d] \in Tears
    BY <1>1, <2>2 DEF Tears
  <2>4. stored' = stored /\ stored \in [Files -> Calls \cup {Seed, NoFile, Torn}] /\ UNCHANGED <<call, task>>
    BY <1>1, <1>3 DEF ApiInv, ApiTypes
  <2>5. stored[f] = Torn <=> \E d \in Calls : call[d].file = f /\ save[d] \in Tears
    BY <2>1 DEF ApiInv, StoredInv, StoredIsWhole, Tears
  <2>6. \A d \in Calls : save'[d] = "alone" => Saves(d)' /\ \A e \in Calls \ {d} : call[e].file = call[d].file => save'[e] \notin Tears
    BY <1>1, <2>2, <2>3, <2>4 DEF ApiInv, StoredInv, AloneInv, Saves
  <2>7. ~(call[c].kind = "write" /\ task[c] = "done") /\ ~(call[c].kind \in {"bucket", "form"} /\ call[c].ans = "ok")
    BY <1>1 DEF ApiInv, StoredInv, StoredIsWhole
  <2> HIDE DEF f
  <2>8. StoredInv'
    <3>1. f = call[c].file
      BY DEF f
    <3> QED
      BY <2>1, <2>2, <2>3, <2>4, <2>5, <2>6, <2>7, <3>1, StoredThen
  <2> QED
    BY <1>1, <1>3, <2>2, <2>8, WorkersStay DEF ApiInv, ApiTypes, BodyInv, BodiesKept, TempsAreUsed, ZipInv, SaveKinds
<1> QED
  BY <1>2, <1>3 DEF LookAt

\* A file that is moved in is another one: whoever copied into the one that was there is adrift.
LEMMA MoveInKeeps ==
  ASSUME ApiInv, NEW c \in Calls, MoveIn(c)
  PROVE  ApiInv'
PROOF
<1> DEFINE f == call[c].file
<1>1. /\ Saves(c) /\ save[c] = "cleared" /\ stored' = [stored EXCEPT ![f] = c] /\ Supplants(f, c, "saved")
      /\ UNCHANGED <<goneAway, zip, removes>>
  BY DEF MoveIn
<1>2. PICK how \in {"done", "failed"} : EndSave(c, how)
  BY DEF MoveIn
<1>3. /\ BodyInv' /\ BodiesKept' /\ ZipInv' /\ WorkersInv' /\ temps' \subseteq Calls /\ call' \in [Calls -> CallRecords]
      /\ task' \in [Calls -> {"none", "queued", "running", "stopping", "done", "failed", "canceled", "dropped"}]
      /\ \A d \in Calls : call'[d].kind = call[d].kind /\ call'[d].file = call[d].file /\ call'[d].body = call[d].body
      /\ \A d \in Calls \ {c} : call'[d] = call[d] /\ task'[d] = task[d]
  BY <1>1, <1>2, EndSaveDoes
<1>4. call[c].kind \in Uploads /\ f \in Files /\ call[c].body = "whole"
  BY <1>1, SavesMean
<1>5. /\ stored' \in [Files -> Calls \cup {Seed, NoFile, Torn}] /\ stored'[f] = c /\ \A g \in Files \ {f} : stored'[g] = stored[g]
  BY <1>1, <1>4 DEF ApiInv, ApiTypes
<1>6. c # Torn
  BY ApiAssumption DEF Torn
<1>7. /\ save' \in [Calls -> SaveKinds] /\ save'[c] = "saved"
      /\ \A d \in Calls \ {c} : \/ save'[d] = save[d] /\ (call[d].file = f => save[d] \notin Tears)
                                \/ call[d].file = f /\ save[d] \in Tears /\ save'[d] = "adrift"
  <2>1. save \in [Calls -> SaveKinds]
    BY DEF ApiInv, ApiTypes, SaveKinds
  <2>2. save' = [d \in Calls |-> IF d = c THEN "saved" ELSE IF call[d].file = f /\ save[d] \in Tears THEN "adrift" ELSE save[d]]
    BY <1>1 DEF Supplants, InPlace, Tears
  <2> HIDE DEF f
  <2> QED
    BY <2>1, <2>2 DEF SaveKinds
<1> HIDE DEF f
<1>8. \A d \in Calls : call[d].file = f => save'[d] \notin Tears
  BY <1>7 DEF Tears
<1>9. StoredInv'
  <2>1. f = call[c].file
    BY DEF f
  <2>2. \A d \in Calls : save'[d] # "alone" \/ call[d].file # f
    BY <1>8 DEF Tears
  <2>3. \A d \in Calls : call[d].file # f => save'[d] = save[d]
    BY <1>7, <2>1
  <2>4. \A d \in Calls \ {c} : save'[d] = save[d] \/ (save[d] \in Tears /\ save'[d] \in {"mixed", "adrift"})
    BY <1>7
  <2> QED
    BY <1>3, <1>4, <1>5, <1>6, <1>7, <1>8, <2>1, <2>2, <2>3, <2>4, StoredThen
<1> QED
  BY <1>1, <1>3, <1>5, <1>7, <1>9 DEF ApiInv, ApiTypes, SaveKinds

\* Who opens a file to copy into it tears it, and mixes with whoever copies into it.
LEMMA OpenKeeps ==
  ASSUME ApiInv, NEW c \in Calls, OpenInPlace(c)
  PROVE  ApiInv'
PROOF
<1> DEFINE f == call[c].file
<1>1. Saves(c) /\ save[c] = "cleared" /\ UNCHANGED <<goneAway, zip, removes>>
  BY DEF OpenInPlace
<1>2. CASE EndSave(c, "failed") /\ UNCHANGED <<stored, save>>
  BY <1>1, <1>2, SaveGivenUp
<1>3. CASE /\ stored' = [stored EXCEPT ![f] = Torn] /\ UNCHANGED <<call, task, temps>>
           /\ save' = [d \in Calls |-> IF d = c THEN IF Writing(f) = {} THEN "alone" ELSE "mixed"
                                       ELSE IF d \in Writing(f) THEN "mixed"
                                       ELSE IF call[d].file = f /\ save[d] \in {"mixed", "broken"} THEN "adrift" ELSE save[d]]
  <2>1. call[c].kind \in Uploads /\ f \in Files /\ call[c].body = "whole"
    BY <1>1, SavesMean
  <2>2. /\ stored' \in [Files -> Calls \cup {Seed, NoFile, Torn}] /\ stored'[f] = Torn /\ \A g \in Files \ {f} : stored'[g] = stored[g]
    BY <1>3, <2>1 DEF ApiInv, ApiTypes
  <2>3. \A d \in Writing(f) : d \in Calls /\ call[d].file = f /\ save[d] \in Tears
    BY DEF Writing, InPlace, Tears
  <2>4. \A d \in Calls : call[d].file = f /\ save[d] = "alone" => d \in Writing(f)
    BY DEF ApiInv, StoredInv, AloneInv, Writing, InPlace
  <2>5. save \in [Calls -> SaveKinds]
    BY DEF ApiInv, ApiTypes, SaveKinds
  <2> HIDE DEF f
  <2>6. /\ save' \in [Calls -> SaveKinds] /\ save'[c] = (IF Writing(f) = {} THEN "alone" ELSE "mixed")
        /\ \A d \in Calls \ {c} : save'[d] = (IF d \in Writing(f) THEN "mixed"
                                   ELSE IF call[d].file = f /\ save[d] \in {"mixed", "broken"} THEN "adrift" ELSE save[d])
    BY <1>3, <2>5 DEF SaveKinds
  <2>7. \A d \in Calls \ {c} : save'[d] = save[d] \/ (save[d] \in Tears /\ save'[d] \in {"mixed", "adrift"})
    BY <2>3, <2>6 DEF Tears
  <2>8. \A d \in Calls : call[d].file # f => save'[d] = save[d]
    <3>1. f = call[c].file
      BY DEF f
    <3> QED
      BY <2>3, <2>6, <3>1
  <2>9. save'[c] \in Tears
    BY <2>6 DEF Tears
  <2>10. \A d \in Calls \ {c} : call[d].file = f /\ save'[d] \in Tears => d \in Writing(f) /\ save'[d] = "mixed"
    BY <2>4, <2>6 DEF Tears
  <2>11. \A d \in Calls : save'[d] = "alone" /\ call[d].file = f =>
           Saves(d)' /\ \A e \in Calls \ {d} : call[e].file = f => save'[e] \notin Tears
    <3> SUFFICES ASSUME NEW d \in Calls, save'[d] = "alone", call[d].file = f
                 PROVE  Saves(d)' /\ \A e \in Calls \ {d} : call[e].file = f => save'[e] \notin Tears
      OBVIOUS
    <3>1. d = c
      BY <2>10 DEF Tears
    <3>2. Writing(f) = {}
      BY <2>6, <3>1
    <3>3. Saves(c)'
      BY <1>1, <1>3 DEF Saves
    <3> QED
      BY <2>10, <3>1, <3>2, <3>3
  <2>12. ~(call[c].kind = "write" /\ task[c] = "done") /\ ~(call[c].kind \in {"bucket", "form"} /\ call[c].ans = "ok")
    BY <1>1 DEF ApiInv, StoredInv, StoredIsWhole
  <2>13. f = call[c].file
    BY DEF f
  <2>14. StoredInv'
    <3>1. \E d \in Calls : call[d].file = f /\ save'[d] \in Tears
      BY <2>9, <2>13
    <3>2. UNCHANGED <<call, task>>
      BY <1>3
    <3> QED
      BY <2>1, <2>2, <2>6, <2>7, <2>8, <2>11, <2>12, <2>13, <3>1, <3>2, StoredThen
  <2> QED
    BY <1>1, <1>3, <2>2, <2>6, <2>14, WorkersStay DEF ApiInv, ApiTypes, BodyInv, BodiesKept, TempsAreUsed, ZipInv, SaveKinds
<1> QED
  BY <1>2, <1>3 DEF OpenInPlace

\* Who copies alone to the end leaves a whole file; who breaks off, or mixed, leaves it torn.
LEMMA CopyInKeeps ==
  ASSUME ApiInv, NEW c \in Calls, CopyIn(c)
  PROVE  ApiInv'
PROOF
<1> DEFINE f == call[c].file
<1>1. Saves(c) /\ save[c] \in {"alone", "mixed", "adrift"} /\ UNCHANGED <<goneAway, zip, removes>>
  BY DEF CopyIn, InPlace
<1>2. call[c].kind \in Uploads /\ f \in Files /\ call[c].body = "whole"
  BY <1>1, SavesMean
<1>3. save \in [Calls -> SaveKinds] /\ stored \in [Files -> Calls \cup {Seed, NoFile, Torn}]
  BY DEF ApiInv, ApiTypes, SaveKinds
<1>4. stored[f] = Torn <=> \E d \in Calls : call[d].file = f /\ save[d] \in Tears
  BY <1>2 DEF ApiInv, StoredInv, StoredIsWhole, Tears
<1>5. \A d \in Calls : save[d] = "alone" => Saves(d) /\ \A e \in Calls \ {d} : call[e].file = call[d].file => save[e] \notin Tears
  BY DEF ApiInv, StoredInv, AloneInv
<1>6. c # Torn
  BY ApiAssumption DEF Torn
<1>7. PICK k \in {"saved", "mixed", "adrift", "broken"}, how \in {"done", "failed", "canceled"} :
        /\ save' = [save EXCEPT ![c] = k] /\ EndSave(c, how)
        /\ stored' = (IF k = "saved" THEN [stored EXCEPT ![f] = c] ELSE stored)
        /\ (k = "saved" <=> save[c] = "alone" /\ k # "broken") /\ (k = "mixed" => save[c] = "mixed") /\ (k = "adrift" <=> save[c] = "adrift")
        /\ (how = "done" => k # "broken")
  <2>1. CASE /\ save' = [save EXCEPT ![c] = IF save[c] = "alone" THEN "saved" ELSE save[c]]
             /\ stored' = [stored EXCEPT ![f] = IF save[c] = "alone" THEN c ELSE stored[f]]
             /\ \E how \in {"done", "failed"} : EndSave(c, how)
    <3>1. PICK how \in {"done", "failed"} : EndSave(c, how)
      BY <2>1
    <3>2. CASE save[c] = "alone"
      BY <2>1, <3>1, <3>2
    <3>3. CASE save[c] # "alone"
      <4>1. stored' = stored /\ save' = [save EXCEPT ![c] = save[c]]
        BY <1>3, <2>1, <3>3
      <4> HIDE DEF f
      <4>2. save[c] \in {"mixed", "adrift"}
        BY <1>1, <3>3
      <4> QED
        BY <3>1, <3>3, <4>1, <4>2
    <3> QED
      BY <3>2, <3>3
  <2>2. CASE /\ save' = [save EXCEPT ![c] = IF save[c] = "adrift" THEN save[c] ELSE "broken"] /\ UNCHANGED stored
             /\ \E how \in {"failed", "canceled"} : EndSave(c, how)
    <3>1. PICK how \in {"failed", "canceled"} : EndSave(c, how)
      BY <2>2
    <3> HIDE DEF f
    <3>2. CASE save[c] = "adrift"
      BY <2>2, <3>1, <3>2
    <3>3. CASE save[c] # "adrift"
      BY <2>2, <3>1, <3>3
    <3> QED
      BY <3>2, <3>3
  <2> QED
    BY <2>1, <2>2 DEF CopyIn
<1>8. /\ BodyInv' /\ BodiesKept' /\ ZipInv' /\ WorkersInv' /\ temps' \subseteq Calls /\ call' \in [Calls -> CallRecords]
      /\ task' \in [Calls -> {"none", "queued", "running", "stopping", "done", "failed", "canceled", "dropped"}]
      /\ \A d \in Calls : call'[d].kind = call[d].kind /\ call'[d].file = call[d].file /\ call'[d].body = call[d].body
      /\ \A d \in Calls \ {c} : call'[d] = call[d] /\ task'[d] = task[d]
      /\ how # "done" => ~(call'[c].kind = "write" /\ task'[c] = "done")
      /\ how # "done" => ~(call'[c].kind \in {"bucket", "form"} /\ call'[c].ans = "ok")
  BY <1>1, <1>7, EndSaveDoes
<1>9. save' \in [Calls -> SaveKinds] /\ save'[c] = k /\ \A d \in Calls \ {c} : save'[d] = save[d]
  BY <1>3, <1>7 DEF SaveKinds
<1>10. /\ stored' \in [Files -> Calls \cup {Seed, NoFile, Torn}] /\ stored'[f] = (IF k = "saved" THEN c ELSE stored[f])
       /\ \A g \in Files \ {f} : stored'[g] = stored[g]
  BY <1>2, <1>3, <1>7
<1>f. f = call[c].file
  OBVIOUS
<1> HIDE DEF f
<1>11. stored'[f] = Torn <=> \E d \in Calls : call[d].file = f /\ save'[d] \in Tears
  <2>1. CASE k = "saved"
    <3>1. \A d \in Calls : call[d].file = f => save'[d] \notin Tears
      BY <1>5, <1>7, <1>9, <1>f, <2>1 DEF Tears
    <3> QED
      BY <1>6, <1>10, <2>1, <3>1
  <2>2. CASE k # "saved"
    <3>1. \A d \in Calls : save'[d] \in Tears <=> save[d] \in Tears
      BY <1>1, <1>7, <1>9, <2>2 DEF Tears
    <3> QED
      BY <1>4, <1>10, <2>2, <3>1
  <2> QED
    BY <2>1, <2>2
<1>12. ASSUME NEW d \in Calls, save'[d] = "alone", call[d].file = f
       PROVE  Saves(d)' /\ \A e \in Calls \ {d} : call[e].file = f => save'[e] \notin Tears
  <2>1. d # c /\ save[d] = "alone"
    BY <1>9, <1>12
  <2>2. Saves(d)'
    BY <1>5, <1>8, <2>1 DEF Saves
  <2>3. \A e \in Calls \ {d} : call[e].file = f => save[e] \notin Tears
    BY <1>5, <1>12, <2>1
  <2>4. save[c] \notin Tears
    BY <1>f, <2>1, <2>3
  <2>5. k = "adrift"
    BY <1>1, <1>7, <2>4 DEF Tears
  <2> QED
    BY <1>9, <2>2, <2>3, <2>5 DEF Tears
<1>13. StoredInv'
  <2>1. (call'[c].kind = "write" /\ task'[c] = "done") \/ (call'[c].kind \in {"bucket", "form"} /\ call'[c].ans = "ok")
           => save'[c] \in {"saved", "mixed", "adrift"}
    BY <1>7, <1>8, <1>9
  <2>2. \A d \in Calls : call[d].file # f => save'[d] = save[d]
    BY <1>9, <1>f
  <2> QED
    BY <1>2, <1>8, <1>9, <1>10, <1>11, <1>12, <1>f, <2>1, <2>2, StoredThen
<1> QED
  BY <1>1, <1>8, <1>9, <1>10, <1>13 DEF ApiInv, ApiTypes, SaveKinds

LEMMA StopTaskKeeps ==
  ASSUME ApiInv, NEW c \in Calls, StopTask(c)
  PROVE  ApiInv'
PROOF
<1>1. /\ task[c] \in {"queued", "running"} /\ UNCHANGED <<call, temps, stored, save, goneAway, zip, removes>>
      /\ task' = [task EXCEPT ![c] = IF task[c] = "queued" THEN "dropped" ELSE "stopping"]
  BY DEF StopTask
<1>2. PICK t \in {"dropped", "stopping"} :
        task' = [task EXCEPT ![c] = t] /\ (t = "stopping" => task[c] = "running") /\ (t = "dropped" => task[c] = "queued")
  BY <1>1
<1>3. /\ BodyInv' /\ BodiesKept' /\ ZipInv'
      /\ task' \in [Calls -> {"none", "queued", "running", "stopping", "done", "failed", "canceled", "dropped"}]
  BY <1>1, <1>2, TaskKeeps
<1>4. WorkersInv'
  BY <1>2, WorkersKept DEF ApiInv
<1> QED
  BY <1>1, <1>2, <1>3, <1>4, TaskRests DEF ApiInv, ApiTypes

\* A request has no temporary file once it only waits for its task.
LEMMA EndStreamKeeps ==
  ASSUME ApiInv, NEW c \in Calls, EndStream(c)
  PROVE  ApiInv'
PROOF
<1>1. /\ call[c].kind = "stream" /\ task[c] \in {"running", "stopping"} /\ task' = [task EXCEPT ![c] = "done"]
      /\ UNCHANGED <<call, temps, stored, save, goneAway, zip, removes>>
  BY DEF EndStream
<1>2. c \notin temps
  BY <1>1 DEF ApiInv, BodiesKept
<1>3. /\ BodyInv' /\ BodiesKept' /\ ZipInv'
      /\ task' \in [Calls -> {"none", "queued", "running", "stopping", "done", "failed", "canceled", "dropped"}]
  BY <1>1, <1>2, TaskKeeps
<1>4. WorkersInv'
  BY <1>1, WorkersKept DEF ApiInv
<1> QED
  BY <1>1, <1>3, <1>4, TaskRests DEF ApiInv, ApiTypes

LEMMA AnswerTaskKeeps ==
  ASSUME ApiInv, NEW c \in Calls, AnswerTask(c)
  PROVE  ApiInv'
PROOF
<1>1. /\ call[c].kind = "write" /\ call[c].at = "waiting" /\ EndCall(c, "ok")
      /\ UNCHANGED <<task, temps, stored, save, goneAway, zip, removes>>
  BY DEF AnswerTask, At
<1>2. /\ call' \in [Calls -> CallRecords] /\ \A d \in Calls \ {c} : call'[d] = call[d]
      /\ call'[c].kind = call[c].kind /\ call'[c].at = "ended" /\ call'[c].file = call[c].file
      /\ call'[c].body = call[c].body /\ call'[c].ans = "ok"
  BY <1>1, EndCallDoes DEF ApiInv
<1>3. BodyInv'
  BY <1>1, <1>2 DEF ApiInv, BodyInv, Uploads
<1>4. BodiesKept'
  BY <1>1, <1>2 DEF ApiInv, BodiesKept, TempsAreUsed, ApiTypes
<1>5. call'[c].kind # "zip" /\ call'[c].at \in {"zipping", "ended"}
  BY <1>1, <1>2
<1>6. StoredInv' /\ ZipInv' /\ WorkersInv'
  BY <1>1, <1>2, <1>5, StoredRests, ZipStays, WorkersStay DEF ApiInv
<1> QED
  BY <1>1, <1>2, <1>3, <1>4, <1>6 DEF ApiInv, ApiTypes

LEMMA StreamReadyKeeps ==
  ASSUME ApiInv, NEW c \in Calls, StreamReady(c)
  PROVE  ApiInv'
PROOF
<1>1. /\ call[c].kind = "stream" /\ call[c].at = "ready" /\ GoesTo(c, "streaming")
      /\ UNCHANGED <<task, temps, stored, save, goneAway, zip, removes>>
  BY DEF StreamReady, At
<1>2. /\ call' \in [Calls -> CallRecords] /\ \A d \in Calls \ {c} : call'[d] = call[d]
      /\ call'[c].kind = call[c].kind /\ call'[c].at = "streaming" /\ call'[c].file = call[c].file
      /\ call'[c].body = call[c].body /\ call'[c].ans = call[c].ans
  BY <1>1, GoesToDoes DEF ApiInv
<1>3. BodyInv'
  BY <1>1, <1>2 DEF ApiInv, BodyInv, Uploads
<1>4. BodiesKept'
  BY <1>1, <1>2 DEF ApiInv, BodiesKept, TempsAreUsed, ApiTypes
<1>5. call'[c].kind # "zip" /\ call[c].at \notin {"zipping", "ended"}
  BY <1>1, <1>2
<1>6. StoredInv' /\ ZipInv' /\ WorkersInv'
  BY <1>1, <1>2, <1>5, StoredRests, ZipStays, WorkersStay DEF ApiInv
<1> QED
  BY <1>1, <1>2, <1>3, <1>4, <1>6 DEF ApiInv, ApiTypes

\* The stream ends with its task, or its client has gone and the task is told.
LEMMA FinishStreamKeeps ==
  ASSUME ApiInv, NEW c \in Calls, FinishStream(c)
  PROVE  ApiInv'
PROOF
<1>1. /\ call[c].kind = "stream" /\ call[c].at = "streaming" /\ EndCall(c, "ok")
      /\ UNCHANGED <<temps, stored, save, goneAway, zip, removes>>
  BY DEF FinishStream, At
<1>2. /\ call' \in [Calls -> CallRecords] /\ \A d \in Calls \ {c} : call'[d] = call[d]
      /\ call'[c].kind = call[c].kind /\ call'[c].at = "ended" /\ call'[c].file = call[c].file
      /\ call'[c].body = call[c].body /\ call'[c].ans = "ok"
  BY <1>1, EndCallDoes DEF ApiInv
<1>3. /\ UNCHANGED task \/ (task[c] = "running" /\ task' = [task EXCEPT ![c] = "stopping"])
  BY DEF FinishStream, ApiInv, ApiTypes
<1>4. /\ task' \in [Calls -> {"none", "queued", "running", "stopping", "done", "failed", "canceled", "dropped"}]
      /\ \A d \in Calls : task'[d] = task[d] \/ (d = c /\ task'[d] = "stopping")
  BY <1>3 DEF ApiInv, ApiTypes
<1>5. WorkersInv'
  BY <1>3, WorkersStay, WorkersKept DEF ApiInv
<1>6. c \notin temps
  BY <1>1 DEF ApiInv, BodiesKept
<1>7. BodyInv'
  BY <1>1, <1>2, <1>4 DEF ApiInv, BodyInv, Uploads
<1>8. BodiesKept'
  BY <1>1, <1>2, <1>4, <1>6 DEF ApiInv, BodiesKept, TempsAreUsed, ApiTypes
<1>9. call'[c].kind # "zip" /\ call'[c].at \in {"zipping", "ended"}
  BY <1>1, <1>2
<1>10. StoredInv' /\ ZipInv'
  <2>1. ~Saves(c) /\ call[c].kind \notin {"write", "bucket", "form"}
    BY <1>1 DEF Saves
  <2>2. \A d \in Calls \ {c} : task'[d] = task[d]
    BY <1>4
  <2>3. StoredInv'
    BY <1>1, <1>2, <2>1, <2>2, StoredStays DEF ApiInv
  <2> QED
    BY <1>1, <1>2, <1>9, <2>3, ZipStays DEF ApiInv
<1> QED
  BY <1>1, <1>2, <1>4, <1>5, <1>7, <1>8, <1>10 DEF ApiInv, ApiTypes
-----------------------------------------------------------------------------
\* A zip's request that ends without success.
LEMMA ZipGivenUp ==
  ASSUME ApiInv, NEW c \in Calls, NEW a \in {"error", "cut"}, call[c].kind = "zip", EndCall(c, a),
         UNCHANGED <<task, temps, stored, save, zip, removes>>
  PROVE  ApiInv'
PROOF
<1>1. /\ call' \in [Calls -> CallRecords] /\ \A d \in Calls \ {c} : call'[d] = call[d]
      /\ call'[c].kind = call[c].kind /\ call'[c].at = "ended" /\ call'[c].file = call[c].file
      /\ call'[c].body = call[c].body /\ call'[c].ans = a
  BY EndCallDoes DEF ApiInv
<1>2. BodyInv'
  BY <1>1 DEF ApiInv, BodyInv, Uploads
<1>3. BodiesKept'
  BY <1>1 DEF ApiInv, BodiesKept, TempsAreUsed, ApiTypes
<1>4. StoredInv' /\ ZipInv' /\ WorkersInv'
  BY <1>1, StoredRests, ZipStays, WorkersStay DEF ApiInv
<1> QED
  BY <1>1, <1>2, <1>3, <1>4 DEF ApiInv, ApiTypes

LEMMA AsksAreSeqs == \A ask \in SetToAllKPermutations(Files) : ask \in Seq(Files)
PROOF
<1> SUFFICES ASSUME NEW S \in SUBSET Files, NEW ask \in SetToSeqs(S) PROVE ask \in Seq(Files)
  BY DEF SetToAllKPermutations
<1>1. IsFiniteSet(S)
  BY FS_Subset, ApiAssumption
<1>2. ask \in [1 .. Cardinality(S) -> Files] /\ Cardinality(S) \in Nat
  BY <1>1, FS_CardinalityType DEF SetToSeqs
<1> QED
  BY <1>2, SeqDef

LEMMA BuildZipKeeps ==
  ASSUME ApiInv, NEW c \in Calls, NEW ask \in Seq(Files), BuildZip(c, ask)
  PROVE  ApiInv'
PROOF
<1>1. /\ call[c].kind = "zip" /\ call[c].at = "begun" /\ UNCHANGED <<task, temps, stored, save, goneAway, removes>>
  BY DEF BuildZip, At
<1>2. CASE EndCall(c, "error") /\ UNCHANGED zip
  BY <1>1, <1>2, ZipGivenUp
<1>3. CASE GoesTo(c, "zipping") /\ zip' = [zip EXCEPT ![c].tree = ask]
  <2>1. /\ call' \in [Calls -> CallRecords] /\ \A d \in Calls \ {c} : call'[d] = call[d]
        /\ call'[c].kind = call[c].kind /\ call'[c].at = "zipping" /\ call'[c].file = call[c].file
        /\ call'[c].body = call[c].body /\ call'[c].ans = call[c].ans
    BY <1>3, GoesToDoes DEF ApiInv
  <2>2. /\ zip' \in [Calls -> [tree : Seq(Files), put : Seq(Files)]]
        /\ zip'[c].tree = ask /\ zip'[c].put = zip[c].put /\ \A d \in Calls \ {c} : zip'[d] = zip[d]
    BY <1>3 DEF ApiInv, ApiTypes
  <2>3. zip[c].put = <<>> /\ call[c].ans = "none"
    BY <1>1 DEF ApiInv, ZipInv
  <2>4. Len(zip'[c].put) \in 0 .. Len(ask) /\ zip'[c].put = SubSeq(ask, 1, Len(zip'[c].put))
    <3>1. Len(<<>>) = 0 /\ Len(ask) \in Nat
      OBVIOUS
    <3>2. SubSeq(ask, 1, 0) = <<>>
      BY SubSeqEmpty
    <3> QED
      BY <2>2, <2>3, <3>1, <3>2
  <2>5. ZipInv'
    <3>1. ASSUME NEW d \in Calls \ {c}
          PROVE  zip'[d] = zip[d] /\ call'[d] = call[d]
      BY <2>1, <2>2
    <3>2. zip'[c].put = <<>> /\ call'[c].ans = "none"
      BY <2>1, <2>2, <2>3
    <3>3. Len(zip'[c].put) \in 0 .. Len(zip'[c].tree) /\ zip'[c].put = SubSeq(zip'[c].tree, 1, Len(zip'[c].put))
      BY <2>2, <2>4
    <3> QED
      BY <2>1, <3>1, <3>2, <3>3 DEF ApiInv, ZipInv
  <2>6. BodyInv'
    BY <1>1, <2>1 DEF ApiInv, BodyInv, Uploads
  <2>7. BodiesKept'
    BY <1>1, <2>1 DEF ApiInv, BodiesKept, TempsAreUsed, ApiTypes
  <2>8. StoredInv' /\ WorkersInv'
    BY <1>1, <2>1, StoredRests, WorkersStay DEF ApiInv
  <2> QED
    BY <1>1, <2>1, <2>2, <2>5, <2>6, <2>7, <2>8 DEF ApiInv, ApiTypes
<1> QED
  BY <1>2, <1>3 DEF BuildZip

\* One entry more: the next of those that were asked for.
LEMMA VisitZipKeeps ==
  ASSUME ApiInv, NEW c \in Calls, VisitZip(c)
  PROVE  ApiInv'
PROOF
<1> DEFINE tree == zip[c].tree
           put == zip[c].put
<1>1. /\ call[c].kind = "zip" /\ call[c].at = "zipping" /\ Rest(c) # <<>>
      /\ UNCHANGED <<task, temps, stored, save, goneAway, removes>>
  BY DEF VisitZip, At
<1>2. CASE EndCall(c, "cut") /\ UNCHANGED zip
  BY <1>1, <1>2, ZipGivenUp
<1>3. CASE zip' = [zip EXCEPT ![c].put = Append(@, Head(Rest(c)))] /\ UNCHANGED call
  <2>1. tree \in Seq(Files) /\ put \in Seq(Files) /\ Len(put) \in 0 .. Len(tree) /\ put = SubSeq(tree, 1, Len(put))
    BY DEF ApiInv, ApiTypes, ZipInv
  <2>2. Rest(c) = SubSeq(tree, Len(put) + 1, Len(tree))
    BY DEF Rest
  <2>3. zip \in [Calls -> [tree : Seq(Files), put : Seq(Files)]]
    BY DEF ApiInv, ApiTypes
  <2>4. zip'[c] = [zip[c] EXCEPT !.put = Append(put, Head(Rest(c)))] /\ \A d \in Calls \ {c} : zip'[d] = zip[d]
    BY <1>3, <2>3
  <2>5. zip'[c].tree = tree /\ zip'[c].put = Append(put, Head(Rest(c)))
    BY <2>3, <2>4
  <2> DEFINE k == Len(put) + 1
  <2> HIDE DEF tree, put
  <2>6. k \in 1 .. Len(tree)
    <3>1. Len(put) \in Nat /\ Len(tree) \in Nat
      BY <2>1
    <3>2. CASE Len(put) = Len(tree)
      <4>1. Rest(c) = <<>>
        BY <2>1, <2>2, <3>1, <3>2, SubSeqEmpty
      <4> QED
        BY <1>1, <4>1
    <3> QED
      BY <2>1, <3>1, <3>2
  <2>7. Head(Rest(c)) = tree[k]
    BY <2>1, <2>2, <2>6, HeadTailOfSubSeq
  <2>8. Append(put, tree[k]) = SubSeq(tree, 1, k)
    <3>1. SubSeq(tree, 1, k) = SubSeq(tree, 1, k - 1) \o <<tree[k]>>
      BY <2>1, <2>6, SubSeqRecursiveSecond
    <3>2. k - 1 = Len(put)
      BY <2>1
    <3>3. Append(put, tree[k]) = put \o <<tree[k]>>
      BY <2>1, <2>6, AppendIsConcat
    <3> QED
      BY <2>1, <3>1, <3>2, <3>3
  <2>9. Append(put, tree[k]) \in Seq(Files) /\ Len(Append(put, tree[k])) = k
    BY <2>1, <2>6
  <2> HIDE DEF k
  <2>10. /\ Len(zip'[c].put) \in 0 .. Len(zip'[c].tree) /\ zip'[c].put = SubSeq(zip'[c].tree, 1, Len(zip'[c].put))
    BY <2>5, <2>6, <2>7, <2>8, <2>9
  <2>11. zip' \in [Calls -> [tree : Seq(Files), put : Seq(Files)]]
    <3>1. zip'[c] \in [tree : Seq(Files), put : Seq(Files)]
      BY <2>3, <2>4, <2>7, <2>9
    <3>2. zip' = [zip EXCEPT ![c] = zip'[c]]
      BY <1>3, <2>3
    <3> QED
      BY <2>3, <3>1, <3>2
  <2>12. call[c].ans = "none"
    BY <1>1 DEF ApiInv, ZipInv
  <2>13. ZipInv'
    BY <1>1, <1>3, <2>4, <2>10, <2>12 DEF ApiInv, ZipInv
  <2> QED
    BY <1>1, <1>3, <2>11, <2>13, WorkersStay, StoredRests
    DEF ApiInv, ApiTypes, BodyInv, BodiesKept, TempsAreUsed
<1> QED
  BY <1>2, <1>3 DEF VisitZip

\* A zip ends when nothing is left of what was asked for.
LEMMA EndZipKeeps ==
  ASSUME ApiInv, NEW c \in Calls, EndZip(c)
  PROVE  ApiInv'
PROOF
<1> DEFINE tree == zip[c].tree
           put == zip[c].put
<1>1. /\ call[c].kind = "zip" /\ call[c].at = "zipping" /\ Rest(c) = <<>> /\ EndCall(c, "ok")
      /\ UNCHANGED <<task, temps, stored, save, goneAway, zip, removes>>
  BY DEF EndZip, At
<1>2. /\ call' \in [Calls -> CallRecords] /\ \A d \in Calls \ {c} : call'[d] = call[d]
      /\ call'[c].kind = call[c].kind /\ call'[c].at = "ended" /\ call'[c].file = call[c].file
      /\ call'[c].body = call[c].body /\ call'[c].ans = "ok"
  BY <1>1, EndCallDoes DEF ApiInv
<1>3. put = tree
  <2>1. tree \in Seq(Files) /\ put \in Seq(Files) /\ Len(put) \in 0 .. Len(tree) /\ put = SubSeq(tree, 1, Len(put))
    BY DEF ApiInv, ApiTypes, ZipInv
  <2>2. SubSeq(tree, Len(put) + 1, Len(tree)) = <<>>
    BY <1>1 DEF Rest
  <2> HIDE DEF tree, put
  <2>3. Len(put) = Len(tree)
    <3>1. \A i \in Len(put) + 1 .. Len(tree) : tree[i] \in Files
      BY <2>1
    <3>2. Len(put) + 1 \in Int /\ Len(tree) \in Int
      BY <2>1
    <3>3. Len(SubSeq(tree, Len(put) + 1, Len(tree))) = IF Len(put) + 1 <= Len(tree) THEN Len(tree) - (Len(put) + 1) + 1 ELSE 0
      BY <3>1, <3>2, SubSeqProperties
    <3>4. Len(SubSeq(tree, Len(put) + 1, Len(tree))) = 0
      <4>1. Len(<<>>) = 0
        OBVIOUS
      <4> QED
        BY <2>2, <4>1, Zenon
    <3>5. Len(put) \in Nat /\ Len(tree) \in Nat /\ Len(put) <= Len(tree)
      BY <2>1
    <3> QED
      BY <3>3, <3>4, <3>5
  <2> QED
    BY <2>1, <2>3, SubSeqFull
<1>4. BodyInv'
  BY <1>1, <1>2 DEF ApiInv, BodyInv, Uploads
<1>5. BodiesKept'
  BY <1>1, <1>2 DEF ApiInv, BodiesKept, TempsAreUsed, ApiTypes
<1>6. StoredInv' /\ WorkersInv'
  BY <1>1, <1>2, StoredRests, WorkersStay DEF ApiInv
<1>7. ZipInv'
  BY <1>1, <1>2, <1>3 DEF ApiInv, ZipInv
<1> QED
  BY <1>1, <1>2, <1>4, <1>5, <1>6, <1>7 DEF ApiInv, ApiTypes

LEMMA RemoveFileKeeps ==
  ASSUME ApiInv, NEW f \in Files, RemoveFile(f)
  PROVE  ApiInv'
PROOF
<1>1. /\ removes < MaxRemoves /\ stored' = [stored EXCEPT ![f] = NoFile] /\ removes' = removes + 1
      /\ UNCHANGED <<call, task, temps, goneAway, zip>>
  BY DEF RemoveFile
<1>2. /\ stored' \in [Files -> Calls \cup {Seed, NoFile, Torn}] /\ stored'[f] = NoFile
      /\ \A g \in Files \ {f} : stored'[g] = stored[g]
  BY <1>1 DEF ApiInv, ApiTypes
<1>3. NoFile \notin Calls /\ NoFile # Torn
  BY ApiAssumption DEF NoFile, Torn
<1>s. /\ save' \in [Calls -> {"none", "cleared", "alone", "mixed", "adrift", "broken", "saved"}]
      /\ \A d \in Calls : save'[d] = save[d] \/ (call[d].file = f /\ save[d] \in Tears /\ save'[d] = "adrift")
      /\ \A d \in Calls : call[d].file = f => save'[d] \notin Tears
  <2>1. save \in [Calls -> {"none", "cleared", "alone", "mixed", "adrift", "broken", "saved"}]
    BY DEF ApiInv, ApiTypes
  <2>2. save' = [d \in Calls |-> IF call[d].file = f /\ save[d] \in Tears THEN "adrift" ELSE save[d]]
    BY <1>1, <1>3 DEF RemoveFile, Supplants, InPlace, Tears
  <2> QED
    BY <2>1, <2>2 DEF Tears
<1>u. UNCHANGED <<call, task>>
  BY <1>1
<1>4. StoredInv'
  <2>1. AloneInv'
    BY <1>u, <1>s DEF ApiInv, StoredInv, AloneInv, Tears, Saves
  <2>2. StoredIsWhole'
    <3>1. \A g \in Files : stored'[g] \in Calls => call'[stored'[g]].body = "whole" /\ call'[stored'[g]].file = g
      BY <1>u, <1>2, <1>3 DEF ApiInv, StoredInv, StoredIsWhole
    <3>2. ASSUME NEW g \in Files
          PROVE  stored'[g] = Torn <=> \E d \in Calls : call'[d].file = g /\ save'[d] \in {"alone", "mixed", "broken"}
      <4>1. CASE g = f
        BY <1>u, <1>2, <1>3, <1>s, <4>1 DEF Tears
      <4>2. CASE g # f
        <5>1. \A d \in Calls : call[d].file = g => save'[d] = save[d]
          BY <1>s, <4>2
        <5> QED
          BY <1>u, <1>2, <4>2, <5>1 DEF ApiInv, StoredInv, StoredIsWhole
      <4> QED
        BY <4>1, <4>2
    <3>3. \A d \in Calls : save'[d] # "none" => call'[d].body = "whole"
      BY <1>u, <1>s DEF ApiInv, StoredInv, StoredIsWhole, Tears
    <3>4. \A d \in Calls :
            (call'[d].kind = "write" /\ task'[d] = "done") \/ (call'[d].kind \in {"bucket", "form"} /\ call'[d].ans = "ok")
              => save'[d] \in {"saved", "mixed", "adrift"}
      BY <1>u, <1>s DEF ApiInv, StoredInv, StoredIsWhole
    <3> QED
      BY <3>1, <3>2, <3>3, <3>4 DEF StoredIsWhole
  <2>3. /\ \A g \in Files : stored'[g] \in Calls => call'[stored'[g]].kind # "none"
        /\ \A d \in Calls : save'[d] # "none" => call'[d].kind \in Uploads
    BY <1>u, <1>2, <1>3, <1>s DEF ApiInv, StoredInv, Tears
  <2> QED
    BY <2>1, <2>2, <2>3 DEF StoredInv
<1>5. removes' \in 0 .. MaxRemoves
  BY <1>1, ApiAssumption DEF ApiInv, ApiTypes
<1> QED
  BY <1>1, <1>2, <1>s, <1>4, <1>5, WorkersStay DEF ApiInv, ApiTypes, BodyInv, BodiesKept, TempsAreUsed, ZipInv

LEMMA ApiInitially == ApiInit => ApiInv
PROOF
<1> SUFFICES ASSUME ApiInit PROVE ApiInv
  OBVIOUS
<1>1. Here \in CallRecords /\ Here.kind = "none" /\ Here.at = "none" /\ Here.ans = "none"
  BY DEF Here, CallRecords, Body
<1>2. <<>> \in Seq(Files) /\ Len(<<>>) = 0 /\ SubSeq(<<>>, 1, 0) = <<>>
  BY SubSeqEmpty
<1>3. \A c \in Calls : zip[c].tree = <<>> /\ zip[c].put = <<>>
  BY DEF ApiInit, NoZip
<1>4. zip \in [Calls -> [tree : Seq(Files), put : Seq(Files)]]
  BY <1>2 DEF ApiInit, NoZip
<1>5. ApiTypes
  BY <1>1, <1>4, ApiAssumption DEF ApiInit, ApiTypes
<1>6. BodyInv /\ BodiesKept
  BY <1>1 DEF ApiInit, BodyInv, Uploads, BodiesKept, TempsAreUsed
<1>7. StoredInv
  BY <1>1, ApiAssumption DEF ApiInit, StoredInv, StoredIsWhole, AloneInv, Seed, NoFile, Torn
<1>8. ZipInv
  <2>1. ASSUME NEW c \in Calls
        PROVE  /\ Len(zip[c].put) = 0 /\ Len(zip[c].tree) = 0 /\ zip[c].put = SubSeq(zip[c].tree, 1, Len(zip[c].put))
               /\ call[c] = Here /\ zip[c].put = zip[c].tree
    BY <1>2, <1>3 DEF ApiInit
  <2> QED
    BY <1>1, <1>3, <2>1 DEF ZipInv
<1>9. WorkersInv
  <2>1. Running = {}
    BY DEF ApiInit, Running
  <2> QED
    BY <2>1, FS_EmptySet, ApiAssumption DEF WorkersInv
<1> QED
  BY <1>5, <1>6, <1>7, <1>8, <1>9 DEF ApiInv

LEMMA ApiStep == ApiInv /\ [ApiNext]_apiVars => ApiInv'
PROOF
<1> SUFFICES ASSUME ApiInv, [ApiNext]_apiVars PROVE ApiInv'
  OBVIOUS
<1>1. ASSUME NEW c \in Calls, NEW f \in Files, NEW b \in Body, NEW o \in BOOLEAN,
                          NEW k \in {"bucket", "form"}, BeginCall(c, "write", f, b, o) \/ BeginCall(c, k, f, b, FALSE)
      PROVE  ApiInv'
  BY <1>1, BeginCallKeeps
<1>2. ASSUME NEW c \in Calls, NEW k \in {"stream", "zip"}, BeginCall(c, k, "none", "whole", FALSE)
      PROVE  ApiInv'
  BY <1>2, BeginCallKeeps DEF Body, Uploads
<1>3. ASSUME NEW c \in Calls, NEW ask \in SetToAllKPermutations(Files), BuildZip(c, ask)
      PROVE  ApiInv'
  BY <1>3, AsksAreSeqs, BuildZipKeeps
<1>4. ASSUME NEW c \in Calls, ApiSteps(c)
      PROVE  ApiInv'
  BY <1>4, ReadBodyKeeps, CheckBodyKeeps, ReadFormKeeps, SubmitKeeps, AnswerTaskKeeps, StreamReadyKeeps,
     FinishStreamKeeps, VisitZipKeeps, EndZipKeeps DEF ApiSteps
<1>5. ASSUME NEW c \in Calls, SaveSteps(c) \/ TaskSteps(c) \/ StopTask(c)
      PROVE  ApiInv'
  BY <1>5, StartTaskKeeps, LookAtKeeps, MoveInKeeps, OpenKeeps, CopyInKeeps, EndStreamKeeps, StopTaskKeeps DEF SaveSteps, TaskSteps
<1>6. ASSUME UNCHANGED <<call, task, temps, stored, save, zip, removes>>
      PROVE  ApiInv'
  BY <1>6 DEF ApiInv, ApiTypes, BodyInv, BodiesKept, TempsAreUsed, StoredInv, StoredIsWhole, AloneInv, Saves, ZipInv, WorkersInv, Running
<1>7. ASSUME NEW c \in Calls, GoAway(c)
      PROVE  ApiInv'
  BY <1>6, <1>7 DEF GoAway
<1>8. CASE UNCHANGED apiVars
  BY <1>6, <1>8 DEF apiVars
<1> QED
  BY <1>1, <1>2, <1>3, <1>4, <1>5, <1>7, <1>8, RemoveFileKeeps DEF ApiNext

\* The invariant of the requests of the API that transfer data, for any requests and files.
THEOREM ApiInvariant == ApiSpec => []ApiInv
PROOF
  BY ApiInitially, ApiStep, PTL DEF ApiSpec

\* A file holds a whole body unless a save in place is under way, broke off or met another,
\* who is told that a save went well is told so of all of it, zips are whole, and temporary
\* files are used, for any requests, workers and files (server/api_drive.go, utils.go,
\* drive/fs/index.go).
THEOREM TransfersHoldCorrect == ApiSpec => []TransfersHold
PROOF
<1>1. ApiInv => ApiTypeOK
  BY DEF ApiInv, ApiTypes, WorkersInv, Running, ApiTypeOK
<1>2. ApiInv => ZipIsWhole
  BY DEF ApiInv, ZipInv, ZipIsWhole
<1>3. ApiInv => TransfersHold
  BY <1>1, <1>2 DEF ApiInv, BodiesKept, StoredInv, TransfersHold
<1> QED
  BY <1>3, ApiInvariant, PTL
-----------------------------------------------------------------------------
(* Thumbnails.                                                            *)

ThumbFiles == [meta : 1 .. MaxVersion, by : SUBSET Viewers, done : SUBSET Viewers]

ThumbTypes ==
  /\ ThumbsTypeOK /\ thumbs \in Seq(ThumbFiles) /\ destFile \in Nat /\ lockFile \in Nat
  /\ \A v \in Viewers : viewed[v] \in Nat

\* The lock file is the last that was made: what was renamed or shown is older.
LockInv ==
  /\ lockFile # 0 => lockFile = Len(thumbs) /\ destFile < lockFile
  /\ \A v \in Viewers : viewing[v] = "shown" => viewed[v] # 0 /\ (lockFile # 0 => viewed[v] < lockFile)

Making == {"create", "make", "rename", "drop"}
\* Whose the lock file is.
MakerInv == lockFile # 0 => leftover \/ \E v \in Viewers : viewing[v] \in Making

\* As long as no two tasks wrote one file, each has the lock file for itself.
WholeInv ==
  together \/
    /\ \A v \in Viewers :
         /\ viewing[v] \in {"make", "rename", "drop"} => lockFile # 0 /\ thumbs[lockFile].by = {v}
         /\ viewing[v] = "make" => thumbs[lockFile].done = {}
         /\ viewing[v] = "rename" => thumbs[lockFile].done = {v}
         /\ viewing[v] = "shown" => WholeThumb(viewed[v])
    /\ destFile # 0 => WholeThumb(destFile)

\* As long as no tasks for different versions met, there are only files of the one they are for.
Later == {"resolve", "exists", "locked", "create", "make", "rename", "drop", "wait", "open"}
EntryInv ==
  mixed \/
    \A v \in Viewers :
      /\ \A w \in Viewers : viewing[v] \notin Resting /\ viewing[w] \notin Resting => entryOf[v] = entryOf[w]
      /\ viewing[v] \in Later /\ destFile # 0 => thumbs[destFile].meta = entryOf[v]
      /\ viewing[v] \in {"make", "rename"} /\ lockFile # 0 => thumbs[lockFile].meta = entryOf[v]
      /\ viewing[v] = "shown" => thumbs[viewed[v]].meta = entryOf[v]

ThumbInv == ThumbTypes /\ LockInv /\ MakerInv /\ WholeInv /\ EntryInv

Stages == Working \cup Resting \cup {"cache", "expired", "resolve", "wait", "open"}
-----------------------------------------------------------------------------
LEMMA GoesDoes ==
  ASSUME ThumbTypes, NEW v \in Viewers, NEW s \in Stages, Goes(v, s)
  PROVE  viewing' \in [Viewers -> Stages] /\ viewing'[v] = s /\ \A w \in Viewers \ {v} : viewing'[w] = viewing[w]
PROOF
  BY DEF ThumbTypes, ThumbsTypeOK, Stages, Goes

\* A step that goes on without touching a file.
LEMMA GoingOn ==
  ASSUME ThumbInv, NEW v \in Viewers, NEW s \in Stages, Goes(v, s),
         UNCHANGED <<version, thumbs, destFile, lockFile, entryOf, viewed, leftover, together, mixed>>,
         s \notin {"make", "rename", "shown"} \cup Resting \cup {"drop"} \/ s = "failed",
         viewing[v] \notin Making \/ s = "create", viewing[v] \notin Resting,
         s \in Later => viewing[v] \in Later \/ destFile = 0,
         handlers' \in [Viewers -> 0 .. 2], gone' \subseteq Viewers
  PROVE  ThumbInv'
PROOF
<1>1. viewing' \in [Viewers -> Stages] /\ viewing'[v] = s /\ \A w \in Viewers \ {v} : viewing'[w] = viewing[w]
  BY GoesDoes DEF ThumbInv
<1>2. ThumbTypes'
  BY <1>1 DEF ThumbInv, ThumbTypes, ThumbsTypeOK, Stages
<1>3. LockInv'
  BY <1>1 DEF ThumbInv, LockInv, Resting
<1>4. MakerInv'
  BY <1>1 DEF ThumbInv, MakerInv, Making
<1>5. WholeInv'
  BY <1>1 DEF ThumbInv, WholeInv, WholeThumb, Resting
<1>6. EntryInv'
  <2> SUFFICES ASSUME ~mixed PROVE EntryInv'
    BY DEF EntryInv
  <2>1. \A w \in Viewers : viewing'[w] \notin Resting => viewing[w] \notin Resting
    BY <1>1
  <2>2. ASSUME NEW w \in Viewers
        PROVE  /\ viewing'[w] \in Later => viewing[w] \in Later \/ destFile = 0
               /\ viewing'[w] \in {"make", "rename", "shown"} => viewing'[w] = viewing[w]
    BY <1>1 DEF Resting
  <2> QED
    BY <2>1, <2>2 DEF ThumbInv, EntryInv
<1> QED
  BY <1>2, <1>3, <1>4, <1>5, <1>6 DEF ThumbInv

LEMMA AskThumbKeeps ==
  ASSUME ThumbInv, NEW v \in Viewers, AskThumb(v)
  PROVE  ThumbInv'
PROOF
<1>1. /\ viewing[v] \in Resting /\ Goes(v, "cache") /\ entryOf' = [entryOf EXCEPT ![v] = version]
      /\ mixed' = (mixed \/ \E w \in Viewers \ {v} : viewing[w] \notin Resting /\ entryOf[w] # version)
      /\ viewed' = [viewed EXCEPT ![v] = 0]
      /\ UNCHANGED <<version, thumbs, destFile, lockFile, handlers, gone, leftover, together>>
  BY DEF AskThumb
<1>2. viewing' \in [Viewers -> Stages] /\ viewing'[v] = "cache" /\ \A w \in Viewers \ {v} : viewing'[w] = viewing[w]
  BY <1>1, GoesDoes DEF ThumbInv, Stages
<1>3. /\ entryOf' \in [Viewers -> 1 .. MaxVersion] /\ viewed' \in [Viewers -> 0 .. Len(thumbs)]
      /\ entryOf'[v] = version /\ viewed'[v] = 0
      /\ \A w \in Viewers \ {v} : entryOf'[w] = entryOf[w] /\ viewed'[w] = viewed[w]
  BY <1>1 DEF ThumbInv, ThumbTypes, ThumbsTypeOK
<1>4. ThumbTypes'
  BY <1>1, <1>2, <1>3 DEF ThumbInv, ThumbTypes, ThumbsTypeOK, Stages
<1>5. LockInv'
  BY <1>1, <1>2, <1>3 DEF ThumbInv, LockInv
<1>6. MakerInv'
  BY <1>1, <1>2 DEF ThumbInv, MakerInv, Making, Resting
<1>7. WholeInv'
  BY <1>1, <1>2, <1>3 DEF ThumbInv, WholeInv, WholeThumb
<1>8. EntryInv'
  <2> SUFFICES ASSUME ~mixed' PROVE EntryInv'
    BY DEF EntryInv
  <2>1. ~mixed /\ \A w \in Viewers \ {v} : viewing[w] \notin Resting => entryOf[w] = version
    BY <1>1
  <2>2. "cache" \notin Later \cup {"make", "rename", "shown"}
    BY DEF Later
  <2>3. ASSUME NEW w \in Viewers, NEW x \in Viewers, viewing'[w] \notin Resting, viewing'[x] \notin Resting
        PROVE  entryOf'[w] = entryOf'[x]
    BY <1>2, <1>3, <2>1, <2>3 DEF ThumbInv, EntryInv
  <2>4. ASSUME NEW w \in Viewers
        PROVE  /\ viewing'[w] \in Later /\ destFile' # 0 => thumbs'[destFile'].meta = entryOf'[w]
               /\ viewing'[w] \in {"make", "rename"} /\ lockFile' # 0 => thumbs'[lockFile'].meta = entryOf'[w]
               /\ viewing'[w] = "shown" => thumbs'[viewed'[w]].meta = entryOf'[w]
    <3>1. CASE w = v
      BY <1>2, <2>2, <3>1
    <3>2. CASE w # v
      BY <1>1, <1>2, <1>3, <2>1, <3>2 DEF ThumbInv, EntryInv
    <3> QED
      BY <3>1, <3>2
  <2> QED
    BY <2>3, <2>4 DEF EntryInv
<1> QED
  BY <1>4, <1>5, <1>6, <1>7, <1>8 DEF ThumbInv

\* A request is answered with the thumbnail that is there.
LEMMA ShowsThumb ==
  ASSUME ThumbInv, NEW v \in Viewers, Goes(v, "shown"), destFile # 0, viewed' = [viewed EXCEPT ![v] = destFile],
         UNCHANGED <<version, thumbs, destFile, lockFile, entryOf, handlers, leftover, together, mixed>>,
         viewing[v] \notin Making, mixed \/ thumbs[destFile].meta = entryOf[v], gone' \subseteq Viewers
  PROVE  ThumbInv'
PROOF
<1>1. viewing' \in [Viewers -> Stages] /\ viewing'[v] = "shown" /\ \A w \in Viewers \ {v} : viewing'[w] = viewing[w]
  BY GoesDoes DEF ThumbInv, Stages, Resting
<1>2. /\ viewed' \in [Viewers -> 0 .. Len(thumbs)] /\ viewed'[v] = destFile
      /\ \A w \in Viewers \ {v} : viewed'[w] = viewed[w]
  BY DEF ThumbInv, ThumbTypes, ThumbsTypeOK
<1>3. ThumbTypes'
  BY <1>1, <1>2 DEF ThumbInv, ThumbTypes, ThumbsTypeOK, Stages
<1>4. LockInv'
  BY <1>1, <1>2 DEF ThumbInv, LockInv
<1>5. MakerInv'
  BY <1>1 DEF ThumbInv, MakerInv
<1>6. WholeInv'
  <2>1. ASSUME NEW w \in Viewers
        PROVE  (w # v /\ viewing'[w] = viewing[w] /\ viewed'[w] = viewed[w])
               \/ (viewing'[w] = "shown" /\ viewed'[w] = destFile)
    BY <1>1, <1>2
  <2> QED
    BY <2>1 DEF ThumbInv, WholeInv, WholeThumb
<1>7. EntryInv'
  <2>1. ASSUME NEW w \in Viewers
        PROVE  (w # v /\ viewing'[w] = viewing[w] /\ viewed'[w] = viewed[w])
               \/ (w = v /\ viewing'[w] = "shown" /\ viewed'[w] = destFile)
    BY <1>1, <1>2
  <2> QED
    BY <2>1 DEF ThumbInv, EntryInv, Resting, Later
<1> QED
  BY <1>3, <1>4, <1>5, <1>6, <1>7 DEF ThumbInv

LEMMA RemoveExpiredKeeps ==
  ASSUME ThumbInv, NEW v \in Viewers, RemoveExpired(v)
  PROVE  ThumbInv'
PROOF
<1>1. PICK s \in {"failed", "resolve"} : Goes(v, s)
  BY DEF RemoveExpired
<1>2. /\ viewing[v] = "expired" /\ destFile' = 0
      /\ UNCHANGED <<version, thumbs, lockFile, entryOf, handlers, viewed, gone, leftover, together, mixed>>
  BY DEF RemoveExpired
<1>3. viewing' \in [Viewers -> Stages] /\ viewing'[v] = s /\ \A w \in Viewers \ {v} : viewing'[w] = viewing[w]
  BY <1>1, GoesDoes DEF ThumbInv, Stages, Resting
<1>4. ThumbTypes'
  BY <1>2, <1>3 DEF ThumbInv, ThumbTypes, ThumbsTypeOK, Stages
<1>5. LockInv'
  BY <1>2, <1>3 DEF ThumbInv, ThumbTypes, LockInv
<1>6. MakerInv'
  BY <1>2, <1>3 DEF ThumbInv, MakerInv, Making
<1>7. WholeInv'
  BY <1>2, <1>3 DEF ThumbInv, WholeInv, WholeThumb
<1>8. EntryInv'
  <2>1. \A w \in Viewers : viewing'[w] \notin Resting => viewing[w] \notin Resting
    BY <1>2, <1>3 DEF Resting
  <2> QED
    BY <1>2, <1>3, <2>1 DEF ThumbInv, EntryInv
<1> QED
  BY <1>4, <1>5, <1>6, <1>7, <1>8 DEF ThumbInv

\* A file of the cache directory, or a lock file nobody is at, goes.
LEMMA CleanThumbsKeeps ==
  ASSUME ThumbInv, CleanThumbs
  PROVE  ThumbInv'
PROOF
<1>1. /\ UNCHANGED <<version, thumbs, viewing, entryOf, handlers, viewed, gone, together, mixed>>
      /\ \/ destFile' = 0 /\ UNCHANGED <<lockFile, leftover>>
         \/ lockFile' = 0 /\ Busy = {} /\ UNCHANGED destFile
  BY DEF CleanThumbs
<1>2. Busy = {} => \A v \in Viewers : viewing[v] \notin Working
  BY DEF Busy
<1>3. ThumbTypes' /\ LockInv' /\ MakerInv'
  BY <1>1 DEF ThumbInv, ThumbTypes, ThumbsTypeOK, LockInv, MakerInv
<1>4. WholeInv'
  BY <1>1, <1>2 DEF ThumbInv, WholeInv, WholeThumb, Working
<1>5. EntryInv'
  BY <1>1 DEF ThumbInv, EntryInv
<1> QED
  BY <1>3, <1>4, <1>5 DEF ThumbInv

LEMMA RestartThumbsKeeps ==
  ASSUME ThumbInv, RestartThumbs
  PROVE  ThumbInv'
PROOF
<1>1. /\ viewing' = [v \in Viewers |-> "failed"] /\ lockFile' = 0 /\ gone' = {} /\ handlers' = [v \in Viewers |-> 0]
      /\ UNCHANGED <<version, thumbs, destFile, entryOf, viewed, together, mixed>>
  BY DEF RestartThumbs
<1>2. \A v \in Viewers : viewing'[v] = "failed"
  BY <1>1
<1>3. viewing' \in [Viewers -> Stages]
  BY <1>1 DEF Stages, Resting
<1>4. ThumbTypes'
  BY <1>1, <1>3 DEF ThumbInv, ThumbTypes, ThumbsTypeOK, Stages
<1>5. LockInv' /\ MakerInv'
  BY <1>1, <1>2 DEF LockInv, MakerInv
<1>6. WholeInv'
  BY <1>1, <1>2 DEF ThumbInv, WholeInv, WholeThumb
<1>7. EntryInv'
  BY <1>2 DEF EntryInv, Resting, Later
<1> QED
  BY <1>4, <1>5, <1>6, <1>7 DEF ThumbInv

\* Both files go, and the request fails.
LEMMA DropThumbKeeps ==
  ASSUME ThumbInv, NEW v \in Viewers, DropThumb(v)
  PROVE  ThumbInv'
PROOF
<1>1. /\ viewing[v] = "drop" /\ lockFile' = 0 /\ destFile' = 0 /\ Goes(v, "failed") /\ gone' = gone \ {v}
      /\ UNCHANGED <<version, thumbs, entryOf, handlers, viewed, together, mixed>>
  BY DEF DropThumb
<1>2. viewing' \in [Viewers -> Stages] /\ viewing'[v] = "failed" /\ \A w \in Viewers \ {v} : viewing'[w] = viewing[w]
  BY <1>1, GoesDoes DEF ThumbInv, Stages, Resting
<1>3. ThumbTypes'
  BY <1>1, <1>2 DEF ThumbInv, ThumbTypes, ThumbsTypeOK, Stages
<1>4. LockInv' /\ MakerInv'
  BY <1>1, <1>2 DEF ThumbInv, LockInv, MakerInv
<1>5. WholeInv'
  <2> SUFFICES ASSUME ~together PROVE WholeInv'
    BY <1>1 DEF WholeInv
  <2>1. ASSUME NEW w \in Viewers \ {v}
        PROVE  viewing[w] \notin {"make", "rename", "drop"}
    BY <1>1, <2>1 DEF ThumbInv, WholeInv
  <2> QED
    BY <1>1, <1>2, <2>1 DEF ThumbInv, WholeInv, WholeThumb
<1>6. EntryInv'
  <2>1. \A w \in Viewers : viewing'[w] \notin Resting => viewing[w] \notin Resting
    BY <1>1, <1>2 DEF Resting
  <2> QED
    BY <1>1, <1>2, <2>1 DEF ThumbInv, EntryInv
<1> QED
  BY <1>3, <1>4, <1>5, <1>6 DEF ThumbInv

\* The lock file becomes the thumbnail.
LEMMA RenameLockKeeps ==
  ASSUME ThumbInv, NEW v \in Viewers, RenameLock(v)
  PROVE  ThumbInv'
PROOF
<1>1. viewing[v] = "rename" /\ UNCHANGED <<version, thumbs, entryOf, handlers, viewed, gone, leftover, together, mixed>>
  BY DEF RenameLock
<1>2. CASE lockFile = 0 /\ Goes(v, "drop") /\ UNCHANGED <<destFile, lockFile>>
  <2>1. viewing' \in [Viewers -> Stages] /\ viewing'[v] = "drop" /\ \A w \in Viewers \ {v} : viewing'[w] = viewing[w]
    BY <1>2, GoesDoes DEF ThumbInv, Stages, Working
  <2>2. together
    BY <1>1, <1>2 DEF ThumbInv, WholeInv
  <2>3. ThumbTypes'
    BY <1>1, <1>2, <2>1 DEF ThumbInv, ThumbTypes, ThumbsTypeOK, Stages
  <2>4. LockInv' /\ MakerInv'
    BY <1>1, <1>2, <2>1 DEF ThumbInv, LockInv, MakerInv
  <2>5. EntryInv'
    <3>1. /\ \A w \in Viewers : viewing'[w] \notin Resting => viewing[w] \notin Resting
          /\ "rename" \in Later
      BY <1>1, <2>1 DEF Resting, Later
    <3> QED
      BY <1>1, <1>2, <2>1, <3>1 DEF ThumbInv, EntryInv
  <2> QED
    BY <1>1, <2>2, <2>3, <2>4, <2>5 DEF ThumbInv, WholeInv
<1>3. CASE lockFile # 0 /\ destFile' = lockFile /\ lockFile' = 0 /\ Goes(v, "open")
  <2>1. viewing' \in [Viewers -> Stages] /\ viewing'[v] = "open" /\ \A w \in Viewers \ {v} : viewing'[w] = viewing[w]
    BY <1>3, GoesDoes DEF ThumbInv, Stages
  <2>2. ThumbTypes'
    BY <1>1, <1>3, <2>1 DEF ThumbInv, ThumbTypes, ThumbsTypeOK, Stages
  <2>3. LockInv' /\ MakerInv'
    BY <1>1, <1>3, <2>1 DEF ThumbInv, LockInv, MakerInv
  <2>4. WholeInv'
    <3> SUFFICES ASSUME ~together PROVE WholeInv'
      BY <1>1 DEF WholeInv
    <3>1. WholeThumb(lockFile)
      BY <1>1 DEF ThumbInv, WholeInv, WholeThumb
    <3>2. ASSUME NEW w \in Viewers \ {v}
          PROVE  viewing[w] \notin {"make", "rename", "drop"}
      BY <1>1, <3>2 DEF ThumbInv, WholeInv
    <3>3. destFile' # 0 => WholeThumb(destFile)'
      BY <1>1, <1>3, <3>1 DEF WholeThumb
    <3> QED
      BY <1>1, <2>1, <3>2, <3>3 DEF ThumbInv, WholeInv, WholeThumb
  <2>5. EntryInv'
    <3> SUFFICES ASSUME ~mixed PROVE EntryInv'
      BY <1>1 DEF EntryInv
    <3>1. /\ \A w \in Viewers : viewing'[w] \notin Resting => viewing[w] \notin Resting
          /\ \A w \in Viewers : viewing'[w] \in Later => viewing'[w] \notin Resting
      BY <1>1, <2>1 DEF Resting, Later
    <3>2. thumbs[lockFile].meta = entryOf[v] /\ viewing[v] \notin Resting
      BY <1>1, <1>3 DEF ThumbInv, EntryInv, Resting
    <3> QED
      BY <1>1, <1>3, <2>1, <3>1, <3>2 DEF ThumbInv, EntryInv
  <2> QED
    BY <2>2, <2>3, <2>4, <2>5 DEF ThumbInv
<1> QED
  BY <1>2, <1>3 DEF RenameLock
-----------------------------------------------------------------------------
\* What createItem makes of the lock file.
LEMMA CreateItemMakes ==
  ASSUME ThumbInv, NEW v \in Viewers, CreateItem(v)
  PROVE  /\ thumbs' \in Seq(ThumbFiles) /\ Len(thumbs') <= MaxThumbs /\ Len(thumbs) <= Len(thumbs')
         /\ lockFile' = Len(thumbs') /\ lockFile' # 0 /\ lockFile \in {0, lockFile'}
         /\ lockFile = 0 => lockFile' = Len(thumbs) + 1
         /\ \A f \in 1 .. Len(thumbs) : f # lockFile => thumbs'[f] = thumbs[f]
         /\ thumbs'[lockFile'].meta = entryOf[v] /\ thumbs'[lockFile'].done = {}
         /\ ~together' => /\ ~together /\ thumbs'[lockFile'].by = {v}
                          /\ lockFile # 0 => thumbs[lockFile].by = {v}
PROOF
<1>1. thumbs \in Seq(ThumbFiles) /\ Len(thumbs) \in Nat /\ entryOf[v] \in 1 .. MaxVersion /\ Len(thumbs) <= MaxThumbs
  BY DEF ThumbInv, ThumbTypes, ThumbsTypeOK
<1>2. CASE /\ lockFile = 0 /\ Len(thumbs) < MaxThumbs
           /\ thumbs' = Append(thumbs, [meta |-> entryOf[v], by |-> {v}, done |-> {}])
           /\ lockFile' = Len(thumbs) + 1 /\ UNCHANGED together
  <2> DEFINE new == [meta |-> entryOf[v], by |-> {v}, done |-> {}]
  <2>1. new \in ThumbFiles /\ new.meta = entryOf[v] /\ new.by = {v} /\ new.done = {}
    BY <1>1 DEF ThumbFiles
  <2> HIDE DEF new
  <2>2. /\ thumbs' \in Seq(ThumbFiles) /\ Len(thumbs') = Len(thumbs) + 1 /\ thumbs'[Len(thumbs) + 1] = new
        /\ \A f \in 1 .. Len(thumbs) : thumbs'[f] = thumbs[f]
    BY <1>1, <1>2, <2>1, AppendProperties DEF new
  <2> QED
    BY <1>1, <1>2, <2>1, <2>2, ThumbnailsAssumption
<1>3. CASE /\ lockFile # 0
           /\ thumbs' = [thumbs EXCEPT ![lockFile] = [meta |-> entryOf[v], by |-> @.by \cup {v}, done |-> {}]]
           /\ together' = (together \/ thumbs[lockFile].by # {v}) /\ UNCHANGED lockFile
  <2> DEFINE new == [meta |-> entryOf[v], by |-> thumbs[lockFile].by \cup {v}, done |-> {}]
  <2>1. lockFile = Len(thumbs) /\ lockFile \in 1 .. Len(thumbs)
    BY <1>1, <1>3 DEF ThumbInv, LockInv
  <2>2. thumbs[lockFile] \in ThumbFiles
    BY <1>1, <2>1
  <2>3. new \in ThumbFiles /\ new.meta = entryOf[v] /\ new.by = thumbs[lockFile].by \cup {v} /\ new.done = {}
    BY <1>1, <2>2 DEF ThumbFiles
  <2>4. thumbs' = [thumbs EXCEPT ![lockFile] = new]
    BY <1>3
  <2> HIDE DEF new
  <2>5. /\ thumbs' \in Seq(ThumbFiles) /\ Len(thumbs') = Len(thumbs) /\ thumbs'[lockFile] = new
        /\ \A f \in 1 .. Len(thumbs) : f # lockFile => thumbs'[f] = thumbs[f]
    BY <1>1, <2>1, <2>3, <2>4, ExceptSeq
  <2>6. lockFile' = Len(thumbs') /\ lockFile' # 0 /\ lockFile \in {0, lockFile'} /\ lockFile' = lockFile
    BY <1>3, <2>1, <2>5
  <2>7. ~together' => ~together /\ thumbs[lockFile].by = {v}
    BY <1>3
  <2>8. thumbs'[lockFile'] = new /\ (~together' => new.by = {v})
    BY <2>3, <2>5, <2>6, <2>7
  <2>9. Len(thumbs') <= MaxThumbs /\ Len(thumbs) <= Len(thumbs')
    BY <1>1, <2>5, ThumbnailsAssumption
  <2> QED
    BY <1>3, <2>3, <2>5, <2>6, <2>7, <2>8, <2>9
<1> QED
  BY <1>2, <1>3 DEF CreateItem

LEMMA CreateItemKeeps ==
  ASSUME ThumbInv, NEW v \in Viewers, CreateItem(v)
  PROVE  ThumbInv'
PROOF
<1>1. viewing[v] = "create" /\ UNCHANGED <<version, destFile, entryOf, viewed, asks, mixed>>
  BY DEF CreateItem
<1>2. PICK s \in {"make", "failed"} :
        /\ Goes(v, s) /\ (s = "make" => UNCHANGED <<leftover, gone, handlers>>)
        /\ s = "failed" => leftover' = TRUE /\ gone' = gone \ {v} /\ handlers' = [handlers EXCEPT ![v] = 0]
  BY DEF CreateItem
<1>3. viewing' \in [Viewers -> Stages] /\ viewing'[v] = s /\ \A w \in Viewers \ {v} : viewing'[w] = viewing[w]
  BY <1>2, GoesDoes DEF ThumbInv, Stages, Resting, Working
<1>4. /\ thumbs' \in Seq(ThumbFiles) /\ Len(thumbs') <= MaxThumbs /\ Len(thumbs) <= Len(thumbs')
      /\ lockFile' = Len(thumbs') /\ lockFile' # 0 /\ lockFile \in {0, lockFile'}
      /\ lockFile = 0 => lockFile' = Len(thumbs) + 1
      /\ \A f \in 1 .. Len(thumbs) : f # lockFile => thumbs'[f] = thumbs[f]
      /\ thumbs'[lockFile'].meta = entryOf[v] /\ thumbs'[lockFile'].done = {}
      /\ ~together' => /\ ~together /\ thumbs'[lockFile'].by = {v}
                       /\ lockFile # 0 => thumbs[lockFile].by = {v}
  BY CreateItemMakes
<1>5. /\ Len(thumbs) \in Nat /\ Len(thumbs') \in Nat /\ destFile \in 0 .. Len(thumbs) /\ lockFile \in Nat
      /\ \A w \in Viewers : viewed[w] \in 0 .. Len(thumbs)
  BY <1>4 DEF ThumbInv, ThumbTypes, ThumbsTypeOK
<1>6. ThumbTypes'
  <2>1. handlers' \in [Viewers -> 0 .. 2] /\ gone' \subseteq Viewers
    <3>1. handlers \in [Viewers -> 0 .. 2] /\ gone \subseteq Viewers
      BY DEF ThumbInv, ThumbTypes, ThumbsTypeOK
    <3>2. CASE s = "make"
      BY <1>2, <3>1, <3>2
    <3>3. CASE s = "failed"
      BY <1>2, <3>1, <3>3
    <3> QED
      BY <3>2, <3>3
  <2>2. viewed' \in [Viewers -> 0 .. Len(thumbs')]
    BY <1>1, <1>4, <1>5 DEF ThumbInv, ThumbTypes, ThumbsTypeOK
  <2> QED
    BY <1>1, <1>3, <1>4, <1>5, <2>1, <2>2 DEF ThumbInv, ThumbTypes, ThumbsTypeOK, Stages
<1>7. destFile < lockFile' /\ (destFile # 0 => thumbs'[destFile] = thumbs[destFile])
  BY <1>4, <1>5 DEF ThumbInv, LockInv
<1>8. ASSUME NEW w \in Viewers, viewing'[w] = "shown"
      PROVE  /\ viewing[w] = "shown" /\ viewed'[w] = viewed[w] /\ viewed[w] # 0 /\ viewed[w] < lockFile'
             /\ thumbs'[viewed[w]] = thumbs[viewed[w]]
  BY <1>1, <1>3, <1>4, <1>5, <1>8 DEF ThumbInv, LockInv
<1>9. LockInv'
  BY <1>1, <1>4, <1>7, <1>8 DEF LockInv
<1>10. MakerInv'
  BY <1>2, <1>3 DEF MakerInv, Making
<1>11. WholeInv'
  <2> SUFFICES ASSUME ~together' PROVE WholeInv'
    BY DEF WholeInv
  <2>1. ASSUME NEW w \in Viewers
        PROVE  viewing[w] \notin {"make", "rename", "drop"}
    <3>1. viewing[w] \in {"make", "rename", "drop"} => lockFile # 0 /\ thumbs[lockFile].by = {w}
      BY <1>4 DEF ThumbInv, WholeInv
    <3> QED
      BY <1>1, <1>4, <3>1
  <2>2. ASSUME NEW w \in Viewers
        PROVE  viewing'[w] \in {"make", "rename", "drop"} => w = v /\ viewing'[w] = "make"
    BY <1>3, <2>1
  <2>3. ASSUME NEW w \in Viewers, viewing'[w] = "shown"
        PROVE  WholeThumb(viewed[w])'
    BY <1>4, <1>8, <2>3 DEF ThumbInv, WholeInv, WholeThumb
  <2>4. destFile' # 0 => WholeThumb(destFile)'
    BY <1>1, <1>4, <1>7 DEF ThumbInv, WholeInv, WholeThumb
  <2> QED
    BY <1>4, <2>2, <2>3, <2>4 DEF WholeInv
<1>12. EntryInv'
  <2> SUFFICES ASSUME ~mixed PROVE EntryInv'
    BY <1>1 DEF EntryInv
  <2>1. /\ \A w \in Viewers : viewing'[w] \notin Resting => viewing[w] \notin Resting
        /\ \A w \in Viewers : viewing'[w] \in Later => viewing[w] \in Later
        /\ viewing[v] \notin Resting
        /\ \A w \in Viewers : viewing'[w] \in {"make", "rename"} => viewing'[w] \notin Resting
    BY <1>1, <1>3 DEF Resting, Later
  <2>2. ASSUME NEW w \in Viewers, viewing[w] \notin Resting
        PROVE  entryOf[w] = entryOf[v]
    BY <2>1, <2>2 DEF ThumbInv, EntryInv
  <2>3. ASSUME NEW w \in Viewers
        PROVE  /\ viewing'[w] \in Later /\ destFile' # 0 => thumbs'[destFile'].meta = entryOf'[w]
               /\ viewing'[w] \in {"make", "rename"} /\ lockFile' # 0 => thumbs'[lockFile'].meta = entryOf'[w]
               /\ viewing'[w] = "shown" => thumbs'[viewed'[w]].meta = entryOf'[w]
    <3>1. viewing'[w] \in Later /\ destFile # 0 => thumbs'[destFile].meta = entryOf[w]
      BY <1>7, <2>1 DEF ThumbInv, EntryInv
    <3>2. viewing'[w] \in {"make", "rename"} => thumbs'[lockFile'].meta = entryOf[w]
      BY <1>4, <2>1, <2>2
    <3>3. viewing'[w] = "shown" => thumbs'[viewed[w]].meta = entryOf[w]
      BY <1>8 DEF ThumbInv, EntryInv
    <3> QED
      BY <1>1, <3>1, <3>2, <3>3
  <2>4. ASSUME NEW w \in Viewers, NEW x \in Viewers, viewing'[w] \notin Resting, viewing'[x] \notin Resting
        PROVE  entryOf'[w] = entryOf'[x]
    BY <1>1, <2>1, <2>2, <2>4
  <2> QED
    BY <2>3, <2>4 DEF EntryInv
<1> QED
  BY <1>6, <1>9, <1>10, <1>11, <1>12 DEF ThumbInv

\* What a handler that is done makes of the file it wrote.
LEMMA HandleThumbMakes ==
  ASSUME ThumbInv, NEW v \in Viewers, thumbs' = [thumbs EXCEPT ![WrittenBy(v)].done = @ \cup {v}]
  PROVE  /\ thumbs' \in Seq(ThumbFiles) /\ Len(thumbs') = Len(thumbs)
         /\ \A f \in 1 .. Len(thumbs) :
              /\ thumbs'[f].meta = thumbs[f].meta /\ thumbs'[f].by = thumbs[f].by
              /\ f # WrittenBy(v) => thumbs'[f] = thumbs[f]
              /\ f = WrittenBy(v) => thumbs'[f].done = thumbs[f].done \cup {v}
PROOF
<1>0. PICK mine : mine = WrittenBy(v)
  OBVIOUS
<1>1. thumbs \in Seq(ThumbFiles) /\ Len(thumbs) \in Nat /\ DOMAIN thumbs = 1 .. Len(thumbs)
  BY DEF ThumbInv, ThumbTypes
<1>2. thumbs' = [thumbs EXCEPT ![mine] = [thumbs[mine] EXCEPT !.done = @ \cup {v}]]
  BY <1>0
<1>3. CASE mine \notin DOMAIN thumbs
  <2>1. thumbs' = thumbs
    BY <1>1, <1>2, <1>3
  <2> QED
    BY <1>0, <1>1, <1>3, <2>1
<1>4. CASE mine \in DOMAIN thumbs
  <2>0. PICK new : new = [thumbs[mine] EXCEPT !.done = @ \cup {v}]
    OBVIOUS
  <2>1. thumbs[mine] \in ThumbFiles
    BY <1>1, <1>4
  <2>2. /\ new \in ThumbFiles /\ new.meta = thumbs[mine].meta /\ new.by = thumbs[mine].by
        /\ new.done = thumbs[mine].done \cup {v}
    BY <2>0, <2>1 DEF ThumbFiles
  <2>3. thumbs' = [thumbs EXCEPT ![mine] = new] /\ mine \in 1 .. Len(thumbs)
    BY <1>1, <1>2, <1>4, <2>0
  <2>4. /\ thumbs' \in Seq(ThumbFiles) /\ Len(thumbs') = Len(thumbs) /\ thumbs'[mine] = new
        /\ \A f \in 1 .. Len(thumbs) : f # mine => thumbs'[f] = thumbs[f]
    <3>1. new \in ThumbFiles /\ thumbs \in Seq(ThumbFiles)
      BY <1>1, <2>2
    <3> DEFINE made == [thumbs EXCEPT ![mine] = new]
    <3>2. /\ made \in Seq(ThumbFiles) /\ Len(made) = Len(thumbs)
          /\ \A f \in 1 .. Len(thumbs) : made[f] = IF f = mine THEN new ELSE thumbs[f]
      BY <2>3, <3>1, ExceptSeq
    <3> HIDE DEF made
    <3>3. thumbs' = made
      BY <2>3 DEF made
    <3> QED
      BY <2>3, <3>2, <3>3
  <2> QED
    BY <1>0, <2>2, <2>4
<1> QED
  BY <1>3, <1>4

\* The file a task is at is the last it wrote.
LEMMA WritesTheLockFile ==
  ASSUME ThumbInv, ~together, NEW v \in Viewers, viewing[v] \in {"make", "rename", "drop"}
  PROVE  WrittenBy(v) = lockFile /\ lockFile \in 1 .. Len(thumbs) /\ thumbs[lockFile].by = {v}
PROOF
<1>1. lockFile # 0 /\ lockFile = Len(thumbs) /\ thumbs[lockFile].by = {v}
  BY DEF ThumbInv, WholeInv, LockInv
<1>2. DOMAIN thumbs = 1 .. Len(thumbs) /\ Len(thumbs) \in Nat
  BY DEF ThumbInv, ThumbTypes
<1> DEFINE Latest(f) == v \in thumbs[f].by /\ \A g \in DOMAIN thumbs : v \in thumbs[g].by => g <= f
<1>3. lockFile \in DOMAIN thumbs /\ Latest(lockFile)
  BY <1>1, <1>2
<1>4. ASSUME NEW f \in DOMAIN thumbs, Latest(f)
      PROVE  f = lockFile
  <2>1. lockFile <= f
    BY <1>3, <1>4
  <2> QED
    BY <1>1, <1>2, <2>1
<1>5. WrittenBy(v) = CHOOSE f \in DOMAIN thumbs : Latest(f)
  BY DEF WrittenBy
<1> HIDE DEF Latest
<1> QED
  BY <1>1, <1>2, <1>3, <1>4, <1>5

LEMMA HandleThumbKeeps ==
  ASSUME ThumbInv, NEW v \in Viewers, HandleThumb(v)
  PROVE  ThumbInv'
PROOF
<1>1. viewing[v] = "make" /\ UNCHANGED <<version, destFile, lockFile, entryOf, viewed, gone, leftover, together, mixed>>
  BY DEF HandleThumb
<1>2. handlers' = [handlers EXCEPT ![v] = IF viewing'[v] = "create" THEN @ - 1 ELSE 0]
  BY DEF HandleThumb
<1>3. PICK s \in {"rename", "drop", "create"} :
        /\ Goes(v, s)
        /\ s = "rename" => thumbs' = [thumbs EXCEPT ![WrittenBy(v)].done = @ \cup {v}]
        /\ s # "rename" => UNCHANGED thumbs
        /\ s = "create" => handlers[v] > 1
  <2>1. CASE thumbs' = [thumbs EXCEPT ![WrittenBy(v)].done = @ \cup {v}] /\ Goes(v, "rename")
    BY <2>1
  <2>2. CASE Goes(v, "drop") /\ UNCHANGED thumbs
    BY <2>2
  <2>3. CASE Goes(v, IF handlers[v] > 1 THEN "create" ELSE "drop") /\ UNCHANGED thumbs
    BY <2>3
  <2> QED
    BY <2>1, <2>2, <2>3 DEF HandleThumb
<1>4. viewing' \in [Viewers -> Stages] /\ viewing'[v] = s /\ \A w \in Viewers \ {v} : viewing'[w] = viewing[w]
  BY <1>3, GoesDoes DEF ThumbInv, Stages, Working
<1>5. handlers' \in [Viewers -> 0 .. 2]
  <2>1. handlers \in [Viewers -> 0 .. 2] /\ handlers[v] \in 0 .. 2
    BY DEF ThumbInv, ThumbTypes, ThumbsTypeOK
  <2>2. (IF viewing'[v] = "create" THEN handlers[v] - 1 ELSE 0) \in 0 .. 2
    BY <1>3, <1>4, <2>1
  <2> QED
    BY <1>2, <2>1, <2>2
<1>6. /\ thumbs' \in Seq(ThumbFiles) /\ Len(thumbs') = Len(thumbs)
      /\ \A f \in 1 .. Len(thumbs) :
           /\ thumbs'[f].meta = thumbs[f].meta /\ thumbs'[f].by = thumbs[f].by
           /\ s # "rename" \/ f # WrittenBy(v) => thumbs'[f] = thumbs[f]
           /\ s = "rename" /\ f = WrittenBy(v) => thumbs'[f].done = thumbs[f].done \cup {v}
  <2>1. CASE s = "rename"
    BY <1>3, <2>1, HandleThumbMakes
  <2>2. CASE s # "rename"
    BY <1>3, <2>2 DEF ThumbInv, ThumbTypes
  <2> QED
    BY <2>1, <2>2
<1>7. /\ Len(thumbs) \in Nat /\ destFile \in 0 .. Len(thumbs) /\ lockFile \in 0 .. Len(thumbs)
      /\ \A w \in Viewers : viewed[w] \in 0 .. Len(thumbs)
  BY DEF ThumbInv, ThumbTypes, ThumbsTypeOK
<1>8. ThumbTypes'
  BY <1>1, <1>4, <1>5, <1>6, <1>7 DEF ThumbInv, ThumbTypes, ThumbsTypeOK, Stages
<1>9. LockInv'
  BY <1>1, <1>4, <1>6 DEF ThumbInv, LockInv
<1>10. MakerInv'
  BY <1>1, <1>4 DEF ThumbInv, MakerInv, Making
<1>11. WholeInv'
  <2> SUFFICES ASSUME ~together PROVE WholeInv'
    BY <1>1 DEF WholeInv
  <2>1. WrittenBy(v) = lockFile /\ lockFile \in 1 .. Len(thumbs) /\ thumbs[lockFile].by = {v} /\ thumbs[lockFile].done = {}
    BY <1>1, WritesTheLockFile DEF ThumbInv, WholeInv
  <2>2. ASSUME NEW w \in Viewers \ {v}
        PROVE  viewing[w] \notin {"make", "rename", "drop"}
    BY <2>1 DEF ThumbInv, WholeInv
  <2>3. thumbs'[lockFile].by = {v} /\ (s = "rename" => thumbs'[lockFile].done = {v})
    BY <1>6, <2>1
  <2>4. ASSUME NEW f \in 1 .. Len(thumbs), f # lockFile, WholeThumb(f)
        PROVE  thumbs'[f].by = thumbs'[f].done
    BY <1>6, <2>1, <2>4 DEF WholeThumb
  <2>5. destFile # 0 => thumbs'[destFile].by = thumbs'[destFile].done
    BY <1>7, <2>1, <2>4 DEF ThumbInv, WholeInv, LockInv
  <2>6. ASSUME NEW w \in Viewers, viewing'[w] = "shown"
        PROVE  thumbs'[viewed[w]].by = thumbs'[viewed[w]].done
    <3>1. viewing[w] = "shown" /\ viewed[w] \in 1 .. Len(thumbs) /\ viewed[w] # lockFile /\ WholeThumb(viewed[w])
      BY <1>3, <1>4, <1>7, <2>1, <2>6 DEF ThumbInv, WholeInv, LockInv
    <3> QED
      BY <2>4, <3>1
  <2> QED
    BY <1>1, <1>4, <2>1, <2>2, <2>3, <2>5, <2>6 DEF WholeInv, WholeThumb
<1>12. EntryInv'
  <2> SUFFICES ASSUME ~mixed PROVE EntryInv'
    BY <1>1 DEF EntryInv
  <2>1. /\ \A w \in Viewers : viewing'[w] \notin Resting => viewing[w] \notin Resting
        /\ \A w \in Viewers : viewing'[w] \in Later => viewing[w] \in Later
    BY <1>1, <1>4 DEF Resting, Later
  <2>2. /\ destFile # 0 => thumbs'[destFile].meta = thumbs[destFile].meta
        /\ lockFile # 0 => thumbs'[lockFile].meta = thumbs[lockFile].meta
    BY <1>6, <1>7
  <2>3. ASSUME NEW w \in Viewers, viewing'[w] = "shown"
        PROVE  viewing[w] = "shown" /\ thumbs'[viewed[w]].meta = thumbs[viewed[w]].meta
    BY <1>4, <1>6, <1>7, <2>3 DEF ThumbInv, LockInv
  <2>4. ASSUME NEW w \in Viewers, viewing'[w] \in {"make", "rename"}
        PROVE  viewing[w] \in {"make", "rename"}
    BY <1>1, <1>4, <2>4
  <2> QED
    BY <1>1, <2>1, <2>2, <2>3, <2>4 DEF ThumbInv, EntryInv
<1> QED
  BY <1>8, <1>9, <1>10, <1>11, <1>12 DEF ThumbInv
-----------------------------------------------------------------------------
\* The steps that only look at the files.
LEMMA LooksKeep ==
  ASSUME ThumbInv, NEW v \in Viewers,
         FromCache(v) \/ ProcessThumb(v) \/ LookForThumb(v) \/ LookForLock(v) \/ PollLock(v) \/ OpenThumb(v)
  PROVE  ThumbInv'
PROOF
<1> USE DEF Stages, Resting, Making, Later, Working
<1>1. handlers \in [Viewers -> 0 .. 2] /\ gone \subseteq Viewers
  BY DEF ThumbInv, ThumbTypes, ThumbsTypeOK
<1>2. CASE FromCache(v)
  <2>1. /\ viewing[v] = "cache"
        /\ UNCHANGED <<version, thumbs, destFile, lockFile, entryOf, handlers, gone, leftover, together, mixed>>
    BY <1>2 DEF FromCache
  <2>2. CASE destFile = 0 /\ Goes(v, "resolve") /\ UNCHANGED viewed
    BY <1>1, <2>1, <2>2, GoingOn
  <2>3. CASE /\ destFile # 0 /\ thumbs[destFile].meta = entryOf[v]
             /\ Goes(v, "shown") /\ viewed' = [viewed EXCEPT ![v] = destFile]
    BY <1>1, <2>1, <2>3, ShowsThumb
  <2>4. CASE Goes(v, "expired") /\ UNCHANGED viewed
    BY <1>1, <2>1, <2>4, GoingOn
  <2> QED
    BY <1>2, <2>2, <2>3, <2>4 DEF FromCache
<1>3. CASE ProcessThumb(v)
  <2>1. PICK s \in {"failed", "exists"} : Goes(v, s)
    BY <1>3 DEF ProcessThumb
  <2>2. handlers' \in [Viewers -> 0 .. 2]
    BY <1>1, <1>3 DEF ProcessThumb
  <2>3. /\ viewing[v] = "resolve"
        /\ UNCHANGED <<version, thumbs, destFile, lockFile, entryOf, viewed, gone, leftover, together, mixed>>
    BY <1>3 DEF ProcessThumb
  <2> QED
    BY <1>1, <2>1, <2>2, <2>3, GoingOn
<1>4. CASE LookForThumb(v)
  <2>1. PICK s \in {"locked", "open"} : Goes(v, s)
    BY <1>4 DEF LookForThumb
  <2> QED
    BY <1>1, <1>4, <2>1, GoingOn DEF LookForThumb
<1>5. CASE LookForLock(v)
  <2>1. PICK s \in {"create", "wait"} : Goes(v, s)
    BY <1>5 DEF LookForLock
  <2> QED
    BY <1>1, <1>5, <2>1, GoingOn DEF LookForLock
<1>6. CASE PollLock(v)
  <2>1. PICK s \in {"failed", "open"} : Goes(v, s)
    BY <1>6 DEF PollLock
  <2> QED
    BY <1>1, <1>6, <2>1, GoingOn DEF PollLock
<1>7. CASE OpenThumb(v)
  <2>1. /\ viewing[v] = "open" /\ gone' \subseteq Viewers
        /\ UNCHANGED <<version, thumbs, destFile, lockFile, entryOf, handlers, leftover, together, mixed>>
    BY <1>1, <1>7 DEF OpenThumb
  <2>2. CASE Goes(v, "failed") /\ UNCHANGED viewed
    BY <1>1, <2>1, <2>2, GoingOn
  <2>3. CASE destFile # 0 /\ Goes(v, "shown") /\ viewed' = [viewed EXCEPT ![v] = destFile]
    <3>1. mixed \/ thumbs[destFile].meta = entryOf[v]
      BY <2>1, <2>3 DEF ThumbInv, EntryInv
    <3> QED
      BY <2>1, <2>3, <3>1, ShowsThumb
  <2> QED
    BY <1>7, <2>2, <2>3 DEF OpenThumb
<1> QED
  BY <1>2, <1>3, <1>4, <1>5, <1>6, <1>7

LEMMA LeaveThumbKeeps ==
  ASSUME ThumbInv, NEW v \in Viewers, LeaveThumb(v)
  PROVE  ThumbInv'
PROOF
<1>1. UNCHANGED <<version, thumbs, destFile, lockFile, entryOf, handlers, viewed, leftover, together, mixed>>
  BY DEF LeaveThumb
<1>2. CASE gone' = gone \cup {v} /\ UNCHANGED viewing
  BY <1>1, <1>2 DEF ThumbInv, ThumbTypes, ThumbsTypeOK, LockInv, MakerInv, WholeInv, WholeThumb, EntryInv
<1>3. CASE viewing[v] = "wait" /\ Goes(v, "failed") /\ UNCHANGED gone
  <2>1. handlers \in [Viewers -> 0 .. 2] /\ gone \subseteq Viewers
    BY DEF ThumbInv, ThumbTypes, ThumbsTypeOK
  <2> QED
    BY <1>1, <1>3, <2>1, GoingOn DEF Stages, Resting, Making, Later
<1> QED
  BY <1>2, <1>3 DEF LeaveThumb

LEMMA ThumbsInitially ==
  ASSUME ThumbsInit
  PROVE  ThumbInv
PROOF
<1>1. \A v \in Viewers : viewing[v] = "idle" /\ viewed[v] = 0
  BY DEF ThumbsInit
<1>2. thumbs \in Seq(ThumbFiles) /\ Len(thumbs) = 0
  BY DEF ThumbsInit
<1>3. /\ 1 \in 1 .. MaxVersion /\ 0 <= MaxThumbs
      /\ {"idle"} \subseteq Stages /\ [v \in Viewers |-> 0] \in [Viewers -> 0 .. 2]
  BY ThumbnailsAssumption DEF Stages, Resting
<1>4. ThumbTypes
  BY <1>2, <1>3 DEF ThumbsInit, ThumbTypes, ThumbsTypeOK, Stages
<1>5. LockInv /\ MakerInv /\ WholeInv
  BY <1>1 DEF ThumbsInit, LockInv, MakerInv, WholeInv
<1>6. EntryInv
  BY <1>1 DEF EntryInv, Later, Resting
<1> QED
  BY <1>4, <1>5, <1>6 DEF ThumbInv

LEMMA ThumbSteps ==
  ASSUME ThumbInv, [ThumbsNext]_thumbVars
  PROVE  ThumbInv'
PROOF
<1>1. CASE ThumbsNext
  <2>1. ASSUME NEW v \in Viewers, AskThumb(v) \/ ThumbStep(v) \/ LeaveThumb(v)
        PROVE  ThumbInv'
    BY <2>1, AskThumbKeeps, LooksKeep, RemoveExpiredKeeps, CreateItemKeeps, HandleThumbKeeps, RenameLockKeeps,
       DropThumbKeeps, LeaveThumbKeeps DEF ThumbStep
  <2>2. ASSUME ChangeEntry
        PROVE  ThumbInv'
    <3>1. /\ version < MaxVersion /\ version' = version + 1
          /\ UNCHANGED <<thumbs, destFile, lockFile, viewing, entryOf, handlers, viewed, gone, leftover, together, mixed>>
      BY <2>2 DEF ChangeEntry
    <3>2. version' \in 1 .. MaxVersion
      BY <3>1, ThumbnailsAssumption DEF ThumbInv, ThumbTypes, ThumbsTypeOK
    <3>3. ThumbTypes' /\ LockInv' /\ MakerInv'
      BY <3>1, <3>2 DEF ThumbInv, ThumbTypes, ThumbsTypeOK, LockInv, MakerInv
    <3>4. WholeInv' /\ EntryInv'
      BY <3>1 DEF ThumbInv, WholeInv, WholeThumb, EntryInv
    <3> QED
      BY <3>3, <3>4 DEF ThumbInv
  <2> QED
    BY <1>1, <2>1, <2>2, CleanThumbsKeeps, RestartThumbsKeeps DEF ThumbsNext
<1>2. CASE UNCHANGED thumbVars
  <2>1. /\ UNCHANGED <<version, thumbs, destFile, lockFile, viewing, entryOf, handlers, viewed, gone>>
        /\ UNCHANGED <<leftover, together, mixed>>
    BY <1>2 DEF thumbVars
  <2>2. ThumbTypes' /\ LockInv' /\ MakerInv'
    BY <2>1 DEF ThumbInv, ThumbTypes, ThumbsTypeOK, LockInv, MakerInv
  <2>3. WholeInv' /\ EntryInv'
    BY <2>1 DEF ThumbInv, WholeInv, WholeThumb, EntryInv
  <2> QED
    BY <2>2, <2>3 DEF ThumbInv
<1> QED
  BY <1>1, <1>2

\* The invariant gives what a user of the thumbnails sees.
LEMMA ThumbsAsPromised ==
  ASSUME ThumbInv
  PROVE  ThumbsHold
PROOF
<1>1. LockHasMaker
  BY DEF ThumbInv, MakerInv, LockHasMaker, Busy, Making, Working
<1>2. ShownIsWhole /\ ShownIsOfEntry /\ ThumbsTypeOK
  BY DEF ThumbInv, WholeInv, EntryInv, ThumbTypes, ShownIsWhole, ShownIsOfEntry
<1> QED
  BY <1>1, <1>2 DEF ThumbsHold

\* The files, the lock file and the requests agree, whoever makes a thumbnail,
\* fails, leaves or restarts.
THEOREM ThumbInvariant == ThumbsSpec => []ThumbInv
PROOF
<1>1. ThumbsInit => ThumbInv
  BY ThumbsInitially
<1>2. ThumbInv /\ [ThumbsNext]_thumbVars => ThumbInv'
  BY ThumbSteps
<1> QED
  BY <1>1, <1>2, PTL DEF ThumbsSpec

\* A thumbnail that is shown is whole and of the entry asked for, and a lock file
\* is somebody's (executeTask, createItem, openFile).
THEOREM ThumbsHoldCorrect == ThumbsSpec => []ThumbsHold
PROOF
<1>1. ThumbInv => ThumbsHold
  BY ThumbsAsPromised
<1> QED
  BY <1>1, ThumbInvariant, PTL

\* What is kept and served of files is as it was promised, and what is shown as a thumbnail
\* is whole, while both go on.
THEOREM ServedIsWholeCorrect == ApiSpec /\ ThumbsSpec => []ServedIsWhole
PROOF
  BY TransfersHoldCorrect, ThumbsHoldCorrect, PTL DEF ServedIsWhole
=============================================================================
