---------------------------- MODULE CacheFilePool ----------------------------
(***************************************************************************)
(* CacheFilePool of common/drive_util/cache_file_pool.go: an LRU cache of  *)
(* cacheFiles by key, composed with the cacheFiles themselves.  The pool   *)
(* does not own its cacheFiles: an evicted one lives on until its last     *)
(* reader and writer are done, next to a fresh one for the same key.       *)
(***************************************************************************)
EXTENDS CacheFile, Sequences

CONSTANTS Keys, MaxCache, NoClient

ASSUME CacheFilePoolAssumption ==
  /\ MaxCache \in Nat \ {0}
  /\ NoClient \notin Clients

VARIABLES
  entries,   \* the cacheFile of each key of the LRU cache, NoFile otherwise
  recent,    \* the keys of the cache, most recently used first
  mu,        \* cfp.mu, where it is held across steps: the client inside
  victim,    \* the entry entries.Add pushed out, until OnEvicted has run
  keyOf,     \* the key captured by each cacheFile's evict closure
  key        \* the key each client has asked for

poolVars == <<entries, recent, mu, victim, keyOf, key>>
vars == <<fileVars, poolVars>>

PoolInit ==
  /\ Init
  /\ entries = [k \in Keys |-> NoFile]
  /\ recent = <<>>
  /\ mu = NoClient
  /\ victim = NoFile
  /\ keyOf \in [Files -> Keys]
  /\ key \in [Clients -> Keys]

Unlocked == mu = NoClient
\* removeElement: a key is in the list at most once.
Without(seq, k) ==
  IF \E i \in 1 .. Len(seq) : seq[i] = k
  THEN LET i == CHOOSE j \in 1 .. Len(seq) : seq[j] = k
       IN  SubSeq(seq, 1, i - 1) \o SubSeq(seq, i + 1, Len(seq))
  ELSE seq
Touch(k) == recent' = <<k>> \o Without(recent, k)
Held(f) == IF f = NoFile THEN {} ELSE {f}
-----------------------------------------------------------------------------
\* GetReader, lines 44-49: the first look under cfp.mu.
Get(c, k) ==
  /\ Unlocked
  /\ pc[c] = "idle"
  /\ Lookup(c, entries[k])
  /\ IF entries[k] = NoFile THEN UNCHANGED recent ELSE Touch(k)
  /\ key' = [key EXCEPT ![c] = k]
  /\ UNCHANGED <<entries, mu, victim, keyOf>>

\* Lines 50-56: the second look finds what another client has added meanwhile.
\* cfp.mu stays held while the reader is opened.
Recheck(c) ==
  /\ Unlocked
  /\ pc[c] = "miss"
  /\ entries[key[c]] # NoFile
  /\ Lookup(c, entries[key[c]])
  /\ Touch(key[c])
  /\ mu' = c
  /\ UNCHANGED <<entries, victim, keyOf, key>>

\* entries.Add: the new entry in front; the oldest one goes when there are more
\* than MaxCache, and OnEvicted follows.
Added(k, f) ==
  LET order == <<k>> \o Without(recent, k)
      old   == order[Len(order)]
      full  == Len(order) > MaxCache
  IN  /\ entries' = [x \in Keys |-> CASE x = k -> f
                                      [] x # k /\ full /\ x = old -> NoFile
                                      [] OTHER -> entries[x]]
      /\ recent' = IF full THEN Without(order, old) ELSE order
      /\ victim' = IF full THEN entries[old] ELSE NoFile

\* Mutant: no second look under cfp.mu.
AddWithoutRecheck(c, f) ==
  /\ Unlocked
  /\ pc[c] = "miss"
  /\ Create(c, f)
  /\ Added(key[c], f)
  /\ keyOf' = [keyOf EXCEPT ![f] = key[c]]
  /\ mu' = c
  /\ UNCHANGED key

\* Lines 57-90: the key is still absent; make its cacheFile and add it.
Add(c, f) ==
  /\ Unlocked
  /\ pc[c] = "miss"
  /\ entries[key[c]] = NoFile
  /\ Create(c, f)
  /\ Added(key[c], f)
  /\ keyOf' = [keyOf EXCEPT ![f] = key[c]]
  /\ mu' = c
  /\ UNCHANGED key

\* onCacheEvicted for the entry pushed out, called by entries.Add.
OnCacheEvicted(c) ==
  /\ EvictOldest(c, Held(victim))
  /\ victim' = NoFile
  /\ UNCHANGED <<entries, recent, mu, keyOf, key>>

\* CreateTemp fails with cfp.mu held for the length of the call only.
AddFails(c) ==
  /\ Unlocked
  /\ entries[key[c]] = NoFile
  /\ CreateFails(c)
  /\ UNCHANGED poolVars

OpenReader(c) ==
  /\ Reader(c)
  /\ mu' = IF pc[c] = "openLocked" THEN NoClient ELSE mu
  /\ UNCHANGED <<entries, recent, victim, keyOf, key>>

\* The evict closure of cacheFile f: entries.Remove(key) under cfp.mu, then
\* onCacheEvicted for whatever the key maps to by now.
Evict(f) ==
  /\ Unlocked
  /\ entries' = [entries EXCEPT ![keyOf[f]] = NoFile]
  /\ recent' = Without(recent, keyOf[f])
  /\ UNCHANGED <<mu, victim, keyOf, key>>

CloseEvicts(c) ==
  /\ ClientEvict(c, Held(entries[keyOf[cf[c]]]))
  /\ Evict(cf[c])

WriterEvicts(f, w) ==
  /\ WriterEvict(f, w, Held(entries[keyOf[f]]))
  /\ Evict(f)
-----------------------------------------------------------------------------
\* What a client does of its own accord.
Client(c) ==
  \/ \E k \in Keys : Get(c, k)
  \/ Seek(c) /\ UNCHANGED poolVars
  \/ \E n \in 1 .. MaxRead : Read(c, n) /\ UNCHANGED poolVars
  \/ CloseReader(c) /\ UNCHANGED poolVars

\* What a call it has made goes on to do: outside cfp.mu ...
Call(c) ==
  \/ OpenReader(c)
  \/ OnCacheEvicted(c)
  \/ /\ \/ TryExclusiveFeed(c) \/ Fetch(c) \/ Fallback(c) \/ FetchAll(c)
        \/ ClientClose(c) \/ Acquire(c) \/ ReadDisk(c)
     /\ UNCHANGED poolVars

\* ... and where it has to wait for cfp.mu.
LockedCall(c) ==
  \/ Recheck(c)
  \/ \E f \in Files : Add(c, f)
  \/ AddFails(c)
  \/ CloseEvicts(c)

Writer(f, w) ==
  /\ \/ WriterOpen(f, w) \/ WriterRegister(f, w) \/ WriterCopy(f, w)
     \/ WriterFeed(f, w) \/ WriterEOF(f, w) \/ WriterClose(f, w)
     \/ WriterLeave(f, w)
  /\ UNCHANGED poolVars

Next ==
  \/ \E c \in Clients : Client(c) \/ Call(c) \/ LockedCall(c)
  \/ \E f \in Files, w \in Claims : Writer(f, w) \/ WriterEvicts(f, w)

Spec == PoolInit /\ [][Next]_vars

\* Goroutines run and streams deliver or fail; Go's mutexes do not starve.
Fairness ==
  /\ \A c \in Clients : WF_vars(Call(c)) /\ SF_vars(LockedCall(c))
  /\ \A f \in Files, w \in Claims :
       WF_vars(Writer(f, w)) /\ SF_vars(WriterEvicts(f, w))

FairSpec == Spec /\ Fairness
-----------------------------------------------------------------------------
PoolTypeOK ==
  /\ TypeOK
  /\ entries \in [Keys -> Files \cup {NoFile}]
  /\ recent \in Seq(Keys)
  /\ mu \in Clients \cup {NoClient}
  /\ victim \in Files \cup {NoFile}
  /\ keyOf \in [Files -> Keys]
  /\ key \in [Clients -> Keys]

\* Every cacheFile that is not evicted is in the pool under its key, or being
\* pushed out: none is lost to the pool with its file on disk for ever.
LiveIsPooled ==
  \A f \in Files :
    created[f] /\ ~evicted[f] => entries[keyOf[f]] = f \/ victim = f

\* Somebody who has closed f is on the way to dropping its key.
EvictionPending(f) ==
  \/ \E c \in Clients : pc[c] = "evict" /\ cf[c] = f
  \/ \E w \in Claims : wpc[f][w] = "evict"

\* A poisoned cacheFile does not stay in the pool: whoever closed it still has
\* to evict its key (lines 81-83).
PoisonedLeavesPool ==
  \A k \in Keys :
    LET f == entries[k] IN f # NoFile /\ evicted[f] => EvictionPending(f)

\* The cache orders the keys it has, each once, within its limit: whatever is in
\* entries can become the oldest and be pushed out.
RecentMatchesEntries ==
  /\ {recent[i] : i \in 1 .. Len(recent)} = {k \in Keys : entries[k] # NoFile}
  /\ \A i, j \in 1 .. Len(recent) : recent[i] = recent[j] => i = j
  /\ Len(recent) <= MaxCache

\* The pool has exactly the cacheFiles that still serve, or that somebody is about to
\* take out of it; none is lost to it with its file on disk.
PoolHoldsTheLive == LiveIsPooled /\ PoisonedLeavesPool /\ RecentMatchesEntries

\* Every Read returns, whatever else happens to the cacheFile meanwhile.
ReadReturns ==
  \A c \in Clients : pc[c] \in ReadPcs ~> pc[c] \notin ReadPcs
=============================================================================
