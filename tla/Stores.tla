-------------------------------- MODULE Stores ---------------------------------
(* The tables kept in memory with a KVCache (common/utils/kv_cache.go): users,   *)
(* options, file buckets and path metas (storage/users.go, options.go,           *)
(* file_bucket.go, path_meta.go).  One row of one of them matters.  An operation *)
(* is the sequence of its reads and writes of the table and of the cache; those  *)
(* of concurrent calls interleave.                                               *)
EXTENDS Naturals, Sequences

CONSTANTS
  Askers,   \* requests
  MaxWrites  \* bound: changes of the row, each of which numbers what it writes

ASSUME StoresAssumption == MaxWrites \in Nat

VARIABLES
  kind,        \* "user", "option", "bucket" or "meta"
  row,         \* the version of the row, 0 for none
  groups,      \* the version of a user's groups
  cached,      \* what the cache has: [row, groups], or Nothing
  doing,       \* the steps a call has before it
  carried,     \* what it has read, or will write
  writing,     \* the calls under way that change the table
  changes,
  overlapped   \* a change and another call were under way at once

storeVars == <<kind, row, groups, cached, doing, carried, writing, changes, overlapped>>

Nothing == [row |-> MaxWrites + 1, groups |-> 0]   \* not cached
NoValue == [row |-> 0, groups |-> 0]

\* NewFileBucketDAO fills the cache, the others start empty.
StoresInit ==
  /\ kind \in {"user", "option", "bucket", "meta"}
  /\ row \in {0, 1} /\ groups = 0 /\ changes = 1
  /\ cached = IF kind = "bucket" /\ row # 0 THEN [row |-> row, groups |-> 0] ELSE Nothing
  /\ doing = [c \in Askers |-> <<>>] /\ carried = [c \in Askers |-> NoValue]
  /\ writing = {} /\ overlapped = FALSE

Idle(c) == doing[c] = <<>>
Others(c) == {d \in Askers \ {c} : ~Idle(d)}
-----------------------------------------------------------------------------
\* The reads: a hit, or the table and then the cache; the groups of a user are read by
\* a second query, a missing option or meta is cached too, and a bucket is only cached.
Lookup(c) ==
  /\ Idle(c) /\ cached = Nothing /\ kind # "bucket"
  /\ doing' = [doing EXCEPT ![c] = IF kind = "user" THEN <<"read", "groups", "fill">> ELSE <<"read", "fill">>]
  /\ overlapped' = (overlapped \/ Others(c) \cap writing # {})
  /\ UNCHANGED <<kind, row, groups, cached, carried, writing, changes>>

\* What each change does: a user's update evicts whatever came of it (a deferred call),
\* a deletion evicts first; the groups of users are changed by a request that evicts
\* all users when it is done.
UpdateUser == <<"write", "evict">>
DeleteUser == <<"evict", "erase">>
UpdateGroup == <<"regroup", "evict">>
\* Set and Sets of options read the row first, and cache it; the transaction of Sets is
\* committed after the eviction.
SetOption == <<"read", "fill", "write", "evict">>
SetOptions == <<"read", "fill", "evict", "write">>

\* AddBucket and UpdateBucket cache what they wrote.
UpdateBucket == <<"write", "set">>
SetPathMeta == <<"write", "evict">>
\* The deletions of an option, a bucket and a path meta.
DeleteRow == <<"erase", "evict">>

Changes(k) ==
  CASE k = "user"   -> {UpdateUser, DeleteUser, UpdateGroup}
    [] k = "option" -> {SetOption, SetOptions, DeleteRow}
    [] k = "bucket" -> {UpdateBucket, DeleteRow}
    [] k = "meta"   -> {SetPathMeta, DeleteRow}

Change(c) ==
  /\ Idle(c) /\ changes < MaxWrites
  /\ \E steps \in Changes(kind) : doing' = [doing EXCEPT ![c] = steps]
  /\ writing' = writing \cup {c} /\ changes' = changes + 1
  /\ overlapped' = (overlapped \/ Others(c) # {})
  /\ carried' = [carried EXCEPT ![c] = [row |-> changes + 1, groups |-> 0]]
  /\ UNCHANGED <<kind, row, groups, cached>>
-----------------------------------------------------------------------------
Ends1(c, rest) ==
  /\ doing' = [doing EXCEPT ![c] = rest]
  /\ writing' = IF rest = <<>> THEN writing \ {c} ELSE writing

\* A read of the row, of the groups: a user that is not there is an error, which ends a
\* lookup, and a change keeps what it writes.
ReadRow(c) ==
  /\ ~Idle(c) /\ Head(doing[c]) \in {"read", "groups"}
  /\ IF kind = "user" /\ Head(doing[c]) = "read" /\ row = 0 THEN Ends1(c, <<>>) ELSE Ends1(c, Tail(doing[c]))
  /\ carried' = IF c \in writing THEN carried
                ELSE IF Head(doing[c]) = "read" THEN [carried EXCEPT ![c] = [row |-> row, groups |-> 0]]
                ELSE [carried EXCEPT ![c].groups = groups]
  /\ UNCHANGED <<kind, row, groups, cached, changes, overlapped>>

\* KVCache.Set and Remove.
TouchCache(c) ==
  /\ ~Idle(c) /\ Head(doing[c]) \in {"fill", "set", "evict"}
  /\ Ends1(c, Tail(doing[c]))
  /\ cached' = CASE Head(doing[c]) = "evict" -> Nothing
                 [] Head(doing[c]) = "set" -> carried[c]
                 [] OTHER -> IF c \in writing THEN [row |-> row, groups |-> 0] ELSE carried[c]
  /\ UNCHANGED <<kind, row, groups, carried, changes, overlapped>>

\* A write of the table, or its error; UpdateUser of a user that is not there is one,
\* and its deferred eviction happens all the same.
WriteRow(c) ==
  /\ ~Idle(c) /\ Head(doing[c]) \in {"write", "erase", "regroup"}
  /\ \/ /\ row' = CASE Head(doing[c]) = "erase" -> 0
                    [] Head(doing[c]) = "write" -> IF kind = "user" /\ row = 0 THEN 0 ELSE carried[c].row
                    [] OTHER -> row
        /\ groups' = IF Head(doing[c]) = "regroup" /\ row # 0 THEN carried[c].row
                     ELSE IF Head(doing[c]) = "erase" THEN 0 ELSE groups
        /\ Ends1(c, Tail(doing[c]))
     \/ /\ UNCHANGED <<row, groups>>
        /\ Ends1(c, IF kind = "user" /\ Head(doing[c]) = "write" THEN Tail(doing[c]) ELSE <<>>)
  /\ UNCHANGED <<kind, cached, carried, changes, overlapped>>

\* The entries of path metas live two hours, the others for ever.
ExpireMeta ==
  /\ kind = "meta" /\ cached # Nothing /\ cached' = Nothing
  /\ UNCHANGED <<kind, row, groups, doing, carried, writing, changes, overlapped>>

StoreStep(c) == ReadRow(c) \/ TouchCache(c) \/ WriteRow(c)

StoresNext == ExpireMeta \/ \E c \in Askers : Lookup(c) \/ Change(c) \/ StoreStep(c)

\* Calls end, and time passes.
StoresFairness == WF_storeVars(ExpireMeta) /\ \A c \in Askers : WF_storeVars(StoreStep(c))

StoresSpec == StoresInit /\ [][StoresNext]_storeVars /\ StoresFairness
-----------------------------------------------------------------------------
Fresh == cached \in {Nothing, [row |-> row, groups |-> groups]}

\* When no call is under way what the cache has is what the table has, provided every
\* change was alone: a lookup that read before a change and fills after it, or two
\* changes of a bucket whose writes and settings of the cache cross, leave a stale
\* entry; and so does any lookup during DeleteUser and Sets, which evict too early.
CacheIsTable == (\A c \in Askers : Idle(c)) /\ ~overlapped => Fresh

\* A stale path meta does not stay, whatever calls crossed.
StaleMetaEnds == kind = "meta" => []<>Fresh

\* The caches before the tables have what the tables have, or come to have it.
StoresHold == []CacheIsTable /\ StaleMetaEnds
=============================================================================
