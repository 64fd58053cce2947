------------------------ MODULE CacheFilePool_proofs ------------------------
(***************************************************************************)
(* The pool and its cacheFiles together, for every number of clients,      *)
(* cacheFiles and keys, every pool, file and block size, and every         *)
(* combination of faults.  The pool is shown to be one of the environments *)
(* CacheFile leaves open, so that what CacheFile_proofs proves carries     *)
(* over; then that no cacheFile is lost to the pool or stays poisoned in it. *)
(***************************************************************************)
EXTENDS CacheFilePool, CacheFile_proofs, SequenceTheorems

LEMMA WithoutType ==
  ASSUME NEW s \in Seq(Keys), NEW k
  PROVE  Without(s, k) \in Seq(Keys)
BY DEF Without

PoolTypes ==
  /\ entries \in [Keys -> Files \cup {NoFile}]
  /\ recent \in Seq(Keys)
  /\ mu \in Clients \cup {NoClient}
  /\ victim \in Files \cup {NoFile}
  /\ keyOf \in [Files -> Keys]
  /\ key \in [Clients -> Keys]

\* Each step of the whole is a step of the cacheFiles.
LEMMA StepsMap ==
  ASSUME PoolTypes, HasFile, [Next]_vars
  PROVE  [FileNext]_fileVars
PROOF
<1>1. ASSUME NEW x \in Files \cup {NoFile} PROVE Held(x) \in SUBSET Files
  BY DEF Held
<1>2. ASSUME NEW c \in Clients, Client(c) PROVE ClientStep(c)
  BY <1>2 DEF Client, ClientStep, Get, PoolTypes
<1>3. ASSUME NEW c \in Clients, Call(c) PROVE ClientStep(c)
  BY <1>1, <1>3 DEF Call, ClientStep, OpenReader, OnCacheEvicted, PoolTypes
<1>4. ASSUME NEW c \in Clients, LockedCall(c) PROVE ClientStep(c)
  <2>1. CASE CloseEvicts(c)
    <3>1. keyOf[cf[c]] \in Keys
      BY <2>1 DEF CloseEvicts, ClientEvict, HasFile, PoolTypes
    <3>2. Held(entries[keyOf[cf[c]]]) \in SUBSET Files
      BY <1>1, <3>1 DEF PoolTypes
    <3> QED
      BY <2>1, <3>2 DEF CloseEvicts, ClientStep
  <2> QED
    BY <1>4, <2>1 DEF LockedCall, ClientStep, Recheck, Add, AddFails, PoolTypes
<1>5. ASSUME NEW f \in Files, NEW w \in Claims, Writer(f, w) \/ WriterEvicts(f, w)
      PROVE  WriterStep(f, w)
  BY <1>1, <1>5 DEF Writer, WriterEvicts, WriterStep, PoolTypes
<1>6. UNCHANGED vars => UNCHANGED fileVars
  BY DEF vars
<1> QED
  BY <1>2, <1>3, <1>4, <1>5, <1>6 DEF Next, FileNext

LEMMA AddedTypes ==
  ASSUME PoolTypes, NEW k \in Keys, NEW f \in Files, Added(k, f)
  PROVE  /\ entries' \in [Keys -> Files \cup {NoFile}]
         /\ recent' \in Seq(Keys)
         /\ victim' \in Files \cup {NoFile}
PROOF
<1> DEFINE order == <<k>> \o Without(recent, k)
<1>1. order \in Seq(Keys) /\ Len(order) \in Nat \ {0}
  BY WithoutType DEF PoolTypes
<1>2. order[Len(order)] \in Keys
  BY <1>1
<1>3. Without(order, order[Len(order)]) \in Seq(Keys)
  BY <1>1, WithoutType
<1> QED
  BY <1>1, <1>2, <1>3 DEF Added, PoolTypes

LEMMA PoolTypesStep ==
  ASSUME PoolTypes, [Next]_vars
  PROVE  PoolTypes'
PROOF
<1>1. ASSUME NEW k \in Keys, Touch(k) PROVE recent' \in Seq(Keys)
  BY <1>1, WithoutType DEF Touch, PoolTypes
<1>2. ASSUME NEW f, Evict(f) PROVE PoolTypes'
  BY <1>2, WithoutType DEF Evict, PoolTypes
<1>3. ASSUME NEW c \in Clients, NEW k \in Keys, Get(c, k) PROVE PoolTypes'
  BY <1>1, <1>3 DEF Get, PoolTypes
<1>4. ASSUME NEW c \in Clients, Recheck(c) PROVE PoolTypes'
  BY <1>1, <1>4 DEF Recheck, PoolTypes
<1>5. ASSUME NEW c \in Clients, NEW f \in Files, Add(c, f) PROVE PoolTypes'
  <2>1. key[c] \in Keys
    BY DEF PoolTypes
  <2> QED
    BY <1>5, <2>1, AddedTypes DEF Add, PoolTypes
<1>6. ASSUME NEW c \in Clients, OnCacheEvicted(c) \/ OpenReader(c) PROVE PoolTypes'
  BY <1>6 DEF OnCacheEvicted, OpenReader, PoolTypes
<1>7. CASE UNCHANGED poolVars
  BY <1>7 DEF poolVars, PoolTypes
<1> QED
  BY <1>2, <1>3, <1>4, <1>5, <1>6, <1>7
     DEF Next, Client, Call, LockedCall, Writer, AddFails, CloseEvicts,
         WriterEvicts, vars

PoolInv == PoolTypes /\ FileTypeInv /\ HasFile

\* The pool is one of the environments the cacheFiles are proved correct in:
\* GetReader and the evict closures only ever do to them what FileNext allows.
THEOREM PoolImplementsFiles == Spec => FileSpec /\ []PoolInv
PROOF
<1>1. PoolInit => Init /\ PoolInv
  BY FileTypeInit DEF PoolInit, Init, PoolInv, PoolTypes, HasFile
<1>2. PoolInv /\ [Next]_vars => [FileNext]_fileVars
  BY StepsMap DEF PoolInv
<1>3. PoolInv /\ [Next]_vars => PoolInv'
  <2> SUFFICES ASSUME PoolInv, [Next]_vars PROVE PoolInv'
    OBVIOUS
  <2>1. FileTypeInv'
    BY <1>2, FileTypeStep DEF PoolInv
  <2>2. HasFile'
    BY <1>2, HasFileStep DEF PoolInv, FileTypeInv, TypeOK
  <2> QED
    BY <2>1, <2>2, PoolTypesStep DEF PoolInv
<1> QED
  BY <1>1, <1>2, <1>3, PTL DEF Spec, FileSpec

\* The types of the whole composition.
THEOREM PoolTypeCorrect == Spec => []PoolTypeOK
PROOF
<1>1. PoolInv => PoolTypeOK
  BY DEF PoolInv, PoolTypes, FileTypeInv, PoolTypeOK
<1> QED
  BY <1>1, PoolImplementsFiles, PTL

\* With the pool around them, backing files are removed neither under a reader
\* nor never: what LifecycleCorrect says of any pool.
THEOREM PoolLifecycleCorrect == Spec => []RemovedInTime
PROOF
<1>1. RemovedOnlyWhenUnread /\ IdleEvictedIsRemoved => RemovedInTime
  BY DEF RemovedInTime
<1> QED
  BY <1>1, PoolImplementsFiles, LifecycleCorrect, PTL

\* With the pool around them, every Read delivers the source's own bytes, on a
\* drive that serves ranges: what SourceCorrect says of any pool.
THEOREM PoolSourceCorrect ==
  ASSUME ~RefusesRange
  PROVE  Spec => [](FedIsSource /\ ReadsSource)
BY PoolImplementsFiles, SourceCorrect, PTL

\* With the pool around them, and its evictions in between, a Read that waits is
\* served: what WaitersServed says of any pool.
THEOREM PoolWaitersServed ==
  ASSUME ~RefusesRange, "short" \notin Faults
  PROVE  Spec => []WaitersAreServed
BY PoolImplementsFiles, WaitersServed, PTL
-----------------------------------------------------------------------------
(* No cacheFile is lost to the pool, and none stays in it poisoned.  Neither *)
(* is inductive: who holds cfp.mu, and which cacheFiles can be entries or    *)
(* victims at all, has to be known as well.                                  *)

\* cfp.mu is held across steps by the client between the check and the reader;
\* only it can have an entry pushed out and not yet marked.
HoldsMu ==
  /\ \A c \in Clients : pc[c] \in {"evictOldest", "openLocked"} <=> mu = c
  /\ victim # NoFile => \E c \in Clients : mu = c /\ pc[c] = "evictOldest"

\* An entry is a created cacheFile under its own key, and no victim.
EntryIsOwn ==
  /\ \A k \in Keys : entries[k] # NoFile =>
       created[entries[k]] /\ keyOf[entries[k]] = k /\ victim # entries[k]

PoolLiveness == HoldsMu /\ EntryIsOwn /\ LiveIsPooled /\ PoisonedLeavesPool

\* Every assumption of the step lemmas.
Before == PoolInv /\ ClaimInv /\ FileLifecycle /\ PoolLiveness

LEMMA BeforeParts ==
  ASSUME Before
  PROVE  /\ PoolTypes /\ HasFile /\ FileLifecycle
         /\ StateTypeOK /\ UserTypeOK /\ DownloadTypeOK /\ ClientTypeOK
         /\ HoldsMu /\ EntryIsOwn /\ LiveIsPooled /\ PoisonedLeavesPool
         /\ FileTypeInv /\ ClaimInv /\ OneDownloader
BY DEF Before, PoolInv, PoolLiveness, FileTypeInv, ClaimInv, TypeOK

\* A step that leaves the pool alone and evicts no cacheFile but one somebody is
\* then about to drop from it.
LEMMA QuietStep ==
  ASSUME Before, UNCHANGED <<entries, victim, keyOf, created>>, HoldsMu',
         \A f \in Files : /\ evicted[f] => evicted'[f]
                          /\ evicted'[f] => evicted[f] \/ EvictionPending(f)'
                          /\ EvictionPending(f) => EvictionPending(f)'
  PROVE  PoolLiveness'
PROOF
<1> USE BeforeParts
<1>1. EntryIsOwn'
  BY DEF EntryIsOwn
<1>2. LiveIsPooled'
  BY DEF LiveIsPooled
<1>3. PoisonedLeavesPool'
  BY DEF PoisonedLeavesPool, PoolTypes
<1> QED
  BY <1>1, <1>2, <1>3 DEF PoolLiveness

LEMMA AddLive ==
  ASSUME Before, NEW c \in Clients, NEW f \in Files, Add(c, f)
  PROVE  PoolLiveness'
PROOF
<1> USE BeforeParts
<1> DEFINE k == key[c]
<1>1. /\ k \in Keys /\ entries[k] = NoFile /\ mu = NoClient /\ victim = NoFile
      /\ mu' = c /\ Unreferenced(f) /\ (created[f] => removed[f])
      /\ keyOf' = [keyOf EXCEPT ![f] = k]
      /\ created' = [created EXCEPT ![f] = TRUE]
      /\ evicted' = [evicted EXCEPT ![f] = FALSE]
  BY CacheFilePoolAssumption
     DEF Add, Create, Unlocked, HoldsMu, PoolTypes
<1>2. \A x \in Keys : entries[x] # f
  BY <1>1, CacheFileAssumption
     DEF EntryIsOwn, FileLifecycle, RemovedOnlyWhenUnread, PoisonedLeavesPool,
         EvictionPending, Unreferenced
<1>3. PICK old \in Keys :
        \/ /\ victim' = NoFile
           /\ \A x \in Keys : entries'[x] = IF x = k THEN f ELSE entries[x]
        \/ /\ victim' = entries[old]
           /\ \A x \in Keys : entries'[x] = IF x = k THEN f
                                            ELSE IF x = old THEN NoFile
                                            ELSE entries[x]
  <2> DEFINE order == <<k>> \o Without(recent, k)
  <2>1. order \in Seq(Keys) /\ Len(order) \in Nat \ {0}
    BY <1>1, WithoutType DEF PoolTypes
  <2>2. order[Len(order)] \in Keys
    BY <2>1
  <2> QED
    BY <2>2 DEF Add, Added
<1>4. HoldsMu'
  BY <1>1, CacheFilePoolAssumption DEF Add, Create, Goto, HoldsMu, ClientTypeOK
<1>5. EntryIsOwn'
  BY <1>1, <1>2, <1>3, CacheFileAssumption DEF EntryIsOwn, PoolTypes, StateTypeOK
<1>6. LiveIsPooled'
  <2> SUFFICES ASSUME NEW g \in Files, created'[g], ~evicted'[g], g # f
               PROVE  entries'[keyOf'[g]] = g \/ victim' = g
    BY <1>1, <1>3 DEF LiveIsPooled, PoolTypes
  <2>1. created[g] /\ ~evicted[g] /\ keyOf'[g] = keyOf[g] /\ keyOf[g] \in Keys
    BY <1>1 DEF StateTypeOK, PoolTypes
  <2>2. entries[keyOf[g]] = g /\ keyOf[g] # k
    BY <1>1, <2>1, CacheFileAssumption DEF LiveIsPooled
  <2> QED
    BY <1>3, <2>1, <2>2
<1>7. PoisonedLeavesPool'
  <2> SUFFICES ASSUME NEW x \in Keys, NEW g, g = entries'[x], g # NoFile, evicted'[g]
               PROVE  EvictionPending(g)'
    BY DEF PoisonedLeavesPool
  <2>1. g # f
    BY <1>1 DEF StateTypeOK
  <2>2. g = entries[x] /\ g \in Files
    BY <1>1, <1>3, <2>1 DEF PoolTypes
  <2>3. EvictionPending(g)
    BY <1>1, <2>1, <2>2 DEF PoisonedLeavesPool, StateTypeOK
  <2> QED
    BY <1>1, <2>1, <2>2, <2>3
       DEF EvictionPending, Add, Create, Goto, ClientTypeOK, DownloadTypeOK
<1> QED
  BY <1>4, <1>5, <1>6, <1>7 DEF PoolLiveness

\* Steps of clients and writers that neither enter the pool nor leave it.
LEMMA ClientQuiet ==
  ASSUME Before, NEW c \in Clients, ClientStep(c), HoldsMu',
         UNCHANGED <<entries, victim, keyOf>>,
         \A f \in Files : ~Create(c, f),
         \A gs \in SUBSET Files : ~EvictOldest(c, gs) /\ ~ClientEvict(c, gs)
  PROVE  PoolLiveness'
PROOF
<1> USE BeforeParts
<1>1. UNCHANGED created
  BY DEF ClientStep, Lookup, CreateFails, Reader, CloseReader, Seek, Read,
     TryExclusiveFeed, Fetch, Fallback, FetchAll, ClientClose, Acquire, ReadDisk,
     stateVars
<1>2. \A d \in Clients : pc[d] = "evict" => pc'[d] = "evict" /\ cf'[d] = cf[d]
  BY DEF ClientStep, Lookup, CreateFails, Reader, CloseReader, Seek, Read,
     TryExclusiveFeed, Fetch, Fallback, FetchAll, ClientClose, Acquire, ReadDisk,
     Goto, ReadReturn, ClientTypeOK, readerVars
<1>3. \A f \in Files, w \in Claims : wpc[f][w] = "evict" => wpc'[f][w] = "evict"
  <2>1. CASE UNCHANGED wpc
    BY <2>1
  <2>2. CASE pc[c] \in Fetching /\ \E b \in BOOLEAN : StartWriter(c, b)
    BY <2>2 DEF StartWriter, OneDownloader, DownloadTypeOK
  <2>3. UNCHANGED wpc \/ (pc[c] \in Fetching /\ \E b \in BOOLEAN : StartWriter(c, b))
    BY DEF ClientStep, Lookup, CreateFails, Reader, CloseReader, Seek, Read,
       TryExclusiveFeed, Fetch, Fallback, FetchAll, ClientClose, Acquire, ReadDisk,
       Fetching, downloadVars
  <2> QED
    BY <2>1, <2>2, <2>3
<1>4. \A f \in Files : EvictionPending(f) => EvictionPending(f)'
  BY <1>2, <1>3 DEF EvictionPending
<1>5. \A f \in Files : /\ evicted[f] => evicted'[f]
                       /\ evicted'[f] => evicted[f] \/ EvictionPending(f)'
  <2>1. CASE ClientClose(c)
    <3>1. /\ pc'[c] = "evict" /\ cf'[c] = cf[c]
          /\ \A f \in Files : evicted'[f] <=> evicted[f] \/ f = cf[c]
      BY <2>1 DEF ClientClose, CloseFile, MarkEvicted, Goto, readerVars,
         ClientTypeOK
    <3> QED
      BY <3>1 DEF EvictionPending
  <2>2. CASE UNCHANGED evicted
    BY <2>2
  <2> QED
    BY <2>1, <2>2 DEF ClientStep, Lookup, CreateFails, Reader, CloseReader, Seek,
       Read, TryExclusiveFeed, Fetch, Fallback, FetchAll, Acquire, ReadDisk,
       stateVars
<1> QED
  BY <1>1, <1>4, <1>5, QuietStep

LEMMA WriterQuiet ==
  ASSUME Before, NEW f \in Files, NEW w \in Claims, Writer(f, w)
  PROVE  PoolLiveness'
PROOF
<1> USE BeforeParts
<1>1. UNCHANGED <<entries, victim, keyOf, mu, created, pc, cf>>
  BY DEF Writer, WriterOpen, WriterRegister, WriterCopy, WriterFeed, WriterEOF,
     WriterClose, WriterLeave, poolVars, stateVars
<1>2. HoldsMu'
  BY <1>1 DEF HoldsMu
<1>3. \E label \in WriterPcs :
        /\ wpc[f][w] # "evict" /\ WriterGoto(f, w, label)
        /\ WriterClose(f, w) => label = "evict"
  <2>1. CASE WriterClose(f, w)
    BY <2>1 DEF WriterClose, WriterPcs
  <2>2. CASE ~WriterClose(f, w)
    BY <2>2 DEF Writer, WriterOpen, WriterRegister, WriterCopy, WriterFeed,
       WriterEOF, WriterLeave, WriterPcs
  <2> QED
    BY <2>1, <2>2
<1>4. \A g \in Files, v \in Claims : wpc[g][v] = "evict" => wpc'[g][v] = "evict"
  BY <1>3 DEF WriterGoto, DownloadTypeOK
<1>5. \A g \in Files : EvictionPending(g) => EvictionPending(g)'
  BY <1>1, <1>4 DEF EvictionPending
<1>6. \A g \in Files : /\ evicted[g] => evicted'[g]
                       /\ evicted'[g] => evicted[g] \/ EvictionPending(g)'
  <2>1. CASE WriterClose(f, w)
    <3>1. /\ wpc'[f][w] = "evict"
          /\ \A g \in Files : evicted'[g] <=> evicted[g] \/ g = f
      BY <2>1 DEF WriterClose, WriterGoto, CloseFile, MarkEvicted, DownloadTypeOK
    <3> QED
      BY <3>1 DEF EvictionPending
  <2>2. CASE UNCHANGED evicted
    BY <2>2
  <2> QED
    BY <2>1, <2>2 DEF Writer, WriterOpen, WriterRegister, WriterCopy, WriterFeed,
       WriterEOF, WriterLeave, stateVars
<1> QED
  BY <1>1, <1>2, <1>5, <1>6, QuietStep

\* The evict closure of f takes away the entry it marks, whichever that is.
LEMMA EvictLive ==
  ASSUME Before, NEW f \in Files, Evict(f), MarkEvicted(Held(entries[keyOf[f]])),
         UNCHANGED created, HoldsMu',
         \A g \in Files : g # f /\ EvictionPending(g) => EvictionPending(g)'
  PROVE  PoolLiveness'
PROOF
<1> USE BeforeParts
<1> DEFINE k == keyOf[f]
<1>1. /\ k \in Keys /\ UNCHANGED <<victim, keyOf>> /\ victim = NoFile
      /\ entries' = [entries EXCEPT ![k] = NoFile]
  BY CacheFilePoolAssumption DEF Evict, Unlocked, HoldsMu, PoolTypes
<1>2. \A g \in Files : evicted'[g] <=> evicted[g] \/ g = entries[k]
  BY CacheFileAssumption DEF MarkEvicted, Held, StateTypeOK
<1>3. EntryIsOwn'
  BY <1>1 DEF EntryIsOwn, PoolTypes
<1>4. LiveIsPooled'
  BY <1>1, <1>2, CacheFileAssumption DEF LiveIsPooled, PoolTypes
<1>5. PoisonedLeavesPool'
  <2> SUFFICES ASSUME NEW x \in Keys, NEW g, g = entries'[x], g # NoFile, evicted'[g]
               PROVE  EvictionPending(g)'
    BY DEF PoisonedLeavesPool
  <2>1. x # k /\ g = entries[x] /\ g \in Files /\ keyOf[g] = x
    BY <1>1 DEF EntryIsOwn, PoolTypes
  <2>2. g # entries[k] /\ g # f
    BY <1>1, <2>1 DEF EntryIsOwn
  <2> QED
    BY <1>2, <2>1, <2>2 DEF PoisonedLeavesPool
<1> QED
  BY <1>3, <1>4, <1>5 DEF PoolLiveness

LEMMA CloseEvictsLive ==
  ASSUME Before, NEW c \in Clients, CloseEvicts(c)
  PROVE  PoolLiveness'
PROOF
<1> USE BeforeParts
<1>1. cf[c] \in Files
  BY DEF CloseEvicts, ClientEvict, HasFile
<1>2. /\ \A d \in Clients : d # c => pc'[d] = pc[d]
      /\ pc[c] = "evict" /\ pc'[c] = "ready"
      /\ UNCHANGED <<cf, wpc, created, mu, victim>>
  BY DEF CloseEvicts, ClientEvict, Evict, Goto, ReadReturn, ClientTypeOK,
     downloadVars
<1>3. HoldsMu'
  BY <1>2 DEF HoldsMu
<1>4. \A g \in Files : g # cf[c] /\ EvictionPending(g) => EvictionPending(g)'
  BY <1>2 DEF EvictionPending
<1>5. Evict(cf[c]) /\ MarkEvicted(Held(entries[keyOf[cf[c]]]))
  BY DEF CloseEvicts, ClientEvict
<1> QED
  BY <1>1, <1>2, <1>3, <1>4, <1>5, EvictLive

LEMMA WriterEvictsLive ==
  ASSUME Before, NEW f \in Files, NEW w \in Claims, WriterEvicts(f, w)
  PROVE  PoolLiveness'
PROOF
<1> USE BeforeParts
<1>1. UNCHANGED <<pc, cf, created, mu, victim>>
  BY DEF WriterEvicts, WriterEvict, Evict
<1>2. \A g \in Files : g # f => wpc'[g] = wpc[g]
  BY DEF WriterEvicts, WriterEvict, WriterGoto, DownloadTypeOK
<1>3. HoldsMu'
  BY <1>1 DEF HoldsMu
<1>4. \A g \in Files : g # f /\ EvictionPending(g) => EvictionPending(g)'
  BY <1>1, <1>2 DEF EvictionPending
<1>5. Evict(f) /\ MarkEvicted(Held(entries[keyOf[f]]))
  BY DEF WriterEvicts, WriterEvict
<1> QED
  BY <1>1, <1>3, <1>4, <1>5, EvictLive

LEMMA OnCacheEvictedLive ==
  ASSUME Before, NEW c \in Clients, OnCacheEvicted(c)
  PROVE  PoolLiveness'
PROOF
<1> USE BeforeParts
<1>1. /\ pc[c] = "evictOldest" /\ UNCHANGED <<cf, wpc, created, mu, entries, keyOf>>
      /\ victim' = NoFile
      /\ \A d \in Clients : pc'[d] = IF d = c THEN "openLocked" ELSE pc[d]
  BY DEF OnCacheEvicted, EvictOldest, Goto, ClientTypeOK, downloadVars
<1>2. HoldsMu'
  BY <1>1 DEF HoldsMu
<1>3. \A g \in Files : evicted'[g] <=> evicted[g] \/ g = victim
  BY CacheFileAssumption
     DEF OnCacheEvicted, EvictOldest, MarkEvicted, Held, StateTypeOK
<1>4. EntryIsOwn' /\ LiveIsPooled'
  BY <1>1, <1>3, CacheFileAssumption DEF EntryIsOwn, LiveIsPooled, PoolTypes
<1>5. \A g \in Files : EvictionPending(g) => EvictionPending(g)'
  BY <1>1 DEF EvictionPending
<1>6. PoisonedLeavesPool'
  BY <1>1, <1>3, <1>5, CacheFileAssumption
     DEF PoisonedLeavesPool, EntryIsOwn, PoolTypes
<1> QED
  BY <1>2, <1>4, <1>6 DEF PoolLiveness

LEMMA PoolLivenessStep ==
  ASSUME Before, [Next]_vars
  PROVE  PoolLiveness'
PROOF
<1> USE BeforeParts
<1>1. ASSUME NEW c \in Clients, NEW k \in Keys, Get(c, k)
      PROVE  PoolLiveness'
  <2>1. entries[k] \in Files \cup {NoFile} /\ Lookup(c, entries[k])
    BY <1>1 DEF Get, PoolTypes
  <2>2. pc[c] = "idle" /\ UNCHANGED <<entries, victim, keyOf, mu>>
    BY <1>1 DEF Get
  <2>3. HoldsMu'
    BY <1>1, <2>1, <2>2 DEF Lookup, Goto, HoldsMu, ClientTypeOK
  <2>4. ClientStep(c) /\ \A f \in Files : ~Create(c, f)
    BY <2>1, <2>2 DEF ClientStep, Create
  <2>5. \A gs \in SUBSET Files : ~EvictOldest(c, gs) /\ ~ClientEvict(c, gs)
    BY <2>2 DEF EvictOldest, ClientEvict
  <2> QED
    BY <2>2, <2>3, <2>4, <2>5, ClientQuiet
<1>2. ASSUME NEW c \in Clients, Recheck(c)
      PROVE  PoolLiveness'
  <2>1. /\ entries[key[c]] \in Files /\ Lookup(c, entries[key[c]])
        /\ pc[c] = "miss" /\ mu = NoClient /\ mu' = c
        /\ UNCHANGED <<entries, victim, keyOf>>
    BY <1>2 DEF Recheck, Unlocked, PoolTypes
  <2>2. cf' = [cf EXCEPT ![c] = entries[key[c]]] /\ pc'[c] = "openLocked"
    BY <2>1, CacheFileAssumption DEF Lookup, Goto, ClientTypeOK
  <2>3. HoldsMu'
    BY <2>1, <2>2, CacheFilePoolAssumption
       DEF Lookup, Goto, HoldsMu, ClientTypeOK
  <2>4. ClientStep(c) /\ \A f \in Files : ~Create(c, f)
    BY <2>1, <2>2 DEF ClientStep, Create, Goto, ClientTypeOK
  <2>5. \A gs \in SUBSET Files : ~EvictOldest(c, gs) /\ ~ClientEvict(c, gs)
    BY <2>1 DEF EvictOldest, ClientEvict
  <2> QED
    BY <2>1, <2>3, <2>4, <2>5, ClientQuiet
<1>3. ASSUME NEW c \in Clients, OpenReader(c)
      PROVE  PoolLiveness'
  <2>1. Reader(c) /\ UNCHANGED <<entries, victim, keyOf>>
    BY <1>3 DEF OpenReader
  <2>2. /\ \/ pc[c] = "open" /\ mu' = mu
           \/ pc[c] = "openLocked" /\ mu' = NoClient
        /\ \A d \in Clients : d # c => pc'[d] = pc[d]
        /\ pc'[c] \in {"idle", "ready"}
    BY <1>3 DEF OpenReader, Reader, Goto, ClientTypeOK
  <2>3. HoldsMu'
    BY <2>1, <2>2, CacheFilePoolAssumption DEF HoldsMu
  <2>4. ClientStep(c) /\ \A f \in Files : ~Create(c, f)
    BY <2>1 DEF ClientStep, Reader, Create
  <2>5. \A gs \in SUBSET Files : ~EvictOldest(c, gs) /\ ~ClientEvict(c, gs)
    BY <2>1 DEF Reader, EvictOldest, ClientEvict
  <2> QED
    BY <2>1, <2>3, <2>4, <2>5, ClientQuiet
<1>4. ASSUME NEW c \in Clients, UNCHANGED poolVars,
             \/ Seek(c) \/ CloseReader(c) \/ CreateFails(c)
             \/ \E n \in 1 .. MaxRead : Read(c, n)
             \/ TryExclusiveFeed(c) \/ Fetch(c) \/ Fallback(c) \/ FetchAll(c)
             \/ ClientClose(c) \/ Acquire(c) \/ ReadDisk(c)
      PROVE  PoolLiveness'
  <2>1. UNCHANGED <<entries, victim, keyOf, mu>>
    BY <1>4 DEF poolVars
  <2>2. /\ pc[c] \notin {"evictOldest", "openLocked", "evict"}
        /\ pc[c] = "miss" => pc'[c] = "idle"
        /\ pc'[c] \notin {"evictOldest", "openLocked"}
        /\ \A d \in Clients : d # c => pc'[d] = pc[d]
    BY <1>4 DEF CreateFails, CloseReader, Seek, Read, TryExclusiveFeed, Fetch,
       Fallback, FetchAll, ClientClose, Acquire, ReadDisk, Goto, ReadReturn,
       ClientTypeOK
  <2>3. HoldsMu'
    BY <2>1, <2>2 DEF HoldsMu
  <2>4. ClientStep(c)
    BY <1>4 DEF ClientStep
  <2>5. \A f \in Files : ~Create(c, f)
    BY <2>2 DEF Create, Goto, ClientTypeOK
  <2>6. \A gs \in SUBSET Files : ~EvictOldest(c, gs) /\ ~ClientEvict(c, gs)
    BY <2>2 DEF EvictOldest, ClientEvict
  <2> QED
    BY <2>1, <2>3, <2>4, <2>5, <2>6, ClientQuiet
<1>5. CASE UNCHANGED vars
  BY <1>5 DEF vars, fileVars, poolVars, PoolLiveness, HoldsMu, EntryIsOwn,
     LiveIsPooled, PoisonedLeavesPool, EvictionPending
<1>6. ASSUME NEW c \in Clients, Client(c) \/ Call(c) \/ LockedCall(c)
      PROVE  PoolLiveness'
  BY <1>1, <1>2, <1>3, <1>4, <1>6, AddLive, OnCacheEvictedLive, CloseEvictsLive
     DEF Client, Call, LockedCall, AddFails
<1> QED
  BY <1>5, <1>6, WriterQuiet, WriterEvictsLive DEF Next

LEMMA PoolLivenessCorrect == Spec => []PoolLiveness
PROOF
<1>1. PoolInit => PoolLiveness
  BY CacheFilePoolAssumption, CacheFileAssumption
     DEF PoolInit, Init, PoolLiveness, HoldsMu, EntryIsOwn, LiveIsPooled,
         PoisonedLeavesPool
<1>2. PoolInv /\ ClaimInv /\ FileLifecycle /\ PoolLiveness /\ [Next]_vars
        => PoolLiveness'
  BY PoolLivenessStep DEF Before
<1> QED
  BY <1>1, <1>2, PoolImplementsFiles, ClaimInvCorrect, FileLifecycleCorrect, PTL
     DEF Spec

-----------------------------------------------------------------------------
(* The list of the cache: its keys, each once, within its limit.               *)

\* The elements of a list that has no repetitions.
In(s) == {s[i] : i \in 1 .. Len(s)}
Once(s) == \A i, j \in 1 .. Len(s) : s[i] = s[j] => i = j

\* What is left of a list when the element at i is taken out.
Cut(s, i) == SubSeq(s, 1, i - 1) \o SubSeq(s, i + 1, Len(s))

LEMMA CutOut ==
  ASSUME NEW S, NEW s \in Seq(S), NEW i \in 1 .. Len(s)
  PROVE  /\ Cut(s, i) \in Seq(S) /\ Len(Cut(s, i)) = Len(s) - 1
         /\ \A j \in 1 .. Len(Cut(s, i)) : Cut(s, i)[j] = IF j < i THEN s[j] ELSE s[j + 1]
PROOF
<1> DEFINE a == SubSeq(s, 1, i - 1)
           b == SubSeq(s, i + 1, Len(s))
           t == Cut(s, i)
<1>1. a \in Seq(S) /\ Len(a) = i - 1 /\ \A j \in 1 .. i - 1 : a[j] = s[j]
  OBVIOUS
<1>2. b \in Seq(S) /\ Len(b) = Len(s) - i /\ \A j \in 1 .. Len(s) - i : b[j] = s[i + j]
  OBVIOUS
<1>3. t = a \o b
  BY DEF Cut
<1> HIDE DEF a, b, t
<1>4. t \in Seq(S) /\ Len(t) = Len(a) + Len(b)
  BY <1>1, <1>2, <1>3, ConcatProperties
<1>5. \A j \in 1 .. Len(t) : t[j] = IF j <= Len(a) THEN a[j] ELSE b[j - Len(a)]
  BY <1>1, <1>2, <1>3, ConcatProperties
<1>6. Len(t) = Len(s) - 1
  BY <1>1, <1>2, <1>4
<1>7. \A j \in 1 .. Len(t) : t[j] = IF j < i THEN s[j] ELSE s[j + 1]
  <2> SUFFICES ASSUME NEW j \in 1 .. Len(t) PROVE t[j] = IF j < i THEN s[j] ELSE s[j + 1]
    OBVIOUS
  <2>1. CASE j < i
    BY <1>1, <1>5, <2>1
  <2>2. CASE j >= i
    <3>1. j - (i - 1) \in 1 .. Len(s) - i /\ i + (j - (i - 1)) = j + 1
      BY <1>6, <2>2
    <3> QED
      BY <1>1, <1>2, <1>5, <2>2, <3>1
  <2> QED
    BY <2>1, <2>2
<1> QED
  BY <1>4, <1>6, <1>7 DEF t

\* removeElement takes out one element and keeps the others.
LEMMA WithoutRemoves ==
  ASSUME NEW s \in Seq(Keys), NEW k, Once(s)
  PROVE  /\ Once(Without(s, k))
         /\ In(Without(s, k)) = In(s) \ {k}
         /\ Len(Without(s, k)) = IF k \in In(s) THEN Len(s) - 1 ELSE Len(s)
PROOF
<1> DEFINE t == Without(s, k)
<1>1. CASE k \notin In(s)
  <2>1. t = s
    BY <1>1 DEF Without, In
  <2> QED
    BY <1>1, <2>1
<1>2. CASE k \in In(s)
  <2>1. PICK i \in 1 .. Len(s) : s[i] = k /\ t = Cut(s, i)
    <3>1. \E j \in 1 .. Len(s) : s[j] = k
      BY <1>2 DEF In
    <3> QED
      BY <3>1 DEF Without, Cut
  <2>2. Len(t) = Len(s) - 1
    BY <2>1, CutOut
  <2>3. \A j \in 1 .. Len(t) : t[j] = IF j < i THEN s[j] ELSE s[j + 1]
    BY <2>1, CutOut
  <2> HIDE DEF t
  <2> DEFINE At(j) == IF j < i THEN j ELSE j + 1
  <2>4. \A j \in 1 .. Len(t) : At(j) \in 1 .. Len(s) /\ At(j) # i /\ t[j] = s[At(j)]
    BY <2>2, <2>3
  <2>5. \A j, n \in 1 .. Len(t) : At(j) = At(n) => j = n
    OBVIOUS
  <2>6. \A n \in 1 .. Len(s) : n # i => \E j \in 1 .. Len(t) : At(j) = n
    <3> SUFFICES ASSUME NEW n \in 1 .. Len(s), n # i PROVE \E j \in 1 .. Len(t) : At(j) = n
      OBVIOUS
    <3>1. CASE n < i
      <4>1. n \in 1 .. Len(t) /\ At(n) = n
        BY <2>2, <3>1
      <4> QED
        BY <4>1
    <3>2. CASE n > i
      <4>1. n - 1 \in 1 .. Len(t) /\ At(n - 1) = n
        BY <2>2, <3>2
      <4> QED
        BY <4>1
    <3> QED
      BY <3>1, <3>2
  <2> HIDE DEF At
  <2>7. Once(t)
    BY <2>4, <2>5 DEF Once
  <2>8. In(t) \subseteq In(s) \ {k}
    <3> SUFFICES ASSUME NEW j \in 1 .. Len(t) PROVE t[j] \in In(s) \ {k}
      BY DEF In
    <3>1. At(j) \in 1 .. Len(s) /\ t[j] = s[At(j)] /\ s[At(j)] # s[i]
      BY <2>1, <2>4 DEF Once
    <3> QED
      BY <2>1, <3>1 DEF In
  <2>9. In(s) \ {k} \subseteq In(t)
    <3> SUFFICES ASSUME NEW n \in 1 .. Len(s), s[n] # k PROVE s[n] \in In(t)
      BY DEF In
    <3>1. PICK j \in 1 .. Len(t) : At(j) = n
      BY <2>1, <2>6
    <3> QED
      BY <2>4, <3>1 DEF In
  <2> QED
    BY <1>2, <2>2, <2>7, <2>8, <2>9 DEF t
<1> QED
  BY <1>1, <1>2

\* What Touch and Added put in front.
LEMMA InFront ==
  ASSUME NEW s \in Seq(Keys), NEW k \in Keys, Once(s)
  PROVE  LET t == <<k>> \o Without(s, k)
         IN  /\ t \in Seq(Keys) /\ Once(t) /\ In(t) = In(s) \cup {k}
             /\ Len(t) = IF k \in In(s) THEN Len(s) ELSE Len(s) + 1
             /\ t[1] = k
PROOF
<1> DEFINE u == Without(s, k)
           t == <<k>> \o u
<1>1. u \in Seq(Keys) /\ Once(u) /\ In(u) = In(s) \ {k}
  BY WithoutType, WithoutRemoves
<1>2. Len(u) = IF k \in In(s) THEN Len(s) - 1 ELSE Len(s)
  BY WithoutRemoves
<1> HIDE DEF u
<1>3. t \in Seq(Keys) /\ Len(t) = Len(u) + 1 /\ t[1] = k
  BY <1>1
<1>4. \A j \in 1 .. Len(u) : t[j + 1] = u[j]
  BY <1>1
<1>5. \A j \in 2 .. Len(t) : j - 1 \in 1 .. Len(u) /\ t[j] = u[j - 1]
  BY <1>1, <1>3
<1>6. k \notin In(u)
  BY <1>1
<1> HIDE DEF t
<1>7. Once(t)
  <2> SUFFICES ASSUME NEW m \in 1 .. Len(t), NEW n \in 1 .. Len(t), t[m] = t[n] PROVE m = n
    BY DEF Once
  <2>1. CASE m = 1 /\ n # 1
    BY <1>1, <1>3, <1>5, <1>6, <2>1 DEF In
  <2>2. CASE m # 1 /\ n = 1
    BY <1>1, <1>3, <1>5, <1>6, <2>2 DEF In
  <2>3. CASE m # 1 /\ n # 1
    <3>1. m - 1 \in 1 .. Len(u) /\ n - 1 \in 1 .. Len(u) /\ u[m - 1] = u[n - 1]
      BY <1>5, <2>3
    <3>2. m - 1 = n - 1
      BY <1>1, <3>1 DEF Once
    <3> QED
      BY <3>2
  <2> QED
    BY <2>1, <2>2, <2>3
<1>8. In(t) = In(u) \cup {k}
  <2>1. In(t) \subseteq In(u) \cup {k}
    BY <1>1, <1>3, <1>5 DEF In
  <2>2. k \in In(t)
    BY <1>1, <1>3 DEF In
  <2>3. In(u) \subseteq In(t)
    <3> SUFFICES ASSUME NEW j \in 1 .. Len(u) PROVE u[j] \in In(t)
      BY DEF In
    <3>1. j + 1 \in 1 .. Len(t) /\ t[j + 1] = u[j]
      BY <1>1, <1>3, <1>4
    <3> QED
      BY <3>1 DEF In
  <2> QED
    BY <2>1, <2>2, <2>3
<1> QED
  BY <1>1, <1>2, <1>3, <1>7, <1>8 DEF t, u

LEMMA RecentStep ==
  ASSUME PoolTypes, HasFile, RecentMatchesEntries, [Next]_vars
  PROVE  RecentMatchesEntries'
PROOF
<1> USE CacheFilePoolAssumption, CacheFileAssumption
<1>1. /\ recent \in Seq(Keys) /\ Once(recent) /\ Len(recent) <= MaxCache
      /\ In(recent) = {k \in Keys : entries[k] # NoFile}
  BY DEF RecentMatchesEntries, PoolTypes, Once, In
<1>2. SUFFICES /\ Once(recent') /\ Len(recent') <= MaxCache
               /\ In(recent') = {k \in Keys : entries'[k] # NoFile}
  BY DEF RecentMatchesEntries, Once, In
<1>3. ASSUME NEW k \in Keys, entries[k] # NoFile, Touch(k), UNCHANGED entries
      PROVE  /\ Once(recent') /\ Len(recent') <= MaxCache
             /\ In(recent') = {x \in Keys : entries'[x] # NoFile}
  <2>1. k \in In(recent)
    BY <1>1, <1>3
  <2>2. /\ Once(recent') /\ Len(recent') = Len(recent) /\ In(recent') = In(recent) \cup {k}
    BY <1>1, <1>3, <2>1, InFront DEF Touch
  <2> QED
    BY <1>1, <1>3, <2>1, <2>2
<1>4. ASSUME NEW f \in Files, Evict(f)
      PROVE  /\ Once(recent') /\ Len(recent') <= MaxCache
             /\ In(recent') = {x \in Keys : entries'[x] # NoFile}
  <2>1. keyOf[f] \in Keys /\ entries' = [entries EXCEPT ![keyOf[f]] = NoFile]
        /\ recent' = Without(recent, keyOf[f])
    BY <1>4 DEF Evict, PoolTypes
  <2>2. /\ Once(recent') /\ In(recent') = In(recent) \ {keyOf[f]}
        /\ Len(recent') = IF keyOf[f] \in In(recent) THEN Len(recent) - 1 ELSE Len(recent)
    BY <1>1, <2>1, WithoutRemoves
  <2>3. Len(recent') <= MaxCache
    BY <1>1, <2>2
  <2>4. In(recent') = {x \in Keys : entries'[x] # NoFile}
    BY <1>1, <2>1, <2>2 DEF PoolTypes
  <2> QED
    BY <2>2, <2>3, <2>4
<1>5. ASSUME NEW k \in Keys, NEW f \in Files, entries[k] = NoFile, Added(k, f)
      PROVE  /\ Once(recent') /\ Len(recent') <= MaxCache
             /\ In(recent') = {x \in Keys : entries'[x] # NoFile}
  <2> DEFINE order == <<k>> \o Without(recent, k)
             old   == order[Len(order)]
             rest  == Without(order, old)
             full  == Len(order) > MaxCache
  <2>1. k \notin In(recent)
    BY <1>1, <1>5
  <2>2. /\ order \in Seq(Keys) /\ Once(order) /\ In(order) = In(recent) \cup {k}
        /\ Len(order) = Len(recent) + 1 /\ order[1] = k
    BY <1>1, <2>1, InFront
  <2>3. /\ entries' = [x \in Keys |-> CASE x = k -> f
                                        [] x # k /\ full /\ x = old -> NoFile
                                        [] OTHER -> entries[x]]
        /\ recent' = IF full THEN rest ELSE order
    BY <1>5 DEF Added
  <2> HIDE DEF order
  <2>4. old \in Keys /\ old \in In(order)
    BY <1>1, <2>2 DEF In
  <2>5. /\ Once(rest) /\ In(rest) = In(order) \ {old} /\ Len(rest) = Len(order) - 1
    BY <2>2, <2>4, WithoutRemoves
  <2>6. full => old # k
    <3> SUFFICES ASSUME full, old = k PROVE FALSE
      OBVIOUS
    <3>1. Len(order) = 1
      BY <1>1, <2>2 DEF Once
    <3> QED
      BY <3>1
  <2> HIDE DEF old, rest, full
  <2>7. CASE full
    <3>1. recent' = rest /\ Len(recent') <= MaxCache
      BY <1>1, <2>2, <2>3, <2>5, <2>7
    <3>2. \A x \in Keys : entries'[x] = IF x = k THEN f ELSE IF x = old THEN NoFile ELSE entries[x]
      BY <2>3, <2>7
    <3>3. In(rest) = {x \in Keys : entries'[x] # NoFile}
      BY <1>1, <2>2, <2>5, <2>6, <2>7, <3>2
    <3> QED
      BY <2>5, <3>1, <3>3
  <2>8. CASE ~full
    <3>1. recent' = order /\ Len(recent') <= MaxCache
      BY <1>1, <2>2, <2>3, <2>8 DEF full
    <3>2. \A x \in Keys : entries'[x] = IF x = k THEN f ELSE entries[x]
      BY <2>3, <2>8
    <3> QED
      BY <1>1, <2>2, <3>1, <3>2
  <2> QED
    BY <2>7, <2>8
<1>6. CASE UNCHANGED <<entries, recent>>
  BY <1>1, <1>6
<1>7. ASSUME NEW c \in Clients, Client(c) \/ Call(c) \/ LockedCall(c)
      PROVE  /\ Once(recent') /\ Len(recent') <= MaxCache
             /\ In(recent') = {x \in Keys : entries'[x] # NoFile}
  <2>1. ASSUME NEW k \in Keys, Get(c, k)
        PROVE  UNCHANGED <<entries, recent>> \/ (entries[k] # NoFile /\ Touch(k) /\ UNCHANGED entries)
    BY <2>1 DEF Get
  <2>2. CASE Recheck(c)
    BY <1>3, <2>2 DEF Recheck, PoolTypes
  <2>3. ASSUME NEW f \in Files, Add(c, f)
        PROVE  key[c] \in Keys /\ entries[key[c]] = NoFile /\ Added(key[c], f)
    BY <2>3 DEF Add, PoolTypes
  <2>4. CASE CloseEvicts(c)
    <3>1. cf[c] \in Files /\ Evict(cf[c])
      BY <2>4 DEF CloseEvicts, ClientEvict, HasFile
    <3> QED
      BY <1>4, <3>1
  <2> QED
    BY <1>3, <1>5, <1>6, <1>7, <2>1, <2>2, <2>3, <2>4
       DEF Client, Call, LockedCall, OpenReader, OnCacheEvicted, AddFails, poolVars
<1> QED
  BY <1>4, <1>6, <1>7 DEF Next, Writer, WriterEvicts, poolVars, vars

\* The list and the entries of the cache never come apart: what is in the pool can
\* become the oldest and be pushed out.
LEMMA RecentCorrect == Spec => []RecentMatchesEntries
PROOF
<1>1. PoolInit => RecentMatchesEntries
  BY CacheFilePoolAssumption DEF PoolInit, RecentMatchesEntries
<1>2. PoolInv /\ RecentMatchesEntries /\ [Next]_vars => RecentMatchesEntries'
  BY RecentStep DEF PoolInv
<1> QED
  BY <1>1, <1>2, PoolImplementsFiles, PTL DEF Spec

\* The pool has exactly the cacheFiles that still serve, or that whoever closed them is
\* about to take out: entries.Add, Remove and the evict closures lose none of them.
THEOREM PoolHoldsTheLiveCorrect == Spec => []PoolHoldsTheLive
PROOF
<1>1. PoolLiveness /\ RecentMatchesEntries => PoolHoldsTheLive
  BY DEF PoolLiveness, PoolHoldsTheLive
<1> QED
  BY <1>1, PoolLivenessCorrect, RecentCorrect, PTL
=============================================================================
