------------------------------ MODULE CacheFile ------------------------------
(***************************************************************************)
(* A cacheFile of common/drive_util/cache_file_pool.go: one backing file   *)
(* on disk, filled on demand by downloader goroutines and read at the same *)
(* time by any number of cacheFileReaders.                                 *)
(*                                                                         *)
(* Every step below is one critical section (of cf.mu, rl.mu or wl.mu) or  *)
(* one call to the outside (the drive's GetReader, a read of its stream, a *)
(* write to disk); everything else interleaves.  A byte range is the set   *)
(* of its units; RangeLock shows that the merged interval list of the code *)
(* answers exactly as that set does.                                       *)
(***************************************************************************)
EXTENDS Integers, FiniteSets

CONSTANTS Clients,    \* goroutines that read files through the pool
          Files,      \* cacheFile instances (memory and backing file)
          NoFile,     \* the absence of one
          Size,       \* cf.size: length of the source, in units
          BlockSize,  \* readRequest's blockSize (10 MiB), in units
          MaxRead,    \* longest buffer a client passes to Read, in units
          Faults      \* what happens outside: see below

ASSUME CacheFileAssumption ==
  /\ Size \in Nat \ {0} /\ BlockSize \in Nat \ {0} /\ MaxRead \in Nat \ {0}
  /\ NoFile \notin Files
  /\ Faults \subseteq {"unsupported", "fetch", "stream", "short", "disk"}

\* "unsupported": the drive refuses ranged reads, as FTP does; "fetch": getReader
\* fails; "stream": its stream fails; "short": its stream ends early; "disk": a
\* call on the backing file fails.

Units  == 0 .. Size - 1
Extent == 0 .. 2 * Size - 1      \* a misplaced download may run past the end
Hole   == -1                     \* a unit of the file nobody has written
Span(lo, hi) == lo .. hi - 1
Claims == Units \X (1 .. Size)   \* <<first unit, one past the last>>

VARIABLES
  \* the cacheFile
  created,   \* CreateTemp has made the backing file
  evicted, removed,
  canceled,  \* rl.canceled; wl is canceled in the same section
  rl,        \* units fed for reading
  wl,        \* units some downloader has been made responsible for
  readers,   \* cf.readers: the clients with a registered reader
  writers,   \* cf.writers: the downloads with a registered file handle
  disk,      \* the unit of the source stored at each position
  \* the downloader goroutines, one per claim
  wpc, copied, whole, shut,
  \* the clients and the cacheFileReader each one owns
  pc, cf, pos, want

stateVars    == <<created, evicted, removed, canceled>>
rangeVars    == <<rl, wl>>
downloadVars == <<wpc, copied, whole, shut>>
readerVars   == <<pos, want>>
fileVars == <<created, evicted, removed, canceled, rl, wl, readers, writers,
              disk, wpc, copied, whole, shut, pc, cf, pos, want>>

WriterPcs == {"none", "start", "opened", "copy", "feed", "close", "evict",
              "leave", "done"}
\* A client outside GetReader and Read is idle (no reader) or ready (one).
GetReaderPcs == {"open", "miss", "evictOldest", "openLocked"}
ReadPcs == {"claim", "fetch", "fallback", "fetchAll", "close", "evict",
            "acquire", "read"}
ClientPcs == {"idle", "ready"} \cup GetReaderPcs \cup ReadPcs

Init ==
  /\ created  = [f \in Files |-> FALSE]
  /\ evicted  = [f \in Files |-> FALSE]
  /\ removed  = [f \in Files |-> FALSE]
  /\ canceled = [f \in Files |-> FALSE]
  /\ rl = [f \in Files |-> {}]
  /\ wl = [f \in Files |-> {}]
  /\ readers = [f \in Files |-> {}]
  /\ writers = [f \in Files |-> {}]
  /\ disk = [f \in Files |-> [i \in Extent |-> Hole]]
  /\ wpc = [f \in Files |-> [w \in Claims |-> "none"]]
  /\ copied = [f \in Files |-> [w \in Claims |-> 0]]
  /\ whole = [f \in Files |-> [w \in Claims |-> FALSE]]
  /\ shut = [f \in Files |-> {}]
  /\ pc = [c \in Clients |-> "idle"]
  /\ cf = [c \in Clients |-> NoFile]
  /\ pos = [c \in Clients |-> 0]
  /\ want = [c \in Clients |-> 0]
-----------------------------------------------------------------------------
(* Shared pieces *)

\* A cacheFile nobody can reach any more: its slot may stand for a new one.
Unreferenced(f) ==
  /\ \A c \in Clients : cf[c] # f
  /\ \A w \in Claims : wpc[f][w] \in {"none", "done"}

\* removeFileIfIdleLocked for the cacheFiles of gs, with the values evicted,
\* readers and writers have when it is called.
RemoveFileIfIdle(gs, ev, rs, ws) ==
  removed' = [f \in Files |->
                \/ removed[f]
                \/ f \in gs /\ created[f] /\ ev[f] /\ rs[f] = {} /\ ws[f] = {}]

\* onCacheEvicted for the cacheFiles of gs (one, or none when the key is gone).
MarkEvicted(gs) ==
  /\ evicted' = [f \in Files |-> evicted[f] \/ f \in gs]
  /\ RemoveFileIfIdle(gs, evicted', readers, writers)

\* Mutant: the range locks are not released.
CloseWithoutCancel(f) ==
  /\ shut' = [shut EXCEPT ![f] = @ \cup writers[f]]
  /\ MarkEvicted({f})
  /\ UNCHANGED canceled

\* The section of cacheFile.Close under cf.mu: the writers' handles are closed,
\* the range locks canceled, the file removed once idle.
CloseFile(f) ==
  /\ shut' = [shut EXCEPT ![f] = @ \cup writers[f]]
  /\ canceled' = [canceled EXCEPT ![f] = TRUE]
  /\ MarkEvicted({f})

Goto(c, label) == pc' = [pc EXCEPT ![c] = label]
ReadReturn(c)  == Goto(c, "ready") /\ want' = [want EXCEPT ![c] = 0]

\* Mutant: the end is rounded down to a block.
ClaimRoundsDown(start, len) ==
  LET lo == BlockSize * (start \div BlockSize)
      up == BlockSize * ((start + len) \div BlockSize)
      hi == IF up < Size THEN up ELSE Size
  IN  IF Size <= BlockSize THEN <<0, Size>>
      ELSE <<lo, IF Size - hi < BlockSize THEN Size ELSE hi>>

\* The block-aligned span a request for [start, start+len) is made to claim:
\* the whole of a small file; else whole blocks, a short tail included.
Claim(start, len) ==
  LET lo == BlockSize * (start \div BlockSize)
      up == BlockSize * ((start + len + BlockSize - 1) \div BlockSize)
      hi == IF up < Size THEN up ELSE Size
  IN  IF Size <= BlockSize THEN <<0, Size>>
      ELSE <<lo, IF Size - hi < BlockSize THEN Size ELSE hi>>

Wanted(c)  == Span(pos[c], pos[c] + want[c])
ClaimOf(c) == Claim(pos[c], want[c])

\* rangeLock._satisfy and _feed on the units of a claim.
Satisfied(fed, w) == Span(w[1], w[2]) \subseteq fed
-----------------------------------------------------------------------------
(* Opening and closing a reader *)

\* GetReader makes a cacheFile: the part of lines 63-89 that concerns the file.
Create(c, f) ==
  /\ pc[c] = "miss" /\ (created[f] => removed[f]) /\ Unreferenced(f)
  /\ created'  = [created EXCEPT ![f] = TRUE]
  /\ evicted'  = [evicted EXCEPT ![f] = FALSE]
  /\ removed'  = [removed EXCEPT ![f] = FALSE]
  /\ canceled' = [canceled EXCEPT ![f] = FALSE]
  /\ rl' = [rl EXCEPT ![f] = {}]
  /\ wl' = [wl EXCEPT ![f] = {}]
  /\ disk' = [disk EXCEPT ![f] = [i \in Extent |-> Hole]]
  /\ wpc' = [wpc EXCEPT ![f] = [w \in Claims |-> "none"]]
  /\ copied' = [copied EXCEPT ![f] = [w \in Claims |-> 0]]
  /\ whole' = [whole EXCEPT ![f] = [w \in Claims |-> FALSE]]
  /\ shut' = [shut EXCEPT ![f] = {}]
  /\ cf' = [cf EXCEPT ![c] = f]
  /\ Goto(c, "evictOldest")
  /\ UNCHANGED <<readers, writers, pos, want>>

\* entries.Add has pushed the entries of gs out of the pool.
EvictOldest(c, gs) ==
  /\ pc[c] = "evictOldest"
  /\ MarkEvicted(gs)
  /\ Goto(c, "openLocked")
  /\ UNCHANGED <<created, canceled, rangeVars, readers, writers, disk,
                 downloadVars, cf, readerVars>>

\* A request enters GetReader, having found cacheFile f or, for NoFile, a miss.
Lookup(c, f) ==
  /\ \/ pc[c] = "idle" /\ f # NoFile /\ Goto(c, "open")
     \/ pc[c] = "idle" /\ f = NoFile /\ Goto(c, "miss")
     \/ pc[c] = "miss" /\ f # NoFile /\ Goto(c, "openLocked")
  /\ cf' = [cf EXCEPT ![c] = f]
  /\ UNCHANGED <<stateVars, rangeVars, readers, writers, disk, downloadVars,
                 readerVars>>

\* CreateTemp fails: GetReader returns its error.
CreateFails(c) ==
  /\ pc[c] = "miss" /\ "disk" \in Faults
  /\ Goto(c, "idle")
  /\ UNCHANGED <<stateVars, rangeVars, readers, writers, disk, downloadVars, cf,
                 readerVars>>

\* cacheFile.Reader: os.Open finds the backing file, or it is already gone.
Reader(c) ==
  /\ pc[c] \in {"open", "openLocked"}
  /\ \/ /\ ~removed[cf[c]]
        /\ readers' = [readers EXCEPT ![cf[c]] = @ \cup {c}]
        /\ Goto(c, "ready")
        /\ UNCHANGED cf
     \/ /\ removed[cf[c]] \/ "disk" \in Faults
        /\ Goto(c, "idle")
        /\ cf' = [cf EXCEPT ![c] = NoFile]
        /\ UNCHANGED readers
  /\ UNCHANGED <<stateVars, rangeVars, writers, disk, downloadVars, readerVars>>

\* cacheFileReader.Close and releaseReader.
CloseReader(c) ==
  /\ pc[c] = "ready"
  /\ readers' = [readers EXCEPT ![cf[c]] = @ \ {c}]
  /\ RemoveFileIfIdle({cf[c]}, evicted, readers', writers)
  /\ Goto(c, "idle")
  /\ cf' = [cf EXCEPT ![c] = NoFile]
  /\ pos' = [pos EXCEPT ![c] = 0]
  /\ UNCHANGED <<created, evicted, canceled, rangeVars, writers, disk,
                 downloadVars, want>>

\* Mutant: Seek accepts an offset past the end.
SeekPastEnd(c) ==
  /\ pc[c] = "ready"
  /\ \E p \in 0 .. Size + 1 : pos' = [pos EXCEPT ![c] = p]
  /\ UNCHANGED <<stateVars, rangeVars, readers, writers, disk, downloadVars, pc,
                 cf, want>>

\* cacheFileReader.Seek to an offset it accepts (another one changes nothing).
Seek(c) ==
  /\ pc[c] = "ready"
  /\ \E p \in 0 .. Size : pos' = [pos EXCEPT ![c] = p]
  /\ UNCHANGED <<stateVars, rangeVars, readers, writers, disk, downloadVars, pc,
                 cf, want>>
-----------------------------------------------------------------------------
(* cacheFileReader.Read *)

\* Read with a buffer of n units: clip it to the file, and skip the request
\* when nothing is left or rl already has it all.
Read(c, n) ==
  /\ pc[c] = "ready"
  /\ LET len == IF pos[c] + n > Size THEN Size - pos[c] ELSE n
     IN /\ want' = [want EXCEPT ![c] = len]
        /\ Goto(c, IF Span(pos[c], pos[c] + len) \subseteq rl[cf[c]]
                   THEN "acquire" ELSE "claim")
  /\ UNCHANGED <<stateVars, rangeVars, readers, writers, disk, downloadVars, cf,
                 pos>>

\* wl.tryExclusiveFeed on the request's claim: whoever gets TRUE must fill it.
TryExclusiveFeed(c) ==
  /\ pc[c] = "claim"
  /\ IF Satisfied(wl[cf[c]], ClaimOf(c))
     THEN /\ Goto(c, "acquire")
          /\ UNCHANGED wl
     ELSE /\ wl' = [wl EXCEPT ![cf[c]] = @ \cup Span(ClaimOf(c)[1], ClaimOf(c)[2])]
          /\ Goto(c, "fetch")
  /\ UNCHANGED <<stateVars, rl, readers, writers, disk, downloadVars, cf,
                 readerVars>>

\* startWriter: the goroutine that copies the stream into the file, from the
\* first unit of the claim on.
StartWriter(c, isWhole) ==
  /\ wpc' = [wpc EXCEPT ![cf[c]][ClaimOf(c)] = "start"]
  /\ whole' = [whole EXCEPT ![cf[c]][ClaimOf(c)] = isWhole]
  /\ UNCHANGED <<copied, shut>>

\* A ranged call to a drive that cannot serve ranges; a small file is asked for
\* as (-1, -1), which every drive supports.
RefusesRange == "unsupported" \in Faults /\ Size > BlockSize

\* cf.getReader(offset, size).
Fetch(c) ==
  /\ pc[c] = "fetch"
  /\ \/ ~RefusesRange /\ StartWriter(c, FALSE) /\ Goto(c, "acquire")
     \/ "fetch" \in Faults /\ Goto(c, "close") /\ UNCHANGED downloadVars
     \/ RefusesRange /\ Goto(c, "fallback") /\ UNCHANGED downloadVars
  /\ UNCHANGED <<stateVars, rangeVars, readers, writers, disk, cf, readerVars>>

\* The drive cannot serve ranges: claim the whole file instead.
Fallback(c) ==
  /\ pc[c] = "fallback"
  /\ IF Units \subseteq wl[cf[c]]
     THEN Goto(c, "acquire") /\ UNCHANGED wl
     ELSE wl' = [wl EXCEPT ![cf[c]] = Units] /\ Goto(c, "fetchAll")
  /\ UNCHANGED <<stateVars, rl, readers, writers, disk, downloadVars, cf,
                 readerVars>>

\* cf.getReader(-1, -1) after the fallback; the writer keeps the old offset.
FetchAll(c) ==
  /\ pc[c] = "fetchAll"
  /\ \/ StartWriter(c, TRUE) /\ Goto(c, "acquire")
     \/ "fetch" \in Faults /\ Goto(c, "close") /\ UNCHANGED downloadVars
  /\ UNCHANGED <<stateVars, rangeVars, readers, writers, disk, cf, readerVars>>

\* The failed request closes the cacheFile ...
ClientClose(c) ==
  /\ pc[c] = "close"
  /\ CloseFile(cf[c])
  /\ Goto(c, "evict")
  /\ UNCHANGED <<created, rangeVars, readers, writers, disk, wpc, copied, whole,
                 cf, readerVars>>

\* ... and evicts what the pool holds for the key; Read returns the error.
ClientEvict(c, gs) ==
  /\ pc[c] = "evict"
  /\ MarkEvicted(gs)
  /\ ReadReturn(c)
  /\ UNCHANGED <<created, canceled, rangeVars, readers, writers, disk,
                 downloadVars, cf, pos>>

\* Mutant: the reader waits for the claim, not for the data.
AcquireClaimed(c) ==
  /\ pc[c] = "acquire"
  /\ IF Wanted(c) \subseteq wl[cf[c]]
     THEN Goto(c, "read") /\ UNCHANGED want
     ELSE canceled[cf[c]] /\ ReadReturn(c)
  /\ UNCHANGED <<stateVars, rangeVars, readers, writers, disk, downloadVars, cf,
                 pos>>

\* rl.acquire: let through when the range is fed, os.ErrClosed when canceled.
\* Both wake-ups broadcast under rl.mu, so a waiter is a guard on the state.
Acquire(c) ==
  /\ pc[c] = "acquire"
  /\ IF Wanted(c) \subseteq rl[cf[c]]
     THEN Goto(c, "read") /\ UNCHANGED want
     ELSE canceled[cf[c]] /\ ReadReturn(c)
  /\ UNCHANGED <<stateVars, rangeVars, readers, writers, disk, downloadVars, cf,
                 pos>>

\* cfr.f.Read: a disk error returns as it is, else the position moves on.
ReadDisk(c) ==
  /\ pc[c] = "read"
  /\ \/ pos' = [pos EXCEPT ![c] = @ + want[c]]
     \/ "disk" \in Faults /\ UNCHANGED pos
  /\ ReadReturn(c)
  /\ UNCHANGED <<stateVars, rangeVars, readers, writers, disk, downloadVars, cf>>
-----------------------------------------------------------------------------
(* The goroutine of startWriter that fills claim w of f *)

WriterGoto(f, w, label) == wpc' = [wpc EXCEPT ![f][w] = label]

\* What the stream delivers: the claimed span, or the file from its beginning.
StreamLength(f, w) == IF whole[f][w] THEN Size ELSE w[2] - w[1]

StreamUnit(f, w) == IF whole[f][w] THEN copied[f][w] ELSE w[1] + copied[f][w]
\* Where it is written: after the offset sought to, whatever the stream is.
Position(f, w) == w[1] + copied[f][w]

WriterOpen(f, w) ==
  /\ wpc[f][w] = "start"
  /\ \/ ~removed[f] /\ WriterGoto(f, w, "opened")
     \/ (removed[f] \/ "disk" \in Faults) /\ WriterGoto(f, w, "close")
  /\ UNCHANGED <<stateVars, rangeVars, readers, writers, disk, copied, whole,
                 shut, pc, cf, readerVars>>

WriterRegister(f, w) ==
  /\ wpc[f][w] = "opened"
  /\ writers' = [writers EXCEPT ![f] = @ \cup {w}]
  /\ WriterGoto(f, w, "copy")
  /\ UNCHANGED <<stateVars, rangeVars, readers, disk, copied, whole, shut, pc, cf,
                 readerVars>>

\* One chunk from the stream to the file; the handle may have been closed.
WriterCopy(f, w) ==
  /\ wpc[f][w] = "copy" /\ copied[f][w] < StreamLength(f, w)
  /\ \/ /\ w \notin shut[f]
        /\ disk' = [disk EXCEPT ![f][Position(f, w)] = StreamUnit(f, w)]
        /\ WriterGoto(f, w, "feed")
     \/ /\ w \in shut[f] \/ "disk" \in Faults \/ "stream" \in Faults
        /\ WriterGoto(f, w, "close")
        /\ UNCHANGED disk
  /\ UNCHANGED <<stateVars, rangeVars, readers, writers, copied, whole, shut, pc,
                 cf, readerVars>>

WriterFeed(f, w) ==
  /\ wpc[f][w] = "feed"
  /\ rl' = [rl EXCEPT ![f] = @ \cup {Position(f, w)}]
  /\ copied' = [copied EXCEPT ![f][w] = @ + 1]
  /\ WriterGoto(f, w, "copy")
  /\ UNCHANGED <<stateVars, wl, readers, writers, disk, whole, shut, pc, cf,
                 readerVars>>

WriterEOF(f, w) ==
  /\ wpc[f][w] = "copy"
  /\ copied[f][w] = StreamLength(f, w) \/ "short" \in Faults
  /\ WriterGoto(f, w, "leave")
  /\ UNCHANGED <<stateVars, rangeVars, readers, writers, disk, copied, whole,
                 shut, pc, cf, readerVars>>

WriterClose(f, w) ==
  /\ wpc[f][w] = "close"
  /\ CloseFile(f)
  /\ WriterGoto(f, w, "evict")
  /\ UNCHANGED <<created, rangeVars, readers, writers, disk, copied, whole, pc,
                 cf, readerVars>>

\* The pool drops gs; a writer that never registered has no deferred section.
WriterEvict(f, w, gs) ==
  /\ wpc[f][w] = "evict"
  /\ MarkEvicted(gs)
  /\ WriterGoto(f, w, IF w \in writers[f] THEN "leave" ELSE "done")
  /\ UNCHANGED <<created, canceled, rangeVars, readers, writers, disk, copied,
                 whole, shut, pc, cf, readerVars>>

\* Mutant: the last writer to leave does not look at the file.
WriterLeavesFile(f, w) ==
  /\ wpc[f][w] = "leave"
  /\ writers' = [writers EXCEPT ![f] = @ \ {w}]
  /\ WriterGoto(f, w, "done")
  /\ UNCHANGED <<stateVars, rangeVars, readers, disk, copied, whole, shut, pc,
                 cf, readerVars>>

\* The deferred section: deregister and remove the file if that was the last.
WriterLeave(f, w) ==
  /\ wpc[f][w] = "leave"
  /\ writers' = [writers EXCEPT ![f] = @ \ {w}]
  /\ RemoveFileIfIdle({f}, evicted, readers, writers')
  /\ WriterGoto(f, w, "done")
  /\ UNCHANGED <<created, evicted, canceled, rangeVars, readers, disk, copied,
                 whole, shut, pc, cf, readerVars>>
-----------------------------------------------------------------------------
(* The cacheFiles under any pool: which entry a lookup finds and which ones an *)
(* eviction hits is left open here, and settled by CacheFilePool.             *)

ClientStep(c) ==
  \/ \E f \in Files : Create(c, f)
  \/ \E f \in Files \cup {NoFile} : Lookup(c, f)
  \/ \E gs \in SUBSET Files : EvictOldest(c, gs) \/ ClientEvict(c, gs)
  \/ CreateFails(c) \/ Reader(c) \/ CloseReader(c) \/ Seek(c)
  \/ \E n \in 1 .. MaxRead : Read(c, n)
  \/ TryExclusiveFeed(c) \/ Fetch(c) \/ Fallback(c) \/ FetchAll(c)
  \/ ClientClose(c) \/ Acquire(c) \/ ReadDisk(c)

WriterStep(f, w) ==
  \/ WriterOpen(f, w) \/ WriterRegister(f, w) \/ WriterCopy(f, w)
  \/ WriterFeed(f, w) \/ WriterEOF(f, w) \/ WriterClose(f, w)
  \/ \E gs \in SUBSET Files : WriterEvict(f, w, gs)
  \/ WriterLeave(f, w)

FileNext ==
  \/ \E c \in Clients : ClientStep(c)
  \/ \E f \in Files, w \in Claims : WriterStep(f, w)

FileSpec == Init /\ [][FileNext]_fileVars
-----------------------------------------------------------------------------
(* Properties *)

StateTypeOK ==
  /\ created \in [Files -> BOOLEAN] /\ evicted \in [Files -> BOOLEAN]
  /\ removed \in [Files -> BOOLEAN] /\ canceled \in [Files -> BOOLEAN]

DataTypeOK ==
  /\ wl \in [Files -> SUBSET Units]
  /\ rl \in [Files -> SUBSET Extent]
  /\ disk \in [Files -> [Extent -> Units \cup {Hole}]]

UserTypeOK ==
  /\ readers \in [Files -> SUBSET Clients]
  /\ writers \in [Files -> SUBSET Claims]

DownloadTypeOK ==
  /\ wpc \in [Files -> [Claims -> WriterPcs]]
  /\ copied \in [Files -> [Claims -> 0 .. Size]]
  /\ whole \in [Files -> [Claims -> BOOLEAN]]
  /\ shut \in [Files -> SUBSET Claims]

ClientTypeOK ==
  /\ pc \in [Clients -> ClientPcs]
  /\ cf \in [Clients -> Files \cup {NoFile}]
  /\ pos \in [Clients -> 0 .. Size]
  /\ want \in [Clients -> 0 .. Size]

TypeOK ==
  StateTypeOK /\ DataTypeOK /\ UserTypeOK /\ DownloadTypeOK /\ ClientTypeOK

\* The backing file is never removed under a reader that can still read it
\* (evicted, lines 116-118; TestCacheFilePool_EvictionKeepsFileWhileActive).
RemovedOnlyWhenUnread ==
  \A f \in Files : removed[f] => evicted[f] /\ readers[f] = {}

\* No disk leak: whichever of eviction, the last reader and the last writer
\* comes last, the file of an evicted idle cacheFile is gone (lines 175-176).
IdleEvictedIsRemoved ==
  \A f \in Files :
    created[f] /\ evicted[f] /\ readers[f] = {} /\ writers[f] = {} => removed[f]

\* The file goes when it is no longer needed, neither earlier nor never.
RemovedInTime == RemovedOnlyWhenUnread /\ IdleEvictedIsRemoved

\* What rl has been fed is on disk, at its own place: no reader is let through
\* to a hole or to another part of the source (lines 289-296).
FedIsSource == \A f \in Files : \A i \in rl[f] : disk[f][i] = i

\* The same where a client sees it: Read delivers the bytes at its position.
ReadsSource ==
  \A c \in Clients : pc[c] = "read" => \A i \in Wanted(c) : disk[cf[c]][i] = i

\* The units a downloader still has to deliver.
Remaining(f, w) ==
  IF wpc[f][w] \in {"start", "opened", "copy", "feed"}
  THEN {Position(f, w) + n : n \in 0 .. StreamLength(f, w) - copied[f][w] - 1}
  ELSE {}

\* A claim is a promise: a unit claimed in wl and not yet fed has somebody who
\* is filling it or is about to, or the cacheFile fails and wakes its waiters
\* (tryExclusiveFeed, lines 425-427).  Otherwise its readers wait for ever.
ClaimHasFiller ==
  \A f \in Files : \A i \in wl[f] \ rl[f] :
    \/ canceled[f]
    \/ \E c \in Clients :
         /\ cf[c] = f
         /\ \/ pc[c] \in {"fetch", "fallback"} /\ i \in Span(ClaimOf(c)[1], ClaimOf(c)[2])
            \/ pc[c] = "fetchAll"
            \/ pc[c] = "close"
    \/ \E w \in Claims : wpc[f][w] = "close" \/ i \in Remaining(f, w)

\* Between its claim and its download a request is alone: nobody downloads the
\* same claim yet, and nobody else is about to (tryExclusiveFeed, lines 425-427).
Fetching == {"fetch", "fallback", "fetchAll"}
OneDownloader ==
  \A c \in Clients : pc[c] \in Fetching =>
    /\ \A w \in Claims : w = ClaimOf(c) => wpc[cf[c]][w] = "none"
    /\ \A d \in Clients \ {c} :
         pc[d] \in Fetching /\ cf[d] = cf[c] => ClaimOf(d) # ClaimOf(c)

\* A reader only waits for units somebody has claimed (readRequest, 206-223).
WaitsForClaimed ==
  \A c \in Clients :
    pc[c] = "acquire" => Wanted(c) \subseteq wl[cf[c]] \cup rl[cf[c]]

\* A Read that waits is not forgotten: the units it waits for are claimed, and every
\* claim has somebody who fills it, one at a time, or a failure that wakes its readers.
WaitersAreServed == WaitsForClaimed /\ ClaimHasFiller /\ OneDownloader
=============================================================================
