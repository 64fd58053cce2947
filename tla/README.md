# A verification project for go-drive

go-drive is a web file manager: a Go server puts local and remote storage
("drives") under one tree of paths and serves it over an HTTP API and WebDAV to
a Vue client. This directory holds TLA+ models of the parts of it whose
correctness depends on the order in which things happen, the TLC runs that check
them on small instances, and proofs for every value of the constants.

    tlc -config Jobs.cfg Jobs                     # a run: module and cfg
    tlapm CacheFile_proofs.tla                    # the proofs of a module

`PROJECT.json` lists the components, the runs, a mutant of the code for every
checked property, the source lines behind every definition (`map`), the hazards
and the theorems. Source paths below are relative to the repository.

## 1. Inventory

`main.go` builds the components, starts the HTTP server and, on a signal, shuts it
down and disposes of the components in map order. State lives in a database
(gorm), in files below the data directory and in memory.

| component | state | operations | hard about it | what makes it correct |
|---|---|---|---|---|
| **CacheFilePool**, `common/drive_util/cache_file_pool.go` | LRU map of `cacheFile`s; each a temporary file, two `rangeLock`s, readers and writers | `GetReader`; `Read`, `Seek`, `Close`; downloads, eviction | a lookup outside the mutex; shared files; failing and refused downloads; a condition variable | a file goes with the last user of an evicted entry, not before and not never; a reader gets the bytes at its position; no block is downloaded twice at once; every wait ends |
| **TunnyRunner**, `common/task`, `server/utils.go` | list of tasks with status, a pool of workers | `Execute`, `ExecuteAndWait`, `ExecuteTaskStreaming`, `StopTask`, `RemoveTask`, `clean` | the worker writes the status without a lock while others cancel; polls between two writes | who asks is told the truth and told in the end; no handler or goroutine stays behind |
| **Chunked upload**, `server/chunk_uploader.go`, `web/src/api/upload-manager` | a directory with a file per chunk and a deletion mark, no lock; the client's queue | create, upload a chunk, merge, delete; start, pause, stop | requests given up by the client but still served; deletion during a merge; lost answers | what is saved is the whole file; an acknowledged chunk stays; every upload ends and is cleared away |
| **Jobs**, `server/job`, `storage/job*.go` | jobs, executions, histories, retry configurations in the database; running executions and timers in memory | trigger, execute, retry by timer, hour and hand, delete, dispose, restart | retries in memory and in the database; a crash between two statements; statements that fail and are only logged; `Dispose` under its own mutex | each execution gets one end, told alike by its rows unless the telling failed; retries have a cause and a bound |
| **WebDAV locks and methods**, `server/webdav/{lock,webdav,file}.go` | lock table by name, by token, by expiry; locks held by requests | LOCK, UNLOCK, refresh; `confirmLocks` and release around every method | expiry while held, two names at once, invariants kept by panics | one request at a time acts under a lock; reference counts match; no lock leaks |
| **WebDAV documents**, `server/webdav/{xml,prop,if}.go`, `internal/xml` | printer and decoder | PROPFIND, PROPPATCH, If headers, XML reading and writing | nested name spaces, shadowed prefixes; a tree that changes under its walk | what is read is what was meant; a property is in one propstat |
| **DriveFS**, `common/drive_util/fs.go` | open file: reader or temporary file, offset | `Read`, `Write`, `Seek`, `Readdir`, `Close` | nothing is fetched before it is needed | behaves like a file |
| **Dispatcher and Root**, `drive/dispatcher.go`, `drive/root.go` | drives by name, mounts, a lock per drive | resolve, list, copy, move, delete, mount, reload | reload under running requests; mounts in mounts; table and memory | a path resolves to one entry; memory follows the table; a reload leaks nothing |
| **Access and metas**, `drive/access.go`, `permission_wrapper.go`, `chroot.go`, `storage/path_meta.go` | permissions and metas by path and subject | permission of a path; chroot; merged metas | precedence, inheritance; cache and table written apart | equals its reference definition; memory is that of the table |
| **Drive caches**, `mem_cache.go`, `storage/drive_cache.go`, `drive/*` | entries and lists of children | get, put, evict, around every remote call | an eviction racing a put | what is cached is what the server has |
| **Drive configuration and OAuth**, `api_admin_drives.go`, `oauth.go` | configuration with secrets; stored token | show, edit, delete; refresh, store | placeholders; types this build does not know; two refreshes | secrets neither leak nor get lost; the stored token can be refreshed |
| **Thumbnails**, `server/thumbnail` | files, lock files, pool of workers | make, wait, expire, clean | lock file tested and created in two steps | what is shown is whole and current; waiters end |
| **Search and full text**, `server/search` | index; state row of an index job | index, delete, search; build, pause, resume | events in a pool; tasks that fail; state read, then written | the index follows the drive; pages are whole; a running row has a build |
| **Sessions**, `file_token.go`, `fail_ban.go` | session files, counters | create, update, validate, clean; count failures | unlocked read-modify-write | updates are kept; what is gone stays gone |
| **Tables with caches**, `storage/*.go`, `kv_cache.go` | rows and cached rows | get, set, delete, expire | cache and table written apart | the cache has what the table has |
| **Script engine**, `script`, `drive/script` | pool of interpreters, streams | get, run, return | streams that outlive a call; calls of the own drive | none is used twice at once; held readers stay open |
| **Content API**, `api_drive.go`, `api_file_bucket.go` | temporary files, tasks | write, stream, zip | clients that go, tasks that are stopped, saves in place | who is told of a success has all of it; zips are whole |

Interaction. A request passes the session middleware, gets a drive from *Access*
(a stack of wrappers around *Dispatcher*, around the backends with their
*Caches*), and runs longer work through *TunnyRunner*. Listener wrappers publish
changes that *Search* and the *Jobs*' event triggers consume in tasks of the same
runner. WebDAV reads go through *DriveFS* to *CacheFilePool*, which downloads from
the drive. Uploads reach a drive through a merge task of *TunnyRunner*. The web
client polls tasks.

`PROJECT.json` "hazards" names the hard spots at their lines, with the properties
that cover them.

## 2. Modules

    RangeSet  <--refines--  RangeLock            the list of ranges, its waiters
        (a set of units)
    CacheFile  <--extends-- CacheFilePool        the cache files; the LRU pool over them
    TaskRunner                                   tasks, handlers, polling clients
    ChunkUpload                                  one chunked upload, client and server
    Jobs                                         executions, histories, retries
    DavLocks   <--extends-- DavServer            the lock table; the methods that use it
    DavProps, IfHeader, XmlNames, XmlFields, XmlText   what they read and write
    Mounts, Access, PathMetas, Sessions          what a path leads to, for whom
    DriveCache, OAuth, DriveConfig, TreeCopy,
    DriveFile, DriveReload, ScriptPool           what works on a drive
    Searching  --extends--> SearchIndex, SearchPages   the index, and what is found
    FullText                                     the build of the full text index
    Serving  --extends--> Thumbnails, DriveApi   what is served
    Stores                                       tables with caches
    MC_CacheFilePool, MC_Paths, MC_Drives, MC_Server, MC_Waits    instances for TLC
    *_proofs                                     theorems

A step is what nothing else can interleave with: a critical section, a statement
of the database, one call to a drive, one access to a file. Each module's head
says of what it is a model and each definition's lines are in `map`.

* **CacheFile, CacheFilePool.** `pc` follows a client through `GetReader` and
  `Read`, `wpc` a downloader through `startWriter`; `rl` and `wl` are the units fed
  and claimed; `disk` says which unit of the source is stored at each position, so
  that data at the wrong place shows. A unit stands for 5 MiB or for one byte
  alike: only the relation of `Size`, `BlockSize` and `MaxRead` matters. `Faults`
  switches on what the outside may do. `CacheFile` leaves open what the pool does:
  a lookup finds any cacheFile or none, an eviction hits any set of them
  (`FileSpec`). `CacheFilePool` adds the LRU map, its mutex, the second lookup,
  `OnEvicted` and the `evict` closures that remember a key. Every pool step is a
  `FileSpec` step (proved), so what is proved of `CacheFile` holds under any pool.
* **RangeLock, RangeSet.** The list of intervals, inserted and merged on each
  feed, the canceled flag and the waiters; it implements a growing set of units.
* **TaskRunner.** Every task has a worker goroutine, a handler that becomes a
  polling client, and at most one cancellation under way. Each unlocked write of
  `Status`, `UpdatedAt` or the context is a step, in the code's order. `clean` is
  `Collect` and `Drop`.
* **ChunkUpload.** The client is `LocalChunkUploadTask` after `_prepare`; the
  server's side is one handler per request, the directory, `RemoveAll` in two
  halves, and the merge tasks. A handler writes to the file it opened: `linked`
  says whose file is the one under the name. `overlap` records that a request was
  sent while one for the same chunk, or another merge, was still being served.
* **Jobs.** A run is one call of `executeJobWithHistory`; rows survive a crash, all
  else does not. `Dispose` goes through `updateJobExecutionResult` like the runs
  and then waits for the mutex it holds (`mu`); `disturbed` records whose ends it told.
  Any statement may fail (`StatementFails`), and what the code then does (log and go
  on, or give up) is in the action of that statement; `missed` and `unclosed` record
  whose row and history were not told their end.
* **DavLocks, DavServer.** A call of memLS is one step, that first collects what
  has expired. `DavServer` runs the methods over it, call by call of the table and
  of the drive.
* **DavProps, IfHeader, XmlNames, XmlFields, XmlText.** Documents are read token
  by token, of alphabets that tell apart what the code does: tags, name spaces,
  parents, symbols. What the printer writes is read back by the decoder.
* **SearchIndex.** A task is a record that says where it stands in the `Service`'s
  operation: reading the drive, deleting, walking, writing a batch. Each call may fail
  and a task may be canceled; `Likes` are the pairs of paths that SQL's `LIKE` takes for
  one below the other though they are not, and `astray` records whose rows a failure or
  such a deletion left wrong, until they are changed again.
* **TreeCopy, DriveApi.** Every call of a drive may fail, with nothing done or with a part
  of it. `native` says whether the drive copies directories, files or nothing by itself;
  `erred` records the copies a call of a drive failed. `save` follows each request
  through the local drive's `Save`, by a rename (`MoveIn`) or over the truncated file
  (`OpenInPlace`, `CopyIn`); `Torn` is a file that no body is all that was written to.
* **Mounts, Access, PathMetas, Sessions.** Calls that write a table and then load
  it; what they leave in memory decides what a path leads to and who may use it. Reading
  a meta is three steps (the cache, the table, the cache), changing one is two;
  `metaRaced` records places changed between a read and its caching.
  The loops of `resolve` and `resolveAcceptedPermissions` are recursive functions over
  the number of mounts taken (`Along`) and the set of rules taken (`ResolveRules`).
* **DriveCache.** An operation is the program of lookups, remote calls, puts and
  evictions of its drive (six of them), and programs of two requests interleave.
* **The rest** have a few dozen lines of Go and of TLA+ each, and their own heads.

`MC_Paths`, `MC_Drives`, `MC_Server` and `MC_Waits` each put several small modules
in one run: the variable `part` chooses, in the initial state, whose behaviour
follows, and the variables of the others stay as they were. Nothing is claimed
of an interaction between such parts; what the run covers is the union of
theirs. The properties of a module that are about one thing are conjoined under
one name (`CacheHolds`, `LocksHold`, ...); the conjuncts are commented one by one.

## 3. Runs

| run | instance | question |
|---|---|---|
| `pool_lifecycle` | 2 clients, 2 keys, a pool of 1, files of 2 blocks, all faults | is a backing file removed exactly when the last user of an evicted entry has gone; is every live cacheFile in the pool and no poisoned one for good |
| `pool_download` | 2 clients, one file of 3 units in blocks of 2, opens and streams fail | is what is read the source's; are waits only for claimed units; has every claim one downloader, or a failure that wakes the waiters |
| `pool_progress` | the same with 2 blocks of 1, fair | does every `Read` return although downloads fail |
| `task_runner` | a waiting and a streaming task, 1 worker, the one stopped or removed, the other left by its client, fair | do tasks leave the list only when over; is a task finished once its worker is through; is a client told the truth; do handlers, goroutines and clients come to an end |
| `chunk_upload` | 2 chunks, 3 requests, 2 merges, everything may fail, fair | is what is saved whole; does an acknowledged chunk stay; is a completed upload saved; does every upload end and its directory go |
| `jobs` | 2 executions and a manual retry, 1 retry, 1 disruption, 1 failing statement, all faults, fair | do rows and histories tell of the same end; is a running row alive; has a retry a cause; does everything settle |
| `paths` | 2 mount calls of 11 on 3 levels; rules on 3 of 4 places for a user with 2 groups; 2 calls for metas of 2 places; 2 requests of one session and a crash | is what a path leads to, who may use it and what a session has, what the calls made of it |
| `drives` | 2 requests for each of 6 drives' caches, 3 tokens, 2 editors under any build, 2 copies, 6 file calls, 2 reloads, 2 VMs | does what is kept beside a drive's files follow it |
| `server` | 3 DAV requests of 19 by 2 clients on a collection, its member and a third name; documents of up to 4 elements; 2 changes under the index, one path like another; 2 transfers with their tasks; 2 viewers | is a lock respected and never leaked; is what goes over the wire, into the index and to the client what there is |
| `waits` | 4 units and 2 threads; the waiting parts of the modules above, fair | does the list of ranges implement the set; is whoever waits answered |
| `paths_descendants`, `pathmetas_expired` | the run `paths` | a violation each, see below |

`PasswordIsAsked` states the comment "List checks if the path has a password set
and validates it" (`drive/path_meta_wrapper.go:42`). `KVCache.Get`
(`common/utils/kv_cache.go:23-34`) clears the value of an expired item but leaves
`ok` true, so that `PathMetaDAO` takes the empty value for a cached "no meta data
here": the next `List` goes without a password.

`DescendantsSatisfy` states "requireDescendant semantics: path itself and all
descendants must satisfy the permission" (`common/utils/permission_resolver_test.go:444`).
`ResolveDescendant` (`common/utils/permission_resolver.go:73-90`) resolves the rules of
everything below a path as one list: an accept for a group at `d/f` goes before a
reject for anybody at `d/e`, `d` counts as writable throughout, and a `Move` takes `d/e`
along. `MoveIsCovered`, which is checked and proved, says exactly when that happens.

Each passing run's properties have a mutant each: a mapped definition with a
plausible slip (marked `Mutant:` in the modules), under which TLC finds the
property violated.

### Bounds, and why they are enough

* Two clients are needed for every race between readers; a third only repeats
  one of the two, since clients share nothing but the cacheFile. Two keys with
  room for one make every `Add` an eviction. Three units in blocks of two have a
  short block, a request inside a block, one across two, and one rounded outwards
  past the end.
* Four units allow two intervals with a gap, on either side of which the third
  can touch, overlap, fill or contain.
* Two tasks with one worker have one served and one queued; no new tasks come, so
  the runner comes to rest and deadlock is not checked there. The streamed task is
  stopped when its client leaves, the other one by anybody at any time; the proofs have
  any number of either.
* Two chunks of which one may be sent again, and two merges, give one retry of
  each kind. `Resumable` bounds resumes by the requests that are left.
* Two executions, one a retry of the other, beside a retry that is asked for by hand;
  one crash, panic, shutdown or deletion at any step (`MaxDisruptions`) and one statement
  that fails (`MaxFailures`), with which the effects of two can be told apart already:
  the row's, the history's, the retry's, the sweep's.
* Two requests for everything that races; three names where a name, one above it
  and one beside it differ; a bound in a guard (`MaxRequests`, `MaxTreeEdits`,
  `MaxCalls`, `MaxMountCalls`, `MaxSaves`, ...) ends every part, so that deadlock is
  not checked in the composed runs.
* Deadlock is not checked in `pool_lifecycle` either, whose truncated streams and
  refused ranges leave readers waiting (hazards at `cache_file_pool.go:236`, `:286`).

### Fairness, and why the code justifies it

* `CacheFilePool`: weak fairness of what a call goes on to do and of every
  downloader: goroutines are scheduled and a stream delivers, ends or fails.
  Strong fairness of the steps that take `cfp.mu`, which is free again and again:
  Go's mutexes hand over to a waiter that has starved. None for what a client does
  of its own accord (look up, read, seek, close).
* `TaskRunner`: weak fairness of workers, handlers, cancelers and polls.
  A runnable is taken to return; a queued task gets its worker since a channel
  serves its senders in order. None for stop, remove, disconnect or the passing
  of time.
* `ChunkUpload`: weak fairness of the client's reactions and of the server's
  handlers, merges and deletions. None for pause, resume, stop, or failures.
* `Jobs`: weak fairness of the runs' steps and of the start-up; none for triggers,
  timers, administrators, crashes and statements that fail.
* `MC_Waits` gathers, each for its part: weak fairness of threads that are awake
  (`RangeLock`), of a request's own steps (`DriveReload`, `Thumbnails`, `FullText`,
  `Stores`, `ScriptPool`, `DriveApi`) and of a cache item's expiry; strong fairness
  where a mutex, a worker or a poll is free or due again and again.

### What the properties leave open

These are places where the code does something that nothing in the repository
promises otherwise; the properties except them by name, and hold beside them.

* Pool: on a drive without ranges a reader that has sought gets the beginning
  (`cache_file_pool.go:247`), and two refused readers wait for each other (`:236`); a
  truncated stream leaves waiting readers (`:286`); the second failing download of a
  cacheFile evicts the fresh one of its key (`:87`).
* A streaming handler whose task was canceled in the queue waits at
  `server/utils.go:225`; the temporary file of a write stopped there stays.
* Uploads: the client's DELETE at a stop is sent once (`local-chunk.ts:93`); if it is lost
  the directory stays (`"lost" \in deleting`). Otherwise up to `overlap`. With it, the handler of a request the client gave up may
  truncate or remove a chunk that was acknowledged. A request that ended between the
  halves of `RemoveAll` leaves a mark with nobody to act on it.
* Jobs: `Dispose` waits for itself (`executor.go:451`); `executeRetry` and
  `ManualRetry` take the submission of a task for its success; a panic is recorded as
  success; histories are not swept after a crash. A failed UPDATE of a row or of a history
  is logged (`executor.go:334`, `:267`): the row says running until the next start-up, the
  history for good (`missed`, `unclosed`), and a sweep that fails (`:54`) is not repeated.
* DAV: an empty PUT and the LOCK of a missing resource answer 201 and create nothing;
  an overwriting MOVE deletes its target before a rename that may fail; a MOVE onto an
  ancestor deletes its source; a DELETE of a collection removes members others have
  locked (`webdav.go:87`); the walk of a PROPFIND that fails midway appends an error
  text to a closed document; `memLS.Confirm` ignores Not and ETag.
* Paths: `ResolveDescendant` mixes rules of different places (see above); a failed clean-up
  leaves rules in memory; a meta changed between another call's SQL and its `cache.Set`
  (`path_meta.go:71-82`) leaves a stale item for two hours (`metaRaced`); which of two metas
  applies depends on the cache; an entry covered
  by a mount without a target, and a mount whose target takes as many mounts as may be
  (`dispatcher.go:129`), are listed and not found. The depth of a rule is an `int8`
  (`permission_resolver.go:36`): the model takes the remainder, and supposes
  (`AccessAssumption`) that no place is 128 or more below the root, where a rule would
  count as one above the root.
* Drives: an answer overtaken by a change is cached; sftp and ftp return before
  evicting on some errors; `GetDrive` and `UpdateDrive` of a configuration are apart; of a
  drive whose type this build does not register the stored secrets are shown
  (`api_admin_drives.go:43-46`) and nothing can be saved (`:77-81`); a copy whose last `Get`
  fails is answered with an error though all was copied (`dispatcher.go:356`); an
  overtaken token is stored over a newer one; reloads make `ensureDir` lock and unlock
  different locks; `selfDrive` belongs to the base VM, and its nested calls can hold all
  VMs; a Seek from the end before the first read counts from the old size.
* Saves: the local drive truncates and copies in place for a form, or when a rename is
  impossible: what breaks off, or meets another one, leaves a torn file
  (`drive/fs/index.go:148-156`).
* Thumbnails: two tasks may write one lock file. Search: two tasks of one path are not
  ordered; parents made on the way are not indexed; a deletion takes along the rows of
  paths that are `LIKE` its own (`searcher_sqlite.go:116`); a failed call costs the rows it
  was about, and a copy or move that fails half-way is not published at all
  (`listener_wrapper.go:51-66`): all this is `astray`. Full text: after a crash the row
  stays running and new builds are refused. Sessions: overlapping updates overwrite each
  other; the limiter checks and counts apart. Tables: a lookup that read before a change
  and fills after it leaves a stale row.

## 4. Proofs

Everything below holds for any number of clients, files, keys, tasks, workers,
chunks, executions, requests, drives, names, tokens and VMs, any sizes and any faults of
the model. The assumptions are those named in the modules: bounds are numbers, sizes
are positive, and a value that stands for "none" is not one of those it stands beside.
A property seldom is inductive; each proof is about a stronger invariant, of which
TLC was asked first, and has a lemma for each of its parts and in it a step for each
action.

* **Cache files** (`CacheFile_proofs`, under whatever pool: `FileSpec`).
  `FileTypeCorrect`: `TypeOK` alone is not inductive; a `Read` has to stay within the
  file (`ReadInFile`), a downloader not to copy more than its stream holds
  (`FeedInStream`). The arithmetic of blocks is the lemma `ClaimInFile`.
  `LifecycleCorrect`: `RemovedOnlyWhenUnread` and `IdleEvictedIsRemoved`;
  `FileLifecycle` adds what they need of files that do not exist yet and of clients that
  hold one. `SourceCorrect`: `FedIsSource` and `ReadsSource` unless ranged reads are
  refused (`cache_file_pool.go:247`, see above): a downloader about to feed a unit has
  written it, at its own place, from its own offset. `DownloadedOnce`: `ClaimInv` ties
  each claim to the one client or goroutine it was granted to. `WaitersServed`: whoever
  waits does so for claimed units, and a claim has a downloader that goes on, or a
  failure that wakes the waiters; it supposes ranges (`:236`) and streams that are not
  truncated (`:286`).
* **The pool** (`CacheFilePool_proofs`). `PoolImplementsFiles`: each step of
  `CacheFilePool` is a step of `FileSpec`. `PoolTypeCorrect`, `PoolLifecycleCorrect`,
  `PoolSourceCorrect` and `PoolWaitersServed` carry the results over.
  `PoolHoldsTheLiveCorrect` is about the pool itself: who holds `mu` at each point of
  `GetReader`, that an entry is filed under the key its closure remembers, and who still
  has to evict a cacheFile that was closed.
* **Tasks** (`TaskRunner_proofs`). `RunnerInvariant`: for each place a worker can be in,
  what status and outcome its task may have, and which reason a finished status has.
  From it `RunnerTypeCorrect` (with the tasks served against the workers),
  `RemovedIsOverCorrect`, `LeftIsFinishedCorrect` and `ToldTheTruthCorrect`.
* **Uploads** (`Pieces_proofs`). `UploadInvariant`: the client waits for no chunk
  twice and for a merge only when no chunk is left (`ClientInv`), nothing is deleted
  before it is asked for (`DeletedLate`), and, up to `overlap`, the server serves one
  request for a chunk or one merge and no chunk (`OneAtATime`), each chunk is queued, on
  its way or whole (`ChunksKept`), and a merge has copied whole ones (`CopiedWhole`). From
  it `UploadTypeCorrect`, `SavedIsWholeCorrect`, `AckedIsThereCorrect` and
  `CompletedIsSavedCorrect`.
* **Ranges** (`Pieces_proofs`). `RangeInvariant`: the list is of intervals with a gap
  between neighbours, and nobody sleeps who need not. That a feed keeps it, and adds
  exactly the units fed (`FeedMeans`), is the correctness of `_merge`: the list by start is
  a permutation of the list (`ByStartMeans`), and after any number of intervals what is
  merged is in order and has their units (`MergedOnes`, by induction over that number
  through `AllNumbers`). That one interval covers a request as soon as all its units are
  there rests on the gaps (`SatisfyMeans`). `RangesHoldCorrect`, and step by step the
  refinement, `RangeLockImplements`; that a wait ends is left to TLC.
* **Jobs** (`Jobs_proofs`). `JobsInvariant`: what row, history and item say at each point
  of a run, with what it has missed by a statement that failed (`RunInv`), which runs are in `je.executions` (`TrackedInv`), where `Dispose`
  and the runs it has been at are (`DisposerInv`, `DisturbedInv`: the history variable
  `disturbed` names them), and that retries are made of failures (`RetryInv`). From it
  `JobsTypeCorrect`, `EndsAgreeCorrect`, `RunningIsAliveCorrect`, `RetriedForCauseCorrect`
  and the action property `DeletedWhileRunningCorrect`, which is a conjunct of
  `JobsSettle`.
* **Drives** (`Drives_proofs`). `ReloadInvariant`: up to a reload that meets a waiting
  request, whoever is inside `ensureDir` holds the lock it will unlock and a lock is held
  by one who is inside (`HoldersInv`), so that two of one generation never look at once
  (`MadeInv`); `ReloadHoldsCorrect` follows. `OAuthInvariant`: a spent token has a live
  successor, greater than it, that is stored, was stored before the drive was deleted, or
  is in the hand of a request about to store it (`SuccessorInv`); with empty hands the
  stored token has no successor (`TokensHoldCorrect`). `ScriptInvariant`: what an operation
  answers is open, and no VM closes it unless it is in a plain reader (`AnsweredInv`),
  since a VM closes streams of the call it serves only (`ClosersInv`); the size of the
  pool rests on the library's facts about cardinalities (`IdleBounded`).
  `ScriptHoldsCorrect` follows. `ConfigInvariant`: what is stored or about to be was typed
  or is empty (`Row`), what was shown of a secret is its placeholder, and an update in
  flight has, for a secret nobody touched, what it read; `SecretsHoldCorrect` has both
  invariants and the action property `UntouchedIsKept`; it is for any sequence of builds,
  with what is shown and refused of a type they do not register. `FileInvariant`: an open file and
  the plain file it is compared with agree, up to a `Read` the code misleads (`misled`),
  and where nothing was fetched yet the latter has what would be (`IdealInv`); what was
  given of a directory is a beginning of one listing (`PagesInv`). `FileHoldsCorrect`
  follows; it supposes that contents are bytes. `CopyInvariant`: as long as nothing else
  went on (`crossing`), what a copy has found in the source it still has to copy or has
  copied, and a name it has chosen is free (`Right`), whatever failed before; otherwise
  only the kinds of paths and what a stage has are kept (`TreeInv`, `Staged`). That a free number exists is the
  pigeonhole principle (`FreeNumber`). `CopyHoldsCorrect` follows. `CacheInvariant`: the
  program of every operation of every drive is a sequence in which each change is followed
  by the evictions of all that it makes stale (`Good`: one lemma per drive, from one per
  kind of change), and so is whatever a request has left of it, also after an error
  (`FinishGood`); so what the cache has and the server does not is still to be evicted
  (`FreshInv`), unless an answer was overtaken or that to a change was lost.
  `CacheHoldsCorrect` follows, for any files and requests, and for each of the six drives
  with either cache.
* **Sessions** (`Paths_proofs`). `SessionsInvariant`: a request that no update has
  overtaken works on the session as it is (`UpToDateInv`), and of log-ins one at a time is
  beyond the limiter's check unless two raced (`LimitInv`). `SessionsHoldCorrect` has both
  invariants and the action property `GoneStaysGone`.
* **Mounts** (`Paths_proofs`). `MountInvariant` rests on `MountInv`: everything lies in a
  directory that is there (`TreeOK`, which `TreeMade`, `TreeDeleted` and `TreeMoved` keep), of an id there is one row at most, and a plan has rows of
  different ids or one new row (`NewOK`), so that what is stored is again a table
  (`RowsOK`), and the memory is that of the table unless a load is to come or has failed.
  `ResolvedIsReal` then needs that taking one mount first shifts the sequence `Along` by
  one and does not change where it ends (`AlongShifts`, `ResolveThrough`), and
  `ListedIsFound` that a child of a directory no mount covers is covered by its own mount
  or by none.
* **Rules and metas** (`Paths_proofs`). The order of the rules is that of a number,
  `Key`; whichever of two equal ones `sort.Slice` puts first, what is accepted after any
  set of rules is what some rule accepts that has a greater key than all that reject it
  (`ResolveMeans`, by induction over the size of the set through `TakenFits`: for a set of
  numbers, which `AllNumbers` allows). `AccessInv` adds to `RulesInForce` that rows the
  memory lacks have somebody who will reload, or were forgotten. `AccessInvariant`
  has any number of groups. `MetasInvariant` rests on `MetasInv`: an item of the cache, and
  what a call is about to cache (`FillsRight`), is what the table has, unless a change has
  still to remove it or came in between; and what a call has found so far is right if
  nothing on its way changes (`FoundRight`). `RulesInvariant` is for the composition
  `MC_Paths`.
* **Search** (`Paths_proofs`). `IndexSettles` says nothing while tasks are under way;
  `SearchInv` says what they have still to do (`IndexTidy`): as long as no change has met
  a task still to be done, the paths of the tasks lie apart (`TasksApart`), each entry
  that no task sees to is as it should be (`AllSeenTo`), and each task is right where it
  stands (`TaskRight`). In a walk the paths it has before it lie apart, what it has read
  is of now and not before it again, what is read or before it has no row, and the rest
  of its path is as it should be (`WalkingRight`): so an insertion finds no row in its way
  and the end of a walk leaves nothing out. A change adds its tasks and disturbs no other
  (`ChangeTidy`); a step of a task writes rows of its own path only (`OneGoesOn`,
  `OneEnds`), or, deleting by `LIKE`, rows that are astray from then on; what fails makes
  astray what the task leaves undone, of which the invariant then asks nothing. `SearchAssumption` supposes the entries finitely many and what is above an
  entry a directory among them, as `ensureDir` makes it. For the pages, `LastStepRight`
  says of every step of a search that it has the readable rows from the start of the page
  on and tells of more exactly when there are more (`PageFull`); that the recursive
  function `LastStep` defines exists is shown first. `SearchHoldsCorrect` is about both.
* **WebDAV locks** (`Server_proofs`). `TableInv` is `LocksHold` with what the steps
  need besides: the table's types and that the locks are finitely many. Each operator on
  a table keeps it (`RemovedKeeps`, `CreatedKeeps`, `HoldKeeps`, ..., by the library's
  facts about cardinalities), so each method does (`CreateDoes`, `ConfirmDoes`, ...), and
  these lemmas also say which locks a method leaves alone: the held ones, and those
  without a duration whose token it was not called with. `LockTableCorrect` is for any
  callers, `LocksHoldCorrect` for the requests. `DavServerInvariant`: temporary tokens are
  known to their request only (`TempsInv`), release functions are those of requests
  (`HoldsInv`), every lock is known to somebody (`KnownInv`), and a request that is at
  work has, for each name it claims, its own temporary lock on it or a held lock of its
  `If` header that covers it (`Cover`); what one request does leaves that of the others
  as it is (`StillCovered`). As only one lock covers a name (`OneCovers`, from
  `LocksDisjoint` and that the names are a tree), two requests at work on one name, or
  one at work on a name that another client has locked, would count on the same lock:
  `RequestsHoldCorrect` and `LockProtectsCorrect`.
* **Serving** (`Server_proofs`). `ApiInvariant`: a task that writes has a body that came
  whole (`BodyInv`), temporary files are bodies a request or task still needs
  (`BodiesKept`), a file is torn exactly while somebody's copy into it is under way, broke
  off or met another, and who copies alone is the only one that ever tore it (`StoredInv`,
  `AloneInv`), and what is in a zip is a beginning of what was asked for (`ZipInv`); `TransfersHoldCorrect`.
  `ThumbInvariant`: the lock file is the youngest file (`LockInv`) and somebody's
  (`MakerInv`); up to `together` a task that makes a thumbnail has it for itself and a
  shown file is done (`WholeInv`); up to `mixed` all who are under way are for one version,
  and so are the files they find (`EntryInv`); `ThumbsHoldCorrect`. `Serving` runs both,
  and `ServedIsWholeCorrect` is about the conjunction of their specifications.

Only model-checked: all liveness (`ReadReturns`, `RunnerSettles`, `JobsSettle` but for the
conjunct above, `UploadSettles`, `WaitsEnd`, the fairness of `ImplementsRangeSet`); what
rests on operators that fold over data, whose results need induction over the operator
(`WireHolds`: the XML and WebDAV documents).

## 5. Not modelled

Listed with reasons in `PROJECT.json`: start-up and wiring, the connection to the
database, ids, signatures, rendering. Of modelled components: the task runner's
`Dispose`; archiving of job histories; writes of the full text index's state row that fail
(`fulltext_service.go:207`, `:210`, `:222`), which are ignored and leave the row as it was, as a
crash does; restarts of the server under an upload (its
state is the directory, and a client whose page is gone does not return to it); the
members a WebDAV COPY makes; values, formats, names and progress numbers, which no
property tells apart; copying and moving onto an existing target of gdrive and
onedrive; the HTTP bindings of scripts.
