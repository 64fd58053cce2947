------------------------------- MODULE Thumbnails ------------------------------
(* The thumbnail of one entry (server/thumbnail/index.go): requests look for it *)
(* in the cache directory, or have a worker of the pool make it in the lock     *)
(* file, which is renamed to the thumbnail when it is done; whoever finds the   *)
(* lock file waits for it to go.  Only the files tell the requests of each      *)
(* other.                                                                       *)
EXTENDS Naturals, FiniteSets, Sequences

CONSTANTS
  Viewers,       \* requests
  ThumbWorkers,  \* config.Thumbnail.Concurrent
  MaxVersion,    \* bound: versions of the entry
  MaxAsks,       \* bound: requests of all viewers
  MaxThumbs      \* bound: files made

ASSUME ThumbnailsAssumption ==
  {ThumbWorkers, MaxVersion, MaxAsks, MaxThumbs} \subseteq Nat \ {0} /\ IsFiniteSet(Viewers)

VARIABLES
  version,     \* the entry's size and modification time
  thumbs,      \* the files made: the version in the header, who wrote and who is done
  destFile,    \* the thumbnail's file in the cache directory, 0 for none
  lockFile,    \* the lock file, 0 for none
  viewing,     \* what a request, or its task in the pool, does
  entryOf,     \* the version of its entry
  handlers,    \* the handlers left to try
  viewed,       \* the file it answered with
  gone,        \* its client has left
  asks,
  leftover,    \* a lock file was left behind by a header that could not be written
  together,    \* two tasks have written one lock file
  mixed        \* tasks for different versions were under way at once

thumbVars == <<version, thumbs, destFile, lockFile, viewing, entryOf, handlers, viewed, gone,
               asks, leftover, together, mixed>>

Working == {"exists", "locked", "create", "make", "rename", "drop"}   \* in a worker of the pool
Resting == {"idle", "shown", "failed"}

ThumbsInit ==
  /\ version = 1 /\ thumbs = <<>> /\ destFile = 0 /\ lockFile = 0
  /\ viewing = [v \in Viewers |-> "idle"] /\ entryOf = [v \in Viewers |-> 1]
  /\ handlers = [v \in Viewers |-> 0] /\ viewed = [v \in Viewers |-> 0]
  /\ gone = {} /\ asks = 0
  /\ leftover = FALSE /\ together = FALSE /\ mixed = FALSE

Busy == {v \in Viewers : viewing[v] \in Working}
Goes(v, s) == viewing' = [viewing EXCEPT ![v] = s]
WholeThumb(f) == thumbs[f].by = thumbs[f].done
\* The file a task writes is the last one it opened.
WrittenBy(v) ==
  CHOOSE f \in DOMAIN thumbs : v \in thumbs[f].by /\ \A g \in DOMAIN thumbs : v \in thumbs[g].by => g <= f
-----------------------------------------------------------------------------
\* Make: the entry was fetched, with its size and time, when the request came in.
AskThumb(v) ==
  /\ viewing[v] \in Resting /\ asks < MaxAsks
  /\ asks' = asks + 1
  /\ entryOf' = [entryOf EXCEPT ![v] = version]
  /\ mixed' = (mixed \/ \E w \in Viewers \ {v} : viewing[w] \notin Resting /\ entryOf[w] # version)
  /\ viewed' = [viewed EXCEPT ![v] = 0]
  /\ Goes(v, "cache")
  /\ UNCHANGED <<version, thumbs, destFile, lockFile, handlers, gone, leftover, together>>

\* tryToGetFromCache, whose header must be that of the entry.
FromCache(v) ==
  /\ viewing[v] = "cache"
  /\ IF destFile = 0 THEN Goes(v, "resolve") /\ UNCHANGED viewed
     ELSE IF thumbs[destFile].meta = entryOf[v]
          THEN Goes(v, "shown") /\ viewed' = [viewed EXCEPT ![v] = destFile]
          ELSE Goes(v, "expired") /\ UNCHANGED viewed
  /\ UNCHANGED <<version, thumbs, destFile, lockFile, entryOf, handlers, gone, asks, leftover, together, mixed>>

\* The expired one is removed by its path, whatever is there by now.
RemoveExpired(v) ==
  /\ viewing[v] = "expired"
  /\ destFile' = 0
  /\ Goes(v, IF destFile = 0 THEN "failed" ELSE "resolve")
  /\ UNCHANGED <<version, thumbs, lockFile, entryOf, handlers, viewed, gone, asks, leftover, together, mixed>>

\* resolveHandler, then pool.Process: a worker takes the task.
ProcessThumb(v) ==
  /\ viewing[v] = "resolve"
  /\ \/ Goes(v, "failed") /\ UNCHANGED handlers
     \/ /\ Cardinality(Busy) < ThumbWorkers
        /\ \E n \in 1 .. 2 : handlers' = [handlers EXCEPT ![v] = n]
        /\ Goes(v, "exists")
  /\ UNCHANGED <<version, thumbs, destFile, lockFile, entryOf, viewed, gone, asks, leftover, together, mixed>>

\* executeTask: a file that is there is good, whatever entry it was made of.
LookForThumb(v) ==
  /\ viewing[v] = "exists"
  /\ Goes(v, IF destFile = 0 THEN "locked" ELSE "open")
  /\ UNCHANGED <<version, thumbs, destFile, lockFile, entryOf, handlers, viewed, gone, asks, leftover, together, mixed>>

LookForLock(v) ==
  /\ viewing[v] = "locked"
  /\ Goes(v, IF lockFile = 0 THEN "create" ELSE "wait")
  /\ UNCHANGED <<version, thumbs, destFile, lockFile, entryOf, handlers, viewed, gone, asks, leftover, together, mixed>>

\* createItem: O_CREATE and O_TRUNC, then the header; an error of binary.Write is
\* another variable than the one its deferred call looks at, and the lock file stays.
CreateItem(v) ==
  /\ viewing[v] = "create"
  /\ \/ /\ lockFile = 0 /\ Len(thumbs) < MaxThumbs
        /\ thumbs' = Append(thumbs, [meta |-> entryOf[v], by |-> {v}, done |-> {}])
        /\ lockFile' = Len(thumbs) + 1
        /\ UNCHANGED together
     \/ /\ lockFile # 0
        /\ thumbs' = [thumbs EXCEPT ![lockFile] = [meta |-> entryOf[v], by |-> @.by \cup {v}, done |-> {}]]
        /\ together' = (together \/ thumbs[lockFile].by # {v})
        /\ UNCHANGED lockFile
  /\ \/ /\ Goes(v, "make") /\ UNCHANGED leftover
        /\ UNCHANGED <<gone, handlers>>
     \/ /\ Goes(v, "failed") /\ leftover' = TRUE
        /\ gone' = gone \ {v} /\ handlers' = [handlers EXCEPT ![v] = 0]
  /\ UNCHANGED <<version, destFile, entryOf, viewed, asks, mixed>>

\* CreateThumbnail and Close: done, an error, or unsupported, and the next handler.
HandleThumb(v) ==
  /\ viewing[v] = "make"
  /\ \/ /\ thumbs' = [thumbs EXCEPT ![WrittenBy(v)].done = @ \cup {v}]
        /\ Goes(v, "rename")
     \/ Goes(v, "drop") /\ UNCHANGED thumbs
     \/ Goes(v, IF handlers[v] > 1 THEN "create" ELSE "drop") /\ UNCHANGED thumbs
  /\ handlers' = [handlers EXCEPT ![v] = IF viewing'[v] = "create" THEN @ - 1 ELSE 0]
  /\ UNCHANGED <<version, destFile, lockFile, entryOf, viewed, gone, asks, leftover, together, mixed>>

RenameLock(v) ==
  /\ viewing[v] = "rename"
  /\ IF lockFile = 0 THEN Goes(v, "drop") /\ UNCHANGED <<destFile, lockFile>>
     ELSE destFile' = lockFile /\ lockFile' = 0 /\ Goes(v, "open")
  /\ UNCHANGED <<version, thumbs, entryOf, handlers, viewed, gone, asks, leftover, together, mixed>>

\* Both files are removed, whoever made them.
DropThumb(v) ==
  /\ viewing[v] = "drop"
  /\ lockFile' = 0 /\ destFile' = 0
  /\ leftover' = (leftover /\ lockFile = 0)
  /\ Goes(v, "failed") /\ gone' = gone \ {v}
  /\ UNCHANGED <<version, thumbs, entryOf, handlers, viewed, asks, together, mixed>>

\* waitPendingTask polls for the end of the lock file, then looks for the thumbnail.
PollLock(v) ==
  /\ viewing[v] = "wait" /\ lockFile = 0
  /\ Goes(v, IF destFile = 0 THEN "failed" ELSE "open")
  /\ UNCHANGED <<version, thumbs, destFile, lockFile, entryOf, handlers, viewed, gone, asks, leftover, together, mixed>>

\* openFile, unless the client has left.
OpenThumb(v) ==
  /\ viewing[v] = "open"
  /\ IF destFile = 0 \/ v \in gone THEN Goes(v, "failed") /\ UNCHANGED viewed
     ELSE Goes(v, "shown") /\ viewed' = [viewed EXCEPT ![v] = destFile]
  /\ gone' = gone \ {v}
  /\ UNCHANGED <<version, thumbs, destFile, lockFile, entryOf, handlers, asks, leftover, together, mixed>>

\* The client leaves: its task goes on, its wait does not.
LeaveThumb(v) ==
  /\ \/ viewing[v] \in Working \ {"drop"} /\ v \notin gone /\ gone' = gone \cup {v} /\ UNCHANGED viewing
     \/ viewing[v] = "wait" /\ Goes(v, "failed") /\ UNCHANGED gone
  /\ UNCHANGED <<version, thumbs, destFile, lockFile, entryOf, handlers, viewed, asks, leftover, together, mixed>>

\* clean, every 12 hours: files older than the validity, which a lock file only gets to
\* when it was left behind.
CleanThumbs ==
  /\ \/ destFile # 0 /\ destFile' = 0 /\ UNCHANGED <<lockFile, leftover>>
     \/ leftover /\ lockFile # 0 /\ Busy = {} /\ lockFile' = 0 /\ leftover' = FALSE /\ UNCHANGED destFile
  /\ UNCHANGED <<version, thumbs, viewing, entryOf, handlers, viewed, gone, asks, together, mixed>>

ChangeEntry ==
  /\ version < MaxVersion /\ version' = version + 1
  /\ UNCHANGED <<thumbs, destFile, lockFile, viewing, entryOf, handlers, viewed, gone, asks, leftover, together, mixed>>

\* The process ends and starts: NewMaker removes the lock files.
RestartThumbs ==
  /\ \E v \in Viewers : viewing[v] \notin Resting
  /\ viewing' = [v \in Viewers |-> "failed"]
  /\ lockFile' = 0 /\ leftover' = FALSE /\ gone' = {}
  /\ handlers' = [v \in Viewers |-> 0]
  /\ UNCHANGED <<version, thumbs, destFile, entryOf, viewed, asks, together, mixed>>

ThumbStep(v) ==
  \/ FromCache(v) \/ RemoveExpired(v) \/ ProcessThumb(v) \/ LookForThumb(v)
  \/ LookForLock(v) \/ CreateItem(v) \/ HandleThumb(v) \/ RenameLock(v) \/ DropThumb(v) \/ PollLock(v) \/ OpenThumb(v)

ThumbsNext ==
  \/ \E v \in Viewers : AskThumb(v) \/ ThumbStep(v) \/ LeaveThumb(v)
  \/ CleanThumbs \/ ChangeEntry \/ RestartThumbs

\* The pool's workers and the pollers go on; the pool serves every task in its turn.
ThumbsFairness == \A v \in Viewers : WF_thumbVars(ThumbStep(v)) /\ SF_thumbVars(ProcessThumb(v))

ThumbsSpec == ThumbsInit /\ [][ThumbsNext]_thumbVars /\ ThumbsFairness
-----------------------------------------------------------------------------
\* The files and the requests have their types.
ThumbsTypeOK ==
  /\ version \in 1 .. MaxVersion /\ Len(thumbs) <= MaxThumbs
  /\ {destFile, lockFile} \subseteq 0 .. Len(thumbs)
  /\ viewing \in [Viewers -> Working \cup Resting \cup {"cache", "expired", "resolve", "wait", "open"}]
  /\ entryOf \in [Viewers -> 1 .. MaxVersion] /\ handlers \in [Viewers -> 0 .. 2]
  /\ viewed \in [Viewers -> 0 .. Len(thumbs)] /\ gone \subseteq Viewers

\* What a request answers with was made to the end by its maker, although handlers fail,
\* clients leave and the process restarts half-way; unless two tasks found neither the
\* thumbnail nor the lock file and made it in one lock file (executeTask).
ShownIsWhole ==
  together \/ \A v \in Viewers : viewing[v] = "shown" => WholeThumb(viewed[v])

\* A request is answered with a thumbnail of its own version of the entry, unless
\* another one asked for another version meanwhile: executeTask and openFile take
\* the file that is there (isThumbnailExpired is asked once).
ShownIsOfEntry ==
  mixed \/ \A v \in Viewers : viewing[v] = "shown" => thumbs[viewed[v]].meta = entryOf[v]

\* A lock file is that of a task that is still at it, or one a failed header left:
\* whoever waits for it waits for somebody.
LockHasMaker ==
  lockFile # 0 => leftover \/ Busy # {}

\* A request that waits for the lock file of another ends its wait, unless the file
\* was left behind: the next cleaning or restart removes that one.
WaitsForThumbEnd ==
  \A v \in Viewers : viewing[v] = "wait" ~> (viewing[v] # "wait" \/ leftover)

\* What is shown is whole and of the right version, and what is waited for is made.
ThumbsHold == ThumbsTypeOK /\ ShownIsWhole /\ ShownIsOfEntry /\ LockHasMaker
=============================================================================
