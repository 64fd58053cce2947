------------------------------ MODULE ChunkUpload ------------------------------
(***************************************************************************)
(* One upload in chunks: the web client's LocalChunkUploadTask             *)
(* (web/src/api/upload-manager) and the server's ChunkUploader             *)
(* (server/chunk_uploader.go), which keeps an upload as a directory with a *)
(* file per chunk and no lock.  The client pauses, resumes and stops; the  *)
(* server goes on with a request the client has given up until it notices. *)
(*                                                                         *)
(* A chunk is written in one step.  Two handlers of one chunk share its    *)
(* file while its name lasts; a handler whose file has been removed writes *)
(* to one nobody sees.                                                     *)
(***************************************************************************)
EXTENDS Integers, FiniteSets

CONSTANTS
  Chunks,         \* 0 .. Chunks - 1 are the chunks of the file
  Puts,           \* requests that upload a chunk
  Merges,         \* tasks that merge the chunks
  None,
  MaxConcurrent,  \* _maxConcurrent
  Acts            \* what the user and the network do: see below

ASSUME ChunkUploadAssumption ==
  /\ Chunks \in Nat \ {0} /\ MaxConcurrent \in Nat \ {0}
  /\ None \notin Merges
  /\ Acts \subseteq {"pause", "stop", "lose"}

\* "pause", "stop": the user does; "lose": a request or its answer is lost.

VARIABLES
  \* the client
  status,
  queue,      \* _queue: the chunks to send
  flying,     \* the chunk requests it waits for
  merging,    \* the merge _completeUpload waits for: _mergeLock
  mergeSeen,  \* _mergeTask is known
  \* the requests for chunks, at the server
  put, seq, linked, cut,
  \* the upload's directory
  dir, marked, chunk,
  filed, merged,  \* "file" is there; the chunks copied into it
  deleting,   \* where calls of DeleteUpload are: see below; "lost": history, one got lost
  \* the merges, at the server
  merge, next, stopped,
  drive,      \* what has been saved under the upload's path
  overlap     \* history: a request came while one for the same was served

clientVars == <<status, queue, flying, merging, mergeSeen>>
putVars == <<put, seq, linked, cut>>
dirVars == <<dir, marked, chunk, filed, merged, deleting>>
mergeVars == <<merge, next, stopped, drive>>
uploadVars == <<clientVars, putVars, dirVars, mergeVars, overlap>>

Seqs == 0 .. Chunks - 1
AtServer(p) == put[p] \in {"sent", "open"}
MergeRuns(m) == merge[m] \in {"sent", "copy", "save"}

\* After CreateUpload and _prepare.
UploadInit ==
  /\ status = "uploading" /\ queue = Seqs /\ flying = {}
  /\ merging = None /\ mergeSeen = FALSE
  /\ put = [p \in Puts |-> "unused"] /\ seq = [p \in Puts |-> 0]
  /\ linked = {} /\ cut = {}
  /\ dir = TRUE /\ marked = FALSE /\ deleting = {}
  /\ chunk = [c \in Seqs |-> "none"] /\ filed = FALSE /\ merged = {}
  /\ merge = [m \in Merges |-> "unused"] /\ next = [m \in Merges |-> 0]
  /\ stopped = {} /\ drive = "nothing" /\ overlap = FALSE

\* Calls of DeleteUpload that are at the same point count as one.
AskDelete == deleting' = deleting \cup {"asked"}

(***************************************************************************)
(* The client.                                                             *)
(***************************************************************************)
\* _chunkUploadLoop sends the first chunk of the queue.
SendChunk(p) ==
  /\ status = "uploading" /\ queue # {}
  /\ Cardinality(flying) < MaxConcurrent
  /\ put[p] = "unused"
  /\ \E c \in queue :
       /\ \A d \in queue : c <= d
       /\ queue' = queue \ {c}
       /\ seq' = [seq EXCEPT ![p] = c]
       /\ overlap' = (overlap \/ \E q \in Puts : AtServer(q) /\ seq[q] = c)
  /\ flying' = flying \cup {p}
  /\ put' = [put EXCEPT ![p] = "sent"]
  /\ UNCHANGED <<status, merging, mergeSeen, linked, cut, dirVars, mergeVars>>

\* _doCompleteUpload, when the loop finds nothing left to send or wait for.
SendMerge(m) ==
  /\ merge[m] = "unused"
  /\ merge' = [merge EXCEPT ![m] = "sent"]
  /\ merging' = m
  /\ overlap' = (overlap \/ (\E p \in Puts : AtServer(p))
                         \/ (\E n \in Merges : MergeRuns(n)))

\* Mutant: the merge is asked for when the queue is empty.
LoopIgnoresFlying(left) ==
  IF queue = {} /\ merging = None
  THEN \E m \in Merges : SendMerge(m)
  ELSE UNCHANGED <<merge, merging, overlap>>

Loop(left) ==
  IF queue = {} /\ left = {}
  THEN \E m \in Merges : SendMerge(m)
  ELSE UNCHANGED <<merge, merging, overlap>>

\* Mutant: the loop is not run again when a chunk is done.
ChunkAckedOnly(p) ==
  /\ p \in flying /\ put[p] = "ok"
  /\ flying' = flying \ {p}
  /\ UNCHANGED <<status, queue, merging, mergeSeen, putVars, dirVars, mergeVars,
                 overlap>>

\* A chunk's request succeeds.
ChunkAcked(p) ==
  /\ p \in flying /\ put[p] = "ok"
  /\ flying' = flying \ {p}
  /\ Loop(flying')
  /\ UNCHANGED <<status, queue, mergeSeen, putVars, dirVars, next, stopped, drive>>

\* Mutant: the chunk that failed is not put back.
GiveUpKeepsFailed(ps) ==
  /\ flying' = flying \ ps
  /\ cut' = cut \cup {p \in ps : AtServer(p)}
  /\ UNCHANGED queue

\* Requests given up: their chunks go back to the queue, and the server may
\* find out (_abort's and _pause's cancel, insertSeq).
GiveUp(ps) ==
  /\ flying' = flying \ ps
  /\ cut' = cut \cup {p \in ps : AtServer(p)}
  /\ queue' = queue \cup {seq[p] : p \in ps}

\* A chunk's request fails, for the server or on the way: _abort gives up the
\* others too.
ChunkFailed(p) ==
  /\ p \in flying
  /\ (put[p] = "failed" \/ "lose" \in Acts)
  /\ GiveUp(flying)
  /\ status' = "error"
  /\ UNCHANGED <<merging, mergeSeen, put, seq, linked, dirVars, mergeVars, overlap>>

\* pause is ignored while a merge is waited for.
Pause ==
  /\ "pause" \in Acts
  /\ status = "uploading" /\ merging = None
  /\ GiveUp(flying)
  /\ status' = "paused"
  /\ UNCHANGED <<merging, mergeSeen, put, seq, linked, dirVars, mergeVars, overlap>>

\* Bound: the upload goes on while there are requests left for what it may send.
Resumable ==
  /\ Cardinality({p \in Puts : put[p] = "unused"}) >= Cardinality(queue)
  /\ \E m \in Merges : merge[m] = "unused"

\* start, on a prepared upload.
Resume ==
  /\ status \in {"paused", "error"} /\ Resumable
  /\ status' = "uploading"
  /\ Loop({})
  /\ UNCHANGED <<queue, flying, mergeSeen, putVars, dirVars, next, stopped, drive>>

\* A request the client sends once, and does not look after: it gets there or is lost.
SentOnce(gets, lost) == gets \/ ("lose" \in Acts /\ lost)

\* stop gives the upload up for good: the merge's task is stopped if the client
\* knows it, the requests are canceled, the upload is to be deleted.
Stop ==
  /\ "stop" \in Acts
  /\ status \in {"uploading", "paused", "error"}
  /\ status' = "stopped"
  /\ flying' = {} /\ queue' = {}
  /\ cut' = cut \cup {p \in flying : AtServer(p)}
  /\ SentOnce(stopped' = IF mergeSeen THEN stopped \cup {merging} ELSE stopped, UNCHANGED stopped)
  /\ merging' = None /\ mergeSeen' = FALSE
  /\ SentOnce(AskDelete, deleting' = deleting \cup {"lost"})
  /\ UNCHANGED <<put, seq, linked, dir, marked, chunk, filed, merged, merge, next,
                 drive, overlap>>

\* taskDone is shown a merge under way.
MergePending(m) ==
  /\ merging = m /\ MergeRuns(m) /\ ~mergeSeen
  /\ mergeSeen' = TRUE
  /\ UNCHANGED <<status, queue, flying, merging, putVars, dirVars, mergeVars, overlap>>

MergeDone(m) ==
  /\ merging = m /\ merge[m] = "done"
  /\ status' = "completed"
  /\ merging' = None /\ mergeSeen' = FALSE
  /\ UNCHANGED <<queue, flying, putVars, dirVars, mergeVars, overlap>>

\* The merge failed, or the request for it or a poll did.
MergeFailed(m) ==
  /\ merging = m
  /\ (merge[m] = "failed" \/ "lose" \in Acts)
  /\ status' = "error"
  /\ merging' = None /\ mergeSeen' = FALSE
  /\ UNCHANGED <<queue, flying, putVars, dirVars, mergeVars, overlap>>

(***************************************************************************)
(* ChunkUpload at the server.                                              *)
(***************************************************************************)
Breakable(p) == p \in cut \/ "lose" \in Acts

\* The request never gets there.
PutLost(p) ==
  /\ put[p] = "sent" /\ Breakable(p)
  /\ put' = [put EXCEPT ![p] = "failed"]
  /\ UNCHANGED <<clientVars, seq, linked, cut, dirVars, mergeVars, overlap>>

PutRefused(p) ==
  /\ put[p] = "sent" /\ ~dir
  /\ put' = [put EXCEPT ![p] = "failed"]
  /\ UNCHANGED <<clientVars, seq, linked, cut, dirVars, mergeVars, overlap>>

\* The chunk's file is created or, if it is there, truncated.
PutOpen(p) ==
  /\ put[p] = "sent" /\ dir
  /\ put' = [put EXCEPT ![p] = "open"]
  /\ linked' = linked \cup {p}
  /\ chunk' = [chunk EXCEPT ![seq[p]] = "empty"]
  /\ UNCHANGED <<clientVars, seq, cut, dir, marked, filed, merged, deleting, mergeVars,
                 overlap>>

\* A mark left by a DeleteUpload that failed: the request deletes at its end.
Redelete == IF marked THEN AskDelete ELSE UNCHANGED deleting

PutWritten(p) ==
  /\ put[p] = "open"
  /\ put' = [put EXCEPT ![p] = "ok"]
  /\ chunk' = IF p \in linked THEN [chunk EXCEPT ![seq[p]] = "whole"] ELSE chunk
  /\ Redelete
  /\ UNCHANGED <<clientVars, seq, linked, cut, dir, marked, filed, merged, mergeVars,
                 overlap>>

\* Mutant: a body that breaks off is taken for the whole chunk.
PutBrokenAccepted(p) ==
  /\ put[p] = "open" /\ Breakable(p)
  /\ put' = [put EXCEPT ![p] = "ok"]
  /\ Redelete
  /\ UNCHANGED <<clientVars, seq, linked, cut, dir, marked, chunk, filed, merged,
                 mergeVars, overlap>>

\* The body breaks off: the chunk's file is removed by its name.
PutBroken(p) ==
  /\ put[p] = "open" /\ Breakable(p)
  /\ put' = [put EXCEPT ![p] = "failed"]
  /\ chunk' = [chunk EXCEPT ![seq[p]] = "none"]
  /\ linked' = {q \in linked : seq[q] # seq[p]}
  /\ Redelete
  /\ UNCHANGED <<clientVars, seq, cut, dir, marked, filed, merged, mergeVars, overlap>>

(***************************************************************************)
(* CompleteUpload and its task.                                            *)
(***************************************************************************)
\* One of its checks fails, its context is canceled or the drive refuses the
\* file; a partial file is removed by its name.
MergeFails(m) ==
  /\ \/ /\ merge[m] = "sent"
        /\ (m \in stopped \/ ~dir \/ \E c \in Seqs : chunk[c] = "none")
        /\ UNCHANGED <<filed, deleting>>
     \/ /\ merge[m] = "copy" /\ next[m] < Chunks
        /\ (m \in stopped \/ marked \/ chunk[next[m]] = "none")
        /\ filed' = FALSE
        /\ Redelete
     \/ /\ merge[m] = "copy" /\ next[m] = Chunks /\ ~filed
        /\ UNCHANGED filed
        /\ Redelete
     \/ /\ merge[m] = "save"
        /\ filed' = FALSE
        /\ UNCHANGED deleting
  /\ merge' = [merge EXCEPT ![m] = "failed"]
  /\ UNCHANGED <<clientVars, putVars, dir, marked, chunk, merged, next, stopped,
                 drive, overlap>>

\* Every chunk is there: the merged file is created or truncated.
MergeOpen(m) ==
  /\ merge[m] = "sent" /\ m \notin stopped
  /\ dir /\ \A c \in Seqs : chunk[c] # "none"
  /\ merge' = [merge EXCEPT ![m] = "copy"]
  /\ filed' = TRUE /\ merged' = {}
  /\ UNCHANGED <<clientVars, putVars, dir, marked, chunk, deleting, next, stopped,
                 drive, overlap>>

MergeCopy(m) ==
  /\ merge[m] = "copy" /\ next[m] < Chunks
  /\ m \notin stopped /\ chunk[next[m]] # "none"
  /\ merged' = IF chunk[next[m]] = "whole" THEN merged \cup {next[m]} ELSE merged
  /\ next' = [next EXCEPT ![m] = @ + 1]
  /\ UNCHANGED <<clientVars, putVars, dir, marked, chunk, filed, deleting, merge,
                 stopped, drive, overlap>>

\* The merged file is opened for the drive.
MergeCopied(m) ==
  /\ merge[m] = "copy" /\ next[m] = Chunks /\ filed
  /\ merge' = [merge EXCEPT ![m] = "save"]
  /\ Redelete
  /\ UNCHANGED <<clientVars, putVars, dir, marked, chunk, filed, merged, next, stopped,
                 drive, overlap>>

\* Mutant: the merge is done before the drive has the file.
MergeSaveLater(m) ==
  /\ merge[m] = "save" /\ m \notin stopped
  /\ merge' = [merge EXCEPT ![m] = "done"]
  /\ filed' = FALSE
  /\ AskDelete
  /\ UNCHANGED <<clientVars, putVars, dir, marked, chunk, merged, next, stopped,
                 drive, overlap>>

\* The drive has the file; the temporary one and the upload are deleted.
MergeSave(m) ==
  /\ merge[m] = "save" /\ m \notin stopped
  /\ drive' = IF merged = Seqs THEN "whole" ELSE "short"
  /\ merge' = [merge EXCEPT ![m] = "done"]
  /\ filed' = FALSE
  /\ AskDelete
  /\ UNCHANGED <<clientVars, putVars, dir, marked, chunk, merged, next, stopped,
                 overlap>>

(***************************************************************************)
(* DeleteUpload: RemoveAll empties the directory, then removes it, which   *)
(* fails when a request has put a file there in between.                   *)
(***************************************************************************)
DeleteFiles ==
  /\ "asked" \in deleting
  /\ deleting' = (deleting \ {"asked"}) \cup (IF dir THEN {"emptied"} ELSE {})
  /\ chunk' = [c \in Seqs |-> "none"]
  /\ linked' = {} /\ filed' = FALSE /\ marked' = FALSE
  /\ UNCHANGED <<clientVars, put, seq, cut, dir, merged, mergeVars, overlap>>

Emptied == ~filed /\ ~marked /\ \A c \in Seqs : chunk[c] = "none"

DeleteDir ==
  /\ "emptied" \in deleting
  /\ deleting' = deleting \ {"emptied"}
  /\ dir' = (dir /\ ~Emptied)
  /\ marked' = dir'
  /\ UNCHANGED <<clientVars, putVars, chunk, filed, merged, mergeVars, overlap>>

-----------------------------------------------------------------------------
Client ==
  \/ \E p \in Puts : SendChunk(p) \/ ChunkAcked(p) \/ ChunkFailed(p)
  \/ Pause \/ Resume \/ Stop
  \/ \E m \in Merges : MergePending(m) \/ MergeDone(m) \/ MergeFailed(m)

Put(p) == PutLost(p) \/ PutRefused(p) \/ PutOpen(p) \/ PutWritten(p) \/ PutBroken(p)

MergeStep(m) ==
  MergeFails(m) \/ MergeOpen(m) \/ MergeCopy(m) \/ MergeCopied(m) \/ MergeSave(m)

Delete == DeleteFiles \/ DeleteDir

UploadNext ==
  \/ Client
  \/ \E p \in Puts : Put(p)
  \/ \E m \in Merges : MergeStep(m)
  \/ Delete

UploadSpec == UploadInit /\ [][UploadNext]_uploadVars

\* The client's own steps and the server's go on; the user and the network
\* need not act.
FairUpload ==
  /\ UploadSpec
  /\ \A p \in Puts : WF_uploadVars(SendChunk(p)) /\ WF_uploadVars(ChunkAcked(p))
                     /\ WF_uploadVars(put[p] = "failed" /\ ChunkFailed(p))
                     /\ WF_uploadVars(Put(p))
  /\ \A m \in Merges : WF_uploadVars(MergeDone(m)) /\ WF_uploadVars(MergeStep(m))
                       /\ WF_uploadVars(merge[m] = "failed" /\ MergeFailed(m))
  /\ WF_uploadVars(Delete)

-----------------------------------------------------------------------------
\* The type of every variable; a merge is waited for only when there is nothing
\* left to send, and never by an upload that has come to rest.
UploadTypeOK ==
  /\ status \in {"uploading", "paused", "error", "stopped", "completed"}
  /\ queue \subseteq Seqs /\ flying \subseteq Puts
  /\ merging \in Merges \cup {None} /\ mergeSeen \in BOOLEAN
  /\ merging # None => status = "uploading" /\ queue = {} /\ flying = {}
  /\ put \in [Puts -> {"unused", "sent", "open", "ok", "failed"}]
  /\ seq \in [Puts -> Seqs] /\ linked \subseteq Puts /\ cut \subseteq Puts
  /\ dir \in BOOLEAN /\ marked \in BOOLEAN /\ filed \in BOOLEAN
  /\ chunk \in [Seqs -> {"none", "empty", "whole"}] /\ merged \subseteq Seqs
  /\ deleting \subseteq {"asked", "emptied", "lost"}
  /\ merge \in [Merges -> {"unused", "sent", "copy", "save", "done", "failed"}]
  /\ next \in [Merges -> 0 .. Chunks] /\ stopped \subseteq Merges
  /\ drive \in {"nothing", "short", "whole"} /\ overlap \in BOOLEAN

\* CompleteUpload looks for every chunk before it copies the first, and nothing
\* checks the length of what it has copied.  A deletion that comes in between
\* does not make it save a part of the file as the whole.  (The handler of a
\* request the client has given up can: overlap.)
SavedIsWhole == drive = "short" => overlap

\* A chunk that has been acknowledged is not sent again, so while the client
\* means to go on it has to stay on the server.
AckedIsThere ==
  status \in {"uploading", "paused", "error"} /\ drive = "nothing" /\ ~overlap
    => \A c \in Seqs \ (queue \cup {seq[p] : p \in flying}) : chunk[c] = "whole"

\* An upload the client shows as complete is in the drive, whole.
CompletedIsSaved == status = "completed" => drive = "whole" \/ overlap

\* An upload under way is completed, or comes to rest where the user can resume
\* or stop it.
UploadEnds == status = "uploading" ~> status # "uploading"

\* The directory of an upload that is completed goes, and that of one that has been
\* stopped does unless the one request for it was lost, which nothing sends again; or it
\* keeps the mark of a removal that failed, for the next request of the upload that ends.
EndedIsCleared ==
  /\ status = "completed" ~> ~dir \/ marked
  /\ status = "stopped" ~> ~dir \/ marked \/ "lost" \in deleting

\* An upload ends, and its directory goes with it.
UploadSettles == UploadEnds /\ EndedIsCleared
=============================================================================
