----------------------------- MODULE Pieces_proofs -----------------------------
(***************************************************************************)
(* What is moved in pieces. A chunked upload, while nobody asks for one    *)
(* thing twice: what the drive is given is the whole file, an acknowledged *)
(* chunk stays at the server, and an upload shown as complete has been     *)
(* saved. The ranges of a download: they are kept merged, and the list of  *)
(* them with its waiters does what a growing set of units does.            *)
(***************************************************************************)
EXTENDS ChunkUpload, RangeLock, FiniteSetTheorems, FunctionTheorems, SequenceTheorems,
        WellFoundedInduction, TLAPS

MergeAsked == \E m \in Merges : merge[m] # "unused"

\* Nothing has deleted, or will delete, what the client may still need.
Wanted == status # "stopped" /\ drive = "nothing"

\* What the client waits for: chunks that are neither to be sent nor waited
\* for twice, then a merge, which ends the sending for good.
ClientInv ==
  /\ flying # {} => status = "uploading" /\ ~MergeAsked
  /\ MergeAsked => queue = {}
  /\ merging # None => merge[merging] # "unused" /\ status = "uploading"
  /\ mergeSeen => merging # None
  /\ \A p \in flying : /\ put[p] # "unused" /\ seq[p] \notin queue
                       /\ \A q \in flying : seq[p] = seq[q] => p = q

\* A deletion is asked for by a stop or by a merge that has saved.
DeletedLate == Wanted => deleting = {} /\ ~marked /\ dir

\* The server serves one request for a chunk, or one merge and no chunk; the
\* client still means to send what an abandoned request was about.
OneAtATime ==
  /\ \A p, q \in Puts : AtServer(p) /\ AtServer(q) /\ seq[p] = seq[q] => p = q
  /\ \A m, n \in Merges : MergeRuns(m) /\ MergeRuns(n) => m = n
  /\ MergeAsked => \A p \in Puts : ~AtServer(p)
  /\ Wanted => \A p \in Puts : AtServer(p) => p \in flying \/ seq[p] \in queue

\* The chunks are what the client takes them for.
ChunksKept ==
  /\ Wanted => /\ \A p \in Puts : put[p] = "open" => p \in linked
               /\ \A p \in flying : put[p] = "ok" => chunk[seq[p]] = "whole"
               /\ \A c \in Seqs : \/ c \in queue \/ chunk[c] = "whole"
                                  \/ \E p \in flying : seq[p] = c
  /\ MergeAsked => \A c \in Seqs : chunk[c] # "empty"

\* A merge has copied the chunks up to its place, each whole.
CopiedWhole ==
  \A m \in Merges :
    /\ merge[m] = "copy" => merged = 0 .. next[m] - 1
    /\ merge[m] = "save" => merged = Seqs

SavedInv ==
  /\ \A m \in Merges : /\ merge[m] \in {"unused", "sent"} => next[m] = 0
                       /\ merge[m] = "done" => drive # "nothing"
  /\ drive # "nothing" => MergeAsked
  /\ status = "completed" => drive # "nothing"

UploadInv ==
  /\ UploadTypeOK /\ ClientInv /\ DeletedLate /\ SavedInv
  /\ ~overlap => OneAtATime /\ ChunksKept /\ CopiedWhole /\ drive # "short"

-----------------------------------------------------------------------------
(* Each part of the invariant is kept by every step.                         *)

LEMMA UploadTypeStep == UploadInv /\ [UploadNext]_uploadVars => (UploadTypeOK')
PROOF
<1> SUFFICES ASSUME UploadInv, [UploadNext]_uploadVars PROVE UploadTypeOK'
  OBVIOUS
<1> USE ChunkUploadAssumption
<1>1. ASSUME NEW p \in Puts, SendChunk(p)
     PROVE  UploadTypeOK'
  BY <1>1 DEF UploadInv, UploadTypeOK, dirVars, mergeVars, AtServer, SendChunk
<1>2. ASSUME NEW p \in Puts, ChunkAcked(p)
     PROVE  UploadTypeOK'
  BY <1>2 DEF UploadInv, UploadTypeOK, Loop, putVars, dirVars, SendMerge, AtServer,
     MergeRuns, SavedInv, OneAtATime, ClientInv, MergeAsked, Wanted,
     ChunkAcked
<1>3. ASSUME NEW p \in Puts, ChunkFailed(p)
     PROVE  UploadTypeOK'
  <2>1. {seq[q] : q \in flying} \subseteq Seqs
    BY DEF UploadInv, UploadTypeOK
  <2>2. merging = None
    BY <1>3 DEF ChunkFailed, UploadInv, UploadTypeOK
  <2> QED
    BY <1>3, <2>1, <2>2
       DEF UploadInv, UploadTypeOK, ChunkFailed, GiveUp, dirVars, mergeVars
<1>4. CASE Pause
  <2>1. {seq[q] : q \in flying} \subseteq Seqs
    BY DEF UploadInv, UploadTypeOK
  <2> QED
    BY <1>4, <2>1 DEF UploadInv, UploadTypeOK, Pause, GiveUp, dirVars, mergeVars
<1>5. CASE Resume
  <2>1. flying = {} /\ UNCHANGED <<queue, flying>> /\ status' = "uploading"
    BY <1>5 DEF Resume, UploadInv, ClientInv
  <2>2. CASE queue = {}
    <3>1. PICK m \in Merges : SendMerge(m)
      BY <1>5, <2>2 DEF Resume, Loop
    <3> QED
      BY <1>5, <2>1, <2>2, <3>1
         DEF UploadInv, UploadTypeOK, Resume, SendMerge, putVars, dirVars
  <2>3. CASE queue # {}
    BY <1>5, <2>1, <2>3 DEF UploadInv, UploadTypeOK, Resume, Loop, putVars, dirVars
  <2> QED
    BY <2>2, <2>3
<1>6. CASE Stop
  BY <1>6 DEF UploadInv, UploadTypeOK, AskDelete, SentOnce, AtServer, DeletedLate, SavedInv,
     CopiedWhole, ChunksKept, OneAtATime, MergeRuns, ClientInv,
     MergeAsked, Wanted, Seqs, Stop
<1>7. ASSUME NEW m \in Merges, MergePending(m)
     PROVE  UploadTypeOK'
  BY <1>7 DEF UploadInv, UploadTypeOK, putVars, dirVars, mergeVars, MergeRuns,
     MergePending
<1>8. ASSUME NEW m \in Merges, MergeDone(m)
     PROVE  UploadTypeOK'
  BY <1>8 DEF UploadInv, UploadTypeOK, putVars, dirVars, mergeVars, DeletedLate,
     SavedInv, CopiedWhole, ChunksKept, OneAtATime, AtServer,
     MergeRuns, ClientInv, MergeAsked, Wanted, Seqs, MergeDone
<1>9. ASSUME NEW m \in Merges, MergeFailed(m)
     PROVE  UploadTypeOK'
  BY <1>9 DEF UploadInv, UploadTypeOK, putVars, dirVars, mergeVars, DeletedLate,
     SavedInv, CopiedWhole, ChunksKept, OneAtATime, AtServer,
     MergeRuns, ClientInv, MergeAsked, Wanted, Seqs, MergeFailed
<1>10. ASSUME NEW p \in Puts, PutLost(p)
     PROVE  UploadTypeOK'
  BY <1>10 DEF UploadInv, UploadTypeOK, clientVars, dirVars, mergeVars, PutLost
<1>11. ASSUME NEW p \in Puts, PutRefused(p)
     PROVE  UploadTypeOK'
  BY <1>11 DEF UploadInv, UploadTypeOK, clientVars, dirVars, mergeVars, PutRefused
<1>12. ASSUME NEW p \in Puts, PutOpen(p)
     PROVE  UploadTypeOK'
  BY <1>12 DEF UploadInv, UploadTypeOK, clientVars, mergeVars, PutOpen
<1>13. ASSUME NEW p \in Puts, PutWritten(p)
     PROVE  UploadTypeOK'
  BY <1>13 DEF UploadInv, UploadTypeOK, Redelete, clientVars, mergeVars, AskDelete,
     DeletedLate, SavedInv, CopiedWhole, ChunksKept, OneAtATime,
     AtServer, MergeRuns, ClientInv, MergeAsked, Wanted, Seqs,
     PutWritten
<1>14. ASSUME NEW p \in Puts, PutBroken(p)
     PROVE  UploadTypeOK'
  BY <1>14 DEF UploadInv, UploadTypeOK, Redelete, clientVars, mergeVars, AskDelete,
     DeletedLate, SavedInv, CopiedWhole, ChunksKept, OneAtATime,
     AtServer, MergeRuns, ClientInv, MergeAsked, Wanted, Seqs, PutBroken
<1>15. ASSUME NEW m \in Merges, MergeFails(m)
     PROVE  UploadTypeOK'
  BY <1>15 DEF UploadInv, UploadTypeOK, Redelete, clientVars, putVars, AskDelete,
     DeletedLate, SavedInv, CopiedWhole, ChunksKept, OneAtATime,
     AtServer, MergeRuns, ClientInv, MergeAsked, Wanted, Seqs,
     MergeFails
<1>16. ASSUME NEW m \in Merges, MergeOpen(m)
     PROVE  UploadTypeOK'
  BY <1>16 DEF UploadInv, UploadTypeOK, clientVars, putVars, MergeOpen
<1>17. ASSUME NEW m \in Merges, MergeCopy(m)
     PROVE  UploadTypeOK'
  <2>1. next[m] \in Seqs /\ next[m] + 1 \in 0 .. Chunks
    BY <1>17 DEF MergeCopy, UploadInv, UploadTypeOK, Seqs
  <2>2. next' \in [Merges -> 0 .. Chunks] /\ merged' \subseteq Seqs
    BY <1>17, <2>1 DEF MergeCopy, UploadInv, UploadTypeOK
  <2> QED
    BY <1>17, <2>2 DEF MergeCopy, UploadInv, UploadTypeOK, clientVars, putVars
<1>18. ASSUME NEW m \in Merges, MergeCopied(m)
     PROVE  UploadTypeOK'
  BY <1>18 DEF UploadInv, UploadTypeOK, Redelete, clientVars, putVars, AskDelete,
     DeletedLate, SavedInv, CopiedWhole, ChunksKept, OneAtATime,
     AtServer, MergeRuns, ClientInv, MergeAsked, Wanted, Seqs,
     MergeCopied
<1>19. ASSUME NEW m \in Merges, MergeSave(m)
     PROVE  UploadTypeOK'
  BY <1>19 DEF UploadInv, UploadTypeOK, AskDelete, clientVars, putVars, DeletedLate,
     SavedInv, CopiedWhole, ChunksKept, OneAtATime, AtServer,
     MergeRuns, ClientInv, MergeAsked, Wanted, Seqs, MergeSave
<1>20. CASE DeleteFiles
  BY <1>20 DEF UploadInv, UploadTypeOK, clientVars, mergeVars, DeletedLate, SavedInv,
     CopiedWhole, ChunksKept, OneAtATime, AtServer, MergeRuns,
     ClientInv, MergeAsked, Wanted, Seqs, DeleteFiles
<1>21. CASE DeleteDir
  BY <1>21 DEF UploadInv, UploadTypeOK, Emptied, clientVars, putVars, mergeVars,
     DeleteDir
<1>22. CASE UNCHANGED uploadVars
  BY <1>22 DEF UploadInv, UploadTypeOK, uploadVars, clientVars, putVars, dirVars,
     mergeVars
<1> QED
  BY <1>1, <1>2, <1>3, <1>4, <1>5, <1>6, <1>7, <1>8, <1>9, <1>10,
     <1>11, <1>12, <1>13, <1>14, <1>15, <1>16, <1>17, <1>18, <1>19,
     <1>20, <1>21, <1>22 DEF UploadNext, Client, Put, MergeStep, Delete

LEMMA ClientStep == UploadInv /\ [UploadNext]_uploadVars => (ClientInv')
PROOF
<1> SUFFICES ASSUME UploadInv, [UploadNext]_uploadVars PROVE ClientInv'
  OBVIOUS
<1> USE ChunkUploadAssumption
<1>1. ASSUME NEW p \in Puts, SendChunk(p)
     PROVE  ClientInv'
  BY <1>1 DEF UploadInv, ClientInv, MergeAsked, dirVars, mergeVars, AtServer,
     UploadTypeOK, SendChunk
<1>2. ASSUME NEW p \in Puts, ChunkAcked(p)
     PROVE  ClientInv'
  BY <1>2 DEF UploadInv, ClientInv, MergeAsked, Loop, putVars, dirVars, SendMerge,
     AtServer, MergeRuns, UploadTypeOK, ChunkAcked
<1>3. ASSUME NEW p \in Puts, ChunkFailed(p)
     PROVE  ClientInv'
  BY <1>3 DEF UploadInv, ClientInv, MergeAsked, GiveUp, dirVars, mergeVars, AtServer,
     UploadTypeOK, ChunkFailed
<1>4. CASE Pause
  BY <1>4 DEF UploadInv, ClientInv, MergeAsked, GiveUp, dirVars, mergeVars, AtServer,
     Pause
<1>5. CASE Resume
  BY <1>5 DEF UploadInv, ClientInv, MergeAsked, Loop, putVars, dirVars, SendMerge,
     AtServer, MergeRuns, UploadTypeOK, Resume
<1>6. CASE Stop
  BY <1>6 DEF UploadInv, ClientInv, MergeAsked, AskDelete, SentOnce, AtServer, Stop
<1>7. ASSUME NEW m \in Merges, MergePending(m)
     PROVE  ClientInv'
  BY <1>7 DEF UploadInv, ClientInv, MergeAsked, putVars, dirVars, mergeVars,
     MergeRuns, MergePending
<1>8. ASSUME NEW m \in Merges, MergeDone(m)
     PROVE  ClientInv'
  BY <1>8 DEF UploadInv, ClientInv, MergeAsked, putVars, dirVars, mergeVars, MergeDone
<1>9. ASSUME NEW m \in Merges, MergeFailed(m)
     PROVE  ClientInv'
  BY <1>9 DEF UploadInv, ClientInv, MergeAsked, putVars, dirVars, mergeVars,
     MergeFailed
<1>10. ASSUME NEW p \in Puts, PutLost(p)
     PROVE  ClientInv'
  BY <1>10 DEF UploadInv, ClientInv, MergeAsked, clientVars, dirVars, mergeVars,
     PutLost
<1>11. ASSUME NEW p \in Puts, PutRefused(p)
     PROVE  ClientInv'
  BY <1>11 DEF UploadInv, ClientInv, MergeAsked, clientVars, dirVars, mergeVars,
     PutRefused
<1>12. ASSUME NEW p \in Puts, PutOpen(p)
     PROVE  ClientInv'
  BY <1>12 DEF UploadInv, ClientInv, MergeAsked, clientVars, mergeVars, PutOpen
<1>13. ASSUME NEW p \in Puts, PutWritten(p)
     PROVE  ClientInv'
  BY <1>13 DEF UploadInv, ClientInv, MergeAsked, Redelete, clientVars, mergeVars,
     AskDelete, PutWritten
<1>14. ASSUME NEW p \in Puts, PutBroken(p)
     PROVE  ClientInv'
  BY <1>14 DEF UploadInv, ClientInv, MergeAsked, Redelete, clientVars, mergeVars,
     AskDelete, PutBroken
<1>15. ASSUME NEW m \in Merges, MergeFails(m)
     PROVE  ClientInv'
  BY <1>15 DEF UploadInv, ClientInv, MergeAsked, Redelete, clientVars, putVars,
     AskDelete, MergeFails
<1>16. ASSUME NEW m \in Merges, MergeOpen(m)
     PROVE  ClientInv'
  BY <1>16 DEF UploadInv, ClientInv, MergeAsked, clientVars, putVars, MergeOpen
<1>17. ASSUME NEW m \in Merges, MergeCopy(m)
     PROVE  ClientInv'
  BY <1>17 DEF UploadInv, ClientInv, MergeAsked, clientVars, putVars, MergeCopy
<1>18. ASSUME NEW m \in Merges, MergeCopied(m)
     PROVE  ClientInv'
  BY <1>18 DEF UploadInv, ClientInv, MergeAsked, Redelete, clientVars, putVars,
     AskDelete, MergeCopied
<1>19. ASSUME NEW m \in Merges, MergeSave(m)
     PROVE  ClientInv'
  BY <1>19 DEF UploadInv, ClientInv, MergeAsked, AskDelete, clientVars, putVars,
     MergeSave
<1>20. CASE DeleteFiles
  BY <1>20 DEF UploadInv, ClientInv, MergeAsked, clientVars, mergeVars, DeleteFiles
<1>21. CASE DeleteDir
  BY <1>21 DEF UploadInv, ClientInv, MergeAsked, Emptied, clientVars, putVars,
     mergeVars, DeleteDir
<1>22. CASE UNCHANGED uploadVars
  BY <1>22 DEF UploadInv, ClientInv, MergeAsked, uploadVars, clientVars, putVars,
     dirVars, mergeVars
<1> QED
  BY <1>1, <1>2, <1>3, <1>4, <1>5, <1>6, <1>7, <1>8, <1>9, <1>10,
     <1>11, <1>12, <1>13, <1>14, <1>15, <1>16, <1>17, <1>18, <1>19,
     <1>20, <1>21, <1>22 DEF UploadNext, Client, Put, MergeStep, Delete

LEMMA DeletedLateStep == UploadInv /\ [UploadNext]_uploadVars => (DeletedLate')
PROOF
<1> SUFFICES ASSUME UploadInv, [UploadNext]_uploadVars PROVE DeletedLate'
  OBVIOUS
<1> USE ChunkUploadAssumption
<1>1. ASSUME NEW p \in Puts, SendChunk(p)
     PROVE  DeletedLate'
  BY <1>1 DEF UploadInv, DeletedLate, Wanted, dirVars, mergeVars, AtServer, SendChunk
<1>2. ASSUME NEW p \in Puts, ChunkAcked(p)
     PROVE  DeletedLate'
  BY <1>2 DEF UploadInv, DeletedLate, Wanted, Loop, putVars, dirVars, SendMerge,
     AtServer, MergeRuns, ChunkAcked
<1>3. ASSUME NEW p \in Puts, ChunkFailed(p)
     PROVE  DeletedLate'
  BY <1>3 DEF UploadInv, DeletedLate, Wanted, GiveUp, dirVars, mergeVars, AtServer,
     ClientInv, ChunkFailed
<1>4. CASE Pause
  BY <1>4 DEF UploadInv, DeletedLate, Wanted, GiveUp, dirVars, mergeVars, AtServer,
     Pause
<1>5. CASE Resume
  BY <1>5 DEF UploadInv, DeletedLate, Wanted, Loop, putVars, dirVars, SendMerge,
     AtServer, MergeRuns, Resume
<1>6. CASE Stop
  BY <1>6 DEF UploadInv, DeletedLate, Wanted, AskDelete, SentOnce, AtServer, Stop
<1>7. ASSUME NEW m \in Merges, MergePending(m)
     PROVE  DeletedLate'
  BY <1>7 DEF UploadInv, DeletedLate, Wanted, putVars, dirVars, mergeVars, MergeRuns,
     MergePending
<1>8. ASSUME NEW m \in Merges, MergeDone(m)
     PROVE  DeletedLate'
  BY <1>8 DEF UploadInv, DeletedLate, Wanted, putVars, dirVars, mergeVars,
     UploadTypeOK, MergeDone
<1>9. ASSUME NEW m \in Merges, MergeFailed(m)
     PROVE  DeletedLate'
  BY <1>9 DEF UploadInv, DeletedLate, Wanted, putVars, dirVars, mergeVars,
     UploadTypeOK, MergeFailed
<1>10. ASSUME NEW p \in Puts, PutLost(p)
     PROVE  DeletedLate'
  BY <1>10 DEF UploadInv, DeletedLate, Wanted, clientVars, dirVars, mergeVars, PutLost
<1>11. ASSUME NEW p \in Puts, PutRefused(p)
     PROVE  DeletedLate'
  BY <1>11 DEF UploadInv, DeletedLate, Wanted, clientVars, dirVars, mergeVars,
     PutRefused
<1>12. ASSUME NEW p \in Puts, PutOpen(p)
     PROVE  DeletedLate'
  BY <1>12 DEF UploadInv, DeletedLate, Wanted, clientVars, mergeVars, PutOpen
<1>13. ASSUME NEW p \in Puts, PutWritten(p)
     PROVE  DeletedLate'
  BY <1>13 DEF UploadInv, DeletedLate, Wanted, Redelete, clientVars, mergeVars,
     AskDelete, SavedInv, CopiedWhole, ChunksKept, OneAtATime,
     AtServer, MergeRuns, ClientInv, MergeAsked, Seqs, PutWritten
<1>14. ASSUME NEW p \in Puts, PutBroken(p)
     PROVE  DeletedLate'
  BY <1>14 DEF UploadInv, DeletedLate, Wanted, Redelete, clientVars, mergeVars,
     AskDelete, SavedInv, CopiedWhole, ChunksKept, OneAtATime,
     AtServer, MergeRuns, ClientInv, MergeAsked, Seqs, PutBroken
<1>15. ASSUME NEW m \in Merges, MergeFails(m)
     PROVE  DeletedLate'
  BY <1>15 DEF UploadInv, DeletedLate, Wanted, Redelete, clientVars, putVars,
     AskDelete, SavedInv, CopiedWhole, ChunksKept, OneAtATime,
     AtServer, MergeRuns, ClientInv, MergeAsked, Seqs, MergeFails
<1>16. ASSUME NEW m \in Merges, MergeOpen(m)
     PROVE  DeletedLate'
  BY <1>16 DEF UploadInv, DeletedLate, Wanted, clientVars, putVars, MergeOpen
<1>17. ASSUME NEW m \in Merges, MergeCopy(m)
     PROVE  DeletedLate'
  BY <1>17 DEF UploadInv, DeletedLate, Wanted, clientVars, putVars, MergeCopy
<1>18. ASSUME NEW m \in Merges, MergeCopied(m)
     PROVE  DeletedLate'
  BY <1>18 DEF UploadInv, DeletedLate, Wanted, Redelete, clientVars, putVars,
     AskDelete, SavedInv, CopiedWhole, ChunksKept, OneAtATime,
     AtServer, MergeRuns, ClientInv, MergeAsked, Seqs, MergeCopied
<1>19. ASSUME NEW m \in Merges, MergeSave(m)
     PROVE  DeletedLate'
  BY <1>19 DEF UploadInv, DeletedLate, Wanted, AskDelete, clientVars, putVars,
     MergeSave
<1>20. CASE DeleteFiles
  BY <1>20 DEF UploadInv, DeletedLate, Wanted, clientVars, mergeVars, DeleteFiles
<1>21. CASE DeleteDir
  BY <1>21 DEF UploadInv, DeletedLate, Wanted, Emptied, clientVars, putVars,
     mergeVars, DeleteDir
<1>22. CASE UNCHANGED uploadVars
  BY <1>22 DEF UploadInv, DeletedLate, Wanted, uploadVars, clientVars, putVars,
     dirVars, mergeVars
<1> QED
  BY <1>1, <1>2, <1>3, <1>4, <1>5, <1>6, <1>7, <1>8, <1>9, <1>10,
     <1>11, <1>12, <1>13, <1>14, <1>15, <1>16, <1>17, <1>18, <1>19,
     <1>20, <1>21, <1>22 DEF UploadNext, Client, Put, MergeStep, Delete

LEMMA SavedStep == UploadInv /\ [UploadNext]_uploadVars => (SavedInv')
PROOF
<1> SUFFICES ASSUME UploadInv, [UploadNext]_uploadVars PROVE SavedInv'
  OBVIOUS
<1> USE ChunkUploadAssumption
<1>1. ASSUME NEW p \in Puts, SendChunk(p)
     PROVE  SavedInv'
  BY <1>1 DEF UploadInv, SavedInv, MergeAsked, dirVars, mergeVars, AtServer, SendChunk
<1>2. ASSUME NEW p \in Puts, ChunkAcked(p)
     PROVE  SavedInv'
  BY <1>2 DEF UploadInv, SavedInv, MergeAsked, Loop, putVars, dirVars, SendMerge,
     AtServer, MergeRuns, UploadTypeOK, ChunkAcked
<1>3. ASSUME NEW p \in Puts, ChunkFailed(p)
     PROVE  SavedInv'
  BY <1>3 DEF UploadInv, SavedInv, MergeAsked, GiveUp, dirVars, mergeVars, AtServer,
     ChunkFailed
<1>4. CASE Pause
  BY <1>4 DEF UploadInv, SavedInv, MergeAsked, GiveUp, dirVars, mergeVars, AtServer,
     Pause
<1>5. CASE Resume
  BY <1>5 DEF UploadInv, SavedInv, MergeAsked, Loop, putVars, dirVars, SendMerge,
     AtServer, MergeRuns, UploadTypeOK, Resume
<1>6. CASE Stop
  BY <1>6 DEF UploadInv, SavedInv, MergeAsked, AskDelete, SentOnce, AtServer, Stop
<1>7. ASSUME NEW m \in Merges, MergePending(m)
     PROVE  SavedInv'
  BY <1>7 DEF UploadInv, SavedInv, MergeAsked, putVars, dirVars, mergeVars,
     MergeRuns, MergePending
<1>8. ASSUME NEW m \in Merges, MergeDone(m)
     PROVE  SavedInv'
  BY <1>8 DEF UploadInv, SavedInv, MergeAsked, putVars, dirVars, mergeVars, MergeDone
<1>9. ASSUME NEW m \in Merges, MergeFailed(m)
     PROVE  SavedInv'
  BY <1>9 DEF UploadInv, SavedInv, MergeAsked, putVars, dirVars, mergeVars,
     MergeFailed
<1>10. ASSUME NEW p \in Puts, PutLost(p)
     PROVE  SavedInv'
  BY <1>10 DEF UploadInv, SavedInv, MergeAsked, clientVars, dirVars, mergeVars, PutLost
<1>11. ASSUME NEW p \in Puts, PutRefused(p)
     PROVE  SavedInv'
  BY <1>11 DEF UploadInv, SavedInv, MergeAsked, clientVars, dirVars, mergeVars,
     PutRefused
<1>12. ASSUME NEW p \in Puts, PutOpen(p)
     PROVE  SavedInv'
  BY <1>12 DEF UploadInv, SavedInv, MergeAsked, clientVars, mergeVars, PutOpen
<1>13. ASSUME NEW p \in Puts, PutWritten(p)
     PROVE  SavedInv'
  BY <1>13 DEF UploadInv, SavedInv, MergeAsked, Redelete, clientVars, mergeVars,
     AskDelete, PutWritten
<1>14. ASSUME NEW p \in Puts, PutBroken(p)
     PROVE  SavedInv'
  BY <1>14 DEF UploadInv, SavedInv, MergeAsked, Redelete, clientVars, mergeVars,
     AskDelete, PutBroken
<1>15. ASSUME NEW m \in Merges, MergeFails(m)
     PROVE  SavedInv'
  BY <1>15 DEF UploadInv, SavedInv, MergeAsked, Redelete, clientVars, putVars,
     AskDelete, MergeFails
<1>16. ASSUME NEW m \in Merges, MergeOpen(m)
     PROVE  SavedInv'
  BY <1>16 DEF UploadInv, SavedInv, MergeAsked, clientVars, putVars, MergeOpen
<1>17. ASSUME NEW m \in Merges, MergeCopy(m)
     PROVE  SavedInv'
  BY <1>17 DEF UploadInv, SavedInv, MergeAsked, clientVars, putVars, MergeCopy
<1>18. ASSUME NEW m \in Merges, MergeCopied(m)
     PROVE  SavedInv'
  BY <1>18 DEF UploadInv, SavedInv, MergeAsked, Redelete, clientVars, putVars,
     AskDelete, MergeCopied
<1>19. ASSUME NEW m \in Merges, MergeSave(m)
     PROVE  SavedInv'
  BY <1>19 DEF UploadInv, SavedInv, MergeAsked, AskDelete, clientVars, putVars,
     MergeSave
<1>20. CASE DeleteFiles
  BY <1>20 DEF UploadInv, SavedInv, MergeAsked, clientVars, mergeVars, DeleteFiles
<1>21. CASE DeleteDir
  BY <1>21 DEF UploadInv, SavedInv, MergeAsked, Emptied, clientVars, putVars,
     mergeVars, DeleteDir
<1>22. CASE UNCHANGED uploadVars
  BY <1>22 DEF UploadInv, SavedInv, MergeAsked, uploadVars, clientVars, putVars,
     dirVars, mergeVars
<1> QED
  BY <1>1, <1>2, <1>3, <1>4, <1>5, <1>6, <1>7, <1>8, <1>9, <1>10,
     <1>11, <1>12, <1>13, <1>14, <1>15, <1>16, <1>17, <1>18, <1>19,
     <1>20, <1>21, <1>22 DEF UploadNext, Client, Put, MergeStep, Delete

LEMMA OneAtATimeStep == UploadInv /\ [UploadNext]_uploadVars => (~overlap' => OneAtATime')
PROOF
<1> SUFFICES ASSUME UploadInv, [UploadNext]_uploadVars PROVE ~overlap' => OneAtATime'
  OBVIOUS
<1> USE ChunkUploadAssumption
<1>1. ASSUME NEW p \in Puts, SendChunk(p)
     PROVE  ~overlap' => OneAtATime'
  BY <1>1 DEF UploadInv, OneAtATime, AtServer, MergeRuns, MergeAsked, Wanted,
     dirVars, mergeVars, DeletedLate, SavedInv, ClientInv,
     UploadTypeOK, SendChunk
<1>2. ASSUME NEW p \in Puts, ChunkAcked(p)
     PROVE  ~overlap' => OneAtATime'
  BY <1>2 DEF UploadInv, OneAtATime, AtServer, MergeRuns, MergeAsked, Wanted, Loop,
     putVars, dirVars, SendMerge, SavedInv, ClientInv, UploadTypeOK,
     ChunkAcked
<1>3. ASSUME NEW p \in Puts, ChunkFailed(p)
     PROVE  ~overlap' => OneAtATime'
  BY <1>3 DEF UploadInv, OneAtATime, AtServer, MergeRuns, MergeAsked, Wanted, GiveUp,
     dirVars, mergeVars, ClientInv, ChunkFailed
<1>4. CASE Pause
  BY <1>4 DEF UploadInv, OneAtATime, AtServer, MergeRuns, MergeAsked, Wanted, GiveUp,
     dirVars, mergeVars, Pause
<1>5. CASE Resume
  <2>1. flying = {} /\ UNCHANGED <<queue, flying, drive, putVars>>
        /\ status # "stopped" /\ status' # "stopped"
    BY <1>5 DEF Resume, UploadInv, ClientInv
  <2>2. CASE queue = {}
    <3>1. PICK m \in Merges : SendMerge(m)
      BY <1>5, <2>2 DEF Resume, Loop
    <3>2. SUFFICES ASSUME ~overlap' PROVE OneAtATime'
      OBVIOUS
    <3>3. OneAtATime /\ merge' = [merge EXCEPT ![m] = "sent"]
          /\ (\A p \in Puts : ~AtServer(p)) /\ (\A n \in Merges : ~MergeRuns(n))
      BY <3>1, <3>2 DEF SendMerge, UploadInv
    <3> QED
      BY <2>1, <3>3 DEF UploadInv, UploadTypeOK, OneAtATime, AtServer, MergeRuns, putVars
  <2>3. CASE queue # {}
    BY <1>5, <2>1, <2>3
       DEF UploadInv, OneAtATime, AtServer, MergeRuns, MergeAsked, Wanted, Resume, Loop,
           putVars
  <2> QED
    BY <2>2, <2>3
<1>6. CASE Stop
  BY <1>6 DEF UploadInv, OneAtATime, AtServer, MergeRuns, MergeAsked, Wanted,
     AskDelete, Stop
<1>7. ASSUME NEW m \in Merges, MergePending(m)
     PROVE  ~overlap' => OneAtATime'
  BY <1>7 DEF UploadInv, OneAtATime, AtServer, MergeRuns, MergeAsked, Wanted,
     putVars, dirVars, mergeVars, MergePending
<1>8. ASSUME NEW m \in Merges, MergeDone(m)
     PROVE  ~overlap' => OneAtATime'
  BY <1>8 DEF UploadInv, OneAtATime, AtServer, MergeRuns, MergeAsked, Wanted,
     putVars, dirVars, mergeVars, MergeDone
<1>9. ASSUME NEW m \in Merges, MergeFailed(m)
     PROVE  ~overlap' => OneAtATime'
  BY <1>9 DEF UploadInv, OneAtATime, AtServer, MergeRuns, MergeAsked, Wanted,
     putVars, dirVars, mergeVars, UploadTypeOK, MergeFailed
<1>10. ASSUME NEW p \in Puts, PutLost(p)
     PROVE  ~overlap' => OneAtATime'
  BY <1>10 DEF UploadInv, OneAtATime, AtServer, MergeRuns, MergeAsked, Wanted,
     clientVars, dirVars, mergeVars, PutLost
<1>11. ASSUME NEW p \in Puts, PutRefused(p)
     PROVE  ~overlap' => OneAtATime'
  BY <1>11 DEF UploadInv, OneAtATime, AtServer, MergeRuns, MergeAsked, Wanted,
     clientVars, dirVars, mergeVars, PutRefused
<1>12. ASSUME NEW p \in Puts, PutOpen(p)
     PROVE  ~overlap' => OneAtATime'
  BY <1>12 DEF UploadInv, OneAtATime, AtServer, MergeRuns, MergeAsked, Wanted,
     clientVars, mergeVars, PutOpen
<1>13. ASSUME NEW p \in Puts, PutWritten(p)
     PROVE  ~overlap' => OneAtATime'
  BY <1>13 DEF UploadInv, OneAtATime, AtServer, MergeRuns, MergeAsked, Wanted,
     Redelete, clientVars, mergeVars, AskDelete, PutWritten
<1>14. ASSUME NEW p \in Puts, PutBroken(p)
     PROVE  ~overlap' => OneAtATime'
  BY <1>14 DEF UploadInv, OneAtATime, AtServer, MergeRuns, MergeAsked, Wanted,
     Redelete, clientVars, mergeVars, AskDelete, PutBroken
<1>15. ASSUME NEW m \in Merges, MergeFails(m)
     PROVE  ~overlap' => OneAtATime'
  BY <1>15 DEF UploadInv, OneAtATime, AtServer, MergeRuns, MergeAsked, Wanted,
     Redelete, clientVars, putVars, AskDelete, MergeFails
<1>16. ASSUME NEW m \in Merges, MergeOpen(m)
     PROVE  ~overlap' => OneAtATime'
  BY <1>16 DEF UploadInv, OneAtATime, AtServer, MergeRuns, MergeAsked, Wanted,
     clientVars, putVars, MergeOpen
<1>17. ASSUME NEW m \in Merges, MergeCopy(m)
     PROVE  ~overlap' => OneAtATime'
  BY <1>17 DEF UploadInv, OneAtATime, AtServer, MergeRuns, MergeAsked, Wanted,
     clientVars, putVars, MergeCopy
<1>18. ASSUME NEW m \in Merges, MergeCopied(m)
     PROVE  ~overlap' => OneAtATime'
  BY <1>18 DEF UploadInv, OneAtATime, AtServer, MergeRuns, MergeAsked, Wanted,
     Redelete, clientVars, putVars, AskDelete, MergeCopied
<1>19. ASSUME NEW m \in Merges, MergeSave(m)
     PROVE  ~overlap' => OneAtATime'
  BY <1>19 DEF UploadInv, OneAtATime, AtServer, MergeRuns, MergeAsked, Wanted,
     AskDelete, clientVars, putVars, MergeSave
<1>20. CASE DeleteFiles
  BY <1>20 DEF UploadInv, OneAtATime, AtServer, MergeRuns, MergeAsked, Wanted,
     clientVars, mergeVars, DeleteFiles
<1>21. CASE DeleteDir
  BY <1>21 DEF UploadInv, OneAtATime, AtServer, MergeRuns, MergeAsked, Wanted,
     Emptied, clientVars, putVars, mergeVars, DeleteDir
<1>22. CASE UNCHANGED uploadVars
  BY <1>22 DEF UploadInv, OneAtATime, AtServer, MergeRuns, MergeAsked, Wanted,
     uploadVars, clientVars, putVars, dirVars, mergeVars
<1> QED
  BY <1>1, <1>2, <1>3, <1>4, <1>5, <1>6, <1>7, <1>8, <1>9, <1>10,
     <1>11, <1>12, <1>13, <1>14, <1>15, <1>16, <1>17, <1>18, <1>19,
     <1>20, <1>21, <1>22 DEF UploadNext, Client, Put, MergeStep, Delete

LEMMA ChunksKeptStep == UploadInv /\ [UploadNext]_uploadVars => (~overlap' => ChunksKept')
PROOF
<1> SUFFICES ASSUME UploadInv, [UploadNext]_uploadVars PROVE ~overlap' => ChunksKept'
  OBVIOUS
<1> USE ChunkUploadAssumption
<1>1. ASSUME NEW p \in Puts, SendChunk(p)
     PROVE  ~overlap' => ChunksKept'
  BY <1>1 DEF UploadInv, ChunksKept, MergeAsked, Wanted, dirVars, mergeVars,
     AtServer, ClientInv, UploadTypeOK, SendChunk
<1>2. ASSUME NEW p \in Puts, ChunkAcked(p)
     PROVE  ~overlap' => ChunksKept'
  BY <1>2 DEF UploadInv, ChunksKept, MergeAsked, Wanted, Loop, putVars, dirVars,
     SendMerge, AtServer, MergeRuns, SavedInv, ClientInv, UploadTypeOK,
     ChunkAcked
<1>3. ASSUME NEW p \in Puts, ChunkFailed(p)
     PROVE  ~overlap' => ChunksKept'
  BY <1>3 DEF UploadInv, ChunksKept, MergeAsked, Wanted, GiveUp, dirVars, mergeVars,
     AtServer, CopiedWhole, ClientInv, ChunkFailed
<1>4. CASE Pause
  BY <1>4 DEF UploadInv, ChunksKept, MergeAsked, Wanted, GiveUp, dirVars, mergeVars,
     AtServer, Pause
<1>5. CASE Resume
  BY <1>5 DEF UploadInv, ChunksKept, MergeAsked, Wanted, Loop, putVars, dirVars,
     SendMerge, AtServer, MergeRuns, SavedInv, CopiedWhole, ClientInv,
     UploadTypeOK, Resume
<1>6. CASE Stop
  BY <1>6 DEF UploadInv, ChunksKept, MergeAsked, Wanted, AskDelete, SentOnce, AtServer, Stop
<1>7. ASSUME NEW m \in Merges, MergePending(m)
     PROVE  ~overlap' => ChunksKept'
  BY <1>7 DEF UploadInv, ChunksKept, MergeAsked, Wanted, putVars, dirVars, mergeVars,
     MergeRuns, MergePending
<1>8. ASSUME NEW m \in Merges, MergeDone(m)
     PROVE  ~overlap' => ChunksKept'
  BY <1>8 DEF UploadInv, ChunksKept, MergeAsked, Wanted, putVars, dirVars, mergeVars,
     UploadTypeOK, MergeDone
<1>9. ASSUME NEW m \in Merges, MergeFailed(m)
     PROVE  ~overlap' => ChunksKept'
  BY <1>9 DEF UploadInv, ChunksKept, MergeAsked, Wanted, putVars, dirVars, mergeVars,
     UploadTypeOK, MergeFailed
<1>10. ASSUME NEW p \in Puts, PutLost(p)
     PROVE  ~overlap' => ChunksKept'
  BY <1>10 DEF UploadInv, ChunksKept, MergeAsked, Wanted, clientVars, dirVars,
     mergeVars, PutLost
<1>11. ASSUME NEW p \in Puts, PutRefused(p)
     PROVE  ~overlap' => ChunksKept'
  BY <1>11 DEF UploadInv, ChunksKept, MergeAsked, Wanted, clientVars, dirVars,
     mergeVars, PutRefused
<1>12. ASSUME NEW p \in Puts, PutOpen(p)
     PROVE  ~overlap' => ChunksKept'
  BY <1>12 DEF UploadInv, ChunksKept, MergeAsked, Wanted, clientVars, mergeVars,
     OneAtATime, AtServer, MergeRuns, ClientInv, PutOpen
<1>13. ASSUME NEW p \in Puts, PutWritten(p)
     PROVE  ~overlap' => ChunksKept'
  BY <1>13 DEF UploadInv, ChunksKept, MergeAsked, Wanted, Redelete, clientVars,
     mergeVars, AskDelete, UploadTypeOK, PutWritten
<1>14. ASSUME NEW p \in Puts, PutBroken(p)
     PROVE  ~overlap' => ChunksKept'
  BY <1>14 DEF UploadInv, ChunksKept, MergeAsked, Wanted, Redelete, clientVars,
     mergeVars, AskDelete, OneAtATime, AtServer, MergeRuns, ClientInv,
     UploadTypeOK, PutBroken
<1>15. ASSUME NEW m \in Merges, MergeFails(m)
     PROVE  ~overlap' => ChunksKept'
  BY <1>15 DEF UploadInv, ChunksKept, MergeAsked, Wanted, Redelete, clientVars,
     putVars, AskDelete, MergeFails
<1>16. ASSUME NEW m \in Merges, MergeOpen(m)
     PROVE  ~overlap' => ChunksKept'
  BY <1>16 DEF UploadInv, ChunksKept, MergeAsked, Wanted, clientVars, putVars,
     MergeOpen
<1>17. ASSUME NEW m \in Merges, MergeCopy(m)
     PROVE  ~overlap' => ChunksKept'
  BY <1>17 DEF UploadInv, ChunksKept, MergeAsked, Wanted, clientVars, putVars,
     MergeCopy
<1>18. ASSUME NEW m \in Merges, MergeCopied(m)
     PROVE  ~overlap' => ChunksKept'
  BY <1>18 DEF UploadInv, ChunksKept, MergeAsked, Wanted, Redelete, clientVars,
     putVars, AskDelete, MergeCopied
<1>19. ASSUME NEW m \in Merges, MergeSave(m)
     PROVE  ~overlap' => ChunksKept'
  BY <1>19 DEF UploadInv, ChunksKept, MergeAsked, Wanted, AskDelete, clientVars,
     putVars, MergeSave
<1>20. CASE DeleteFiles
  BY <1>20 DEF UploadInv, ChunksKept, MergeAsked, Wanted, clientVars, mergeVars,
     DeletedLate, DeleteFiles
<1>21. CASE DeleteDir
  BY <1>21 DEF UploadInv, ChunksKept, MergeAsked, Wanted, Emptied, clientVars,
     putVars, mergeVars, DeleteDir
<1>22. CASE UNCHANGED uploadVars
  BY <1>22 DEF UploadInv, ChunksKept, MergeAsked, Wanted, uploadVars, clientVars,
     putVars, dirVars, mergeVars
<1> QED
  BY <1>1, <1>2, <1>3, <1>4, <1>5, <1>6, <1>7, <1>8, <1>9, <1>10,
     <1>11, <1>12, <1>13, <1>14, <1>15, <1>16, <1>17, <1>18, <1>19,
     <1>20, <1>21, <1>22 DEF UploadNext, Client, Put, MergeStep, Delete

LEMMA CopiedStep == UploadInv /\ [UploadNext]_uploadVars => (~overlap' => CopiedWhole' /\ drive' # "short")
PROOF
<1> SUFFICES ASSUME UploadInv, [UploadNext]_uploadVars PROVE ~overlap' => CopiedWhole' /\ drive' # "short"
  OBVIOUS
<1> USE ChunkUploadAssumption
<1>1. ASSUME NEW p \in Puts, SendChunk(p)
     PROVE  ~overlap' => CopiedWhole' /\ drive' # "short"
  BY <1>1 DEF UploadInv, CopiedWhole, dirVars, mergeVars, AtServer, UploadTypeOK,
     SendChunk
<1>2. ASSUME NEW p \in Puts, ChunkAcked(p)
     PROVE  ~overlap' => CopiedWhole' /\ drive' # "short"
  BY <1>2 DEF UploadInv, CopiedWhole, Loop, putVars, dirVars, SendMerge, AtServer,
     MergeRuns, UploadTypeOK, ChunkAcked
<1>3. ASSUME NEW p \in Puts, ChunkFailed(p)
     PROVE  ~overlap' => CopiedWhole' /\ drive' # "short"
  BY <1>3 DEF UploadInv, CopiedWhole, GiveUp, dirVars, mergeVars, AtServer,
     ChunkFailed
<1>4. CASE Pause
  BY <1>4 DEF UploadInv, CopiedWhole, GiveUp, dirVars, mergeVars, AtServer, Pause
<1>5. CASE Resume
  BY <1>5 DEF UploadInv, CopiedWhole, Loop, putVars, dirVars, SendMerge, AtServer,
     MergeRuns, UploadTypeOK, Resume
<1>6. CASE Stop
  BY <1>6 DEF UploadInv, CopiedWhole, AskDelete, SentOnce, AtServer, Stop
<1>7. ASSUME NEW m \in Merges, MergePending(m)
     PROVE  ~overlap' => CopiedWhole' /\ drive' # "short"
  BY <1>7 DEF UploadInv, CopiedWhole, putVars, dirVars, mergeVars, MergeRuns,
     MergePending
<1>8. ASSUME NEW m \in Merges, MergeDone(m)
     PROVE  ~overlap' => CopiedWhole' /\ drive' # "short"
  BY <1>8 DEF UploadInv, CopiedWhole, putVars, dirVars, mergeVars, MergeDone
<1>9. ASSUME NEW m \in Merges, MergeFailed(m)
     PROVE  ~overlap' => CopiedWhole' /\ drive' # "short"
  BY <1>9 DEF UploadInv, CopiedWhole, putVars, dirVars, mergeVars, MergeFailed
<1>10. ASSUME NEW p \in Puts, PutLost(p)
     PROVE  ~overlap' => CopiedWhole' /\ drive' # "short"
  BY <1>10 DEF UploadInv, CopiedWhole, clientVars, dirVars, mergeVars, PutLost
<1>11. ASSUME NEW p \in Puts, PutRefused(p)
     PROVE  ~overlap' => CopiedWhole' /\ drive' # "short"
  BY <1>11 DEF UploadInv, CopiedWhole, clientVars, dirVars, mergeVars, PutRefused
<1>12. ASSUME NEW p \in Puts, PutOpen(p)
     PROVE  ~overlap' => CopiedWhole' /\ drive' # "short"
  BY <1>12 DEF UploadInv, CopiedWhole, clientVars, mergeVars, PutOpen
<1>13. ASSUME NEW p \in Puts, PutWritten(p)
     PROVE  ~overlap' => CopiedWhole' /\ drive' # "short"
  BY <1>13 DEF UploadInv, CopiedWhole, Redelete, clientVars, mergeVars, AskDelete,
     PutWritten
<1>14. ASSUME NEW p \in Puts, PutBroken(p)
     PROVE  ~overlap' => CopiedWhole' /\ drive' # "short"
  BY <1>14 DEF UploadInv, CopiedWhole, Redelete, clientVars, mergeVars, AskDelete,
     PutBroken
<1>15. ASSUME NEW m \in Merges, MergeFails(m)
     PROVE  ~overlap' => CopiedWhole' /\ drive' # "short"
  BY <1>15 DEF UploadInv, CopiedWhole, Redelete, clientVars, putVars, AskDelete,
     MergeFails
<1>16. ASSUME NEW m \in Merges, MergeOpen(m)
     PROVE  ~overlap' => CopiedWhole' /\ drive' # "short"
  BY <1>16 DEF UploadInv, CopiedWhole, clientVars, putVars, SavedInv, OneAtATime,
     AtServer, MergeRuns, MergeOpen
<1>17. ASSUME NEW m \in Merges, MergeCopy(m)
     PROVE  ~overlap' => CopiedWhole' /\ drive' # "short"
  <2> SUFFICES ASSUME ~overlap PROVE CopiedWhole' /\ drive' # "short"
    BY <1>17 DEF MergeCopy
  <2>1. next[m] \in Seqs /\ chunk[next[m]] = "whole" /\ drive' = drive /\ merge' = merge
    BY <1>17 DEF MergeCopy, UploadInv, UploadTypeOK, ChunksKept, MergeAsked, Seqs
  <2>2. \A n \in Merges : MergeRuns(n) => n = m
    BY <1>17 DEF MergeCopy, MergeRuns, UploadInv, OneAtATime
  <2>3. merged' = 0 .. next'[m] - 1
    BY <1>17, <2>1 DEF MergeCopy, UploadInv, UploadTypeOK, CopiedWhole, Seqs
  <2> QED
    BY <1>17, <2>1, <2>2, <2>3 DEF MergeCopy, MergeRuns, UploadInv, CopiedWhole
<1>18. ASSUME NEW m \in Merges, MergeCopied(m)
     PROVE  ~overlap' => CopiedWhole' /\ drive' # "short"
  BY <1>18 DEF UploadInv, CopiedWhole, Redelete, clientVars, putVars, AskDelete, Seqs,
     MergeCopied
<1>19. ASSUME NEW m \in Merges, MergeSave(m)
     PROVE  ~overlap' => CopiedWhole' /\ drive' # "short"
  BY <1>19 DEF UploadInv, CopiedWhole, AskDelete, clientVars, putVars, MergeSave
<1>20. CASE DeleteFiles
  BY <1>20 DEF UploadInv, CopiedWhole, clientVars, mergeVars, DeleteFiles
<1>21. CASE DeleteDir
  BY <1>21 DEF UploadInv, CopiedWhole, Emptied, clientVars, putVars, mergeVars,
     DeleteDir
<1>22. CASE UNCHANGED uploadVars
  BY <1>22 DEF UploadInv, CopiedWhole, uploadVars, clientVars, putVars, dirVars,
     mergeVars
<1> QED
  BY <1>1, <1>2, <1>3, <1>4, <1>5, <1>6, <1>7, <1>8, <1>9, <1>10,
     <1>11, <1>12, <1>13, <1>14, <1>15, <1>16, <1>17, <1>18, <1>19,
     <1>20, <1>21, <1>22 DEF UploadNext, Client, Put, MergeStep, Delete
-----------------------------------------------------------------------------
LEMMA UploadInitially == UploadInit => UploadInv
PROOF
<1> SUFFICES ASSUME UploadInit PROVE UploadInv
  OBVIOUS
<1>1. 0 \in Seqs /\ 0 \in 0 .. Chunks
  BY ChunkUploadAssumption DEF Seqs
<1>2. UploadTypeOK
  BY <1>1 DEF UploadInit, UploadTypeOK
<1>3. ~MergeAsked /\ ~(\E p \in Puts : AtServer(p)) /\ ~(\E m \in Merges : MergeRuns(m))
  BY DEF UploadInit, MergeAsked, AtServer, MergeRuns
<1>4. ClientInv /\ DeletedLate /\ SavedInv
  BY <1>3 DEF UploadInit, ClientInv, DeletedLate, SavedInv
<1>5. OneAtATime /\ ChunksKept /\ CopiedWhole /\ drive # "short"
  BY <1>3 DEF UploadInit, OneAtATime, ChunksKept, CopiedWhole
<1> QED
  BY <1>2, <1>4, <1>5 DEF UploadInv

\* The invariant, for every number of chunks, requests and merges, and whatever the
\* user and the network do.
THEOREM UploadInvariant == UploadSpec => []UploadInv
PROOF
<1>1. UploadInv /\ [UploadNext]_uploadVars => UploadInv'
  BY UploadTypeStep, ClientStep, DeletedLateStep, SavedStep, OneAtATimeStep,
     ChunksKeptStep, CopiedStep DEF UploadInv
<1> QED
  BY UploadInitially, <1>1, PTL DEF UploadSpec

\* Every variable holds what the code can put there; the merge is waited for only when
\* nothing is left to send.
THEOREM UploadTypeCorrect == UploadSpec => []UploadTypeOK
PROOF
<1>1. UploadInv => UploadTypeOK
  BY DEF UploadInv
<1> QED
  BY <1>1, UploadInvariant, PTL

\* CompleteUpload's one look for the chunks is enough: whatever is deleted, broken off or
\* stopped while its task copies them, the drive is given the whole file or nothing,
\* unless the server served two requests for one thing at once.
THEOREM SavedIsWholeCorrect == UploadSpec => []SavedIsWhole
PROOF
<1>1. UploadInv => SavedIsWhole
  BY DEF UploadInv, SavedIsWhole
<1> QED
  BY <1>1, UploadInvariant, PTL

\* What the server has acknowledged it keeps for as long as the client may go on, over
\* pauses, failures and lost answers: the client need not send it again.
THEOREM AckedIsThereCorrect == UploadSpec => []AckedIsThere
PROOF
<1>1. UploadInv => AckedIsThere
  BY DEF UploadInv, ChunksKept, Wanted, AckedIsThere
<1> QED
  BY <1>1, UploadInvariant, PTL

\* An upload that is shown as complete is in the drive.
THEOREM CompletedIsSavedCorrect == UploadSpec => []CompletedIsSaved
PROOF
<1>1. UploadInv => CompletedIsSaved
  BY DEF UploadInv, UploadTypeOK, SavedInv, CompletedIsSaved
<1> QED
  BY <1>1, UploadInvariant, PTL
-----------------------------------------------------------------------------
(* Numbers.                                                               *)

LEMMA LeastNumber ==
  ASSUME NEW T \in SUBSET Nat, T # {}
  PROVE  \E n \in T : \A m \in T : ~(m < n)
PROOF
<1>1. PICK n \in T : \A m \in T : ~(<<m, n>> \in OpToRel(<, Nat))
  BY WFMin, NatLessThanWellFounded
<1>2. ASSUME NEW m \in T, m < n
      PROVE  FALSE
  <2>1. <<m, n>> \in OpToRel(<, Nat)
    BY <1>2 DEF OpToRel
  <2> QED
    BY <1>1, <2>1
<1> QED
  BY <1>2

\* Induction, for a set of numbers.
LEMMA AllNumbers ==
  ASSUME NEW T, 0 \in T, \A n \in Nat : n \in T => n + 1 \in T
  PROVE  Nat \subseteq T
PROOF
<1> DEFINE missing == {n \in Nat : n \notin T}
<1>1. SUFFICES ASSUME missing # {}
               PROVE  FALSE
  OBVIOUS
<1>2. PICK n \in missing : \A m \in missing : ~(m < n)
  <2> HIDE DEF missing
  <2>1. missing \in SUBSET Nat
    BY DEF missing
  <2> QED
    BY <1>1, <2>1, LeastNumber
<1>3. n \in Nat /\ n \notin T /\ n # 0
  BY <1>2
<1>4. n - 1 \in Nat /\ n - 1 \notin missing
  BY <1>2, <1>3
<1> QED
  BY <1>3, <1>4

\* Places of a sequence and their neighbours.
LEMMA InnerPlace ==
  ASSUME NEW m \in Nat, NEW i \in 1 .. m
  PROVE  /\ i # m => i \in 1 .. m - 1 /\ i + 1 \in 1 .. m
         /\ i \in 1 .. m - 1 => i \in 1 .. m /\ i + 1 \in 1 .. m /\ i # m
PROOF
  OBVIOUS
-----------------------------------------------------------------------------
(* The list of ranges: sorting and merging.                                    *)

Intervals == {r \in (0 .. Limit) \X (0 .. Limit) : r[1] < r[2]}
Gaps(s) == \A i \in 1 .. Len(s) - 1 : s[i][2] < s[i + 1][1]
UnitsIn(s) == UNION {s[i][1] .. s[i][2] - 1 : i \in 1 .. Len(s)}

LEMMA IntervalMeans ==
  /\ Limit \in Nat
  /\ \A r \in Intervals : /\ r[1] \in Nat /\ r[2] \in Nat /\ r[1] < r[2] /\ r[2] <= Limit
                          /\ r[1] \in 0 .. Limit /\ r[2] \in 0 .. Limit
  /\ \A a, b \in 0 .. Limit : a < b => <<a, b>> \in Intervals
BY RangeLockAssumption DEF Intervals

LEMMA UnitsMean ==
  ASSUME NEW s, NEW x
  PROVE  x \in UnitsIn(s) <=> \E i \in 1 .. Len(s) : x \in s[i][1] .. s[i][2] - 1
BY DEF UnitsIn

\* One more at the end of a sequence.
LEMMA Appended ==
  ASSUME NEW S, NEW s \in Seq(S), NEW x \in S, NEW t, t = Append(s, x)
  PROVE  /\ t \in Seq(S) /\ Len(t) = Len(s) + 1 /\ Len(s) \in Nat /\ t # <<>>
         /\ (\A i \in 1 .. Len(s) : t[i] = s[i]) /\ t[Len(s) + 1] = x
BY AppendProperties

\* An interval that is put in its place leaves the order as it is.
LEMMA PlaceForOne ==
  ASSUME NEW s \in Seq(Intervals), Gaps(s), NEW r \in Intervals, NEW t, t = Append(s, r)
  PROVE  \E p \in Surjection(DOMAIN t, DOMAIN t) : \A i \in 1 .. Len(t) - 1 : t[p[i]][1] <= t[p[i + 1]][1]
PROOF
<1> DEFINE n == Len(s)
<1>1. /\ t \in Seq(Intervals) /\ Len(t) = n + 1 /\ n \in Nat /\ (\A i \in 1 .. n : t[i] = s[i]) /\ t[n + 1] = r
      /\ DOMAIN t = 1 .. n + 1
  BY Appended
<1>2. \A i \in 1 .. n : s[i] \in Intervals
  BY ElementOfSeq
<1>3. \A i \in 1 .. n - 1 : s[i][2] < s[i + 1][1]
  BY DEF Gaps
<1> DEFINE after == {i \in 1 .. n + 1 : i = n + 1 \/ r[1] <= s[i][1]}
<1>4. PICK k \in after : \A m \in after : ~(m < k)
  <2>1. n + 1 \in after /\ after \in SUBSET Nat
    BY <1>1
  <2> HIDE DEF after
  <2> QED
    BY <2>1, LeastNumber
<1>5. k \in 1 .. n + 1 /\ (k = n + 1 \/ r[1] <= s[k][1])
  OBVIOUS
<1>6. ASSUME NEW i \in 1 .. n, i < k
      PROVE  s[i][1] < r[1]
  <2>1. i \notin after
    BY <1>4, <1>6
  <2>2. ~(r[1] <= s[i][1])
    BY <1>1, <2>1
  <2> QED
    BY <1>2, <2>2, IntervalMeans
<1> HIDE DEF after, n
<1> DEFINE p == [i \in 1 .. n + 1 |-> IF i < k THEN i ELSE IF i = k THEN n + 1 ELSE i - 1]
<1>7. p \in [1 .. n + 1 -> 1 .. n + 1]
  BY <1>1, <1>5
<1>8. ASSUME NEW w \in 1 .. n + 1
      PROVE  \E v \in 1 .. n + 1 : p[v] = w
  <2>1. CASE w < k
    BY <2>1
  <2>2. CASE w = n + 1
    BY <1>5, <2>2
  <2>3. CASE ~(w < k) /\ w # n + 1
    <3>1. w + 1 \in 1 .. n + 1 /\ ~(w + 1 < k) /\ w + 1 # k /\ (w + 1) - 1 = w
      BY <1>1, <1>5, <2>3
    <3>2. p[w + 1] = w
      BY <3>1
    <3> QED
      BY <3>1, <3>2
  <2> QED
    BY <2>1, <2>2, <2>3
<1>9. p \in Surjection(DOMAIN t, DOMAIN t)
  BY <1>1, <1>7, <1>8 DEF Surjection
<1>10. ASSUME NEW i \in 1 .. n
       PROVE  t[p[i]][1] <= t[p[i + 1]][1]
  <2>1. i \in 1 .. n + 1 /\ i + 1 \in 1 .. n + 1
    BY <1>1
  <2>2. CASE i + 1 < k
    <3>1. p[i] = i /\ p[i + 1] = i + 1 /\ i + 1 \in 1 .. n /\ i \in 1 .. n - 1
      BY <1>1, <1>5, <2>1, <2>2
    <3>2. t[p[i]] = s[i] /\ t[p[i + 1]] = s[i + 1]
      BY <1>1, <3>1
    <3>3. s[i] \in Intervals /\ s[i + 1] \in Intervals /\ s[i][2] < s[i + 1][1]
      BY <1>2, <1>3, <3>1
    <3>4. s[i][1] \in Nat /\ s[i][2] \in Nat /\ s[i][1] < s[i][2] /\ s[i + 1][1] \in Nat
      BY <3>3, IntervalMeans
    <3>5. \A x, y, z \in Nat : x < y /\ y < z => x <= z
      OBVIOUS
    <3> QED
      BY <3>2, <3>3, <3>4, <3>5
  <2>3. CASE i + 1 = k
    <3>1. p[i] = i /\ p[i + 1] = n + 1 /\ i < k
      BY <1>1, <1>5, <2>1, <2>3
    <3>2. s[i][1] < r[1]
      BY <1>6, <3>1
    <3> QED
      BY <1>1, <1>2, <3>1, <3>2, IntervalMeans
  <2>4. CASE i = k
    <3>1. p[i] = n + 1 /\ p[i + 1] = i
      BY <1>1, <1>5, <2>1, <2>4
    <3>2. r[1] <= s[i][1]
      BY <1>1, <1>5, <2>4
    <3> QED
      BY <1>1, <3>1, <3>2
  <2>5. CASE i > k
    <3>1. p[i] = i - 1 /\ p[i + 1] = i /\ i - 1 \in 1 .. n /\ i - 1 \in 1 .. n - 1 /\ (i - 1) + 1 = i
      BY <1>1, <1>5, <2>1, <2>5
    <3>2. s[i - 1][2] < s[i][1]
      BY <1>3, <3>1
    <3> QED
      BY <1>1, <1>2, <3>1, <3>2, IntervalMeans
  <2> QED
    BY <1>1, <1>5, <2>2, <2>3, <2>4, <2>5
<1>11. Len(t) - 1 = n
  BY <1>1
<1> HIDE DEF p
<1> QED
  BY <1>9, <1>10, <1>11

\* What sort.Slice leaves: the same intervals, by start.
LEMMA ByStartMeans ==
  ASSUME NEW s \in Seq(Intervals), Gaps(s), NEW r \in Intervals, NEW t, t = Append(s, r), NEW b, b = ByStart(t)
  PROVE  /\ b \in Seq(Intervals) /\ Len(b) = Len(t) /\ (\A i \in 1 .. Len(b) - 1 : b[i][1] <= b[i + 1][1])
         /\ UnitsIn(b) = UnitsIn(t)
PROOF
<1> DEFINE n == Len(t)
<1>1. t \in Seq(Intervals) /\ n \in Nat /\ DOMAIN t = 1 .. n
  BY Appended
<1> DEFINE Ps == Surjection(DOMAIN t, DOMAIN t)
           Of(p) == [i \in DOMAIN t |-> t[p[i]]]
           Bs == {Of(p) : p \in Ps}
<1>2. \E u \in Bs : \A i \in 1 .. n - 1 : u[i][1] <= u[i + 1][1]
  <2>1. PICK p \in Ps : \A i \in 1 .. n - 1 : t[p[i]][1] <= t[p[i + 1]][1]
    BY PlaceForOne
  <2>2. \A i \in 1 .. n - 1 : i \in 1 .. n /\ i + 1 \in 1 .. n
    BY <1>1
  <2>3. \A i \in 1 .. n - 1 : Of(p)[i][1] <= Of(p)[i + 1][1]
    BY <1>1, <2>1, <2>2
  <2> HIDE DEF Of, Ps
  <2> QED
    BY <2>3
<1>3. b = CHOOSE u \in Bs : \A i \in 1 .. n - 1 : u[i][1] <= u[i + 1][1]
  BY DEF ByStart
<1>4. b \in Bs /\ \A i \in 1 .. n - 1 : b[i][1] <= b[i + 1][1]
  <2> HIDE DEF Bs, n
  <2> QED
    BY <1>2, <1>3
<1>5. PICK p \in Ps : b = Of(p)
  BY <1>4
<1>6. p \in [1 .. n -> 1 .. n] /\ \A w \in 1 .. n : \E v \in 1 .. n : p[v] = w
  BY <1>1 DEF Surjection
<1>7. DOMAIN b = 1 .. n /\ (\A i \in 1 .. n : b[i] = t[p[i]] /\ p[i] \in 1 .. n) /\ b = [i \in 1 .. n |-> t[p[i]]]
  BY <1>1, <1>5, <1>6
<1>8. \A i \in 1 .. n : t[i] \in Intervals
  BY <1>1, ElementOfSeq
<1> HIDE DEF n, Ps, Of, Bs
<1>9. b \in Seq(Intervals) /\ Len(b) = n
  <2>1. b \in [1 .. n -> Intervals]
    BY <1>7, <1>8
  <2> QED
    BY <1>1, <2>1
<1>10. ASSUME NEW x
       PROVE  x \in UnitsIn(b) <=> x \in UnitsIn(t)
  <2>1. x \in UnitsIn(b) <=> \E i \in 1 .. n : x \in b[i][1] .. b[i][2] - 1
    BY <1>9, UnitsMean
  <2>2. x \in UnitsIn(t) <=> \E i \in 1 .. n : x \in t[i][1] .. t[i][2] - 1
    BY UnitsMean DEF n
  <2>3. ASSUME NEW i \in 1 .. n, x \in t[i][1] .. t[i][2] - 1
        PROVE  \E k \in 1 .. n : x \in b[k][1] .. b[k][2] - 1
    <3>1. PICK v \in 1 .. n : p[v] = i
      BY <1>6
    <3> QED
      BY <1>7, <2>3, <3>1
  <2>4. ASSUME NEW i \in 1 .. n, x \in b[i][1] .. b[i][2] - 1
        PROVE  \E k \in 1 .. n : x \in t[k][1] .. t[k][2] - 1
    BY <1>7, <2>4
  <2> QED
    BY <2>1, <2>2, <2>3, <2>4
<1>11. UnitsIn(b) = UnitsIn(t)
  BY <1>10
<1> QED
  BY <1>4, <1>9, <1>11 DEF n

\* What becomes of the list when an interval is added that starts no earlier than the last.
LEMMA ExtendMeans ==
  ASSUME NEW d \in Seq(Intervals), Gaps(d), NEW r \in Intervals, d # <<>> => d[Len(d)][1] <= r[1],
         NEW e, e = Extend(d, r)
  PROVE  /\ e \in Seq(Intervals) /\ Gaps(e) /\ e # <<>> /\ e[Len(e)][1] <= r[1]
         /\ UnitsIn(e) = UnitsIn(d) \cup (r[1] .. r[2] - 1)
PROOF
<1> DEFINE m == Len(d)
<1>1. m \in Nat /\ (\A i \in 1 .. m : d[i] \in Intervals) /\ (d # <<>> => m \in 1 .. m) /\ DOMAIN d = 1 .. m
  BY ElementOfSeq, EmptySeq
<1>2. r[1] \in Nat /\ r[2] \in Nat /\ r[1] < r[2] /\ r[1] \in 0 .. Limit /\ r[2] \in 0 .. Limit
  BY IntervalMeans
<1>3. CASE d # <<>> /\ r[1] <= d[m][2]
  <2> DEFINE f == d[m][1]
             x == IF r[2] > d[m][2] THEN r[2] ELSE d[m][2]
             o == <<f, x>>
  <2>1. /\ m \in 1 .. m /\ f \in Nat /\ d[m][2] \in Nat /\ f < d[m][2] /\ f <= r[1]
        /\ f \in 0 .. Limit /\ d[m][2] \in 0 .. Limit
    BY <1>1, <1>3, IntervalMeans
  <2>2. x \in 0 .. Limit /\ f < x /\ x >= r[2] /\ x >= d[m][2] /\ x \in {r[2], d[m][2]} /\ x \in Nat
    BY <1>2, <2>1
  <2>3. e = [d EXCEPT ![m] = o]
    BY <1>3 DEF Extend
  <2>4. o \in Intervals /\ o[1] = f /\ o[2] = x
    BY <2>1, <2>2, IntervalMeans
  <2> HIDE DEF x, o
  <2>5. /\ e \in Seq(Intervals) /\ Len(e) = m /\ e[m] = o /\ (\A i \in 1 .. m : i # m => e[i] = d[i])
    <3>1. e \in Seq(Intervals) /\ Len(e) = m /\ \A i \in 1 .. m : e[i] = IF i = m THEN o ELSE d[i]
      BY <2>1, <2>3, <2>4, ExceptSeq
    <3> QED
      BY <2>1, <3>1
  <2> HIDE DEF f
  <2>6. Gaps(e)
    <3> SUFFICES ASSUME NEW i \in 1 .. m - 1
                 PROVE  e[i][2] < e[i + 1][1]
      BY <2>5 DEF Gaps
    <3>0. m \in Nat /\ i \in 1 .. m
      BY <1>1
    <3>1. i \in 1 .. m /\ i + 1 \in 1 .. m /\ i # m
      BY <3>0, InnerPlace
    <3>2. d[i][2] < d[i + 1][1]
      BY DEF Gaps
    <3>3. e[i] = d[i] /\ e[i + 1][1] = d[i + 1][1]
      BY <2>4, <2>5, <3>1 DEF f
    <3> QED
      BY <3>2, <3>3
  <2>7. ASSUME NEW y
        PROVE  y \in UnitsIn(e) <=> y \in UnitsIn(d) \cup (r[1] .. r[2] - 1)
    <3>1. y \in UnitsIn(e) <=> \E i \in 1 .. m : y \in e[i][1] .. e[i][2] - 1
      BY <2>5, UnitsMean
    <3>2. y \in UnitsIn(d) <=> \E i \in 1 .. m : y \in d[i][1] .. d[i][2] - 1
      BY UnitsMean
    <3>3. y \in e[m][1] .. e[m][2] - 1 <=> y \in (d[m][1] .. d[m][2] - 1) \cup (r[1] .. r[2] - 1)
      BY <1>2, <1>3, <2>1, <2>2, <2>4, <2>5 DEF f
    <3>4. ASSUME NEW i \in 1 .. m, y \in e[i][1] .. e[i][2] - 1
          PROVE  (\E k \in 1 .. m : y \in d[k][1] .. d[k][2] - 1) \/ y \in r[1] .. r[2] - 1
      BY <2>1, <2>5, <3>3, <3>4
    <3>5. ASSUME NEW i \in 1 .. m, y \in d[i][1] .. d[i][2] - 1
          PROVE  \E k \in 1 .. m : y \in e[k][1] .. e[k][2] - 1
      BY <2>1, <2>5, <3>3, <3>5
    <3>6. y \in r[1] .. r[2] - 1 => \E k \in 1 .. m : y \in e[k][1] .. e[k][2] - 1
      BY <2>1, <3>3
    <3> QED
      BY <3>1, <3>2, <3>4, <3>5, <3>6
  <2>8. UnitsIn(e) = UnitsIn(d) \cup (r[1] .. r[2] - 1)
    BY <2>7
  <2>9. e # <<>> /\ e[Len(e)][1] <= r[1]
    <3>1. e[Len(e)] = o
      BY <2>5
    <3>2. Len(e) # 0
      BY <2>1, <2>5
    <3> QED
      BY <2>1, <2>4, <2>5, <3>1, <3>2, EmptySeq
  <2> QED
    BY <2>5, <2>6, <2>8, <2>9
<1>4. CASE ~(d # <<>> /\ r[1] <= d[m][2])
  <2>1. e = Append(d, r)
    BY <1>4 DEF Extend
  <2>2. /\ e \in Seq(Intervals) /\ Len(e) = m + 1 /\ e # <<>> /\ (\A i \in 1 .. m : e[i] = d[i]) /\ e[m + 1] = r
    BY <2>1, Appended
  <2>3. Gaps(e)
    <3> SUFFICES ASSUME NEW i \in 1 .. m
                 PROVE  e[i][2] < e[i + 1][1]
      BY <1>1, <2>2 DEF Gaps
    <3>1. CASE i = m
      <4>1. d # <<>> /\ d[m][2] \in Nat
        BY <1>1, <3>1, IntervalMeans
      <4> QED
        BY <1>2, <1>4, <2>2, <3>1, <4>1
    <3>2. CASE i # m
      <4>1. i \in 1 .. m - 1 /\ i + 1 \in 1 .. m
        BY <1>1, <3>2, InnerPlace
      <4>2. d[i][2] < d[i + 1][1]
        BY <4>1 DEF Gaps
      <4> QED
        BY <2>2, <4>1, <4>2
    <3> QED
      BY <3>1, <3>2
  <2>4. ASSUME NEW y
        PROVE  y \in UnitsIn(e) <=> y \in UnitsIn(d) \cup (r[1] .. r[2] - 1)
    <3>1. y \in UnitsIn(e) <=> \E i \in 1 .. m + 1 : y \in e[i][1] .. e[i][2] - 1
      BY <2>2, UnitsMean
    <3>2. y \in UnitsIn(d) <=> \E i \in 1 .. m : y \in d[i][1] .. d[i][2] - 1
      BY UnitsMean
    <3>3. \A i \in 1 .. m + 1 : i \in 1 .. m \/ i = m + 1
      BY <1>1
    <3>4. m + 1 \in 1 .. m + 1 /\ \A i \in 1 .. m : i \in 1 .. m + 1
      BY <1>1
    <3> QED
      BY <2>2, <3>1, <3>2, <3>3, <3>4
  <2>5. UnitsIn(e) = UnitsIn(d) \cup (r[1] .. r[2] - 1)
    BY <2>4
  <2>6. e[Len(e)][1] <= r[1]
    BY <1>2, <2>2
  <2> QED
    BY <2>2, <2>3, <2>5, <2>6
<1> QED
  BY <1>3, <1>4

\* The loop of _merge: its value after each interval.
LEMMA MergedOnes ==
  ASSUME NEW t \in Seq(Intervals), NEW b, b = ByStart(t)
  PROVE  \E f : /\ f[0] = <<>> /\ (\A i \in 1 .. Len(t) : f[i] = Extend(f[i - 1], b[i]))
                /\ Merge(t) = f[Len(t)]
PROOF
<1> DEFINE n == Len(t)
           Val(g, i) == IF i = 0 THEN <<>> ELSE Extend(g[i - 1], b[i])
           Has(k) == \E g : g = [i \in 0 .. k |-> Val(g, i)]
           T == {k \in Nat : Has(k)}
<1>1. n \in Nat
  OBVIOUS
<1>2. 0 \in T
  <2> DEFINE g == [i \in 0 .. 0 |-> <<>>]
  <2>1. g = [i \in 0 .. 0 |-> Val(g, i)]
    OBVIOUS
  <2>2. Has(0)
    <3> HIDE DEF g
    <3> QED
      BY <2>1
  <2> QED
    BY <2>2
<1>3. ASSUME NEW k \in Nat, k \in T
      PROVE  k + 1 \in T
  <2>1. PICK g : g = [i \in 0 .. k |-> Val(g, i)]
    BY <1>3
  <2> DEFINE h == [i \in 0 .. k + 1 |-> Val(g, i)]
  <2>2. ASSUME NEW i \in 0 .. k + 1
        PROVE  h[i] = Val(h, i)
    <3>1. CASE i = 0
      BY <3>1
    <3>2. CASE i # 0
      <4>1. i - 1 \in 0 .. k /\ i - 1 \in 0 .. k + 1
        BY <3>2
      <4>2. g[i - 1] = Val(g, i - 1) /\ h[i - 1] = Val(g, i - 1)
        <5> HIDE DEF Val
        <5> QED
          BY <2>1, <4>1
      <4>3. h[i] = Extend(g[i - 1], b[i])
        BY <3>2
      <4> QED
        BY <3>2, <4>2, <4>3
    <3> QED
      BY <3>1, <3>2
  <2>3. h = [i \in 0 .. k + 1 |-> Val(h, i)]
    <3> HIDE DEF Val
    <3> QED
      BY <2>2
  <2>4. Has(k + 1)
    <3> HIDE DEF h
    <3> QED
      BY <2>3
  <2> HIDE DEF Has
  <2> QED
    BY <2>4
<1>4. Nat \subseteq T
  <2> HIDE DEF T
  <2> QED
    BY <1>2, <1>3, AllNumbers
<1>5. PICK g : g = [i \in 0 .. n |-> Val(g, i)]
  BY <1>1, <1>4
<1> DEFINE f == CHOOSE g1 : g1 = [i \in 0 .. n |-> Val(g1, i)]
<1>6. f = [i \in 0 .. n |-> Val(f, i)]
  BY <1>5
<1>7. Merge(t) = f[n]
  BY DEF Merge
<1> HIDE DEF f
<1>8. \A i \in 0 .. n : f[i] = Val(f, i)
  BY <1>6
<1>9. f[0] = <<>> /\ \A i \in 1 .. n : f[i] = Extend(f[i - 1], b[i])
  BY <1>1, <1>8
<1> QED
  BY <1>7, <1>9

\* Merging keeps the units, and leaves a gap between neighbours.
LEMMA MergeMeans ==
  ASSUME NEW s \in Seq(Intervals), Gaps(s), NEW r \in Intervals, NEW v, v = Merge(Append(s, r))
  PROVE  v \in Seq(Intervals) /\ Gaps(v) /\ UnitsIn(v) = UnitsIn(s) \cup (r[1] .. r[2] - 1)
PROOF
<1> DEFINE t == Append(s, r)  b == ByStart(t)  n == Len(t)
<1>1. /\ t \in Seq(Intervals) /\ n = Len(s) + 1 /\ Len(s) \in Nat /\ n \in Nat
      /\ (\A i \in 1 .. Len(s) : t[i] = s[i]) /\ t[Len(s) + 1] = r
  BY Appended
<1>2. /\ b \in Seq(Intervals) /\ Len(b) = n /\ (\A i \in 1 .. n - 1 : b[i][1] <= b[i + 1][1])
      /\ UnitsIn(b) = UnitsIn(t)
  <2>1. \A b1 : b1 = ByStart(t) =>
          /\ b1 \in Seq(Intervals) /\ Len(b1) = n /\ (\A i \in 1 .. Len(b1) - 1 : b1[i][1] <= b1[i + 1][1])
          /\ UnitsIn(b1) = UnitsIn(t)
    BY ByStartMeans
  <2> QED
    BY <2>1
<1>3. v = Merge(t)
  OBVIOUS
<1>4. PICK f : f[0] = <<>> /\ (\A i \in 1 .. n : f[i] = Extend(f[i - 1], b[i])) /\ Merge(t) = f[n]
  <2> HIDE DEF t
  <2> QED
    BY <1>1, MergedOnes
<1>5. \A i \in 1 .. n : b[i] \in Intervals
  BY <1>2, ElementOfSeq
<1> HIDE DEF t, b, n
<1> DEFINE Upto(i) == UNION {b[j][1] .. b[j][2] - 1 : j \in 1 .. i}
           Fine(i) == /\ f[i] \in Seq(Intervals) /\ Gaps(f[i]) /\ UnitsIn(f[i]) = Upto(i)
                      /\ f[i] # <<>> => i > 0 /\ f[i][Len(f[i])][1] <= b[i][1]
           T == {i \in Nat : i <= n => Fine(i)}
<1>6. 0 \in T
  <2>1. f[0] \in Seq(Intervals) /\ Len(f[0]) = 0
    BY <1>4
  <2>2. Gaps(f[0]) /\ UnitsIn(f[0]) = {} /\ Upto(0) = {}
    BY <2>1 DEF Gaps, UnitsIn
  <2> QED
    BY <1>4, <2>1, <2>2
<1>7. ASSUME NEW i \in Nat, i \in T
      PROVE  i + 1 \in T
  <2> SUFFICES ASSUME i + 1 <= n
               PROVE  Fine(i + 1)
    OBVIOUS
  <2>1. i + 1 \in 1 .. n /\ (i + 1) - 1 = i /\ i <= n /\ Fine(i)
    BY <1>1, <1>7
  <2>2. f[i + 1] = Extend(f[i], b[i + 1]) /\ b[i + 1] \in Intervals
    BY <1>4, <1>5, <2>1
  <2>3. f[i] # <<>> => f[i][Len(f[i])][1] <= b[i + 1][1]
    <3> SUFFICES ASSUME f[i] # <<>>
                 PROVE  f[i][Len(f[i])][1] <= b[i + 1][1]
      OBVIOUS
    <3>1. i > 0 /\ f[i][Len(f[i])][1] <= b[i][1]
      BY <2>1
    <3>2. i \in 1 .. n - 1 /\ i \in 1 .. n
      BY <1>1, <2>1, <3>1
    <3>3. b[i][1] <= b[i + 1][1] /\ b[i][1] \in Nat /\ b[i + 1][1] \in Nat
      BY <1>2, <1>5, <2>2, <3>2, IntervalMeans
    <3>4. f[i][Len(f[i])][1] \in Nat
      <4>1. f[i] \in Seq(Intervals)
        BY <2>1
      <4>2. Len(f[i]) \in 1 .. Len(f[i])
        BY <4>1, EmptySeq
      <4>3. f[i][Len(f[i])] \in Intervals
        BY <4>1, <4>2, ElementOfSeq
      <4> QED
        BY <4>3, IntervalMeans
    <3> QED
      BY <3>1, <3>3, <3>4
  <2>4. /\ f[i + 1] \in Seq(Intervals) /\ Gaps(f[i + 1]) /\ f[i + 1] # <<>>
        /\ f[i + 1][Len(f[i + 1])][1] <= b[i + 1][1]
        /\ UnitsIn(f[i + 1]) = UnitsIn(f[i]) \cup (b[i + 1][1] .. b[i + 1][2] - 1)
    BY <2>1, <2>2, <2>3, ExtendMeans
  <2>5. Upto(i + 1) = Upto(i) \cup (b[i + 1][1] .. b[i + 1][2] - 1)
    <3>1. \A j \in 1 .. i + 1 : j \in 1 .. i \/ j = i + 1
      BY <1>7
    <3>2. i + 1 \in 1 .. i + 1 /\ \A j \in 1 .. i : j \in 1 .. i + 1
      BY <1>7
    <3> QED
      BY <3>1, <3>2
  <2> HIDE DEF Upto
  <2> QED
    BY <2>1, <2>4, <2>5
<1>8. Fine(n)
  <2>1. Nat \subseteq T
    <3> HIDE DEF T
    <3> QED
      BY <1>6, <1>7, AllNumbers
  <2>2. n \in Nat /\ n <= n
    BY <1>1
  <2> HIDE DEF Fine
  <2> QED
    BY <2>1, <2>2
<1>9. Upto(n) = UnitsIn(b)
  BY <1>2 DEF UnitsIn
<1>10. UnitsIn(t) = UnitsIn(s) \cup (r[1] .. r[2] - 1)
  <2> SUFFICES ASSUME NEW x
               PROVE  x \in UnitsIn(t) <=> x \in UnitsIn(s) \/ x \in r[1] .. r[2] - 1
    OBVIOUS
  <2>1. x \in UnitsIn(t) <=> \E i \in 1 .. n : x \in t[i][1] .. t[i][2] - 1
    BY UnitsMean DEF n
  <2>2. x \in UnitsIn(s) <=> \E i \in 1 .. Len(s) : x \in s[i][1] .. s[i][2] - 1
    BY UnitsMean
  <2>3. \A i \in 1 .. n : i \in 1 .. Len(s) \/ i = Len(s) + 1
    BY <1>1
  <2>4. Len(s) + 1 \in 1 .. n /\ \A i \in 1 .. Len(s) : i \in 1 .. n
    BY <1>1
  <2> QED
    BY <1>1, <2>1, <2>2, <2>3, <2>4
<1> QED
  BY <1>2, <1>3, <1>4, <1>8, <1>9, <1>10
\* What lies between two intervals of the list is in none.
LEMMA GapsBetween ==
  ASSUME NEW s \in Seq(Intervals), Gaps(s), NEW i \in 1 .. Len(s), NEW k \in 1 .. Len(s), i < k
  PROVE  s[i][2] < s[k][1]
PROOF
<1> DEFINE T == {j \in Nat : i + j + 1 <= Len(s) => s[i][2] < s[i + j + 1][1]}
<1>1. Len(s) \in Nat /\ \A j \in 1 .. Len(s) : s[j] \in Intervals
  BY ElementOfSeq
<1>2. \A j \in 1 .. Len(s) - 1 : s[j][2] < s[j + 1][1]
  BY DEF Gaps
<1>3. 0 \in T
  <2> SUFFICES ASSUME i + 0 + 1 <= Len(s)
               PROVE  s[i][2] < s[i + 0 + 1][1]
    OBVIOUS
  <2>1. i \in 1 .. Len(s) - 1 /\ i + 0 + 1 = i + 1
    BY <1>1
  <2> QED
    BY <1>2, <2>1
<1>4. ASSUME NEW j \in Nat, j \in T
      PROVE  j + 1 \in T
  <2> SUFFICES ASSUME i + (j + 1) + 1 <= Len(s)
               PROVE  s[i][2] < s[i + (j + 1) + 1][1]
    OBVIOUS
  <2>1. /\ i + j + 1 \in 1 .. Len(s) - 1 /\ i + j + 1 \in 1 .. Len(s) /\ i + (j + 1) + 1 = (i + j + 1) + 1
        /\ (i + j + 1) + 1 \in 1 .. Len(s)
    BY <1>1
  <2>2. s[i][2] < s[i + j + 1][1]
    BY <1>1, <1>4, <2>1
  <2>3. s[i + j + 1][2] < s[(i + j + 1) + 1][1]
    BY <1>2, <2>1
  <2>4. /\ s[i][2] \in Nat /\ s[i + j + 1][1] \in Nat /\ s[i + j + 1][2] \in Nat
        /\ s[i + j + 1][1] < s[i + j + 1][2] /\ s[(i + j + 1) + 1][1] \in Nat
    BY <1>1, <2>1, IntervalMeans
  <2> QED
    BY <2>1, <2>2, <2>3, <2>4
<1>5. Nat \subseteq T
  <2> HIDE DEF T
  <2> QED
    BY <1>3, <1>4, AllNumbers
<1>6. k - i - 1 \in Nat /\ i + (k - i - 1) + 1 = k /\ k <= Len(s)
  BY <1>1
<1>7. k - i - 1 \in T
  BY <1>5, <1>6
<1> QED
  BY <1>6, <1>7
-----------------------------------------------------------------------------
(* The list of ranges: its waiters, and the set it stands for.                 *)

\* Who sleeps waits for something.
RangeInv ==
  /\ ranges \in Seq(Intervals) /\ Gaps(ranges)
  /\ canceled \in BOOLEAN /\ asleep \subseteq Threads
  /\ want \in [Threads -> Requests \cup {NotWaiting}]
  /\ reply \in [Threads -> {"none", "nil", "closed", "granted", "refused"}]
  /\ \A t \in asleep : want[t] # NotWaiting /\ ~Satisfy(want[t]) /\ ~canceled

LEMMA RequestMeans ==
  ASSUME NEW r \in Requests
  PROVE  /\ r[1] \in Nat /\ r[2] \in Nat /\ r[1] \in 0 .. Limit /\ r[1] + r[2] \in 0 .. Limit
         /\ r[2] # 0 => <<r[1], r[1] + r[2]>> \in Intervals
PROOF
<1>1. r[1] \in Nat /\ r[2] \in Nat /\ r[1] \in 0 .. Limit /\ r[1] + r[2] \in 0 .. Limit
  BY RangeLockAssumption DEF Requests
<1>2. r[2] # 0 => r[1] < r[1] + r[2]
  BY <1>1
<1> QED
  BY <1>1, <1>2, IntervalMeans

\* The request asks for what is in the set: one interval has it all, since there are gaps.
LEMMA SatisfyMeans ==
  ASSUME RangeInv, NEW r \in Requests
  PROVE  Satisfy(r) <=> r[1] .. r[1] + r[2] - 1 \subseteq UnitsIn(ranges)
PROOF
<1>1. /\ ranges \in Seq(Intervals) /\ Gaps(ranges) /\ Len(ranges) \in Nat
      /\ \A i \in 1 .. Len(ranges) : ranges[i] \in Intervals
  BY ElementOfSeq DEF RangeInv
<1>2. r[1] \in Nat /\ r[2] \in Nat
  BY RequestMeans
<1>3. CASE r[2] = 0
  BY <1>2, <1>3 DEF Satisfy
<1>4. ASSUME NEW i \in 1 .. Len(ranges), ranges[i][1] <= r[1], r[1] + r[2] <= ranges[i][2]
      PROVE  r[1] .. r[1] + r[2] - 1 \subseteq UnitsIn(ranges)
  <2> SUFFICES ASSUME NEW x \in r[1] .. r[1] + r[2] - 1
               PROVE  x \in UnitsIn(ranges)
    OBVIOUS
  <2>1. ranges[i][1] \in Nat /\ ranges[i][2] \in Nat
    BY <1>1, IntervalMeans
  <2>2. x \in ranges[i][1] .. ranges[i][2] - 1
    BY <1>2, <1>4, <2>1
  <2> QED
    BY <2>2, UnitsMean
<1>5. ASSUME r[2] # 0, r[1] .. r[1] + r[2] - 1 \subseteq UnitsIn(ranges)
      PROVE  Satisfy(r)
  <2>1. r[1] \in r[1] .. r[1] + r[2] - 1
    BY <1>2, <1>5
  <2>2. PICK i \in 1 .. Len(ranges) : r[1] \in ranges[i][1] .. ranges[i][2] - 1
    BY <1>5, <2>1, UnitsMean
  <2>3. ranges[i][1] \in Nat /\ ranges[i][2] \in Nat /\ ranges[i][1] < ranges[i][2]
    BY <1>1, IntervalMeans
  <2>4. ranges[i][1] <= r[1] /\ r[1] < ranges[i][2]
    BY <1>2, <2>2, <2>3
  <2>5. r[1] + r[2] <= ranges[i][2]
    <3> SUFFICES ASSUME ranges[i][2] < r[1] + r[2]
                 PROVE  FALSE
      BY <1>2, <2>3
    <3> DEFINE x == ranges[i][2]
    <3>1. x \in r[1] .. r[1] + r[2] - 1
      BY <1>2, <2>3, <2>4
    <3>2. PICK k \in 1 .. Len(ranges) : x \in ranges[k][1] .. ranges[k][2] - 1
      BY <1>5, <3>1, UnitsMean
    <3>3. ranges[k][1] \in Nat /\ ranges[k][2] \in Nat /\ ranges[k][1] < ranges[k][2]
      BY <1>1, IntervalMeans
    <3>4. ranges[k][1] <= x /\ x < ranges[k][2]
      BY <2>3, <3>2, <3>3
    <3>5. i < k => x < ranges[k][1]
      BY <1>1, GapsBetween
    <3>6. k < i => ranges[k][2] < ranges[i][1]
      BY <1>1, GapsBetween
    <3>7. i = k \/ i < k \/ k < i
      OBVIOUS
    <3> QED
      BY <2>3, <3>3, <3>4, <3>5, <3>6, <3>7
  <2> QED
    BY <2>4, <2>5 DEF Satisfy
<1>6. Satisfy(r) => r[2] = 0 \/ \E i \in 1 .. Len(ranges) : ranges[i][1] <= r[1] /\ r[1] + r[2] <= ranges[i][2]
  BY DEF Satisfy
<1> QED
  BY <1>3, <1>4, <1>5, <1>6

LEMMA FeedMeans ==
  ASSUME RangeInv, NEW r \in Requests, r[2] # 0, FeedRange(r)
  PROVE  /\ ranges' \in Seq(Intervals) /\ Gaps(ranges') /\ asleep' = {}
         /\ UnitsIn(ranges') = UnitsIn(ranges) \cup (r[1] .. r[1] + r[2] - 1)
PROOF
<1> DEFINE o == <<r[1], r[1] + r[2]>>
<1>1. o \in Intervals /\ o[1] = r[1] /\ o[2] = r[1] + r[2]
  BY RequestMeans
<1>2. ranges' = Merge(Append(ranges, o)) /\ asleep' = {}
  BY DEF FeedRange
<1> HIDE DEF o
<1>3. /\ ranges' \in Seq(Intervals) /\ Gaps(ranges')
      /\ UnitsIn(ranges') = UnitsIn(ranges) \cup (o[1] .. o[2] - 1)
  BY <1>1, <1>2, MergeMeans DEF RangeInv
<1>4. o[1] .. o[2] - 1 = r[1] .. (r[1] + r[2]) - 1
  <2>1. \A x, y : x = r[1] /\ y = r[1] + r[2] => x .. y - 1 = r[1] .. (r[1] + r[2]) - 1
    OBVIOUS
  <2> QED
    BY <1>1, <2>1
<1>5. r[1] .. (r[1] + r[2]) - 1 = r[1] .. r[1] + r[2] - 1
  <2>1. r[1] \in Nat /\ r[2] \in Nat
    BY RequestMeans
  <2>2. \A x, y \in Nat : (x + y) - 1 = x + (y - 1)
    OBVIOUS
  <2> QED
    BY <2>1, <2>2
<1> QED
  BY <1>2, <1>3, <1>4, <1>5

\* A step keeps the invariant, and is one of the set's, or none.
LEMMA RangeStep ==
  ASSUME RangeInv, [Next]_vars
  PROVE  RangeInv' /\ [Abstract!Next]_(Abstract!vars)
PROOF
<1>1. Fed = UnitsIn(ranges) /\ Fed' = UnitsIn(ranges')
  BY DEF Fed, UnitsIn
<1>2. CASE UNCHANGED vars
  <2>1. UNCHANGED <<ranges, canceled, asleep, want, reply>> /\ Fed' = Fed
    BY <1>1, <1>2 DEF vars
  <2>2. RangeInv'
    BY <2>1 DEF RangeInv, Satisfy
  <2> QED
    BY <2>1, <2>2 DEF Abstract!vars
<1>3. ASSUME NEW t \in Threads, NEW r \in Requests, Acquire(t, r)
      PROVE  RangeInv' /\ [Abstract!Next]_(Abstract!vars)
  <2>1. /\ want[t] = NotWaiting /\ want' = [want EXCEPT ![t] = r] /\ reply' = [reply EXCEPT ![t] = "none"]
        /\ UNCHANGED <<ranges, canceled, asleep>> /\ Fed' = Fed
    BY <1>1, <1>3 DEF Acquire
  <2>2. \A u \in asleep : u # t /\ want'[u] = want[u]
    BY <2>1 DEF RangeInv
  <2>3. RangeInv'
    BY <2>1, <2>2 DEF RangeInv, Satisfy
  <2>4. Abstract!Acquire(t, r)
    BY <2>1 DEF Abstract!Acquire, Abstract!NotWaiting, NotWaiting
  <2> QED
    BY <2>3, <2>4 DEF Abstract!Next, Abstract!Requests, Requests
<1>4. ASSUME NEW t \in Threads, Check(t)
      PROVE  RangeInv' /\ [Abstract!Next]_(Abstract!vars)
  <2>1. want[t] # NotWaiting /\ t \notin asleep /\ want[t] \in Requests /\ UNCHANGED <<ranges, canceled>> /\ Fed' = Fed
    BY <1>1, <1>4 DEF Check, RangeInv
  <2>2. ASSUME NEW answer \in {"nil", "closed"}, Finish(t, answer)
        PROVE  RangeInv'
    <3>1. /\ want' = [want EXCEPT ![t] = NotWaiting] /\ reply' = [reply EXCEPT ![t] = answer] /\ UNCHANGED asleep
      BY <2>2 DEF Finish
    <3>2. \A u \in asleep : u # t /\ want'[u] = want[u]
      BY <2>1, <3>1 DEF RangeInv
    <3> QED
      BY <2>1, <3>1, <3>2 DEF RangeInv, Satisfy
  <2>3. Satisfy(want[t]) <=> Abstract!UnitsOf(want[t]) \subseteq Fed
    BY <1>1, <2>1, SatisfyMeans DEF Abstract!UnitsOf
  <2>4. CASE Satisfy(want[t]) /\ Finish(t, "nil")
    <3>1. Abstract!Return(t)
      BY <2>1, <2>3, <2>4 DEF Abstract!Return, Abstract!NotWaiting, NotWaiting, Finish
    <3> QED
      BY <2>2, <2>4, <3>1 DEF Abstract!Next
  <2>5. CASE ~Satisfy(want[t]) /\ canceled /\ Finish(t, "closed")
    <3>1. Abstract!Return(t)
      BY <2>1, <2>3, <2>5 DEF Abstract!Return, Abstract!NotWaiting, NotWaiting, Finish
    <3> QED
      BY <2>2, <2>5, <3>1 DEF Abstract!Next
  <2>6. CASE ~Satisfy(want[t]) /\ ~canceled /\ asleep' = asleep \cup {t} /\ UNCHANGED <<want, reply>>
    <3>1. RangeInv'
      BY <2>1, <2>6 DEF RangeInv, Satisfy
    <3> QED
      BY <2>1, <2>6, <3>1 DEF Abstract!vars
  <2> QED
    BY <1>4, <2>4, <2>5, <2>6 DEF Check
<1>5. ASSUME NEW t \in Threads, NEW r \in Requests, TryExclusiveFeed(t, r)
      PROVE  RangeInv' /\ [Abstract!Next]_(Abstract!vars)
  <2>1. want[t] = NotWaiting /\ UNCHANGED <<canceled, want>>
    BY <1>5 DEF TryExclusiveFeed
  <2>2. Satisfy(r) <=> Abstract!UnitsOf(r) \subseteq Fed
    BY <1>1, SatisfyMeans DEF Abstract!UnitsOf
  <2>3. CASE Satisfy(r) /\ reply' = [reply EXCEPT ![t] = "refused"] /\ UNCHANGED <<ranges, asleep>>
    <3>1. RangeInv'
      BY <2>1, <2>3 DEF RangeInv, Satisfy
    <3>2. Fed' = Fed /\ Fed' = Fed \cup Abstract!UnitsOf(r)
      BY <1>1, <2>2, <2>3
    <3>3. Abstract!TryExclusiveFeed(t, r)
      BY <2>1, <2>3, <3>2 DEF Abstract!TryExclusiveFeed, Abstract!NotWaiting, NotWaiting
    <3> QED
      BY <3>1, <3>3 DEF Abstract!Next, Abstract!Requests, Requests
  <2>4. CASE ~Satisfy(r) /\ FeedRange(r) /\ reply' = [reply EXCEPT ![t] = "granted"]
    <3>1. r[2] # 0
      BY <2>4 DEF Satisfy
    <3>2. /\ ranges' \in Seq(Intervals) /\ Gaps(ranges') /\ asleep' = {}
          /\ UnitsIn(ranges') = UnitsIn(ranges) \cup (r[1] .. r[1] + r[2] - 1)
      BY <2>4, <3>1, FeedMeans
    <3>3. RangeInv'
      BY <2>1, <2>4, <3>2 DEF RangeInv
    <3>4. Fed' = Fed \cup Abstract!UnitsOf(r) /\ Fed' # Fed
      BY <1>1, <2>2, <2>4, <3>2 DEF Abstract!UnitsOf
    <3>5. Abstract!TryExclusiveFeed(t, r)
      BY <2>1, <2>4, <3>4 DEF Abstract!TryExclusiveFeed, Abstract!NotWaiting, NotWaiting
    <3> QED
      BY <3>3, <3>5 DEF Abstract!Next, Abstract!Requests, Requests
  <2> QED
    BY <1>5, <2>3, <2>4 DEF TryExclusiveFeed
<1>6. ASSUME NEW r \in Requests, Feed(r)
      PROVE  RangeInv' /\ [Abstract!Next]_(Abstract!vars)
  <2>1. r[2] # 0 /\ FeedRange(r) /\ UNCHANGED <<canceled, want, reply>>
    BY <1>6, RequestMeans DEF Feed
  <2>2. /\ ranges' \in Seq(Intervals) /\ Gaps(ranges') /\ asleep' = {}
        /\ UnitsIn(ranges') = UnitsIn(ranges) \cup (r[1] .. r[1] + r[2] - 1)
    BY <2>1, FeedMeans
  <2>3. RangeInv'
    BY <2>1, <2>2 DEF RangeInv
  <2>4. Abstract!Feed(r)
    BY <1>1, <2>1, <2>2 DEF Abstract!Feed, Abstract!UnitsOf
  <2> QED
    BY <2>3, <2>4 DEF Abstract!Next, Abstract!Requests, Requests
<1>7. ASSUME Release
      PROVE  RangeInv' /\ [Abstract!Next]_(Abstract!vars)
  <2>1. canceled' = TRUE /\ asleep' = {} /\ UNCHANGED <<ranges, want, reply>> /\ Fed' = Fed
    BY <1>1, <1>7 DEF Release
  <2>2. RangeInv'
    BY <2>1 DEF RangeInv
  <2>3. Abstract!Release
    BY <2>1 DEF Abstract!Release
  <2> QED
    BY <2>2, <2>3 DEF Abstract!Next
<1> QED
  BY <1>2, <1>3, <1>4, <1>5, <1>6, <1>7 DEF Next

LEMMA RangeInitially ==
  ASSUME Init
  PROVE  RangeInv /\ Abstract!Init
PROOF
<1>1. /\ ranges = <<>> /\ canceled = FALSE /\ asleep = {} /\ want = [t \in Threads |-> NotWaiting]
      /\ reply = [t \in Threads |-> "none"]
  BY DEF Init
<1>2. ranges \in Seq(Intervals) /\ Len(ranges) = 0
  BY <1>1
<1>3. Gaps(ranges) /\ Fed = {}
  BY <1>2 DEF Gaps, Fed
<1> QED
  BY <1>1, <1>2, <1>3 DEF RangeInv, Abstract!Init, Abstract!NotWaiting, NotWaiting

\* The list is in order and has a gap between neighbours, and who sleeps has to wait.
THEOREM RangeInvariant == Spec => []RangeInv
PROOF
<1>1. RangeInv /\ [Next]_vars => RangeInv'
  BY RangeStep
<1>2. Init => RangeInv
  BY RangeInitially
<1> QED
  BY <1>1, <1>2, PTL DEF Spec

\* The list of intervals is sorted with a gap between neighbours, and nobody sleeps on a
\* range that is there or on a canceled lock.
THEOREM RangesHoldCorrect == Spec => []RangesHold
PROOF
<1>1. RangeInv => RangesHold
  <2> SUFFICES ASSUME RangeInv
               PROVE  RangesHold
    OBVIOUS
  <2>1. Intervals \subseteq (0 .. Limit) \X (0 .. Limit)
    BY DEF Intervals
  <2>2. TypeOK
    BY <2>1, SeqMonotonic DEF RangeInv, TypeOK
  <2>3. \A i \in 1 .. Len(ranges) : ranges[i] \in Intervals
    BY ElementOfSeq DEF RangeInv
  <2>4. Merged
    BY <2>3, IntervalMeans DEF RangeInv, Gaps, Merged
  <2>5. SleepersMustWait
    BY DEF RangeInv, SleepersMustWait
  <2> QED
    BY <2>2, <2>4, <2>5 DEF RangesHold
<1> QED
  BY <1>1, RangeInvariant, PTL

\* The list with its condition variable does what the growing set of RangeSet does: a
\* request is satisfied exactly when its units are in the set, and a wait ends so.
THEOREM RangeLockImplements == Spec => Abstract!Init /\ [][Abstract!Next]_(Abstract!vars)
PROOF
<1>1. RangeInv /\ [Next]_vars => [Abstract!Next]_(Abstract!vars)
  BY RangeStep
<1>2. Init => Abstract!Init
  BY RangeInitially
<1> QED
  BY <1>1, <1>2, RangeInvariant, PTL DEF Spec
================================================================================
