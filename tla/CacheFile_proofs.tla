-------------------------- MODULE CacheFile_proofs --------------------------
(***************************************************************************)
(* What holds of the cacheFiles whatever pool they live in: for every      *)
(* number of clients and instances, every file and block size, and every   *)
(* combination of faults.                                                  *)
(***************************************************************************)
EXTENDS CacheFile, TLAPS

\* A claim lies within the file.
LEMMA ClaimInFile ==
  ASSUME NEW p \in 0 .. Size, NEW n \in 0 .. Size
  PROVE  Span(Claim(p, n)[1], Claim(p, n)[2]) \subseteq Units
PROOF
<1>1. BlockSize \in Nat \ {0} /\ Size \in Nat \ {0}
  BY CacheFileAssumption
<1>2. p \div BlockSize \in Nat
  BY <1>1
<1>3. BlockSize * (p \div BlockSize) \in Nat
  BY <1>1, <1>2
<1>4. (p + n + BlockSize - 1) \div BlockSize \in Nat
  BY <1>1
<1>5. BlockSize * ((p + n + BlockSize - 1) \div BlockSize) \in Nat
  BY <1>1, <1>4
<1> QED
  BY <1>1, <1>3, <1>5 DEF Claim, Span, Units

\* TypeOK is not inductive: a Read must stay within the file, and a writer must
\* not have copied more than its stream holds.
ReadInFile ==
  \A c \in Clients :
    /\ pos[c] + want[c] <= Size
    /\ pc[c] \notin ReadPcs => want[c] = 0

FeedInStream ==
  \A f \in Files, w \in Claims :
    wpc[f][w] = "feed" => copied[f][w] < StreamLength(f, w)

FileTypeInv == TypeOK /\ ReadInFile /\ FeedInStream

LEMMA FileTypeInit == Init => FileTypeInv
PROOF
<1> SUFFICES ASSUME Init PROVE FileTypeInv
  OBVIOUS
<1> USE CacheFileAssumption DEF Init
<1>1. StateTypeOK /\ DataTypeOK /\ UserTypeOK
  BY DEF StateTypeOK, DataTypeOK, UserTypeOK, Hole
<1>2. DownloadTypeOK /\ ClientTypeOK
  BY DEF DownloadTypeOK, ClientTypeOK, WriterPcs, ClientPcs
<1>3. ReadInFile /\ FeedInStream
  BY DEF ReadInFile, FeedInStream
<1> QED
  BY <1>1, <1>2, <1>3 DEF FileTypeInv, TypeOK

\* A writer that has not reached the end of its stream stays within Extent, and
\* what it reads within the source.
LEMMA CopyInFile ==
  ASSUME DownloadTypeOK, NEW f \in Files, NEW w \in Claims,
         copied[f][w] < StreamLength(f, w)
  PROVE  Position(f, w) \in Extent /\ StreamUnit(f, w) \in Units
BY CacheFileAssumption
   DEF DownloadTypeOK, StreamLength, StreamUnit, Position, Claims, Units, Extent

\* A step of a writer that only moves its program counter.
LEMMA WriterMoves ==
  ASSUME DownloadTypeOK, FeedInStream,
         NEW f \in Files, NEW w \in Claims, NEW label \in WriterPcs,
         WriterGoto(f, w, label), UNCHANGED <<copied, whole, shut>>,
         label = "feed" => copied[f][w] < StreamLength(f, w)
  PROVE  DownloadTypeOK' /\ FeedInStream'
PROOF
<1>1. /\ wpc' \in [Files -> [Claims -> WriterPcs]]
      /\ \A g \in Files, v \in Claims :
           wpc'[g][v] = IF g = f /\ v = w THEN label ELSE wpc[g][v]
  BY DEF WriterGoto, DownloadTypeOK
<1>2. DownloadTypeOK'
  BY <1>1 DEF DownloadTypeOK
<1>3. FeedInStream'
  BY <1>1 DEF FeedInStream, StreamLength
<1> QED
  BY <1>2, <1>3

LEMMA StartWriterType ==
  ASSUME DownloadTypeOK, FeedInStream, NEW c, NEW b \in BOOLEAN, StartWriter(c, b)
  PROVE  DownloadTypeOK' /\ FeedInStream'
PROOF
<1>1. "start" \in WriterPcs
  BY DEF WriterPcs
<1>2. /\ wpc' \in [Files -> [Claims -> WriterPcs]]
      /\ \A g \in Files, v \in Claims :
           wpc'[g][v] = IF g = cf[c] /\ v = ClaimOf(c) THEN "start" ELSE wpc[g][v]
  BY <1>1 DEF StartWriter, DownloadTypeOK
<1>3. /\ whole' \in [Files -> [Claims -> BOOLEAN]]
      /\ \A g \in Files, v \in Claims :
           whole'[g][v] = IF g = cf[c] /\ v = ClaimOf(c) THEN b ELSE whole[g][v]
  BY DEF StartWriter, DownloadTypeOK
<1>4. UNCHANGED <<copied, shut>>
  BY DEF StartWriter
<1> QED
  BY <1>2, <1>3, <1>4 DEF DownloadTypeOK, FeedInStream, StreamLength

LEMMA FileTypeClientStep ==
  ASSUME FileTypeInv, NEW c \in Clients, ClientStep(c)
  PROVE  FileTypeInv'
PROOF
<1> USE CacheFileAssumption
<1>0. /\ StateTypeOK /\ DataTypeOK /\ UserTypeOK /\ DownloadTypeOK /\ ClientTypeOK
      /\ ReadInFile /\ FeedInStream
  BY DEF FileTypeInv, TypeOK
<1> USE <1>0
<1>1. ASSUME NEW f \in Files, Create(c, f)
      PROVE  FileTypeInv'
  <2>1. StateTypeOK'
    BY <1>1 DEF Create, StateTypeOK, stateVars, rangeVars, downloadVars,
           readerVars
  <2>2. DataTypeOK'
    BY <1>1 DEF Create, DataTypeOK, Hole, stateVars, rangeVars, downloadVars,
           readerVars
  <2>3. DownloadTypeOK'
    BY <1>1 DEF Create, DownloadTypeOK, WriterPcs, stateVars, rangeVars,
           downloadVars, readerVars
  <2>4. ClientTypeOK'
    BY <1>1 DEF Create, ClientTypeOK, Goto, ClientPcs, GetReaderPcs, stateVars,
           rangeVars, downloadVars, readerVars
  <2>5. ReadInFile'
    BY <1>1 DEF Create, ReadInFile, Goto, ReadPcs, ClientTypeOK, stateVars,
           rangeVars, downloadVars, readerVars
  <2>6. FeedInStream'
    BY <1>1 DEF Create, FeedInStream, DownloadTypeOK, StreamLength, stateVars,
           rangeVars, downloadVars, readerVars
  <2>7. UserTypeOK'
    BY <1>1 DEF Create, UserTypeOK, stateVars, rangeVars, downloadVars, readerVars
  <2> QED
    BY <2>1, <2>2, <2>3, <2>4, <2>5, <2>6, <2>7 DEF FileTypeInv, TypeOK
<1>2. ASSUME NEW f \in Files \cup {NoFile}, Lookup(c, f)
      PROVE  FileTypeInv'
  <2>1. ClientTypeOK'
    BY <1>2 DEF Lookup, ClientTypeOK, Goto, ClientPcs, GetReaderPcs, stateVars,
           rangeVars, downloadVars, readerVars
  <2>2. ReadInFile'
    BY <1>2 DEF Lookup, ReadInFile, Goto, ReadPcs, ClientTypeOK, stateVars,
           rangeVars, downloadVars, readerVars
  <2>3. StateTypeOK' /\ DataTypeOK' /\ UserTypeOK' /\ DownloadTypeOK' /\ FeedInStream'
    BY <1>2 DEF Lookup, StateTypeOK, DataTypeOK, UserTypeOK, DownloadTypeOK,
           FeedInStream, StreamLength, stateVars, rangeVars, downloadVars,
           readerVars
  <2> QED
    BY <2>1, <2>2, <2>3 DEF FileTypeInv, TypeOK
<1>3. ASSUME NEW gs \in SUBSET Files, EvictOldest(c, gs)
      PROVE  FileTypeInv'
  <2>1. StateTypeOK'
    BY <1>3 DEF EvictOldest, StateTypeOK, MarkEvicted, RemoveFileIfIdle,
           stateVars, rangeVars, downloadVars, readerVars
  <2>2. ClientTypeOK'
    BY <1>3 DEF EvictOldest, ClientTypeOK, Goto, ClientPcs, GetReaderPcs,
           stateVars, rangeVars, downloadVars, readerVars
  <2>3. ReadInFile'
    BY <1>3 DEF EvictOldest, ReadInFile, Goto, ReadPcs, ClientTypeOK, stateVars,
           rangeVars, downloadVars, readerVars
  <2>4. DataTypeOK' /\ UserTypeOK' /\ DownloadTypeOK' /\ FeedInStream'
    BY <1>3 DEF EvictOldest, DataTypeOK, UserTypeOK, DownloadTypeOK, FeedInStream,
           StreamLength, stateVars, rangeVars, downloadVars, readerVars,
           MarkEvicted
  <2> QED
    BY <2>1, <2>2, <2>3, <2>4 DEF FileTypeInv, TypeOK
<1>4. ASSUME NEW gs \in SUBSET Files, ClientEvict(c, gs)
      PROVE  FileTypeInv'
  <2>1. StateTypeOK'
    BY <1>4 DEF ClientEvict, StateTypeOK, MarkEvicted, RemoveFileIfIdle,
           stateVars, rangeVars, downloadVars, readerVars
  <2>2. ClientTypeOK'
    BY <1>4 DEF ClientEvict, ClientTypeOK, ReadReturn, Goto, ClientPcs, stateVars,
           rangeVars, downloadVars, readerVars
  <2>3. ReadInFile'
    BY <1>4 DEF ClientEvict, ReadInFile, ReadReturn, Goto, ReadPcs, ClientTypeOK,
           stateVars, rangeVars, downloadVars, readerVars
  <2>4. DataTypeOK' /\ UserTypeOK' /\ DownloadTypeOK' /\ FeedInStream'
    BY <1>4 DEF ClientEvict, DataTypeOK, UserTypeOK, DownloadTypeOK, FeedInStream,
           StreamLength, stateVars, rangeVars, downloadVars, readerVars,
           MarkEvicted, ReadReturn
  <2> QED
    BY <2>1, <2>2, <2>3, <2>4 DEF FileTypeInv, TypeOK
<1>5. CASE CreateFails(c)
  <2>1. ClientTypeOK'
    BY <1>5 DEF CreateFails, ClientTypeOK, Goto, ClientPcs, stateVars, rangeVars,
           downloadVars, readerVars
  <2>2. ReadInFile'
    BY <1>5 DEF CreateFails, ReadInFile, Goto, ReadPcs, ClientTypeOK, stateVars,
           rangeVars, downloadVars, readerVars
  <2>3. StateTypeOK' /\ DataTypeOK' /\ UserTypeOK' /\ DownloadTypeOK' /\ FeedInStream'
    BY <1>5 DEF CreateFails, StateTypeOK, DataTypeOK, UserTypeOK, DownloadTypeOK,
           FeedInStream, StreamLength, stateVars, rangeVars, downloadVars,
           readerVars
  <2> QED
    BY <2>1, <2>2, <2>3 DEF FileTypeInv, TypeOK
<1>6. CASE Reader(c)
  <2>1. UserTypeOK'
    BY <1>6 DEF Reader, UserTypeOK, stateVars, rangeVars, downloadVars, readerVars
  <2>2. ClientTypeOK'
    BY <1>6 DEF Reader, ClientTypeOK, Goto, ClientPcs, stateVars, rangeVars,
           downloadVars, readerVars
  <2>3. ReadInFile'
    BY <1>6 DEF Reader, ReadInFile, Goto, ReadPcs, ClientTypeOK, stateVars,
           rangeVars, downloadVars, readerVars
  <2>4. StateTypeOK' /\ DataTypeOK' /\ DownloadTypeOK' /\ FeedInStream'
    BY <1>6 DEF Reader, StateTypeOK, DataTypeOK, DownloadTypeOK, FeedInStream,
           StreamLength, stateVars, rangeVars, downloadVars, readerVars
  <2> QED
    BY <2>1, <2>2, <2>3, <2>4 DEF FileTypeInv, TypeOK
<1>7. CASE CloseReader(c)
  <2>1. StateTypeOK'
    BY <1>7 DEF CloseReader, StateTypeOK, RemoveFileIfIdle, stateVars, rangeVars,
           downloadVars, readerVars
  <2>2. UserTypeOK'
    BY <1>7 DEF CloseReader, UserTypeOK, stateVars, rangeVars, downloadVars,
           readerVars
  <2>3. ClientTypeOK'
    BY <1>7 DEF CloseReader, ClientTypeOK, Goto, ClientPcs, stateVars, rangeVars,
           downloadVars, readerVars
  <2>4. ReadInFile'
    BY <1>7 DEF CloseReader, ReadInFile, Goto, ReadPcs, ClientTypeOK, stateVars,
           rangeVars, downloadVars, readerVars
  <2>5. DataTypeOK' /\ DownloadTypeOK' /\ FeedInStream'
    BY <1>7 DEF CloseReader, DataTypeOK, DownloadTypeOK, FeedInStream,
           StreamLength, stateVars, rangeVars, downloadVars, readerVars
  <2> QED
    BY <2>1, <2>2, <2>3, <2>4, <2>5 DEF FileTypeInv, TypeOK
<1>8. CASE Seek(c)
  <2>1. ClientTypeOK'
    BY <1>8 DEF Seek, ClientTypeOK, stateVars, rangeVars, downloadVars, readerVars
  <2>2. ReadInFile'
    BY <1>8 DEF Seek, ReadInFile, ReadPcs, ClientTypeOK, stateVars, rangeVars,
           downloadVars, readerVars
  <2>3. StateTypeOK' /\ DataTypeOK' /\ UserTypeOK' /\ DownloadTypeOK' /\ FeedInStream'
    BY <1>8 DEF Seek, StateTypeOK, DataTypeOK, UserTypeOK, DownloadTypeOK,
           FeedInStream, StreamLength, stateVars, rangeVars, downloadVars,
           readerVars
  <2> QED
    BY <2>1, <2>2, <2>3 DEF FileTypeInv, TypeOK
<1>9. ASSUME NEW n \in 1 .. MaxRead, Read(c, n)
      PROVE  FileTypeInv'
  <2>1. ClientTypeOK'
    BY <1>9 DEF Read, ClientTypeOK, Goto, ClientPcs, ReadPcs, stateVars,
           rangeVars, downloadVars, readerVars
  <2>2. ReadInFile'
    BY <1>9 DEF Read, ReadInFile, Goto, ReadPcs, ClientTypeOK, stateVars,
           rangeVars, downloadVars, readerVars
  <2>3. StateTypeOK' /\ DataTypeOK' /\ UserTypeOK' /\ DownloadTypeOK' /\ FeedInStream'
    BY <1>9 DEF Read, StateTypeOK, DataTypeOK, UserTypeOK, DownloadTypeOK,
           FeedInStream, StreamLength, stateVars, rangeVars, downloadVars,
           readerVars
  <2> QED
    BY <2>1, <2>2, <2>3 DEF FileTypeInv, TypeOK
<1>10. CASE TryExclusiveFeed(c)
  <2>1. DataTypeOK'
    <3>1. Span(ClaimOf(c)[1], ClaimOf(c)[2]) \subseteq Units
      BY ClaimInFile DEF ClaimOf, ClientTypeOK
    <3>2. wl' \in [Files -> SUBSET Units]
      BY <1>10, <3>1 DEF TryExclusiveFeed, DataTypeOK
    <3> QED
      BY <1>10, <3>2 DEF TryExclusiveFeed, DataTypeOK, stateVars
  <2>2. ClientTypeOK'
    BY <1>10 DEF TryExclusiveFeed, ClientTypeOK, Goto, ClientPcs, ReadPcs,
           stateVars, rangeVars, downloadVars, readerVars
  <2>3. ReadInFile'
    BY <1>10 DEF TryExclusiveFeed, ReadInFile, Goto, ReadPcs, ClientTypeOK,
           stateVars, rangeVars, downloadVars, readerVars
  <2>4. StateTypeOK' /\ UserTypeOK' /\ DownloadTypeOK' /\ FeedInStream'
    BY <1>10 DEF TryExclusiveFeed, StateTypeOK, UserTypeOK, DownloadTypeOK,
           FeedInStream, StreamLength, stateVars, rangeVars, downloadVars,
           readerVars
  <2> QED
    BY <2>1, <2>2, <2>3, <2>4 DEF FileTypeInv, TypeOK
<1>11. CASE Fetch(c)
  <2>1. ClientTypeOK'
    BY <1>11 DEF Fetch, ClientTypeOK, Goto, ClientPcs, ReadPcs, stateVars,
           rangeVars, downloadVars, readerVars
  <2>2. ReadInFile'
    BY <1>11 DEF Fetch, ReadInFile, Goto, ReadPcs, ClientTypeOK, stateVars,
           rangeVars, downloadVars, readerVars
  <2>3. DownloadTypeOK' /\ FeedInStream'
    BY <1>11, StartWriterType, <1>0 DEF Fetch, FeedInStream, DownloadTypeOK,
           StreamLength, downloadVars
  <2>4. StateTypeOK' /\ DataTypeOK' /\ UserTypeOK'
    BY <1>11 DEF Fetch, StateTypeOK, DataTypeOK, UserTypeOK, stateVars, rangeVars,
           downloadVars, readerVars, StartWriter
  <2> QED
    BY <2>1, <2>2, <2>3, <2>4 DEF FileTypeInv, TypeOK
<1>12. CASE Fallback(c)
  <2>1. DataTypeOK'
    BY <1>12 DEF Fallback, DataTypeOK, Units, stateVars, rangeVars, downloadVars,
           readerVars
  <2>2. ClientTypeOK'
    BY <1>12 DEF Fallback, ClientTypeOK, Goto, ClientPcs, ReadPcs, stateVars,
           rangeVars, downloadVars, readerVars
  <2>3. ReadInFile'
    BY <1>12 DEF Fallback, ReadInFile, Goto, ReadPcs, ClientTypeOK, stateVars,
           rangeVars, downloadVars, readerVars
  <2>4. StateTypeOK' /\ UserTypeOK' /\ DownloadTypeOK' /\ FeedInStream'
    BY <1>12 DEF Fallback, StateTypeOK, UserTypeOK, DownloadTypeOK, FeedInStream,
           StreamLength, stateVars, rangeVars, downloadVars, readerVars
  <2> QED
    BY <2>1, <2>2, <2>3, <2>4 DEF FileTypeInv, TypeOK
<1>13. CASE FetchAll(c)
  <2>1. ClientTypeOK'
    BY <1>13 DEF FetchAll, ClientTypeOK, Goto, ClientPcs, ReadPcs, stateVars,
           rangeVars, downloadVars, readerVars
  <2>2. ReadInFile'
    BY <1>13 DEF FetchAll, ReadInFile, Goto, ReadPcs, ClientTypeOK, stateVars,
           rangeVars, downloadVars, readerVars
  <2>3. DownloadTypeOK' /\ FeedInStream'
    BY <1>13, StartWriterType, <1>0 DEF FetchAll, FeedInStream, DownloadTypeOK,
           StreamLength, downloadVars
  <2>4. StateTypeOK' /\ DataTypeOK' /\ UserTypeOK'
    BY <1>13 DEF FetchAll, StateTypeOK, DataTypeOK, UserTypeOK, stateVars,
           rangeVars, downloadVars, readerVars, StartWriter
  <2> QED
    BY <2>1, <2>2, <2>3, <2>4 DEF FileTypeInv, TypeOK
<1>14. CASE ClientClose(c)
  <2>1. StateTypeOK'
    BY <1>14 DEF ClientClose, StateTypeOK, CloseFile, MarkEvicted,
           RemoveFileIfIdle, stateVars, rangeVars, downloadVars, readerVars
  <2>2. DownloadTypeOK'
    BY <1>14 DEF ClientClose, DownloadTypeOK, CloseFile, UserTypeOK, stateVars,
           rangeVars, downloadVars, readerVars
  <2>3. ClientTypeOK'
    BY <1>14 DEF ClientClose, ClientTypeOK, Goto, ClientPcs, ReadPcs, stateVars,
           rangeVars, downloadVars, readerVars
  <2>4. ReadInFile'
    BY <1>14 DEF ClientClose, ReadInFile, Goto, ReadPcs, ClientTypeOK, stateVars,
           rangeVars, downloadVars, readerVars
  <2>5. DataTypeOK' /\ UserTypeOK' /\ FeedInStream'
    BY <1>14 DEF ClientClose, DataTypeOK, UserTypeOK, FeedInStream, StreamLength,
           stateVars, rangeVars, downloadVars, readerVars, CloseFile, MarkEvicted
  <2> QED
    BY <2>1, <2>2, <2>3, <2>4, <2>5 DEF FileTypeInv, TypeOK
<1>15. CASE Acquire(c)
  <2>1. ClientTypeOK'
    BY <1>15 DEF Acquire, ClientTypeOK, ReadReturn, Goto, ClientPcs, ReadPcs,
           stateVars, rangeVars, downloadVars, readerVars
  <2>2. ReadInFile'
    BY <1>15 DEF Acquire, ReadInFile, ReadReturn, Goto, ReadPcs, ClientTypeOK,
           stateVars, rangeVars, downloadVars, readerVars
  <2>3. StateTypeOK' /\ DataTypeOK' /\ UserTypeOK' /\ DownloadTypeOK' /\ FeedInStream'
    BY <1>15 DEF Acquire, StateTypeOK, DataTypeOK, UserTypeOK, DownloadTypeOK,
           FeedInStream, StreamLength, stateVars, rangeVars, downloadVars,
           readerVars, ReadReturn
  <2> QED
    BY <2>1, <2>2, <2>3 DEF FileTypeInv, TypeOK
<1>16. CASE ReadDisk(c)
  <2>1. ClientTypeOK'
    BY <1>16 DEF ReadDisk, ClientTypeOK, ReadReturn, Goto, ClientPcs, ReadInFile,
           stateVars, rangeVars, downloadVars, readerVars
  <2>2. ReadInFile'
    BY <1>16 DEF ReadDisk, ReadInFile, ReadReturn, Goto, ReadPcs, ClientTypeOK,
           stateVars, rangeVars, downloadVars, readerVars
  <2>3. StateTypeOK' /\ DataTypeOK' /\ UserTypeOK' /\ DownloadTypeOK' /\ FeedInStream'
    BY <1>16 DEF ReadDisk, StateTypeOK, DataTypeOK, UserTypeOK, DownloadTypeOK,
           FeedInStream, StreamLength, stateVars, rangeVars, downloadVars,
           readerVars, ReadReturn
  <2> QED
    BY <2>1, <2>2, <2>3 DEF FileTypeInv, TypeOK
<1> QED
  BY <1>1, <1>2, <1>3, <1>4, <1>5, <1>6, <1>7, <1>8, <1>9, <1>10, <1>11, <1>12,
     <1>13, <1>14, <1>15, <1>16 DEF ClientStep

LEMMA FileTypeWriterStep ==
  ASSUME FileTypeInv, NEW f \in Files, NEW w \in Claims, WriterStep(f, w)
  PROVE  FileTypeInv'
PROOF
<1> USE CacheFileAssumption
<1>0. /\ StateTypeOK /\ DataTypeOK /\ UserTypeOK /\ DownloadTypeOK /\ ClientTypeOK
      /\ ReadInFile /\ FeedInStream
  BY DEF FileTypeInv, TypeOK
<1> USE <1>0
<1>1. CASE WriterOpen(f, w)
  <2>1. DownloadTypeOK' /\ FeedInStream'
    BY <1>1, WriterMoves DEF WriterOpen, WriterPcs
  <2>2. StateTypeOK' /\ DataTypeOK' /\ UserTypeOK' /\ ClientTypeOK' /\ ReadInFile'
    BY <1>1 DEF WriterOpen, StateTypeOK, DataTypeOK, UserTypeOK, ClientTypeOK,
           ReadInFile, stateVars, rangeVars, downloadVars, readerVars
  <2> QED
    BY <2>1, <2>2 DEF FileTypeInv, TypeOK
<1>2. CASE WriterRegister(f, w)
  <2>1. UserTypeOK'
    BY <1>2 DEF WriterRegister, UserTypeOK, stateVars, rangeVars, downloadVars,
           readerVars
  <2>2. DownloadTypeOK' /\ FeedInStream'
    BY <1>2, WriterMoves DEF WriterRegister, WriterPcs
  <2>3. StateTypeOK' /\ DataTypeOK' /\ ClientTypeOK' /\ ReadInFile'
    BY <1>2 DEF WriterRegister, StateTypeOK, DataTypeOK, ClientTypeOK, ReadInFile,
           stateVars, rangeVars, downloadVars, readerVars
  <2> QED
    BY <2>1, <2>2, <2>3 DEF FileTypeInv, TypeOK
<1>3. CASE WriterCopy(f, w)
  <2>1. DataTypeOK'
    <3>1. Position(f, w) \in Extent /\ StreamUnit(f, w) \in Units
      BY <1>3, CopyInFile DEF WriterCopy
    <3>2. disk' \in [Files -> [Extent -> Units \cup {Hole}]]
      BY <1>3, <3>1 DEF WriterCopy, DataTypeOK
    <3> QED
      BY <1>3, <3>2 DEF WriterCopy, DataTypeOK, rangeVars
  <2>2. DownloadTypeOK' /\ FeedInStream'
    BY <1>3, WriterMoves DEF WriterCopy, WriterPcs
  <2>3. StateTypeOK' /\ UserTypeOK' /\ ClientTypeOK' /\ ReadInFile'
    BY <1>3 DEF WriterCopy, StateTypeOK, UserTypeOK, ClientTypeOK, ReadInFile,
           stateVars, rangeVars, downloadVars, readerVars
  <2> QED
    BY <2>1, <2>2, <2>3 DEF FileTypeInv, TypeOK
<1>4. CASE WriterFeed(f, w)
  <2>1. DataTypeOK'
    <3>1. Position(f, w) \in Extent
      BY <1>4, CopyInFile DEF WriterFeed, FeedInStream
    <3> QED
      BY <1>4, <3>1 DEF WriterFeed, DataTypeOK
  <2>2. DownloadTypeOK'
    <3>1. copied[f][w] + 1 \in 0 .. Size
      BY <1>4 DEF WriterFeed, FeedInStream, StreamLength, DownloadTypeOK, Claims, Units
    <3>2. copied' \in [Files -> [Claims -> 0 .. Size]]
      BY <1>4, <3>1 DEF WriterFeed, DownloadTypeOK
    <3>3. wpc' \in [Files -> [Claims -> WriterPcs]]
      BY <1>4 DEF WriterFeed, WriterGoto, WriterPcs, DownloadTypeOK
    <3> QED
      BY <1>4, <3>2, <3>3 DEF WriterFeed, DownloadTypeOK
  <2>3. FeedInStream'
    BY <1>4 DEF WriterFeed, FeedInStream, WriterGoto, DownloadTypeOK,
           StreamLength, stateVars, rangeVars, downloadVars, readerVars
  <2>4. StateTypeOK' /\ UserTypeOK' /\ ClientTypeOK' /\ ReadInFile'
    BY <1>4 DEF WriterFeed, StateTypeOK, UserTypeOK, ClientTypeOK, ReadInFile,
           stateVars, rangeVars, downloadVars, readerVars
  <2> QED
    BY <2>1, <2>2, <2>3, <2>4 DEF FileTypeInv, TypeOK
<1>5. CASE WriterEOF(f, w)
  <2>1. DownloadTypeOK' /\ FeedInStream'
    BY <1>5, WriterMoves DEF WriterEOF, WriterPcs
  <2>2. StateTypeOK' /\ DataTypeOK' /\ UserTypeOK' /\ ClientTypeOK' /\ ReadInFile'
    BY <1>5 DEF WriterEOF, StateTypeOK, DataTypeOK, UserTypeOK, ClientTypeOK,
           ReadInFile, stateVars, rangeVars, downloadVars, readerVars
  <2> QED
    BY <2>1, <2>2 DEF FileTypeInv, TypeOK
<1>6. CASE WriterClose(f, w)
  <2>1. StateTypeOK'
    BY <1>6 DEF WriterClose, StateTypeOK, CloseFile, MarkEvicted,
           RemoveFileIfIdle, stateVars, rangeVars, downloadVars, readerVars
  <2>2. DownloadTypeOK'
    BY <1>6 DEF WriterClose, DownloadTypeOK, CloseFile, UserTypeOK, WriterGoto,
           WriterPcs, stateVars, rangeVars, downloadVars, readerVars
  <2>3. FeedInStream'
    BY <1>6 DEF WriterClose, FeedInStream, WriterGoto, DownloadTypeOK,
           StreamLength, stateVars, rangeVars, downloadVars, readerVars
  <2>4. DataTypeOK' /\ UserTypeOK' /\ ClientTypeOK' /\ ReadInFile'
    BY <1>6 DEF WriterClose, DataTypeOK, UserTypeOK, ClientTypeOK, ReadInFile,
           stateVars, rangeVars, downloadVars, readerVars, CloseFile, MarkEvicted
  <2> QED
    BY <2>1, <2>2, <2>3, <2>4 DEF FileTypeInv, TypeOK
<1>7. ASSUME NEW gs \in SUBSET Files, WriterEvict(f, w, gs)
      PROVE  FileTypeInv'
  <2>1. StateTypeOK'
    BY <1>7 DEF WriterEvict, StateTypeOK, MarkEvicted, RemoveFileIfIdle,
           stateVars, rangeVars, downloadVars, readerVars
  <2>2. DownloadTypeOK' /\ FeedInStream'
    BY <1>7, WriterMoves DEF WriterEvict, WriterPcs
  <2>3. DataTypeOK' /\ UserTypeOK' /\ ClientTypeOK' /\ ReadInFile'
    BY <1>7 DEF WriterEvict, DataTypeOK, UserTypeOK, ClientTypeOK, ReadInFile,
           stateVars, rangeVars, downloadVars, readerVars, MarkEvicted
  <2> QED
    BY <2>1, <2>2, <2>3 DEF FileTypeInv, TypeOK
<1>8. CASE WriterLeave(f, w)
  <2>1. StateTypeOK'
    BY <1>8 DEF WriterLeave, StateTypeOK, RemoveFileIfIdle, stateVars, rangeVars,
           downloadVars, readerVars
  <2>2. UserTypeOK'
    BY <1>8 DEF WriterLeave, UserTypeOK, stateVars, rangeVars, downloadVars,
           readerVars
  <2>3. DownloadTypeOK' /\ FeedInStream'
    BY <1>8, WriterMoves DEF WriterLeave, WriterPcs
  <2>4. DataTypeOK' /\ ClientTypeOK' /\ ReadInFile'
    BY <1>8 DEF WriterLeave, DataTypeOK, ClientTypeOK, ReadInFile, stateVars,
           rangeVars, downloadVars, readerVars
  <2> QED
    BY <2>1, <2>2, <2>3, <2>4 DEF FileTypeInv, TypeOK
<1> QED
  BY <1>1, <1>2, <1>3, <1>4, <1>5, <1>6, <1>7, <1>8 DEF WriterStep

LEMMA FileTypeStutter ==
  ASSUME FileTypeInv, UNCHANGED fileVars
  PROVE  FileTypeInv'
BY DEF FileTypeInv, TypeOK, StateTypeOK, DataTypeOK, UserTypeOK, DownloadTypeOK,
       ClientTypeOK, ReadInFile, FeedInStream, fileVars, StreamLength

LEMMA FileTypeStep ==
  ASSUME FileTypeInv, [FileNext]_fileVars
  PROVE  FileTypeInv'
BY FileTypeClientStep, FileTypeWriterStep, FileTypeStutter DEF FileNext

\* The types of the cacheFiles, and that no Read or download leaves its file.
THEOREM FileTypeCorrect == FileSpec => []FileTypeInv
BY FileTypeInit, FileTypeStep, PTL DEF FileSpec
-----------------------------------------------------------------------------
\* A client past the lookup has a cacheFile.
HasFile == \A c \in Clients : pc[c] \notin {"idle", "miss"} => cf[c] \in Files

LEMMA HasFileClientStep ==
  ASSUME ClientTypeOK, HasFile, NEW c \in Clients, ClientStep(c)
  PROVE  HasFile'
PROOF
<1>1. CASE \E f \in Files : Create(c, f)
  BY <1>1 DEF Create, Goto, HasFile, ClientTypeOK
<1>2. CASE \E f \in Files \cup {NoFile} : Lookup(c, f)
  BY <1>2 DEF Lookup, Goto, HasFile, ClientTypeOK
<1>3. CASE Reader(c) \/ CloseReader(c) \/ CreateFails(c)
  BY <1>3 DEF Reader, CloseReader, CreateFails, Goto, HasFile, ClientTypeOK
<1>4. CASE /\ pc[c] \notin {"idle", "miss"}
           /\ cf' = cf /\ \A d \in Clients \ {c} : pc'[d] = pc[d]
  BY <1>4 DEF HasFile
<1> QED
  BY <1>1, <1>2, <1>3, <1>4
     DEF ClientStep, EvictOldest, ClientEvict, Seek, Read, TryExclusiveFeed,
         Fetch, Fallback, FetchAll, ClientClose, Acquire, ReadDisk, Goto,
         ReadReturn, ClientTypeOK

LEMMA HasFileStep ==
  ASSUME ClientTypeOK, HasFile, [FileNext]_fileVars
  PROVE  HasFile'
PROOF
<1>1. ASSUME NEW f \in Files, NEW w \in Claims, WriterStep(f, w)
      PROVE  UNCHANGED <<pc, cf>>
  BY <1>1 DEF WriterStep, WriterOpen, WriterRegister, WriterCopy, WriterFeed,
     WriterEOF, WriterClose, WriterEvict, WriterLeave
<1>2. CASE UNCHANGED <<pc, cf>>
  BY <1>2 DEF HasFile
<1> QED
  BY <1>1, <1>2, HasFileClientStep DEF FileNext, fileVars
-----------------------------------------------------------------------------
(* The backing file is removed neither too early nor never. *)

FileLifecycle == RemovedOnlyWhenUnread /\ IdleEvictedIsRemoved

LEMMA MarkEvictedLifecycle ==
  ASSUME FileTypeInv, FileLifecycle, NEW gs \in SUBSET Files, MarkEvicted(gs),
         UNCHANGED <<created, readers, writers>>
  PROVE  FileLifecycle'
BY DEF FileTypeInv, TypeOK, StateTypeOK, FileLifecycle, RemovedOnlyWhenUnread,
       IdleEvictedIsRemoved, MarkEvicted, RemoveFileIfIdle

LEMMA LifecycleClientStep ==
  ASSUME FileTypeInv, FileLifecycle, NEW c \in Clients, ClientStep(c)
  PROVE  FileLifecycle'
PROOF
<1> USE DEF FileLifecycle, RemovedOnlyWhenUnread, IdleEvictedIsRemoved
<1>1. StateTypeOK /\ UserTypeOK /\ ClientTypeOK
  BY DEF FileTypeInv, TypeOK
<1>2. ASSUME NEW f \in Files, Create(c, f)
      PROVE  FileLifecycle'
  BY <1>1, <1>2 DEF Create, StateTypeOK
<1>3. ASSUME NEW gs \in SUBSET Files, EvictOldest(c, gs) \/ ClientEvict(c, gs)
      PROVE  FileLifecycle'
  BY <1>3, MarkEvictedLifecycle DEF EvictOldest, ClientEvict
<1>4. CASE Reader(c)
  BY <1>1, <1>4 DEF Reader, stateVars, UserTypeOK
<1>5. CASE CloseReader(c)
  BY <1>1, <1>5 DEF CloseReader, RemoveFileIfIdle, UserTypeOK, StateTypeOK
<1>6. CASE ClientClose(c)
  <2>1. CASE cf[c] \in Files
    BY <1>6, <2>1, MarkEvictedLifecycle DEF ClientClose, CloseFile
  <2>2. CASE cf[c] \notin Files
    BY <1>1, <1>6, <2>2
       DEF ClientClose, CloseFile, MarkEvicted, RemoveFileIfIdle, StateTypeOK
  <2> QED
    BY <2>1, <2>2
<1>7. CASE \/ \E f \in Files \cup {NoFile} : Lookup(c, f)
           \/ CreateFails(c) \/ Seek(c) \/ TryExclusiveFeed(c) \/ Fetch(c)
           \/ Fallback(c) \/ FetchAll(c) \/ Acquire(c) \/ ReadDisk(c)
           \/ \E n \in 1 .. MaxRead : Read(c, n)
  <2>1. UNCHANGED <<created, evicted, removed, readers, writers>>
    BY <1>7 DEF Lookup, CreateFails, Seek, Read, TryExclusiveFeed, Fetch, Fallback,
       FetchAll, Acquire, ReadDisk, stateVars
  <2> QED
    BY <2>1
<1> QED
  BY <1>2, <1>3, <1>4, <1>5, <1>6, <1>7 DEF ClientStep

LEMMA LifecycleWriterStep ==
  ASSUME FileTypeInv, FileLifecycle, NEW f \in Files, NEW w \in Claims,
         WriterStep(f, w)
  PROVE  FileLifecycle'
PROOF
<1> USE DEF FileLifecycle, RemovedOnlyWhenUnread, IdleEvictedIsRemoved
<1>1. StateTypeOK /\ UserTypeOK
  BY DEF FileTypeInv, TypeOK
<1>2. CASE WriterRegister(f, w)
  BY <1>1, <1>2 DEF WriterRegister, stateVars, UserTypeOK
<1>3. CASE WriterClose(f, w)
  BY <1>3, MarkEvictedLifecycle DEF WriterClose, CloseFile
<1>4. ASSUME NEW gs \in SUBSET Files, WriterEvict(f, w, gs)
      PROVE  FileLifecycle'
  BY <1>4, MarkEvictedLifecycle DEF WriterEvict
<1>5. CASE WriterLeave(f, w)
  BY <1>1, <1>5 DEF WriterLeave, RemoveFileIfIdle, UserTypeOK, StateTypeOK
<1>6. CASE WriterOpen(f, w) \/ WriterCopy(f, w) \/ WriterFeed(f, w) \/ WriterEOF(f, w)
  <2>1. UNCHANGED <<created, evicted, removed, readers, writers>>
    BY <1>6 DEF WriterOpen, WriterCopy, WriterFeed, WriterEOF, stateVars
  <2> QED
    BY <2>1
<1> QED
  BY <1>2, <1>3, <1>4, <1>5, <1>6 DEF WriterStep

LEMMA FileLifecycleCorrect == FileSpec => []FileLifecycle
PROOF
<1>1. Init => FileLifecycle
  BY DEF Init, FileLifecycle, RemovedOnlyWhenUnread, IdleEvictedIsRemoved
<1>2. FileTypeInv /\ FileLifecycle /\ [FileNext]_fileVars => FileLifecycle'
  <2> SUFFICES ASSUME FileTypeInv, FileLifecycle, [FileNext]_fileVars
               PROVE  FileLifecycle'
    OBVIOUS
  <2>1. CASE UNCHANGED fileVars
    BY <2>1 DEF fileVars, FileLifecycle, RemovedOnlyWhenUnread, IdleEvictedIsRemoved
  <2>2. CASE FileNext
    BY <2>2, LifecycleClientStep, LifecycleWriterStep DEF FileNext
  <2> QED
    BY <2>1, <2>2
<1> QED
  BY <1>1, <1>2, FileTypeCorrect, PTL DEF FileSpec

\* Whatever the faults: a file is removed only when nobody can read it any more,
\* and that of an evicted cacheFile is removed as soon as nobody uses it.
THEOREM LifecycleCorrect ==
  FileSpec => [](RemovedOnlyWhenUnread /\ IdleEvictedIsRemoved)
BY FileLifecycleCorrect, PTL DEF FileLifecycle
-----------------------------------------------------------------------------
(* What is read is the source, when the drive serves the ranges it is asked *)
(* for (or the file is small enough never to be asked for in ranges).       *)

NoFallback ==
  /\ \A c \in Clients : pc[c] \notin {"fallback", "fetchAll"}
  /\ \A f \in Files, w \in Claims : whole[f][w] = FALSE

InPlace == \A f \in Files : \A i \in Extent : disk[f][i] \in {Hole, i}

\* Between the write of a unit and its feed the unit is on disk.
FeedOnDisk ==
  \A f \in Files, w \in Claims :
    wpc[f][w] = "feed" => disk[f][Position(f, w)] = Position(f, w)

ReadIsFed ==
  \A c \in Clients : pc[c] = "read" => Wanted(c) \subseteq rl[cf[c]]

SourceInv ==
  NoFallback /\ HasFile /\ InPlace /\ FeedOnDisk /\ FedIsSource /\ ReadIsFed

LEMMA SourceClientStep ==
  ASSUME ~RefusesRange, FileTypeInv, SourceInv, NEW c \in Clients, ClientStep(c)
  PROVE  SourceInv'
PROOF
<1>1. /\ DataTypeOK /\ DownloadTypeOK /\ ClientTypeOK
      /\ NoFallback /\ HasFile /\ InPlace /\ FeedOnDisk /\ FedIsSource /\ ReadIsFed
  BY DEF FileTypeInv, TypeOK, SourceInv
<1>2. ASSUME NEW f \in Files, Create(c, f)
      PROVE  SourceInv'
  <2>1. NoFallback' /\ HasFile'
    BY <1>1, <1>2 DEF Create, Goto, NoFallback, HasFile, ClientTypeOK, DownloadTypeOK
  <2>2. InPlace' /\ FedIsSource'
    BY <1>1, <1>2 DEF Create, InPlace, FedIsSource, DataTypeOK
  <2>3. FeedOnDisk'
    BY <1>1, <1>2 DEF Create, FeedOnDisk, Position, DataTypeOK, DownloadTypeOK
  <2>4. ReadIsFed'
    BY <1>1, <1>2
       DEF Create, Goto, Unreferenced, ReadIsFed, HasFile, Wanted, DataTypeOK,
           ClientTypeOK
  <2> QED
    BY <2>1, <2>2, <2>3, <2>4 DEF SourceInv
<1>3. CASE ClientStep(c) /\ UNCHANGED <<rl, disk, wpc, copied, whole>>
  <2>1. InPlace' /\ FedIsSource' /\ FeedOnDisk'
    BY <1>1, <1>3 DEF InPlace, FedIsSource, FeedOnDisk, Position
  <2>2. NoFallback'
    <3>1. \A d \in Clients : pc'[d] = pc[d] \/ pc'[d] \notin {"fallback", "fetchAll"}
      BY <1>1, <1>3 DEF ClientStep, Create, Lookup, EvictOldest, ClientEvict,
         CreateFails, Reader, CloseReader, Seek, Read, TryExclusiveFeed, Fetch,
         Fallback, FetchAll, ClientClose, Acquire, ReadDisk, Goto, ReadReturn,
         NoFallback, ClientTypeOK
    <3> QED
      BY <1>1, <1>3, <3>1 DEF NoFallback
  <2>3. HasFile'
    BY <1>1, <1>3, HasFileClientStep
  <2>4. ReadIsFed'
    <3>1. CASE Acquire(c)
      BY <1>1, <1>3, <3>1
         DEF Acquire, ReadIsFed, Wanted, Goto, ReadReturn, ClientTypeOK
    <3>2. CASE pc'[c] # "read" /\ \A d \in Clients \ {c} :
                 pc'[d] = pc[d] /\ cf'[d] = cf[d] /\ pos'[d] = pos[d] /\ want'[d] = want[d]
      BY <1>1, <1>3, <3>2 DEF ReadIsFed, Wanted
    <3> QED
      BY <1>1, <1>3, <3>1, <3>2
         DEF ClientStep, Create, Lookup, EvictOldest, ClientEvict, CreateFails, Reader,
             CloseReader, Seek, Read, TryExclusiveFeed, Fetch, Fallback, FetchAll,
             ClientClose, ReadDisk, Goto, ReadReturn, readerVars, ClientTypeOK
  <2> QED
    BY <2>1, <2>2, <2>3, <2>4 DEF SourceInv
<1>4. CASE Fetch(c) /\ StartWriter(c, FALSE)
  <2>1. UNCHANGED <<rl, disk, copied, cf, pos, want>>
    BY <1>4 DEF Fetch, StartWriter, rangeVars, readerVars
  <2>2. /\ \A d \in Clients : pc'[d] = IF d = c THEN pc'[c] ELSE pc[d]
        /\ pc[c] = "fetch" /\ pc'[c] \in {"acquire", "close"}
    BY <1>1, <1>4 DEF Fetch, Goto, ClientTypeOK
  <2>3. \A f \in Files, w \in Claims :
          /\ wpc'[f][w] = wpc[f][w] \/ wpc'[f][w] = "start"
          /\ whole'[f][w] = FALSE
    BY <1>1, <1>4 DEF StartWriter, DownloadTypeOK, NoFallback
  <2>4. NoFallback' /\ HasFile' /\ ReadIsFed'
    BY <1>1, <2>1, <2>2, <2>3 DEF NoFallback, HasFile, ReadIsFed, Wanted
  <2>5. InPlace' /\ FedIsSource' /\ FeedOnDisk'
    BY <1>1, <2>1, <2>3 DEF InPlace, FedIsSource, FeedOnDisk, Position
  <2> QED
    BY <2>4, <2>5 DEF SourceInv
<1>5. CASE \A f \in Files : ~Create(c, f)
  <2>1. \/ UNCHANGED <<rl, disk, wpc, copied, whole>>
        \/ Fetch(c) /\ StartWriter(c, FALSE)
    BY <1>1, <1>5 DEF ClientStep, Lookup, EvictOldest, ClientEvict, CreateFails,
       Reader, CloseReader, Seek, Read, TryExclusiveFeed, Fetch, Fallback, FetchAll,
       ClientClose, CloseFile, Acquire, ReadDisk, NoFallback, rangeVars,
       downloadVars
  <2> QED
    BY <1>3, <1>4, <2>1
<1> QED
  BY <1>2, <1>5

LEMMA SourceWriterStep ==
  ASSUME FileTypeInv, SourceInv, NEW f \in Files, NEW w \in Claims,
         WriterStep(f, w)
  PROVE  SourceInv'
PROOF
<1>1. /\ DataTypeOK /\ DownloadTypeOK /\ ClientTypeOK /\ FeedInStream
      /\ NoFallback /\ HasFile /\ InPlace /\ FeedOnDisk /\ FedIsSource /\ ReadIsFed
  BY DEF FileTypeInv, TypeOK, SourceInv
<1>2. Position(f, w) = StreamUnit(f, w)
  BY <1>1 DEF NoFallback, Position, StreamUnit
<1>3. UNCHANGED <<pc, cf, pos, want, whole>>
  BY DEF WriterStep, WriterOpen, WriterRegister, WriterCopy, WriterFeed, WriterEOF,
     WriterClose, WriterEvict, WriterLeave, readerVars
<1>4. NoFallback' /\ HasFile'
  BY <1>1, <1>3 DEF NoFallback, HasFile
<1>5. CASE WriterCopy(f, w)
  <2>1. UNCHANGED <<rl, copied>> /\ copied[f][w] < StreamLength(f, w)
    BY <1>5 DEF WriterCopy, rangeVars
  <2>2. Position(f, w) \in Extent
    BY <1>1, <2>1, CopyInFile
  <2>3. /\ disk' \in [Files -> [Extent -> Units \cup {Hole}]]
        /\ \A g \in Files, i \in Extent :
             \/ disk'[g][i] = disk[g][i]
             \/ g = f /\ i = Position(f, w) /\ disk'[g][i] = i
        /\ wpc'[f][w] = "feed" => disk'[f][Position(f, w)] = Position(f, w)
    <3>1. CASE UNCHANGED disk /\ WriterGoto(f, w, "close")
      BY <1>1, <3>1 DEF WriterGoto, DataTypeOK, DownloadTypeOK
    <3>2. CASE disk' = [disk EXCEPT ![f][Position(f, w)] = StreamUnit(f, w)]
      <4> DEFINE p == Position(f, w)
      <4>1. disk' = [disk EXCEPT ![f][p] = p] /\ p \in Extent /\ p \in Units
        BY <1>1, <1>2, <2>1, <2>2, <3>2, CopyInFile
      <4> HIDE DEF p
      <4>2. /\ disk' \in [Files -> [Extent -> Units \cup {Hole}]]
            /\ \A g \in Files, i \in Extent :
                 disk'[g][i] = IF g = f /\ i = p THEN p ELSE disk[g][i]
        BY <1>1, <4>1 DEF DataTypeOK
      <4> QED
        BY <4>1, <4>2 DEF p
    <3> QED
      BY <1>5, <3>1, <3>2 DEF WriterCopy
  <2>4. \A g \in Files, v \in Claims :
          wpc'[g][v] = "feed" => (g = f /\ v = w) \/ wpc[g][v] = "feed"
    BY <1>1, <1>5 DEF WriterCopy, WriterGoto, DownloadTypeOK
  <2>5. InPlace'
    BY <1>1, <2>3 DEF InPlace
  <2>6. FedIsSource'
    BY <1>1, <2>1, <2>3 DEF FedIsSource, DataTypeOK
  <2>7. FeedOnDisk'
    <3> SUFFICES ASSUME NEW g \in Files, NEW v \in Claims, wpc'[g][v] = "feed"
                 PROVE  disk'[g][Position(g, v)'] = Position(g, v)'
      BY DEF FeedOnDisk
    <3>1. Position(g, v)' = Position(g, v)
      BY <2>1 DEF Position
    <3>2. CASE g = f /\ v = w
      BY <2>3, <3>1, <3>2
    <3>3. CASE wpc[g][v] = "feed"
      <4>1. disk[g][Position(g, v)] = Position(g, v)
        BY <1>1, <3>3 DEF FeedOnDisk
      <4>2. Position(g, v) \in Extent
        BY <1>1, <3>3, CopyInFile DEF FeedInStream
      <4> QED
        BY <2>3, <3>1, <4>1, <4>2
    <3> QED
      BY <2>4, <3>2, <3>3
  <2>8. ReadIsFed'
    BY <1>1, <1>3, <2>1 DEF ReadIsFed, Wanted
  <2> QED
    BY <1>4, <2>5, <2>6, <2>7, <2>8 DEF SourceInv
<1>6. CASE WriterFeed(f, w)
  <2>1. disk' = disk /\ disk[f][Position(f, w)] = Position(f, w)
    BY <1>1, <1>6 DEF WriterFeed, FeedOnDisk
  <2>2. \A g \in Files :
          /\ rl[g] \subseteq rl'[g]
          /\ rl'[g] \subseteq rl[g] \cup (IF g = f THEN {Position(f, w)} ELSE {})
    BY <1>1, <1>6 DEF WriterFeed, DataTypeOK
  <2>3. \A g \in Files, v \in Claims :
          wpc'[g][v] = "feed" => wpc[g][v] = "feed" /\ copied'[g][v] = copied[g][v]
    BY <1>1, <1>6 DEF WriterFeed, WriterGoto, DownloadTypeOK
  <2>4. InPlace' /\ FedIsSource' /\ FeedOnDisk'
    BY <1>1, <2>1, <2>2, <2>3 DEF InPlace, FedIsSource, FeedOnDisk, Position
  <2>5. ReadIsFed'
    BY <1>1, <1>3, <2>2 DEF ReadIsFed, Wanted, HasFile
  <2> QED
    BY <1>4, <2>4, <2>5 DEF SourceInv
<1>7. CASE ~WriterCopy(f, w) /\ ~WriterFeed(f, w)
  <2>1. UNCHANGED <<rl, disk, copied>>
    BY <1>7 DEF WriterStep, WriterOpen, WriterRegister, WriterEOF, WriterClose,
       WriterEvict, WriterLeave, rangeVars
  <2>2. \A g \in Files, v \in Claims : wpc'[g][v] = "feed" => wpc[g][v] = "feed"
    <3>1. \E label \in WriterPcs \ {"feed"} : WriterGoto(f, w, label)
      BY <1>7 DEF WriterStep, WriterOpen, WriterRegister, WriterEOF,
         WriterClose, WriterEvict, WriterLeave, WriterPcs
    <3> QED
      BY <1>1, <3>1 DEF WriterGoto, DownloadTypeOK
  <2>3. InPlace' /\ FedIsSource' /\ FeedOnDisk' /\ ReadIsFed'
    BY <1>1, <1>3, <2>1, <2>2
       DEF InPlace, FedIsSource, FeedOnDisk, Position, ReadIsFed, Wanted
  <2> QED
    BY <1>4, <2>3 DEF SourceInv
<1> QED
  BY <1>5, <1>6, <1>7

LEMMA SourceInvCorrect ==
  ASSUME ~RefusesRange
  PROVE  FileSpec => []SourceInv
PROOF
<1>1. Init => SourceInv
  BY DEF Init, SourceInv, NoFallback, HasFile, InPlace, FeedOnDisk, FedIsSource,
     ReadIsFed
<1>2. FileTypeInv /\ SourceInv /\ [FileNext]_fileVars => SourceInv'
  <2> SUFFICES ASSUME FileTypeInv, SourceInv, [FileNext]_fileVars
               PROVE  SourceInv'
    OBVIOUS
  <2>1. CASE UNCHANGED fileVars
    BY <2>1 DEF fileVars, SourceInv, NoFallback, HasFile, InPlace, FeedOnDisk,
       FedIsSource, ReadIsFed, Position, Wanted
  <2>2. CASE FileNext
    BY <2>2, SourceClientStep, SourceWriterStep DEF FileNext
  <2> QED
    BY <2>1, <2>2
<1> QED
  BY <1>1, <1>2, FileTypeCorrect, PTL DEF FileSpec

\* On a drive that serves the ranges it is asked for (or with a file small enough
\* never to be asked for in ranges) every Read delivers the source's own bytes,
\* whatever fails, is closed or is evicted around it.
THEOREM SourceCorrect ==
  ASSUME ~RefusesRange
  PROVE  FileSpec => [](FedIsSource /\ ReadsSource)
PROOF
<1>1. SourceInv => FedIsSource /\ ReadsSource
  BY DEF SourceInv, HasFile, ReadIsFed, FedIsSource, ReadsSource
<1> QED
  BY <1>1, SourceInvCorrect, PTL
-----------------------------------------------------------------------------
(* A claim is downloaded at most once. *)

\* Claims stay in wl for as long as anybody downloads them or is about to.
ClaimsStand ==
  /\ \A f \in Files, w \in Claims : wpc[f][w] # "none" => Satisfied(wl[f], w)
  /\ \A c \in Clients : pc[c] \in Fetching => Satisfied(wl[cf[c]], ClaimOf(c))

ClaimInv == HasFile /\ ClaimsStand /\ OneDownloader

\* A step that claims nothing and downloads nothing new.
LEMMA ClaimQuiet ==
  ASSUME FileTypeInv, ClaimInv, HasFile', wl' = wl,
         \A f \in Files, w \in Claims : wpc[f][w] = "none" <=> wpc'[f][w] = "none",
         \A c \in Clients :
           pc'[c] \in Fetching => /\ pc[c] \in Fetching /\ cf'[c] = cf[c]
                                  /\ pos'[c] = pos[c] /\ want'[c] = want[c]
  PROVE  ClaimInv'
BY DEF ClaimInv, ClaimsStand, OneDownloader, ClaimOf, HasFile, Fetching

LEMMA ClaimClientStep ==
  ASSUME FileTypeInv, ClaimInv, NEW c \in Clients, ClientStep(c)
  PROVE  ClaimInv'
PROOF
<1>1. /\ DataTypeOK /\ DownloadTypeOK /\ ClientTypeOK
      /\ HasFile /\ ClaimsStand /\ OneDownloader
  BY DEF FileTypeInv, TypeOK, ClaimInv
<1>2. HasFile'
  BY <1>1, HasFileClientStep
<1>3. ASSUME NEW f \in Files, Create(c, f)
      PROVE  ClaimInv'
  <2>1. \A d \in Clients : pc'[d] \in Fetching =>
          /\ d # c /\ pc[d] \in Fetching /\ cf'[d] = cf[d] /\ cf[d] # f
          /\ pos'[d] = pos[d] /\ want'[d] = want[d]
    BY <1>1, <1>3 DEF Create, Goto, Unreferenced, Fetching, ClientTypeOK
  <2>2. \A g \in Files : g # f => wl'[g] = wl[g] /\ wpc'[g] = wpc[g]
    BY <1>1, <1>3 DEF Create, DataTypeOK, DownloadTypeOK
  <2>3. \A w \in Claims : wpc'[f][w] = "none"
    BY <1>1, <1>3 DEF Create, DownloadTypeOK
  <2>4. ClaimsStand'
    BY <1>1, <2>1, <2>2, <2>3 DEF ClaimsStand, ClaimOf, HasFile, Fetching
  <2>5. OneDownloader'
    BY <1>1, <2>1, <2>2 DEF OneDownloader, ClaimOf, HasFile, Fetching
  <2> QED
    BY <1>2, <2>4, <2>5 DEF ClaimInv
<1>4. CASE TryExclusiveFeed(c) /\ ~Satisfied(wl[cf[c]], ClaimOf(c))
  <2> DEFINE f == cf[c]
  <2>1. f \in Files /\ UNCHANGED <<wpc, cf, pos, want>> /\ pc[c] = "claim"
    BY <1>1, <1>4 DEF TryExclusiveFeed, HasFile, downloadVars, readerVars
  <2>2. \A d \in Clients : pc'[d] = IF d = c THEN "fetch" ELSE pc[d]
    BY <1>1, <1>4 DEF TryExclusiveFeed, Goto, ClientTypeOK
  <2>3. \A g \in Files : /\ wl[g] \subseteq wl'[g]
                         /\ g = f => Satisfied(wl'[g], ClaimOf(c))
    BY <1>1, <1>4 DEF TryExclusiveFeed, DataTypeOK, Satisfied
  <2>4. \A d \in Clients : ClaimOf(d)' = ClaimOf(d)
    BY <2>1 DEF ClaimOf
  <2>5. ClaimsStand'
    BY <1>1, <2>1, <2>2, <2>3, <2>4 DEF ClaimsStand, Satisfied, HasFile, Fetching
  <2>6. OneDownloader'
    BY <1>1, <1>4, <2>1, <2>2, <2>4 DEF OneDownloader, ClaimsStand, Fetching
  <2> QED
    BY <1>2, <2>5, <2>6 DEF ClaimInv
<1>5. CASE Fallback(c)
  <2>1. cf[c] \in Files /\ UNCHANGED <<wpc, cf, pos, want>> /\ pc[c] = "fallback"
    BY <1>1, <1>5 DEF Fallback, HasFile, downloadVars, readerVars
  <2>2. \A d \in Clients : pc'[d] \in Fetching => pc[d] \in Fetching
    BY <1>1, <1>5 DEF Fallback, Goto, ClientTypeOK, Fetching
  <2>3. \A g \in Files : wl[g] \subseteq wl'[g]
    BY <1>1, <1>5 DEF Fallback, DataTypeOK
  <2>4. \A d \in Clients : ClaimOf(d)' = ClaimOf(d)
    BY <2>1 DEF ClaimOf
  <2>5. ClaimsStand'
    BY <1>1, <2>1, <2>2, <2>3, <2>4 DEF ClaimsStand, Satisfied, HasFile, Fetching
  <2>6. OneDownloader'
    BY <1>1, <2>1, <2>2, <2>4 DEF OneDownloader
  <2> QED
    BY <1>2, <2>5, <2>6 DEF ClaimInv
<1>6. CASE /\ Fetch(c) \/ FetchAll(c)
           /\ \E b \in BOOLEAN : StartWriter(c, b) /\ Goto(c, "acquire")
  <2>1. cf[c] \in Files /\ pc[c] \in Fetching /\ UNCHANGED <<wl, cf, pos, want>>
    BY <1>1, <1>6 DEF Fetch, FetchAll, HasFile, Fetching, rangeVars, readerVars
  <2>2. \A d \in Clients : pc'[d] \in Fetching => pc[d] \in Fetching /\ d # c
    BY <1>1, <1>6 DEF Fetch, FetchAll, StartWriter, Goto, ClientTypeOK, Fetching,
       downloadVars
  <2>3. \A g \in Files, w \in Claims :
          wpc'[g][w] = IF g = cf[c] /\ w = ClaimOf(c) THEN "start" ELSE wpc[g][w]
    BY <1>1, <1>6 DEF StartWriter, DownloadTypeOK
  <2>4. \A d \in Clients : ClaimOf(d)' = ClaimOf(d)
    BY <2>1 DEF ClaimOf
  <2>5. ClaimsStand'
    BY <1>1, <2>1, <2>2, <2>3, <2>4 DEF ClaimsStand
  <2>6. OneDownloader'
    BY <1>1, <2>1, <2>2, <2>3, <2>4 DEF OneDownloader, HasFile, Fetching
  <2> QED
    BY <1>2, <2>5, <2>6 DEF ClaimInv
<1>7. CASE \/ \E f \in Files \cup {NoFile} : Lookup(c, f)
           \/ \E gs \in SUBSET Files : EvictOldest(c, gs) \/ ClientEvict(c, gs)
           \/ CreateFails(c) \/ Reader(c) \/ CloseReader(c) \/ Seek(c)
           \/ \E n \in 1 .. MaxRead : Read(c, n)
           \/ ClientClose(c) \/ Acquire(c) \/ ReadDisk(c)
  <2>1. UNCHANGED <<wl, wpc>>
    BY <1>7 DEF Lookup, EvictOldest, ClientEvict, CreateFails, Reader, CloseReader,
       Seek, Read, ClientClose, Acquire, ReadDisk, rangeVars, downloadVars
  <2>2. /\ pc'[c] \notin Fetching
        /\ \A d \in Clients \ {c} : /\ pc'[d] = pc[d] /\ cf'[d] = cf[d]
                                    /\ pos'[d] = pos[d] /\ want'[d] = want[d]
    BY <1>1, <1>7 DEF Lookup, EvictOldest, ClientEvict, CreateFails, Reader,
       CloseReader, Seek, Read, ClientClose, Acquire, ReadDisk, Goto, ReadReturn,
       readerVars, ClientTypeOK, Fetching
  <2> QED
    BY <1>2, <2>1, <2>2, ClaimQuiet
<1>8. CASE /\ \/ Fetch(c) /\ UNCHANGED downloadVars
              \/ FetchAll(c) /\ UNCHANGED downloadVars
              \/ TryExclusiveFeed(c) /\ Satisfied(wl[cf[c]], ClaimOf(c))
  <2>1. UNCHANGED <<wl, wpc, cf, pos, want>>
    BY <1>8 DEF Fetch, FetchAll, TryExclusiveFeed, rangeVars, downloadVars, readerVars
  <2>2. \A d \in Clients : pc'[d] \in Fetching => pc[d] \in Fetching
    BY <1>1, <1>8 DEF Fetch, FetchAll, TryExclusiveFeed, Goto, ClientTypeOK, Fetching
  <2> QED
    BY <1>2, <2>1, <2>2, ClaimQuiet
<1>9. Fetch(c) => \/ UNCHANGED downloadVars
                  \/ \E b \in BOOLEAN : StartWriter(c, b) /\ Goto(c, "acquire")
  BY DEF Fetch
<1>10. FetchAll(c) => \/ UNCHANGED downloadVars
                      \/ \E b \in BOOLEAN : StartWriter(c, b) /\ Goto(c, "acquire")
  BY DEF FetchAll
<1> QED
  BY <1>3, <1>4, <1>5, <1>6, <1>7, <1>8, <1>9, <1>10 DEF ClientStep

LEMMA ClaimWriterStep ==
  ASSUME FileTypeInv, ClaimInv, NEW f \in Files, NEW w \in Claims,
         WriterStep(f, w)
  PROVE  ClaimInv'
PROOF
<1>1. DownloadTypeOK /\ HasFile
  BY DEF FileTypeInv, TypeOK, ClaimInv
<1>2. UNCHANGED <<wl, pc, cf, pos, want>>
  BY DEF WriterStep, WriterOpen, WriterRegister, WriterCopy, WriterFeed, WriterEOF,
     WriterClose, WriterEvict, WriterLeave, rangeVars, readerVars
<1>3. \E label \in WriterPcs \ {"none"} : wpc[f][w] # "none" /\ WriterGoto(f, w, label)
  BY DEF WriterStep, WriterOpen, WriterRegister, WriterCopy, WriterFeed, WriterEOF,
     WriterClose, WriterEvict, WriterLeave, WriterPcs
<1>4. \A g \in Files, v \in Claims : wpc[g][v] = "none" <=> wpc'[g][v] = "none"
  BY <1>1, <1>3 DEF WriterGoto, DownloadTypeOK
<1>5. HasFile'
  BY <1>1, <1>2 DEF HasFile
<1> QED
  BY <1>2, <1>4, <1>5, ClaimQuiet

LEMMA ClaimStep ==
  ASSUME FileTypeInv, ClaimInv, [FileNext]_fileVars
  PROVE  ClaimInv'
PROOF
<1>1. CASE UNCHANGED fileVars
  <2>1. HasFile'
    BY <1>1 DEF ClaimInv, HasFile, fileVars
  <2> QED
    BY <1>1, <2>1, ClaimQuiet DEF fileVars
<1> QED
  BY <1>1, ClaimClientStep, ClaimWriterStep DEF FileNext

LEMMA ClaimInvCorrect == FileSpec => []ClaimInv
PROOF
<1>1. Init => ClaimInv
  BY DEF Init, ClaimInv, HasFile, ClaimsStand, OneDownloader, Fetching
<1> QED
  BY <1>1, ClaimStep, FileTypeCorrect, PTL DEF FileSpec

\* However requests interleave, a claim has one downloader: the caller that
\* tryExclusiveFeed has told to fill it.
THEOREM DownloadedOnce == FileSpec => []OneDownloader
PROOF
<1>1. ClaimInv => OneDownloader
  BY DEF ClaimInv
<1> QED
  BY <1>1, ClaimInvCorrect, PTL

\* What a quotient times its divisor is.
LEMMA DivBounds ==
  ASSUME NEW a \in Nat, NEW b \in Nat \ {0}
  PROVE  b * (a \div b) <= a /\ a < b * (a \div b) + b
OBVIOUS

\* A claim covers the request, and lies within the file.
LEMMA ClaimCovers ==
  ASSUME NEW p \in 0 .. Size, NEW n \in 1 .. Size, p + n <= Size
  PROVE  /\ Claim(p, n) \in Claims
         /\ Span(p, p + n) \subseteq Span(Claim(p, n)[1], Claim(p, n)[2])
PROOF
<1> USE CacheFileAssumption
<1> DEFINE lo == BlockSize * (p \div BlockSize)
           up == BlockSize * ((p + n + BlockSize - 1) \div BlockSize)
<1>1. lo \in Nat /\ up \in Nat
  <2>1. p \div BlockSize \in Nat /\ (p + n + BlockSize - 1) \div BlockSize \in Nat
    OBVIOUS
  <2> QED
    BY <2>1
<1>2. lo <= p
  BY DivBounds
<1>3. p + n <= up
  <2>1. p + n + BlockSize - 1 \in Nat
    OBVIOUS
  <2> QED
    BY <1>1, <2>1, DivBounds
<1> HIDE DEF lo, up
<1>4. Claim(p, n) = LET hi == IF up < Size THEN up ELSE Size
                    IN IF Size <= BlockSize THEN <<0, Size>>
                       ELSE <<lo, IF Size - hi < BlockSize THEN Size ELSE hi>>
  BY DEF Claim, lo, up
<1> QED
  BY <1>1, <1>2, <1>3, <1>4 DEF Claims, Units, Span

-----------------------------------------------------------------------------
(* Who waits is served, when the drive serves the ranges it is asked for and *)
(* its streams do not end early.                                             *)

\* A request has something to claim, and a download that has not begun has copied
\* nothing.
WantsSome == \A c \in Clients : pc[c] \in {"claim"} \cup Fetching => want[c] > 0
NotStarted == \A f \in Files, w \in Claims : wpc[f][w] = "none" => copied[f][w] = 0

\* Whoever fills unit i of f, or will fail and wake all who wait for it.
FilledBy(f, i) ==
  \/ canceled[f]
  \/ \E c \in Clients : /\ cf[c] = f
                        /\ \/ pc[c] = "fetch" /\ i \in Span(ClaimOf(c)[1], ClaimOf(c)[2])
                           \/ pc[c] = "close"
  \/ \E w \in Claims : wpc[f][w] = "close" \/ i \in Remaining(f, w)

ClaimFilled == \A f \in Files : \A i \in wl[f] \ rl[f] : FilledBy(f, i)

FillInv == WantsSome /\ NotStarted /\ WaitsForClaimed /\ ClaimFilled

\* What the other invariants give, when a step starts.
FillBefore == FileTypeInv /\ SourceInv /\ ClaimInv /\ FillInv

LEMMA FillParts ==
  ASSUME FillBefore
  PROVE  /\ StateTypeOK /\ DataTypeOK /\ UserTypeOK /\ DownloadTypeOK /\ ClientTypeOK
         /\ ReadInFile /\ FeedInStream /\ NoFallback /\ HasFile
         /\ ClaimsStand /\ OneDownloader
         /\ WantsSome /\ NotStarted /\ WaitsForClaimed /\ ClaimFilled
BY DEF FillBefore, FileTypeInv, TypeOK, SourceInv, ClaimInv, FillInv

\* The claim of a request that has one.
LEMMA RequestClaim ==
  ASSUME FillBefore, NEW c \in Clients, pc[c] \in {"claim"} \cup Fetching
  PROVE  ClaimOf(c) \in Claims /\ Wanted(c) \subseteq Span(ClaimOf(c)[1], ClaimOf(c)[2])
PROOF
<1>1. pos[c] \in 0 .. Size /\ want[c] \in 1 .. Size /\ pos[c] + want[c] <= Size
  BY FillParts, CacheFileAssumption DEF WantsSome, ReadInFile, ClientTypeOK
<1> QED
  BY <1>1, ClaimCovers DEF ClaimOf, Wanted

\* A step that takes nothing from what is filled: a filler stays, or another does.
LEMMA FillKept ==
  ASSUME FillBefore, UNCHANGED wl,
         \A f \in Files : rl[f] \subseteq rl'[f],
         \A f \in Files : canceled[f] => canceled'[f],
         \A f \in Files, i \in Units :
           i \in wl[f] \ rl'[f] /\ FilledBy(f, i) => FilledBy(f, i)'
  PROVE  ClaimFilled'
BY FillParts DEF ClaimFilled, DataTypeOK

\* What is left to a download depends on nothing else.
LEMMA RemainingKept ==
  ASSUME NEW f \in Files, NEW w \in Claims, wpc'[f][w] = wpc[f][w],
         copied'[f][w] = copied[f][w], whole'[f][w] = whole[f][w]
  PROVE  Remaining(f, w)' = Remaining(f, w)
PROOF
<1>1. Position(f, w)' = Position(f, w) /\ StreamLength(f, w)' = StreamLength(f, w)
  BY DEF Position, StreamLength
<1> DEFINE Left(at, len, done) == {at + n : n \in 0 .. len - done - 1}
<1>2. Remaining(f, w) = IF wpc[f][w] \in {"start", "opened", "copy", "feed"}
                        THEN Left(Position(f, w), StreamLength(f, w), copied[f][w]) ELSE {}
  BY DEF Remaining
<1>3. Remaining(f, w)' = IF wpc'[f][w] \in {"start", "opened", "copy", "feed"}
                         THEN Left(Position(f, w)', StreamLength(f, w)', copied'[f][w]) ELSE {}
  BY DEF Remaining
<1> HIDE DEF Left
<1> QED
  BY <1>1, <1>2, <1>3

LEMMA FillClientStep ==
  ASSUME FillBefore, ~RefusesRange, NEW c \in Clients, ClientStep(c)
  PROVE  FillInv'
PROOF
<1> USE FillParts
<1>1. ASSUME NEW f \in Files, Create(c, f)
      PROVE  FillInv'
  <2>1. /\ pc' = [pc EXCEPT ![c] = "evictOldest"] /\ cf' = [cf EXCEPT ![c] = f]
        /\ UNCHANGED <<pos, want>> /\ wl' = [wl EXCEPT ![f] = {}]
        /\ rl' = [rl EXCEPT ![f] = {}] /\ pc[c] = "miss"
        /\ canceled' = [canceled EXCEPT ![f] = FALSE]
        /\ \A d \in Clients : cf[d] # f
    BY <1>1 DEF Create, Goto, Unreferenced, readerVars
  <2>2. /\ \A g \in Files : g # f => /\ wl'[g] = wl[g] /\ rl'[g] = rl[g] /\ wpc'[g] = wpc[g]
                                     /\ copied'[g] = copied[g] /\ whole'[g] = whole[g]
                                     /\ canceled'[g] = canceled[g]
        /\ wl'[f] = {} /\ \A w \in Claims : wpc'[f][w] = "none" /\ copied'[f][w] = 0
    BY <1>1 DEF Create, DataTypeOK, DownloadTypeOK, StateTypeOK
  <2>3. /\ \A d \in Clients : d # c => pc'[d] = pc[d] /\ cf'[d] = cf[d]
        /\ pc'[c] = "evictOldest"
    BY <2>1 DEF ClientTypeOK
  <2>4. WantsSome' /\ NotStarted'
    BY <2>1, <2>2, <2>3 DEF WantsSome, NotStarted, Fetching
  <2>5. WaitsForClaimed'
    <3> SUFFICES ASSUME NEW d \in Clients, pc'[d] = "acquire"
                 PROVE  Wanted(d)' \subseteq wl'[cf'[d]] \cup rl'[cf'[d]]
      BY DEF WaitsForClaimed
    <3>1. d # c /\ pc[d] = "acquire" /\ cf'[d] = cf[d] /\ cf[d] \in Files \ {f}
      BY <2>1, <2>3 DEF HasFile
    <3>2. Wanted(d)' = Wanted(d)
      BY <2>1 DEF Wanted
    <3> QED
      BY <2>2, <3>1, <3>2 DEF WaitsForClaimed
  <2>6. ClaimFilled'
    <3> SUFFICES ASSUME NEW g \in Files, NEW i \in wl'[g] \ rl'[g]
                 PROVE  FilledBy(g, i)'
      BY DEF ClaimFilled
    <3>1. g # f /\ i \in wl[g] \ rl[g]
      BY <2>2
    <3>2. FilledBy(g, i)
      BY <3>1 DEF ClaimFilled
    <3>3. \A w \in Claims : Remaining(g, w)' = Remaining(g, w)
      BY <2>2, <3>1, RemainingKept
    <3>4. \A d \in Clients : ClaimOf(d)' = ClaimOf(d)
      BY <2>1 DEF ClaimOf
    <3> QED
      BY <2>1, <2>2, <2>3, <3>1, <3>2, <3>3, <3>4 DEF FilledBy
  <2> QED
    BY <2>4, <2>5, <2>6 DEF FillInv
<1>2. CASE TryExclusiveFeed(c)
  <2>1. /\ UNCHANGED <<rl, wpc, copied, whole, canceled, cf, pos, want>>
        /\ pc[c] = "claim" /\ cf[c] \in Files
    BY <1>2 DEF TryExclusiveFeed, stateVars, downloadVars, readerVars, HasFile
  <2>2. /\ pc'[c] \in {"acquire", "fetch"}
        /\ \A d \in Clients : d # c => pc'[d] = pc[d]
        /\ \A g \in Files : /\ wl[g] \subseteq wl'[g]
                            /\ wl'[g] \subseteq wl[g] \cup (IF g = cf[c] /\ pc'[c] = "fetch"
                                 THEN Span(ClaimOf(c)[1], ClaimOf(c)[2]) ELSE {})
        /\ pc'[c] = "acquire" => Satisfied(wl[cf[c]], ClaimOf(c))
    BY <1>2 DEF TryExclusiveFeed, Goto, ClientTypeOK, DataTypeOK
  <2>3. \A d \in Clients : Wanted(d)' = Wanted(d) /\ ClaimOf(d)' = ClaimOf(d)
    BY <2>1 DEF Wanted, ClaimOf
  <2>4. WantsSome' /\ NotStarted'
    BY <2>1, <2>2 DEF WantsSome, NotStarted, Fetching
  <2>5. WaitsForClaimed'
    <3>1. pc'[c] = "acquire" => Wanted(c) \subseteq wl[cf[c]]
      BY <2>1, <2>2, RequestClaim DEF Satisfied
    <3> QED
      BY <2>1, <2>2, <2>3, <3>1 DEF WaitsForClaimed, HasFile
  <2>6. ClaimFilled'
    <3> SUFFICES ASSUME NEW g \in Files, NEW i \in wl'[g] \ rl'[g]
                 PROVE  FilledBy(g, i)'
      BY DEF ClaimFilled
    <3>1. \A w \in Claims : Remaining(g, w)' = Remaining(g, w)
      BY <2>1 DEF Remaining, Position, StreamLength
    <3>2. CASE i \in wl[g]
      <4>1. FilledBy(g, i)
        BY <2>1, <3>2 DEF ClaimFilled
      <4> QED
        BY <2>1, <2>2, <2>3, <3>1, <4>1 DEF FilledBy
    <3>3. CASE i \notin wl[g]
      <4>1. g = cf[c] /\ pc'[c] = "fetch" /\ i \in Span(ClaimOf(c)[1], ClaimOf(c)[2])
        BY <2>2, <3>3
      <4> QED
        BY <2>1, <2>3, <4>1 DEF FilledBy
    <3> QED
      BY <3>2, <3>3
  <2> QED
    BY <2>4, <2>5, <2>6 DEF FillInv
<1>3. CASE Fetch(c)
  <2>1. /\ UNCHANGED <<rl, wl, copied, canceled, cf, pos, want>>
        /\ pc[c] = "fetch" /\ cf[c] \in Files
    BY <1>3 DEF Fetch, StartWriter, stateVars, downloadVars, rangeVars, readerVars, HasFile
  <2>2. /\ \A d \in Clients : d # c => pc'[d] = pc[d]
        /\ \/ pc'[c] = "close" /\ UNCHANGED <<wpc, whole>>
           \/ /\ pc'[c] = "acquire"
              /\ wpc' = [wpc EXCEPT ![cf[c]][ClaimOf(c)] = "start"]
              /\ whole' = [whole EXCEPT ![cf[c]][ClaimOf(c)] = FALSE]
    BY <1>3 DEF Fetch, StartWriter, Goto, ClientTypeOK, downloadVars
  <2>3. \A d \in Clients : Wanted(d)' = Wanted(d) /\ ClaimOf(d)' = ClaimOf(d)
    BY <2>1 DEF Wanted, ClaimOf
  <2>4. ClaimOf(c) \in Claims /\ Wanted(c) \subseteq Span(ClaimOf(c)[1], ClaimOf(c)[2])
    BY <2>1, RequestClaim DEF Fetching
  <2>5. wpc[cf[c]][ClaimOf(c)] = "none"
    BY <2>1, <2>4 DEF OneDownloader, Fetching
  <2>6. \A g \in Files, w \in Claims :
          \/ wpc'[g][w] = wpc[g][w] /\ whole'[g][w] = whole[g][w]
          \/ /\ g = cf[c] /\ w = ClaimOf(c) /\ wpc'[g][w] = "start" /\ whole'[g][w] = FALSE
             /\ wpc[g][w] = "none" /\ pc'[c] = "acquire"
    BY <2>2, <2>5 DEF DownloadTypeOK
  <2>7. pc'[c] = "acquire" => wpc'[cf[c]][ClaimOf(c)] = "start" /\ whole'[cf[c]][ClaimOf(c)] = FALSE
    BY <2>1, <2>2, <2>4 DEF DownloadTypeOK
  <2>8. WantsSome' /\ NotStarted'
    BY <2>1, <2>2, <2>6 DEF WantsSome, NotStarted, Fetching
  <2>9. WaitsForClaimed'
    <3>1. Wanted(c) \subseteq wl[cf[c]]
      BY <2>1, <2>4 DEF ClaimsStand, Satisfied, Fetching
    <3> QED
      BY <2>1, <2>2, <2>3, <3>1 DEF WaitsForClaimed, HasFile
  <2>10. ClaimFilled'
    <3> SUFFICES ASSUME NEW g \in Files, NEW i \in wl[g] \ rl[g]
                 PROVE  FilledBy(g, i)'
      BY <2>1 DEF ClaimFilled
    <3>1. FilledBy(g, i)
      BY DEF ClaimFilled
    <3>2. ASSUME NEW w \in Claims, wpc[g][w] = "close" \/ i \in Remaining(g, w)
          PROVE  wpc'[g][w] = "close" \/ i \in Remaining(g, w)'
      <4>1. wpc'[g][w] = wpc[g][w] /\ whole'[g][w] = whole[g][w]
        BY <2>6, <3>2 DEF Remaining
      <4> QED
        BY <2>1, <3>2, <4>1 DEF Remaining, Position, StreamLength
    <3>3. CASE g = cf[c] /\ i \in Span(ClaimOf(c)[1], ClaimOf(c)[2]) /\ pc'[c] = "acquire"
      <4>0. PICK w \in Claims : w = ClaimOf(c)
        BY <2>4
      <4>1. copied'[g][w] = 0 /\ wpc'[g][w] = "start" /\ whole'[g][w] = FALSE
        BY <4>0, <2>1, <2>5, <2>7, <3>3 DEF NotStarted
      <4>2. Remaining(g, w)' = {w[1] + n : n \in 0 .. w[2] - w[1] - 1}
        <5>1. w[1] \in Nat /\ w[2] \in Nat
          BY DEF Claims, Units
        <5>2. Position(g, w)' = w[1] /\ StreamLength(g, w)' = w[2] - w[1]
          BY <4>1, <5>1 DEF Position, StreamLength
        <5>3. Remaining(g, w)' = {Position(g, w)' + n : n \in 0 .. StreamLength(g, w)' - copied'[g][w] - 1}
          BY <4>1 DEF Remaining
        <5>4. StreamLength(g, w)' - copied'[g][w] - 1 = w[2] - w[1] - 1
          BY <4>1, <5>1, <5>2
        <5> QED
          BY <5>2, <5>3, <5>4
      <4>3. w[1] \in Nat /\ w[2] \in Nat /\ i \in w[1] .. w[2] - 1
        BY <4>0, <3>3 DEF Claims, Units, Span
      <4>4. i = w[1] + (i - w[1]) /\ i - w[1] \in 0 .. w[2] - w[1] - 1
        BY <4>3
      <4>5. i \in Remaining(g, w)'
        BY <4>2, <4>4
      <4> QED
        BY <4>5 DEF FilledBy
    <3>4. CASE g = cf[c] /\ pc'[c] = "close"
      BY <2>1, <3>4 DEF FilledBy
    <3>5. CASE canceled[g] \/ \E w \in Claims : wpc[g][w] = "close" \/ i \in Remaining(g, w)
      BY <2>1, <3>2, <3>5 DEF FilledBy
    <3>6. CASE \E d \in Clients \ {c} :
                 /\ cf[d] = g
                 /\ \/ pc[d] = "fetch" /\ i \in Span(ClaimOf(d)[1], ClaimOf(d)[2])
                    \/ pc[d] = "close"
      BY <2>1, <2>2, <2>3, <3>6 DEF FilledBy
    <3> QED
      BY <2>1, <2>2, <3>1, <3>3, <3>4, <3>5, <3>6 DEF FilledBy
  <2> QED
    BY <2>8, <2>9, <2>10 DEF FillInv
<1>4. CASE ClientClose(c)
  <2>1. /\ UNCHANGED <<rl, wl, wpc, copied, whole, cf, pos, want>>
        /\ pc[c] = "close" /\ cf[c] \in Files
        /\ \A g \in Files : canceled'[g] <=> canceled[g] \/ g = cf[c]
        /\ pc'[c] = "evict" /\ \A d \in Clients : d # c => pc'[d] = pc[d]
    BY <1>4 DEF ClientClose, CloseFile, Goto, stateVars, rangeVars, readerVars, HasFile,
       StateTypeOK, ClientTypeOK
  <2>2. \A d \in Clients : Wanted(d)' = Wanted(d) /\ ClaimOf(d)' = ClaimOf(d)
    BY <2>1 DEF Wanted, ClaimOf
  <2>3. \A g \in Files, w \in Claims : Remaining(g, w)' = Remaining(g, w)
    BY <2>1 DEF Remaining, Position, StreamLength
  <2>4. WantsSome' /\ NotStarted' /\ WaitsForClaimed'
    BY <2>1, <2>2 DEF WantsSome, NotStarted, WaitsForClaimed, Fetching
  <2>5. ClaimFilled'
    BY <2>1, <2>2, <2>3, FillKept DEF FilledBy
  <2> QED
    BY <2>4, <2>5 DEF FillInv
<1>5. CASE \/ \E f \in Files \cup {NoFile} : Lookup(c, f)
           \/ \E gs \in SUBSET Files : EvictOldest(c, gs) \/ ClientEvict(c, gs)
           \/ CreateFails(c) \/ Reader(c) \/ CloseReader(c) \/ Seek(c)
           \/ \E n \in 1 .. MaxRead : Read(c, n)
           \/ Acquire(c) \/ ReadDisk(c)
  <2>1. UNCHANGED <<rl, wl, wpc, copied, whole, canceled>>
    BY <1>5 DEF Lookup, EvictOldest, ClientEvict, CreateFails, Reader, CloseReader,
       Seek, Read, Acquire, ReadDisk, MarkEvicted, stateVars, rangeVars, downloadVars
  <2>2. /\ pc[c] \notin {"fetch", "close"} /\ pc'[c] \notin Fetching \cup {"close"}
        /\ \A d \in Clients \ {c} : /\ pc'[d] = pc[d] /\ cf'[d] = cf[d]
                                    /\ pos'[d] = pos[d] /\ want'[d] = want[d]
    BY <1>5 DEF Lookup, EvictOldest, ClientEvict, CreateFails, Reader, CloseReader,
       Seek, Read, Acquire, ReadDisk, Goto, ReadReturn, readerVars, ClientTypeOK, Fetching
  <2>3. /\ pc'[c] = "claim" => want'[c] > 0
        /\ pc'[c] = "acquire" => Wanted(c)' \subseteq rl[cf'[c]]
    <3>1. ASSUME NEW n \in 1 .. MaxRead, Read(c, n)
          PROVE  /\ pc'[c] = "claim" => want'[c] > 0
                 /\ pc'[c] = "acquire" => Wanted(c)' \subseteq rl[cf'[c]]
      <4> DEFINE len == IF pos[c] + n > Size THEN Size - pos[c] ELSE n
      <4>1. /\ UNCHANGED <<cf, pos>> /\ want'[c] = len /\ pos[c] \in Nat /\ len \in Nat
            /\ pc'[c] = IF Span(pos[c], pos[c] + len) \subseteq rl[cf[c]]
                        THEN "acquire" ELSE "claim"
        BY <3>1, CacheFileAssumption DEF Read, Goto, ClientTypeOK
      <4> HIDE DEF len
      <4>2. len = 0 => Span(pos[c], pos[c] + len) = {}
        BY <4>1 DEF Span
      <4> QED
        BY <4>1, <4>2 DEF Wanted
    <3>2. CASE ~\E n \in 1 .. MaxRead : Read(c, n)
      <4>1. pc'[c] \notin {"claim", "acquire"}
        BY <1>5, <3>2 DEF Lookup, EvictOldest, ClientEvict, CreateFails, Reader, CloseReader,
           Seek, Acquire, ReadDisk, Goto, ReadReturn, ClientTypeOK
      <4> QED
        BY <4>1
    <3> QED
      BY <3>1, <3>2
  <2>4. WantsSome' /\ NotStarted'
    BY <2>1, <2>2, <2>3 DEF WantsSome, NotStarted, Fetching
  <2>5. WaitsForClaimed'
    BY <2>1, <2>2, <2>3 DEF WaitsForClaimed, Wanted
  <2>6. \A g \in Files, w \in Claims : Remaining(g, w)' = Remaining(g, w)
    BY <2>1 DEF Remaining, Position, StreamLength
  <2>7. \A d \in Clients \ {c} : ClaimOf(d)' = ClaimOf(d)
    BY <2>2 DEF ClaimOf
  <2>8. ClaimFilled'
    BY <2>1, <2>2, <2>6, <2>7, FillKept DEF FilledBy
  <2> QED
    BY <2>4, <2>5, <2>8 DEF FillInv
<1>6. ~Fallback(c) /\ ~FetchAll(c)
  BY DEF Fallback, FetchAll, NoFallback
<1> QED
  BY <1>1, <1>2, <1>3, <1>4, <1>5, <1>6 DEF ClientStep

LEMMA FillWriterStep ==
  ASSUME FillBefore, "short" \notin Faults, NEW f \in Files, NEW w \in Claims,
         WriterStep(f, w)
  PROVE  FillInv'
PROOF
<1> USE FillParts
<1>1. UNCHANGED <<wl, whole, pc, cf, pos, want>>
  BY DEF WriterStep, WriterOpen, WriterRegister, WriterCopy, WriterFeed, WriterEOF,
     WriterClose, WriterEvict, WriterLeave, rangeVars, readerVars
<1>2. \A d \in Clients : Wanted(d)' = Wanted(d) /\ ClaimOf(d)' = ClaimOf(d)
  BY <1>1 DEF Wanted, ClaimOf
<1>3. \A g \in Files : /\ rl[g] \subseteq rl'[g]
                       /\ canceled[g] => canceled'[g]
  BY DEF WriterStep, WriterOpen, WriterRegister, WriterCopy, WriterFeed, WriterEOF,
     WriterClose, WriterEvict, WriterLeave, CloseFile, MarkEvicted, stateVars, rangeVars,
     DataTypeOK, StateTypeOK
<1>4. /\ wpc[f][w] # "none" /\ wpc'[f][w] # "none"
      /\ \A g \in Files, v \in Claims :
           g # f \/ v # w => wpc'[g][v] = wpc[g][v] /\ copied'[g][v] = copied[g][v]
  <2>1. \E label \in WriterPcs \ {"none"} : wpc[f][w] # "none" /\ WriterGoto(f, w, label)
    BY DEF WriterStep, WriterOpen, WriterRegister, WriterCopy, WriterFeed, WriterEOF,
       WriterClose, WriterEvict, WriterLeave, WriterPcs
  <2>2. UNCHANGED copied \/ copied' = [copied EXCEPT ![f][w] = @ + 1]
    BY DEF WriterStep, WriterOpen, WriterRegister, WriterCopy, WriterFeed, WriterEOF,
       WriterClose, WriterEvict, WriterLeave
  <2> QED
    BY <2>1, <2>2 DEF WriterGoto, DownloadTypeOK
<1>5. WantsSome' /\ NotStarted'
  BY <1>1, <1>4 DEF WantsSome, NotStarted
<1>6. WaitsForClaimed'
  BY <1>1, <1>2, <1>3 DEF WaitsForClaimed, HasFile
<1>7. \A g \in Files, v \in Claims : g # f \/ v # w => Remaining(g, v)' = Remaining(g, v)
  BY <1>1, <1>4, RemainingKept
\* What was left to this writer is left to it, is fed, or it fails.
<1>8. \A i \in Units :
        wpc[f][w] = "close" \/ i \in Remaining(f, w)
          => i \in rl'[f] \/ canceled'[f] \/ wpc'[f][w] = "close" \/ i \in Remaining(f, w)'
  <2> SUFFICES ASSUME NEW i \in Units, wpc[f][w] = "close" \/ i \in Remaining(f, w)
               PROVE  i \in rl'[f] \/ canceled'[f] \/ wpc'[f][w] = "close" \/ i \in Remaining(f, w)'
    OBVIOUS
  <2>1. CASE WriterClose(f, w)
    BY <2>1 DEF WriterClose, CloseFile, StateTypeOK
  <2>2. CASE WriterFeed(f, w)
    <3>1. /\ wpc[f][w] = "feed" /\ wpc'[f][w] = "copy"
          /\ copied'[f][w] = copied[f][w] + 1
          /\ Position(f, w) \in rl'[f]
      BY <2>2 DEF WriterFeed, WriterGoto, DownloadTypeOK, DataTypeOK
    <3>2. PICK n \in 0 .. StreamLength(f, w) - copied[f][w] - 1 : i = Position(f, w) + n
      BY <3>1 DEF Remaining
    <3>3. /\ copied[f][w] \in Nat /\ StreamLength(f, w) \in Int /\ w[1] \in Nat
          /\ Position(f, w) \in Nat /\ StreamLength(f, w)' = StreamLength(f, w)
      BY <1>1, CacheFileAssumption DEF DownloadTypeOK, StreamLength, Position, Claims, Units
    <3>4. Position(f, w)' = Position(f, w) + 1
      BY <3>1, <3>3 DEF Position
    <3>5. CASE n = 0
      BY <3>1, <3>2, <3>3, <3>5
    <3>6. CASE n # 0
      <4>1. /\ n - 1 \in 0 .. StreamLength(f, w)' - copied'[f][w] - 1
            /\ i = Position(f, w)' + (n - 1)
        BY <3>1, <3>2, <3>3, <3>4, <3>6
      <4> QED
        BY <3>1, <4>1 DEF Remaining
    <3> QED
      BY <3>5, <3>6
  <2>3. CASE WriterEOF(f, w)
    <3>1. wpc[f][w] = "copy" /\ copied[f][w] = StreamLength(f, w) /\ copied[f][w] \in Nat
      BY <2>3 DEF WriterEOF, DownloadTypeOK
    <3>2. Remaining(f, w) = {}
      BY <3>1 DEF Remaining
    <3> QED
      BY <3>1, <3>2
  <2>4. CASE \/ WriterOpen(f, w) \/ WriterRegister(f, w) \/ WriterCopy(f, w)
    <3>1. UNCHANGED copied /\ wpc'[f][w] \in {"opened", "copy", "feed", "close"}
          /\ wpc[f][w] \in {"start", "opened", "copy"}
      BY <2>4 DEF WriterOpen, WriterRegister, WriterCopy, WriterGoto, DownloadTypeOK
    <3> QED
      BY <1>1, <3>1 DEF Remaining, Position, StreamLength
  <2>5. CASE WriterLeave(f, w) \/ \E gs \in SUBSET Files : WriterEvict(f, w, gs)
    BY <2>5 DEF WriterLeave, WriterEvict, Remaining
  <2> QED
    BY <2>1, <2>2, <2>3, <2>4, <2>5 DEF WriterStep
<1>9. ClaimFilled'
  <2> SUFFICES ASSUME NEW g \in Files, NEW i \in Units, i \in wl[g] \ rl'[g], FilledBy(g, i)
               PROVE  FilledBy(g, i)'
    BY <1>1, <1>3, FillKept
  <2>1. CASE canceled[g]
    BY <1>3, <2>1 DEF FilledBy
  <2>2. CASE \E c \in Clients :
               /\ cf[c] = g
               /\ \/ pc[c] = "fetch" /\ i \in Span(ClaimOf(c)[1], ClaimOf(c)[2])
                  \/ pc[c] = "close"
    BY <1>1, <1>2, <2>2 DEF FilledBy
  <2>3. ASSUME NEW v \in Claims, wpc[g][v] = "close" \/ i \in Remaining(g, v)
        PROVE  FilledBy(g, i)'
    <3>1. CASE g = f /\ v = w
      BY <1>8, <2>3, <3>1 DEF FilledBy
    <3>2. CASE g # f \/ v # w
      BY <1>4, <1>7, <2>3, <3>2 DEF FilledBy
    <3> QED
      BY <3>1, <3>2
  <2> QED
    BY <2>1, <2>2, <2>3 DEF FilledBy
<1> QED
  BY <1>5, <1>6, <1>9 DEF FillInv

\* On a drive that serves the ranges it is asked for, and whose streams end where they
\* should, a Read that waits is served: what it waits for is claimed, and a claim has
\* one downloader that goes on to fill it, or a failure that wakes its readers.
THEOREM WaitersServed ==
  ASSUME ~RefusesRange, "short" \notin Faults
  PROVE  FileSpec => []WaitersAreServed
PROOF
<1>1. Init => FillInv
  BY DEF Init, FillInv, WantsSome, NotStarted, WaitsForClaimed, ClaimFilled, Fetching
<1>2. FileTypeInv /\ SourceInv /\ ClaimInv /\ FillInv /\ [FileNext]_fileVars => FillInv'
  <2> SUFFICES ASSUME FillBefore, [FileNext]_fileVars PROVE FillInv'
    BY DEF FillBefore
  <2>1. CASE UNCHANGED fileVars
    BY <2>1, FillParts DEF fileVars, FillInv, WantsSome, NotStarted, WaitsForClaimed, ClaimFilled,
       FilledBy, Wanted, ClaimOf, Remaining, Position, StreamLength
  <2>2. CASE FileNext
    BY <2>2, FillClientStep, FillWriterStep DEF FileNext
  <2> QED
    BY <2>1, <2>2
<1>3. FillInv /\ ClaimInv => WaitersAreServed
  <2>1. ASSUME ClaimFilled PROVE ClaimHasFiller
    BY <2>1 DEF ClaimFilled, FilledBy, ClaimHasFiller
  <2> QED
    BY <2>1 DEF FillInv, ClaimInv, WaitersAreServed
<1> QED
  BY <1>1, <1>2, <1>3, FileTypeCorrect, SourceInvCorrect, ClaimInvCorrect, PTL DEF FileSpec
=============================================================================
