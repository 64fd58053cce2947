\* Two chunks, one of which may be sent again, and two merges.
SPECIFICATION FairUpload
CONSTANTS
  None = None
  Chunks = 2
  Puts = {p1, p2, p3}
  Merges = {m1, m2}
  MaxConcurrent = 2
  Acts = {"pause", "stop", "lose"}
INVARIANTS
  UploadTypeOK
  SavedIsWhole
  AckedIsThere
  CompletedIsSaved
PROPERTY UploadSettles
CHECK_DEADLOCK FALSE
