\* Every part comes to rest when its bound is met.
SPECIFICATION PartSpec
CONSTANTS
  a = a  ab = ab  aa = aa
  Names = {a, ab, aa}
  Above <- AboveOf
  Tokens = {1, 2, 3, 4, 5}
  None = None
  Clients = {c1, c2}
  Requests <- DavRequests
  MaxRequests = 3
  u1 = u1  u2 = u2  b = b
  Urls = {u1, u2}
  Bases = {b}
  Base <- BaseOfAll
  MaxSeq = 2
  MaxDepth = 2
  x1 = x1  x2 = x2  x3 = x3
  u = u  vv = vv
  NoXmlns = NoXmlns
  FieldNames = {x1, x2}
  Places <- FieldPlaces
  FieldSpaces = {u, vv, NoXmlns}
  Outer = vv
  MaxFields = 2
  live = live  file = file  dead = dead
  dd = dd  df = df
  Props = {live, file, dead}
  LiveProps = {live, file}
  FileProps = {live, file}
  DirProps = {live}
  PropNodes <- DavNodes
  PropDirs <- DavDirs
  Bodies <- SomeBodies
  PatchBodies <- SomePatches
  MaxChanges = 2
  IfTags = {r1, r2}
  Kinds = {"(", ")", "not", "square", "end"}
  MaxTokens = 8
  Forms <- AllForms
  Pieces <- SomePieces
  Targets <- SomeTargets
  MaxPieces = 3
  Entries <- SomeEntries
  Folders <- SomeFolders
  Filters <- SomeFilters
  Likes <- SomeLikes
  BatchSize = 2
  MaxTreeEdits = 2
  MinimumPage = 2
  InitialPage = 2
  PageStep = 1
  MaxPage = 3
  MaxHits = 9
  Calls = {q1, q2}
  Workers = 1
  Files = {f1, f2}
  Initial = {f1}
  MaxZip = 2
  MaxRemoves = 1
  Viewers = {w1, w2}
  ThumbWorkers = 2
  MaxVersion = 2
  MaxAsks = 3
  MaxThumbs = 2
INVARIANTS
  LocksHold RequestsHold WireHolds  ServedIsWhole
PROPERTY LockProtects
CHECK_DEADLOCK FALSE
