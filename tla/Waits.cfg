\* Every part but the range lock may come to rest.
SPECIFICATION PartSpec
CONSTANTS
  Threads = {t1, t2}
  Limit = 3
  DriveNames = {n1}
  Writers = {w1, w2}
  Reloaders = {r1}
  MaxReloads = 2
  Viewers = {v1, v2}
  ThumbWorkers = 1
  MaxVersion = 1
  MaxAsks = 2
  MaxThumbs = 2
  Builders = {b1, b2}
  TextPaths <- SomeTextPaths
  TextFiles <- SomeTextFiles
  Askers = {c1, c2}
  MaxWrites = 2
  Callers = {c1, c2}
  VMs = {v1}
  MaxIdle = 1
  Calls = {q1, q2}
  Workers = 1
  Files = {}
  Initial = {}
  MaxZip = 1
  MaxRemoves = 0
INVARIANT RangesHold
PROPERTIES ImplementsRangeSet WaitsEnd
CHECK_DEADLOCK FALSE
