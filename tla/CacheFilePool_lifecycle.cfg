\* Two keys compete for one entry; whatever the pool rests on may fail.
SPECIFICATION Spec
CONSTANTS
  c1 = c1  c2 = c2  c3 = c3
  f1 = f1  f2 = f2  f3 = f3
  k1 = k1  k2 = k2
  NoFile = NoFile
  NoClient = NoClient
  Clients = {c1, c2}
  Files = {f1, f2}
  Keys = {k1, k2}
  Size = 2
  BlockSize = 1
  MaxRead = 1
  MaxCache = 1
  Faults = {"fetch", "stream", "disk", "unsupported", "short"}
\* Streams that end early and whole-file fallbacks leave claims nobody fills:
\* a reader may then wait for ever.
CHECK_DEADLOCK FALSE
SYMMETRY Symmetric
INVARIANTS
  PoolTypeOK
  RemovedInTime
  PoolHoldsTheLive
