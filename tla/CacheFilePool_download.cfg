\* Two readers of one file whose last block is short; downloads fail.
SPECIFICATION Spec
CONSTANTS
  c1 = c1  c2 = c2  c3 = c3
  f1 = f1  f2 = f2  f3 = f3
  k1 = k1  k2 = k2
  NoFile = NoFile
  NoClient = NoClient
  Clients = {c1, c2}
  Files = {f1}
  Keys = {k1}
  Size = 3
  BlockSize = 2
  MaxRead = 2
  MaxCache = 1
  Faults = {"fetch", "stream"}
SYMMETRY Symmetric
INVARIANTS
  ReadsSource
  WaitersAreServed
