\* Every part comes to rest when its bound is met.
SPECIFICATION PartSpec
CONSTANTS
  Copiers = {c1, c2}
  CopyFiles = {"f", "g"}
  MaxStrokes = 3
  Modes = {"read", "edit", "create"}
  Contents <- SomeContents
  Listings <- SomeListings
  Offsets <- SomeOffsets
  MaxCalls = 6
  FileNames = {f, g}
  Dir = Dir
  Requests = {c1, c2}
  Backends = {"ftp", "sftp", "s3", "gdrive", "onedrive", "webdav"}
  DbBackends = {"ftp"}
  MaxStarts = 2
  Grantors = {a1}
  Sources = {f, g}
  Clients = {c1, c2}
  MaxTokens = 3
  MaxPages = 2
  Owned = {"d"}
  Editors = {c1, c2}
  FormOf <- SomeForms
  Typed = {"p1", "p2"}
  MaxEdits = 3
  DriveNames = {n1, n2}
  Writers = {w1, w2}
  Reloaders = {r1}
  MaxReloads = 2
  Callers = {k1, k2}
  VMs = {v1, v2}
  MaxIdle = 1
INVARIANTS
  CacheHolds TokensHold CopyHolds FileHolds ReloadHolds ScriptHolds
PROPERTY SecretsHold
SYMMETRY Symmetry
CHECK_DEADLOCK FALSE
