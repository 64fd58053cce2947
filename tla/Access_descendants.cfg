\* The run of Paths.cfg, with what a comment of the resolver's tests says.
SPECIFICATION PartSpec
CONSTANTS
  drv = drv  dir = dir  mnt = mnt  one = one  two = two
  Drives = {drv}
  Names = {drv, dir, mnt, one, two}
  MaxMountDepth = 2
  MountClients = {c1, c2}
  MountCalls <- MountAsks
  FirstFiles <- MountFiles
  FirstRows <- MountRows
  MaxMountCalls = 3
  Places <- SomePlaces
  MetaPlaces <- MetaPlacesOf
  MetaCalls = {k1, k2}
  Groups = {"group", "team"}
  Rules <- SomeRules
  Saved <- SomeSaved
  MaxSaves = 2
  Jail <- SomeJail
  Admins = {c1, c2}
  Visits = {s1, s2}
  MaxFailure = 1
  MaxCrashes = 1
INVARIANT DescendantsSatisfy
CHECK_DEADLOCK FALSE
