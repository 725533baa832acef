\* Two connections that save.
CONSTANTS
  k1 = k1
  k2 = k2
  Keys = {k1, k2}
  None = None
  Shards <- TwoShards
  Savers = {s1, s2}
  Starts = {FALSE}
  MaxWrites = 1
  MaxSaves = 2
  MaxCrashes = 0
SPECIFICATION Spec
INVARIANTS SnapshotWhole
CHECK_DEADLOCK FALSE
