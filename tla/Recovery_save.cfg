\* One saver among writes, a crash at any point, any choice of --appendonly.
CONSTANTS
  k1 = k1
  k2 = k2
  Keys = {k1, k2}
  None = None
  Shards <- TwoShards
  Savers = {s1}
  Starts = {TRUE, FALSE}
  MaxWrites = 3
  MaxSaves = 2
  MaxCrashes = 2
SPECIFICATION Spec
INVARIANTS SnapshotWhole SaveRecoverable
CHECK_DEADLOCK FALSE
