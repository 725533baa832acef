SPECIFICATION Spec
CONSTANTS
  k1 = k1
  k2 = k2
  Keys = {k1, k2}
  None = None
  Conns = {c1, c2}
  Shards <- MCShards
  Requests <- MCRequests
  Loaded <- MCLoaded
  MaxRequests = 2
  MaxTime = 2
SYMMETRY Symmetric
INVARIANTS TypeOK KeysReported FlushComplete PersistComplete LogReplays
PROPERTIES ExpireFlagsKept
