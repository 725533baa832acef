\* One connection and an absolute deadline that is taken back or moved.
SPECIFICATION Spec
CONSTANTS
  k1 = k1
  k2 = k2
  Keys = {k1, k2}
  None = None
  Conns = {c1}
  Shards <- MCShards
  Requests <- Deadlines
  Loaded <- Nothing
  MaxRequests = 3
  MaxTime = 1
INVARIANTS ReplayKeepsKeys
