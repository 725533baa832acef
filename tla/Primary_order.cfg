\* Two writers of one key.
CONSTANTS
  c1 = c1
  c2 = c2
  k1 = k1
  k2 = k2
  Keys = {k1}
  None = None
  Conns = {c1, c2}
  Replicas = {}
  Shards <- OneShard
  Requests <- SharedKey
  Starts = {TRUE}
  Torn = FALSE
  ChanCap = 1
  MaxWrites = 2
  MaxFaults = 0
  MaxTime = 0
SPECIFICATION Spec
INVARIANTS LogMatchesStore
CHECK_DEADLOCK FALSE
