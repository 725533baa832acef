\* An append that fails half-way, then a crash.
CONSTANTS
  c1 = c1
  c2 = c2
  k1 = k1
  k2 = k2
  Keys = {k1}
  None = None
  Conns = {c1}
  Replicas = {}
  Shards <- OneShard
  Requests <- Overwrites
  Starts = {TRUE}
  Torn = TRUE
  ChanCap = 1
  MaxWrites = 3
  MaxFaults = 2
  MaxTime = 0
SPECIFICATION Spec
INVARIANTS AckedDurable
CHECK_DEADLOCK FALSE
