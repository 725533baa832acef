\* Two writers of a key each, with and without an AOF, and a replica: appends that
\* fail either way, crashes, restarts and lost connections, two of them at any
\* points; fair threads and a replica that reads, whose socket holds one command.
CONSTANTS
  c1 = c1
  c2 = c2
  k1 = k1
  k2 = k2
  Keys = {k1, k2}
  None = None
  Conns = {c1, c2}
  Replicas = {r1}
  Shards <- TwoShards
  Requests <- OwnKeys
  Starts = {TRUE, FALSE}
  Torn = FALSE
  ChanCap = 1
  MaxWrites = 2
  MaxFaults = 2
  MaxTime = 1
SPECIFICATION FairSpec
INVARIANTS TypeOK LogMatchesStore AckedDurable ReplicaConverges
PROPERTIES WritesAnswered ReplicasCatchUp
CHECK_DEADLOCK FALSE
