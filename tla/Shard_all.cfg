\* Types, expiry, accounting and eviction: entries of payload 1 do not both fit,
\* and a payload of 4 alone exceeds the budget.  No symmetry, which liveness
\* forbids.
CONSTANTS
  Keys = {k1, k2}
  None = None
  KeyLen <- MCKeyLen
  ENTRY_OVERHEAD = 1
  Sizes = {0, 1, 4}
  MaxTime = 1
  PROMOTE_THRESHOLD = 1
  FREQ_MAX = 2
  SMALL_PCT = 40
  MIN_GHOST = 1
  Budget = 5
  CollOps = {"push", "pop"}
  MaxRefs = 3
  MaxGhost = 3
SPECIFICATION FairSpec
INVARIANTS TypeOK PolicyTracksMap CountsExact LiveKeysQueued GhostSound BytesExact
INVARIANTS WithinBudget NoEmptyCollection PurgeValid
PROPERTIES ImplementsCache LockReleased
