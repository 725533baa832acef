\* Four keys under every hash function into 0..7, a table of 4 slots that grows
\* to 8 at three entries.
CONSTANTS
  Keys = {k1, k2, k3, k4}
  None = None
  Vals = {1, 2}
  MaxHash = 7
  MIN_CAP = 4
  LOAD_NUM = 3
  LOAD_DEN = 4
SYMMETRY KeySymmetry
SPECIFICATION Spec
INVARIANTS HeldOnce LookupFindsStored NeverFull ShiftInvariant
PROPERTIES CallsMeetContract LoopsAdvance
