\* Values that one command of the dump does not bring back.
SPECIFICATION Spec
CONSTANTS
  I64_MAX = 7
  MAX_BULK_LEN = 6
  MAX_ARRAY_LEN = 6
  MAX_INLINE = 10
  Sessions <- DumpSessions
INVARIANTS DumpComplete
