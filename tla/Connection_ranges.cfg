\* Ranks before, in and behind a sorted set.
SPECIFICATION Spec
CONSTANTS
  I64_MAX = 7
  MAX_BULK_LEN = 6
  MAX_ARRAY_LEN = 6
  MAX_INLINE = 10
  Sessions <- RangeSessions
INVARIANTS ZrangeInclusive
