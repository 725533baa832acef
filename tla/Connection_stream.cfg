\* Every cut of each stream; i64 ends at 7, a command has at most 6 arguments.
SPECIFICATION Spec
CONSTANTS
  I64_MAX = 7
  MAX_BULK_LEN = 6
  MAX_ARRAY_LEN = 6
  MAX_INLINE = 10
  Sessions <- MCSessions
INVARIANTS SplitIndependent RepliesDecode FastPathAgrees AofReplays DumpReplays CollectionsSound RangesCorrect PatternsCorrect
PROPERTIES ReadOnlyKept
