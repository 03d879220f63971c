SPECIFICATION Spec
CONSTANTS
  Key = {1, 2, 3, 4, 5}
  Hash <- HashOf
  InitBuckets = 2
  MaxBuckets = 8
  None = None
INVARIANT
  IterationComplete


