SPECIFICATION SystemSpec
CONSTANTS
  Key = {1, 2, 3, 4, 5}
  Hash <- HashOf
  InitBuckets = 2
  MaxBuckets = 8
  None = None
  Keys = {1, 2, 3}
  Height = 2
  SpanMod = 4
INVARIANTS
  TableSound
  NothingMissed
  ListSound
PROPERTIES
  KeepsContract
  ListKeepsContract
