SPECIFICATION SystemSpec
CONSTANTS
  InitCapacity = 2
  ShrinkCapacity = 4
  ByteMod = 6
  MaxDemand = 5
  None = None
  Timer = {t1, t2, t3, t4, t5, t6}
  Expiry = {0, 1, 2, 3}
  Address = {n1, n2, n3}
  Value = {a, b}
INVARIANTS
  InBounds
  MemoryFollows
  QueuesSound
PROPERTIES
  KeepsContract
  KeepsContracts
SYMMETRY Interchangeable
