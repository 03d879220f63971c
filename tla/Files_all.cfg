SPECIFICATION SystemSpec
CONSTANTS
  t1 = t1
  t2 = t2
  t3 = t3
  parent = parent
  child = child
  Process = {parent, child}
  Thread = {t1, t2, t3}
  Root = parent
  ProcessOf <- Owner
  RotateSize = 1
  Stamps = 1
  MaxCall = 4
  None = None
  Name = {1, 2}
  Value <- Numbers
  MaxLines = 2
  IntHalf = 4
  LongHalf = 8
  MaxLen = 6
INVARIANTS
  Exclusive
  WritesNotStale
  SizeBounded
  LocksAreHeld
  ConfigSound
  ReadAsDocumented

SYMMETRY Interchangeable
CHECK_DEADLOCK FALSE
