SPECIFICATION Spec
CONSTANTS
  t1 = t1
  t2 = t2
  t3 = t3
  parent = parent
  child = child
  Process = {parent, child}
  Thread = {t1, t2, t3}
  Root = parent
  ProcessOf <- Owner
  RotateSize = 1
  Stamps = 2
  MaxCall = 4
  None = None
INVARIANT
  NothingOverwritten

CHECK_DEADLOCK FALSE
