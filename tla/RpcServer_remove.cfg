SPECIFICATION Spec
CONSTANTS
  Type = {t1, t2}
  None = None
  MaxSession = 2
  MaxRequest = 2
PROPERTY
  RemovedMethodsIgnored

CHECK_DEADLOCK FALSE
