SPECIFICATION SystemSpec
CONSTANTS
  Fd = {f1, f2}
  Sfd = {x1, x2, x3}
  None = None
  MaxByte = 3
  Number = {0, 1, 2}
  FD_SETSIZE = 2
INVARIANTS
  EventsReachTheirStream
  RegistrationsAgree
  InOrder
  WatchesOutput
PROPERTIES
  SelectSound

SYMMETRY Interchangeable
CHECK_DEADLOCK FALSE
