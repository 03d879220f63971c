SPECIFICATION SystemSpec
CONSTANTS
  Timer = {t1, t2}
  Timeout = {0, 1, 3}
  MaxWait = 2
  Producer = {p1, p2}
  PipeSize = 1
  ReadSize = 1
  MaxElapsed = 1
  Fd = {d1, d2}
  Sfd = {x1, x2, x3}
  None = None
  MaxHeld = 2
INVARIANTS
  NoLostWakeup
  WakesInTime
  DgramEvents
PROPERTIES
  DescriptorsServed
  TimersServed
  DatagramsRead
