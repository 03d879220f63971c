SPECIFICATION Spec
CONSTANTS
  Upstream = {u1}
  Request = {r1, r2}
  None = None
  MaxRetry = 1
  RRMod = 2
  MaxDelay = 2
  PenaltyLife = 1
INVARIANT
  NoUseAfterClose

CHECK_DEADLOCK FALSE
