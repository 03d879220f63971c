SPECIFICATION Spec
CONSTANTS
  Upstream = {u1, u2}
  Request = {r1, r2}
  None = None
  MaxRetry = 1
  RRMod = 2
  MaxDelay = 2
  PenaltyLife = 1
INVARIANTS
  TypeOK
  Ownership
  FreshIds
  AnswersMatch
  LiveCallsAreTimed
  OneSocket
  ArraySound
PROPERTIES
  KeepsContract

SYMMETRY Interchangeable
CHECK_DEADLOCK FALSE
