SPECIFICATION SystemSpec
CONSTANTS
  Type = {t1, t2}
  None = None
  MaxSession = 2
  MaxRequest = 2
  Messages = 2
  BodyLen = {0, 2, 24}
  Upstream = {u1}
  Request = {r1, r2}
  MaxRetry = 1
  RRMod = 2
  MaxDelay = 2
  PenaltyLife = 1
INVARIANTS
  AnswersGoHome
  OncePerRequest
  WireSound
PROPERTIES
  RequestsParsed
  CallCompletes

CHECK_DEADLOCK FALSE
