SPECIFICATION Spec
CONSTANTS
  Key = {1, 2, 3, 4}
  Height = 2
  SpanMod = 5
  None = None
INVARIANTS
  RanksFit
