SPECIFICATION FairSpec
CONSTANTS
  c1 = c1
  c2 = c2
  c3 = c3
  k1 = k1
  NotCached = NotCached
  Nobody = Nobody
  MaxVersion = 2
  Callers <- MCCallers
  Keys <- MCKeys
INVARIANTS
  TypeOK
  LoadedOnce
  AnswersAgree
  WaitersHaveFlight
PROPERTIES
  CancelledCallReturns
