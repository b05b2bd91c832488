SPECIFICATION FairSpec
CONSTANTS
  Batches <- MCBatches
  MaxSleepRows = 2
INVARIANTS
  TypeOK
  GateProtectsTarget
  AtMostLastUnprotected
  HonestReport
PROPERTIES
  LateEffectOnlyOnFailed
  CancelledRequestEnds
