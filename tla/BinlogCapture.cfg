SPECIFICATION FairSpec
CONSTANTS
  Me <- MCMe
  Others <- MCOthers
  MaxRows = 2
  MaxEvents = 13
  MaxFile = 2
  SizeLimit = 4
  PosLimit = 6
INVARIANTS
  OnlyOwnRows
  NoOwnRowSkipped
  CompleteOnSuccess
PROPERTIES
  CollectReturns
