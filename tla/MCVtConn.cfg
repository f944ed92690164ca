SPECIFICATION FairSpec
CONSTANTS
  MaxConns = 2
  MaxBytes = 2
  MaxTail = 1
  MaxTotal = 3
INVARIANTS
  SingleReader
  BytesAccounted
  ShownInOrder
  ImageIsTruthful
PROPERTIES
  DeathDropsOnlyTail
  StopReturns
  ScreenCatchesUp
  DeathIsShown
CHECK_DEADLOCK FALSE
