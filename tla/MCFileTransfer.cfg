SPECIFICATION FTSpec
CONSTANTS
  NFrames = 4
  IdxMod = 3
  MaxRetry = 3
  MaxNoise = 1
  MaxSync = 2
  MaxTransfers = 2
INVARIANTS
  StoredIsPrefix
  SuccessIsDelivered
  CompleteIsWhole
PROPERTIES
  TransferEnds
CHECK_DEADLOCK FALSE
