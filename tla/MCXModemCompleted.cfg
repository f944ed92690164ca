SPECIFICATION Spec
CONSTANTS
  NFrames = 3
  IdxMod = 3
  MaxRetry = 3
  MaxNoise = 2
  MaxSync = 1
  MaxTransfers = 1
INVARIANTS
  CompletedIsWhole
CHECK_DEADLOCK FALSE
