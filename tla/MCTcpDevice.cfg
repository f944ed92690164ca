SPECIFICATION FairSpec
CONSTANTS
  MaxConns = 2
  MaxBytes = 3
  kBufferSize = 2
INVARIANTS
  ThreadInv
  StreamInv
PROPERTIES
  ReadIsNeverShort
  ImplementsByteStream
  StopReturns
  FailureIsReported
  BytesArrive
