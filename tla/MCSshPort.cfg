SPECIFICATION FairSpec
CONSTANTS
  Limit = 3
  MaxChunk = 3
  MaxOutput = 9
  MaxStarts = 2
INVARIANTS
  ThreadInv
PROPERTIES
  ProducerResumes
  StopReturnsWithRoom
  EndIsReported
