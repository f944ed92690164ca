SPECIFICATION FairSpec
CONSTANTS
  Limit = 2
  MaxChunk = 2
  MaxOutput = 6
  MaxStarts = 2
PROPERTIES
  StopReturns
