CONSTANTS
  Scenarios <- AllScenarios
  MaxChunk = 2
  MaxTyped = 3
SPECIFICATION MCSpec
INVARIANTS   
  DispatchIsOwn HandledIsReached ShownIsTyped
CHECK_DEADLOCK FALSE
