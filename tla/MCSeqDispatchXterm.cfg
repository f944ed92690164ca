CONSTANTS
  Scenarios <- XtermTable
  MaxChunk = 1
  MaxTyped = 0
SPECIFICATION MCSpec
INVARIANTS DispatchIsOwn
CHECK_DEADLOCK FALSE
