CONSTANT Scenarios <- CursorScenarios
SPECIFICATION Spec
INVARIANT CursorOnCell
CHECK_DEADLOCK FALSE
