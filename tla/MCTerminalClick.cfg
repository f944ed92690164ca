CONSTANT Scenarios <- ClickScenarios
SPECIFICATION Spec
INVARIANT DoubleClickTakesWord
CHECK_DEADLOCK FALSE
