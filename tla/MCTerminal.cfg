CONSTANTS
  Scenarios <- MCScenarios
SPECIFICATION Spec
INVARIANTS ScreenShape CursorOnLine PrintedIsShown
PROPERTIES ResizeKeepsText SelectionFollowsText OutsideRegionKept AlternateKept
CHECK_DEADLOCK FALSE
