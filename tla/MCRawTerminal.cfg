SPECIFICATION Spec
CONSTANTS
  MaxBytes = 3
  MaxMessage = 2
  RxSize = 1
  MaxClients = 2
  RxLimits = {1, 2}
  Typing <- MCTyping
  Requests <- MCRequests
  MaxPosts = 1
  MaxUser = 2
  MaxTyping = 5
  Both = FALSE
INVARIANTS
  ViewIsTruthful
  SentIsTyped
  FramesAreReadBack
PROPERTIES
  ClientIsServed
CHECK_DEADLOCK FALSE
