SPECIFICATION Spec
CONSTANTS
  c1 = c1
  c2 = c2
  c3 = c3
  Conns <- MCTwoConns
  HasFallback = TRUE
PROPERTY ReconnectsUnderLiveContext
CHECK_DEADLOCK FALSE
