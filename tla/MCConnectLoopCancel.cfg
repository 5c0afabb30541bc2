SPECIFICATION FairSpec
CONSTANTS
  c1 = c1
  c2 = c2
  c3 = c3
  Conns <- MCTwoConns
  HasFallback = TRUE
PROPERTY CancelledConnectReturns
CHECK_DEADLOCK FALSE
