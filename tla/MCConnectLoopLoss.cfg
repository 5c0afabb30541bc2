SPECIFICATION Spec
CONSTANTS
  c1 = c1
  c2 = c2
  c3 = c3
  Conns <- MCTwoConns
  HasFallback = TRUE
PROPERTY LossIsRetried
CHECK_DEADLOCK FALSE
