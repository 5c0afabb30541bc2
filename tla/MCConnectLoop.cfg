SPECIFICATION FairSpec
CONSTANTS
  c1 = c1
  c2 = c2
  c3 = c3
  Conns <- MCConns
  HasFallback = TRUE
INVARIANT TypeOK
INVARIANT OneActive
INVARIANT Supervised
INVARIANT NoStaleKey
INVARIANT ConnectOkMeansEstablished
INVARIANT ClosedIsFinal
PROPERTY CloseTerminates
PROPERTY FailureIsNoticed
PROPERTY GivesUpOrReconnects
CHECK_DEADLOCK FALSE
