SPECIFICATION Spec
CONSTANTS
  r1 = r1
  r2 = r2
  f1 = f1
  f2 = f2
  None = None
  ZeroId = ZeroId
  Requests <- MCRequests
  Flushers <- MCFlushers
  Versions <- MCOneVersion
PROPERTY AckedIsNotBuffered
CHECK_DEADLOCK FALSE
