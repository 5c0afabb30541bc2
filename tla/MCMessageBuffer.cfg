SPECIFICATION FairSpec
CONSTANTS
  r1 = r1
  r2 = r2
  f1 = f1
  f2 = f2
  None = None
  ZeroId = ZeroId
  Requests <- MCRequests
  Flushers <- MCFlushers
  Versions <- MCOneVersion
INVARIANT TypeOK
INVARIANT NoReplyLost
INVARIANT FlushIsExact
PROPERTY AtLeastOnceSpec
PROPERTY PendingResolves
CHECK_DEADLOCK FALSE
