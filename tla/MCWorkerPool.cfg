SPECIFICATION Spec
CONSTANTS
  Requests = {r1, r2, r3}
  Workers = {w1}
  MaxConns = 2
  None = None
INVARIANT TypeOK
INVARIANT CountIsExact
INVARIANT WaitIsExact
INVARIANT RunsIffAcked
PROPERTY ReadIsHandled
PROPERTY ShutdownEnds
CHECK_DEADLOCK FALSE
