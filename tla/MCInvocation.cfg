SPECIFICATION Spec
CONSTANTS
  w1 = w1
  w2 = w2
  None = None
  Program <- MixedProgram
  Workers <- MCWorkers
  Transports = {"http", "stream", "connect"}
  Redeploys = TRUE
  MaxFailures = 1
SYMMETRY Symmetry
INVARIANT TypeOK
INVARIANT RunsOnce
INVARIANT OneStepPerRequest
INVARIANT OwnResult
INVARIANT ParallelJoins
INVARIANT NoRetryIsFinal
PROPERTY DurableRunSpec
CHECK_DEADLOCK FALSE
