SPECIFICATION Spec
CONSTANTS
  w1 = w1
  w2 = w2
  None = None
  Program <- MixedProgram
  Workers <- MCWorkers
  Transports = {"http"}
  Redeploys = FALSE
  MaxFailures = 1
INVARIANT StepErrorIsReported
CHECK_DEADLOCK FALSE
