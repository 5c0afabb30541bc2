SPECIFICATION FairSpec
CONSTANTS
  w1 = w1
  w2 = w2
  None = None
  Program <- JoiningProgram
  Workers <- MCWorkers
  Transports = {"connect", "stream"}
  Redeploys = TRUE
  MaxFailures = 1
PROPERTY Finishes
CHECK_DEADLOCK FALSE
