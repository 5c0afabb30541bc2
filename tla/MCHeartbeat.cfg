SPECIFICATION Spec
CONSTANTS
  Interval = 4
  MaxLag = 3
  Horizon = 32
INVARIANT TypeOK
INVARIANT HealthyIsKept
INVARIANT SilenceIsNoticed
PROPERTY DeadGatewayEnds
PROPERTY GoroutinesEnd
CHECK_DEADLOCK FALSE
