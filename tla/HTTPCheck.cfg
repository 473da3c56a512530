SPECIFICATION FairSpec
CONSTANTS
  FallThreshold = 3
  RiseThreshold = 2
  MaxChecks = 7
CHECK_DEADLOCK FALSE
INVARIANTS HealthyIsHysteresis FirstVerdictInTime
PROPERTIES ImplementsPromise VerdictArrives CloseReturnsAtLast
