SPECIFICATION FairSpec
CONSTANTS
  MaxConfigs = 4
CHECK_DEADLOCK FALSE
INVARIANTS TypeOK NoCheckLost InstalledIsTold
PROPERTIES ClosedStopsChecks VerdictsAreUsed
