SPECIFICATION Spec
CONSTANTS
  MaxConfigs = 2
CHECK_DEADLOCK FALSE
INVARIANTS JudgedAsConfigured
