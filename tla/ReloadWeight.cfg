SPECIFICATION Spec
CONSTANTS
  App = {a1, a2}
  NoApp = NoApp
  Server = {s1}
  Address = {l1}
  Weight = {1, 2}
CHECK_DEADLOCK FALSE
INVARIANTS WeightAsConfigured
