SPECIFICATION Spec
CONSTANTS
  App = {a1, a2, a3}
  NoApp = NoApp
  Server = {s1, s2}
  Address = {l1, l2}
  Weight = {1}
CHECK_DEADLOCK FALSE
INVARIANTS TypeOK FlagsExact OpenIffOwned AlwaysServed CleanAtRest
PROPERTIES ServersCounted ListenersCounted
