SPECIFICATION FairSpec
CONSTANT Shapes <- MCShapes
CONSTANT Tables <- MCTables
CHECK_DEADLOCK FALSE
INVARIANTS TypeOK KeptMeansClean RestrictionsDecide
PROPERTIES KeptIsLeftAlone ImplementsExchange TimeoutEnds NothingLeftBehind
