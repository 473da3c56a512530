SPECIFICATION Spec
CONSTANT Shapes <- MCShapes
CONSTANT Tables <- MCTrailingTables
CHECK_DEADLOCK FALSE
INVARIANT RestrictionsDecide
