SPECIFICATION Spec
CONSTANTS
  T = 2
  Shapes <- MCShapes
  MaxCalls = 3
CHECK_DEADLOCK FALSE
INVARIANTS TypeOK StagePadding ProductExact
