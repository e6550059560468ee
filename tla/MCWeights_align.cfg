SPECIFICATION Spec
CONSTANTS
  Starts <- MCAlignedStarts
  Grid <- MCGrid
  Columns = {1, 6}
  Chunk = 64
  SizeMod = 1000000
CHECK_DEADLOCK FALSE
INVARIANTS AlignmentIsRead
