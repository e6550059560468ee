SPECIFICATION Spec
CONSTANTS
  Starts <- MCStarts
  Grid <- MCGrid
  Columns = {1, 6}
  Chunk = 64
  SizeMod = 1000000
CHECK_DEADLOCK FALSE
INVARIANTS FileIsWhatWasWritten TensorDataIsWhereWritten CacheFitsLoop
           NpuWeightsAreWritten RowsAreWritten LogitsAreProducts
