SPECIFICATION Spec
CONSTANTS
  q1 = q1
  q2 = q2
  q3 = q3
  q4 = q4
  u = u
  NoPtr = NoPtr
  Weights = {q1, q2, q3, u}
  Kind <- MCKind
  Ptr <- MCPtr
  N <- MCN
  K <- MCK
  Heights = {1, 3}
  SmallM = 1
  TileM = 2
  TileN = 2
  WideN = 4
  TileK = 2
  DeepK = 4
  Built = {"small", "deep", "wide"}
  ResidentW = TRUE
  BatchSize = 3
  SubmitMayThrow = TRUE
  MaxCalls = 2
CHECK_DEADLOCK FALSE
INVARIANTS ProductExact
PROPERTIES OperandsStay CallReturns
