SPECIFICATION Spec
CONSTANTS
  a = a
  b = b
  e = e
  NoRow = NoRow
  Token <- MCToken
  Row <- MCRow
  Eos = e
  Weights <- MCLateWeights
  Greedy <- MCGreedy
  Prompts <- MCHalfThePrompts
  MaxPrompt = 3
  NLayers = 2
  NCtx = 5
  MaxTokens = 3
  PrefillChunk = 2
  SpecDecode = TRUE
  SpecK = 2
  NgramMin = 1
  NgramMax = 3
  MatmulMayFail = TRUE
CHECK_DEADLOCK FALSE
INVARIANTS IInv OutputIsGreedy CacheHoldsSequence Accounting
PROPERTIES CommittedRowsStay ImplementsSequential Terminates
