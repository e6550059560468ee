SPECIFICATION Spec
CONSTANTS
  a = a
  b = b
  e = e
  NoRow = NoRow
  Token <- MCToken
  Row <- MCRow
  Eos = e
  Weights <- MCWeights
  Greedy <- MCGreedy
  Prompts <- MCPrompts
  MaxPrompt = 3
  NLayers = 2
  NCtx = 5
  MaxTokens = 6
  PrefillChunk = 2
  SpecDecode = TRUE
  SpecK = 2
  NgramMin = 1
  NgramMax = 3
  MatmulMayFail = FALSE
CHECK_DEADLOCK FALSE
INVARIANTS BlockFitsContext
