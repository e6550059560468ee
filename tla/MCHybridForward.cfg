SPECIFICATION Spec
CONSTANTS
  Models <- MCModels
  Tokens <- MCTokens
  Prompts <- MCPrompts
  Eos = "b"
  NCtx = 5
  MaxTokens = 4
  PrefillChunk = 2
  MaxLayers = 4
  BatchPrefill = TRUE
CHECK_DEADLOCK FALSE
INVARIANTS OutputIsWhole MemoriesMatchPosition
