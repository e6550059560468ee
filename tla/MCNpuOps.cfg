SPECIFICATION Spec
CONSTANTS
  Operators = {"rms", "softmax", "silu", "gelu", "rope", "flash", "matmul"}
  RmsCols = 1
  RmsMiddle = 2
  RmsHidden = 4
  ActivationSize = 3
  JitSiluSize = 2
  SoftmaxDim = 2
  JitSoftmaxCols = 2
  RopePairs = 1
  FlashShape <- MCFlashShape
  MatmulShape <- MCMatmulShape
  Jit = TRUE
  Disks <- MCDisks
  System <- MCSystem
  Calls <- MCCalls
  Installable <- MCInstallable
  Junk = Junk
  Zero = Zero
  Tile = 2
  BakedEps = "baked"
  MaxHeads = 3
  MaxCalls = 2
  MaxRuns = 2
CHECK_DEADLOCK FALSE
INVARIANTS OkIsReference ErrorHasCause
PROPERTIES RouteIsFixed
