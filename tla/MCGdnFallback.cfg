SPECIFICATION LayerSpec
CONSTANTS
  LayerRequests = {r1, r2}
  Zero = Zero
  Junk = Junk
  NumLines = 3
  Tuning <- TuningValue
  Layers <- LayersValue
  MaxTokens = 4
  MaxAdmissions = 2
  CaptureSizes = {1, 3}
  FallbackMayRaise = TRUE
SYMMETRY Symmetry
INVARIANTS
  GeneralPathTakesOver
CHECK_DEADLOCK FALSE
