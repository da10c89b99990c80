SPECIFICATION LayerSpec
CONSTANTS
  LayerRequests = {r1, r2}
  Zero = Zero
  Junk = Junk
  NumLines = 3
  Tuning <- TuningValue
  Layers <- LayersValue
  MaxTokens = 5
  MaxAdmissions = 3
  CaptureSizes = {1, 3}
  FallbackMayRaise = FALSE
SYMMETRY Symmetry
INVARIANTS
  TypeOK
  StatesAreTheRequests
  OutputsAreTheRequests
CHECK_DEADLOCK FALSE
