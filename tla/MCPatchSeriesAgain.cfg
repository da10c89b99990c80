SPECIFICATION BuildSpec
CONSTANTS
  Locations = {"x", "y"}
  Contents = {0, 1, 2}
  PatchCount = 2
  MaxRuns = 3
PROPERTY Idempotent
CHECK_DEADLOCK FALSE
