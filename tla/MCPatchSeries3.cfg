SPECIFICATION BuildSpec
CONSTANTS
  Locations = {"x", "y"}
  Contents = {0, 1, 2}
  PatchCount = 3
  MaxRuns = 3
INVARIANTS DoneIsPatched
PROPERTIES FreshBuildClean ConflictOnlyWhereShared
CHECK_DEADLOCK FALSE
