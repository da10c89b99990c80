SPECIFICATION Spec
CONSTANTS
  Requests = {r1, r2}
  Slots = {1, 2}
  ParamChoices <- ParamChoicesValue
  GumbelMinRows = 2
  UnfilteredMinRows = 2
  UnfilteredMinOffset = 1
  PrivateLimit = 3
  ProcessSeed = 0
  MaxAdds = 3
  MaxSteps = 2
SYMMETRY Symmetry
INVARIANTS
  HonoursParams
  StreamsAreOwn
  NoiseUsedOnce
CHECK_DEADLOCK FALSE
