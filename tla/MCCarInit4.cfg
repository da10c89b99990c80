SPECIFICATION FairSpec
CONSTANTS
  r1 = r1
  r2 = r2
  r3 = r3
  r4 = r4
  Fingerprints = {1, 2}
  SupportedSizes = {2, 4, 6, 8}
  Ranks <- FourRanks
  FailurePoints <- FailureSteps
INVARIANTS EnabledMapped NothingLeft
PROPERTY EveryRankDecides
