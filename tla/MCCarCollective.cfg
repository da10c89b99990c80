SPECIFICATION FairSpec
CONSTANTS
  r1 = r1
  r2 = r2
  Ranks <- TwoRanks
  MaxGrid = 2
  MaxOps = 2
INVARIANTS TypeOK ResultCorrect
PROPERTIES StagingNotOverwritten ScratchNotOverwritten AllComplete
