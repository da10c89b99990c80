SPECIFICATION FairSpec
CONSTANTS
  r1 = r1
  r2 = r2
  Ranks = {r1, r2}
  FlagModulus = 4
  MaxRounds = 7
INVARIANTS NoEarlyPass FlagNotOverwritten BarrierInv
PROPERTIES AbstractSpec EveryRoundCompletes
