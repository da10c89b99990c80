SPECIFICATION Spec
CONSTANTS
  MaxTokens = 2
  TopK = 2
  NumExperts = 3
  BlockM = 2
  SlotsPerBlock = 2
INVARIANTS TypeOK RowsApart BlocksUniform TokensReachTheirExperts
