CONSTANTS
  Shape <- MCShape
  MaxK = 4
  MaxSize = 7
  Modulus = 8
SPECIFICATION FairChallenge
INVARIANTS
  ChallengeTypeOK
  CellsInSpace
  DistinctCells
  FullAudit
  BoundAnswerable
PROPERTIES
  DerivationEnds
