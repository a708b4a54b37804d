CONSTANTS
  U64 = 1024
  DefaultAlignment = 4
  MaxCount = 3
  MaxItems = 2
  AlignmentKey = 0
  Values <- MCValues
  Depth <- MCDepth
  Models <- MCModels
  Foreign <- MCForeign
SPECIFICATION ModelSpec
INVARIANTS
  ExactByteLen
