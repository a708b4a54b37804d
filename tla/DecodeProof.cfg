CONSTANTS
  P = 11
  DiffBits = 2
  Logit <- MCLogit
  RATE = 2
  Vectors <- MCVectors
  Salts = {"s"}
SPECIFICATION Spec
INVARIANTS
  TypeOK
  Sound
  Complete
  SizeBound
CHECK_DEADLOCK FALSE
