CONSTANTS
  Sub = 4
  Exact = 8
  QMax = 15
  Infinity = 1000
  NPositions = 2
  NLayers = 2
  Dim = 1
  RawAt <- MCRawAt
  LogitRows <- MCLogitRows
  MaxDamages = 1
SPECIFICATION Spec
INVARIANTS
  TypeOK
  OpeningBinds
  HonestOpens
  ConsumedIsCommitted
