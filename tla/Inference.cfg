CONSTANTS
  Token = {1, 2}
  NLayers = 2
  MaxPositions = 3
  MaxSessions = 2
  MaxReexec = 2
SPECIFICATION Spec
INVARIANTS
  TypeOK
  CapturedFromPrefix
  ReexecutionAgrees
  LogitsFromLastExit
