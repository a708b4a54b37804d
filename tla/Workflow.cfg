CONSTANTS
  Proc = {p1, p2}
  Model = {m1, m2}
  MaxCommands = 5
  MaxOverlaps = 1
  MaxAccidents = 2
SPECIFICATION Spec
SYMMETRY Symmetry
INVARIANTS
  AcceptedModel
  OrderlyAccepted
  TraceFirst
CHECK_DEADLOCK FALSE
