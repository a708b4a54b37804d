CONSTANTS
  Shape <- MCShape
  K = {0, 1, 2, 5}
  Nonce = {n1, n2}
  MaxCells = 2
  MaxWrong = 1
SPECIFICATION Spec
SYMMETRY Symmetry
INVARIANTS
  TypeOK
  AcceptedChecked
  RejectedIsOff
  AuditExact
