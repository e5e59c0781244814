\* Constants are model values; README.md explains the bounds.
CONSTANTS
  p1 = p1
  p2 = p2
  Proc = {p1, p2}
  MaxInits = 3
  MaxUpsets = 1
  MaxForeign = 1
  MaxLosses = 1
  MaxLines = 1
SYMMETRY Symmetry
SPECIFICATION Spec
INVARIANTS TypeOK SuccessIsWhole FailsForAReason
PROPERTIES VouchedSurvives
CHECK_DEADLOCK FALSE
