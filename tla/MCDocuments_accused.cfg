SPECIFICATION Spec
CONSTANTS
  r1 = r1
  r2 = r2
  None = None
  Reader = {r1, r2}
  MaxRow = 1
SYMMETRY Symmetry
INVARIANTS FailMeansChanged
CHECK_DEADLOCK FALSE
