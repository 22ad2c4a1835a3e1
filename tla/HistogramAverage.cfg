CONSTANTS
  Ranks = {r1, r2, r3}
  Values = {0, 60, 90, 120, 150, 210}
  Unit = 60
  MaxElems = 6
SPECIFICATION Spec
SYMMETRY Symmetry
CHECK_DEADLOCK FALSE
INVARIANTS
  AverageTrue
