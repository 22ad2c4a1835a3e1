CONSTANTS
  a = a
  b = b
  Ops = {a, b}
  Vectors <- Arrays
  Window = 6
  MaxLen = 14
  MaxMixed = 7
  rank = 0
  InitOp = InitOp
SPECIFICATION Spec
CHECK_DEADLOCK FALSE
INVARIANTS
  TypeOK
  Lossless
  WellNested
  StandsForHistory
  ContextAgrees
  RegularLoopsFold
