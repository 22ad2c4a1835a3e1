CONSTANTS
  N = 6
SPECIFICATION Spec
INVARIANTS
  NoneTwice
  NoneLost
  AfterTheProgram
PROPERTIES
  Completes
CHECK_DEADLOCK FALSE
