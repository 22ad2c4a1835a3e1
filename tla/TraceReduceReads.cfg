CONSTANTS
  a = a
  b = b
  InitOp = InitOp
  FinalOp = FinalOp
  Window = 5000
  N = 3
  Programs <- LoopPrograms
SPECIFICATION Spec
INVARIANTS
  ReplayReads
