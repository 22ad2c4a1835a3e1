CONSTANTS
  a = a
  b = b
  InitOp = InitOp
  FinalOp = FinalOp
  Window = 5000
  N = 4
  Programs <- LoopPrograms
SPECIFICATION Spec
INVARIANTS
  TypeOK
  HeldIsMerged
  Lossless
  ContextAgrees
  SameCallsShareNodes
