CONSTANTS
  Size = 3
  Handles = {h1, h2}
  NullHandle = NullHandle
  Self = Self
  World = World
  MaxCalls = 5
SPECIFICATION Spec
SYMMETRY Symmetry
CHECK_DEADLOCK FALSE
INVARIANTS
  LostOnlyByOverflow
  SameCommunicator
