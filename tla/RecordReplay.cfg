CONSTANTS
  NullReq = NullReq
  Handles = {h1, h2, h3}
  Size = 2
  MaxCalls = 5
  MaxList = 2
SPECIFICATION Spec
INVARIANTS
  IInv
  OffsetsNameTheirRequest
  NoBufferFreedInFlight
  AllReclaimed
  LostOnlyByOverflow
PROPERTIES
  ReplayMakesRecordedCalls
  ReplayCompletes
