CONSTANTS
  NullReq = NullReq
  Handles = {h1, h2, h3}
  Size = 3
  MaxCalls = 5
  MaxList = 2
SPECIFICATION SpecUntraced
INVARIANTS
  OffsetsNameTheirRequest
