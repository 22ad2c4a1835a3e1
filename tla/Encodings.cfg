CONSTANTS
  Ranks = {0, 1, 2, 3, 4, 5, 6, 7}
  Sizes = {1, 2, 3, 4}
  Keys <- OtherKeys
  AnySource <- MinusOne
  ProcNull <- MinusTwo
  IntMax <- MaxInt
  Width <- OpenMPIWidth
  MaxMsgBytes = 3072
  Lengths = {0, 1, 2, 756}
  Recorders = {r1, r2, r3}
  Values = {0, 60, 90, 120, 150, 210}
  Unit = 60
  MaxElems = 6
SPECIFICATION EncSpec
SYMMETRY Symmetry
\* Every behaviour ends.
CHECK_DEADLOCK FALSE
INVARIANTS
  ListsExact
  PeersKept
  RoundTrip
  ValuesKept
  BinsHoldTheirValues
  ExtremesKept
  DrawsSpanTheValues
