CONSTANTS
  Size = 3
  AnySource <- MinusOne
  ProcNull <- MinusTwo
  AnyTag <- MinusOne
  IntMax = 2147483647
  Jobs <- MCJobs
SPECIFICATION Spec
INVARIANT SameMessages
PROPERTY ReplayEnds
\* Replays end, and programs that lack a message do not.
CHECK_DEADLOCK FALSE
