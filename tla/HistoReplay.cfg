CONSTANTS
  Size = 3
  Limit = 2
  TestEvery = 2
  MaxTime = 1
  Traces = {"lossy", "comms", "exchange"}
  Jobs <- MCJobs
SPECIFICATION FairSpec
INVARIANTS TypeOK DuePosted ReceivesMatch BuffersSafe Applicable
PROPERTY ReplayEnds
\* The replay ends.
CHECK_DEADLOCK FALSE
