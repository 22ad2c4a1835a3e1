CONSTANTS
  Size = 3
  Limit = 2
  TestEvery = 2
  MaxTime = 1
  Traces = {"split"}
  Jobs <- MCJobs
SPECIFICATION Spec
INVARIANT Applicable
\* The replay ends.
CHECK_DEADLOCK FALSE
