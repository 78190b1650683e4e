\* A cancelled stream reports its tokens in a second final call.
SPECIFICATION Spec
CONSTANTS
  Requests = {r1}
  Notes = {n1}
  PoolSize = 1
  BufferSize = 4
  BatchSize = 2
  MaxRetry = 1
  Outcomes = {"cancelStream"}
  Faults = {}
INVARIANT TokensReachTheRow
CHECK_DEADLOCK FALSE
