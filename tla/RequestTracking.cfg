\* Two requests, one of which may not fit into the pool, short channels, batches
\* of two, failed writes, expiry. One change of prices or rates; three calls about the
\* prices of models; two zones and two days.
SPECIFICATION MCSpec
CONSTANTS
  Requests = {r1, r2}
  Notes = {n1}
  PoolSize = 1
  BufferSize = 1
  BatchSize = 2
  MaxRetry = 2
  Outcomes = {"cancelStream"}
  Faults = {"write","expire"}
  Models = {"m", "x", ""}
  Overrides = {0, 7}
  MaxChanges = 1
  PricedModels = {"_default", "opus", "gpt", "mine"}
  Prices = {1, 2}
  Ensured = {"gpt"}
  EnsuredPrice = 4
  MaxCalls = 3
  MaxFaults = 1
  MaxRestarts = 1
  Zones = {"utc", "local"}
  Initial = "utc"
  SummaryDays = 2
  MaxRequests = 2
  MaxReloads = 2
  MaxCleanups = 1
  MinChunk = 1
  MaxChunk = 2
  DayLength = 4
  Window = 8
  LastDay = 2
SYMMETRY Symmetry
INVARIANTS
  CommitBarrier
  SentUpdatesHaveRow
  ArchivedOnce
  
  
  QueriesAreRight

  
CHECK_DEADLOCK FALSE
