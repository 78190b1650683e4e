\* Two requests share an endpoint; the stream has a second candidate. The last three
\* constants are of the answers: one block, three events.
SPECIFICATION MCSpec
CONSTANTS
  Requests = {r1, r2}
  Endpoints = {e1, e2}
  Streams = {r1}
  Offers <- MCOffers
  Budgets = {1, 2}
  Rejects = {TRUE, FALSE}
  MaxRevision = 1
  MaxRules = 2
  None = None
  e1 = e1
  Values = {1, 2}
  Capacity = 2
  TTL = 1
  MaxTime = 2
  MaxRecords = 4
  Blocks = {0}
  Usages <- MCUsages
  MaxEvents = 3
INVARIANTS
  AtMostOnce
  GateMatchesWaiter
  NothingHeld
  EffortIsBounded
  
  
CHECK_DEADLOCK FALSE
