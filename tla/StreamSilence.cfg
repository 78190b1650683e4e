\* One stream whose upstream may fall silent.
SPECIFICATION Spec
CONSTANTS
  Requests = {r1}
  Endpoints = {e1}
  Streams = {r1}
  Offers <- MCOffers
  Budgets = {1}
  Rejects = {FALSE}
  MaxRevision = 1
  MaxRules = 1
  None = None
PROPERTIES GoneEnds
CHECK_DEADLOCK FALSE
