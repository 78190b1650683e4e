\* One request; the privacy rules change while it waits for its 429 retry.
SPECIFICATION Spec
CONSTANTS
  Requests = {r1}
  Endpoints = {e1, e2}
  Streams = {r1}
  Offers <- MCOffers
  Budgets = {2}
  Rejects = {FALSE}
  MaxRevision = 1
  MaxRules = 2
  None = None
PROPERTIES PolicyIsFinal
CHECK_DEADLOCK FALSE
