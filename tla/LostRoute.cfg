\* One call that fixes the route, then one start that cannot read the endpoints.
SPECIFICATION Spec
CONSTANTS
  Endpoints = {e1, e2}
  MayMissSync = TRUE
  MaxCalls = 2
  MaxFaults = 1
  MaxRestarts = 1
PROPERTIES ReadFailureKeepsRoute
CHECK_DEADLOCK FALSE
