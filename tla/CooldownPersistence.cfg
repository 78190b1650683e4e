\* Two clears against the persist goroutines, lost writes and one restart; the
\* name is deleted and created again. The route and the migration: two endpoints,
\* calls, failures and restarts as described in the README. Privacy: the built-in
\* rule and the one of the preset, two upstreams.
SPECIFICATION MCSpec
CONSTANTS
  Clears = {k1, k2}
  Durations = {1}
  MaxTime = 0
  MaxId = 2
  MaxRevision = 3
  MaxCrashes = 1
  Endpoints = {"e1", "e2"}
  MaxCalls = 3
  MaxRouteFaults = 2
  MaxRestarts = 2
  Zones = {"z1", "z2"}
  MaxMigrationFaults = 4
  MaxEdits = 2
  UserRules = {"r1"}
  Builtin = "r0"
  Preset = "r1"
  Upstreams = {"u1", "u2"}
  MaxChanges = 2
  MaxKept = 2
  MaxFaults = 1
SYMMETRY ClearSymmetry
INVARIANTS
  NoResurrection
  StoreFollowsMemory
  RouteIsKept
  MigrationIsSafe
  RulesAreApplied
  InputsAreRight
PROPERTIES
  RetryIsKept
CHECK_DEADLOCK FALSE
