\* Two calls of any kind overlap, against two attempts; in another part they come
\* one after the other. Three requests and two upstreams are enough for a draft to be
\* overtaken twice, and the clock passes the age at which a draft is dropped.
SPECIFICATION MCSpec
CONSTANTS
  Attempts = {a1, a2}
  Ops = {o1, o2}
  Kinds = {"availability", "delete", "create", "edit"}
  MaxRunning = 2
  MaxRetries = 2
  MaxObjects = 2
  MaxRevision = 4
  Requests = {r1, r2, r3}
  Upstreams = {u1, u2}
  MaxTime = 2
  TTL = 1
SYMMETRY Symmetry
INVARIANTS
  AdmissionsCounted
  DrainedIsIdle
  PlannedConfigIsUsed
  SerialCallsAgree
  SnapshotIsOwn
  ChoiceIsRight
PROPERTIES
  SerialEditKeepsAvailability
CHECK_DEADLOCK FALSE
