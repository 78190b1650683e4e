\* A request over two accounts while other requests fail on them. Of the requests of
\* the other parts, one is a stream; they compete for the 429 gate of one endpoint.
SPECIFICATION MCSpec
CONSTANTS
  Accounts = {a1, a2}
  Threshold = 2
  MaxOthers = 2
  Requests = {r1, r2}
  Streams = {r1}
  e1 = e1
INVARIANTS
  RecordsAreComplete
  
PROPERTIES
  RequestsEnd
  CallsEnd
  EverythingIsRecorded
CHECK_DEADLOCK FALSE
