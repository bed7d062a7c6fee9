CONSTANTS
  Conns = {c1, c2}
  Scripts <- MCScripts
  Responses <- MCResponses
  Pipelining = TRUE
  Streams = {u1, u2}
  NoStream = NoStream
  MaxIdlePerHost = 1
  MaxRequests = 2
  MaxFailures = 1
SPECIFICATION Spec
INVARIANTS
  
  RequestsWhole
  PoolClean
  ResponsesInOrder
  KeptAliveWhole
  ClosedAnswered
CHECK_DEADLOCK FALSE
