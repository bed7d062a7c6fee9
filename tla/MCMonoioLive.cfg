CONSTANTS
  Conns = {c1}
  Scripts <- MCAllScripts
  Responses <- MCAllResponses
  Pipelining = TRUE
  Streams = {u1}
  NoStream = NoStream
  MaxIdlePerHost = 1
  MaxRequests = 2
  MaxFailures = 2
SPECIFICATION FairSpec
INVARIANT
  PoolClean
PROPERTY
  EveryRequestEnds
CHECK_DEADLOCK FALSE
