CONSTANTS
  Conns = {c1}
  Scripts <- MCGetScripts
  Responses <- MCChunkedOnly
  Pipelining = FALSE
  Streams = {u1}
  NoStream = NoStream
  MaxIdlePerHost = 1
  MaxRequests = 2
  MaxFailures = 1
SPECIFICATION Spec
INVARIANTS
  KeptAliveWhole
CHECK_DEADLOCK FALSE
