SPECIFICATION Spec
CONSTANTS
  Addresses = {a1, a2}
  Streams = {s1, s2, s3}
  MaxIdlePerHost = 2
  MaxIdleAge = 2
  MaxNow = 4
INVARIANTS Bounded DialledForItsAddress
PROPERTIES TakeClosesNothing
