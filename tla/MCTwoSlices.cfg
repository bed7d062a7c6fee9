SPECIFICATION Spec
CONSTANTS
  r1 = r1  svc = svc  svc2 = svc2  sl1 = sl1  sl2 = sl2  sl3 = sl3
  pod1 = pod1  pod2 = pod2  pod3 = pod3
  Any = Any  Absent = Absent  Bad = Bad
  RouteKeys = {r1}
  RouteSpecs <- MCOneSpec
  Services = {svc, svc2}
  Addresses = {pod1, pod2, pod3}
  Ports = {80, 81}
  NamespaceOf <- MCNamespaceOf
  Namespace = Any
  GatewayName = "lb-gateway"
  SliceNames = {sl1, sl2}
  SliceSpecs <- MCSlices
  SliceService <- MCTwoSlices
  Seed <- MCSeed
  MaxChanges = 1
  MaxFailures = 0
CHECK_DEADLOCK FALSE
INVARIANT ServiceEndpointsComplete
