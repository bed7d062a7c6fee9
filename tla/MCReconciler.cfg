SPECIFICATION FairSpec
CONSTANTS
  r1 = r1  svc = svc  svc2 = svc2  sl1 = sl1  sl2 = sl2  sl3 = sl3
  pod1 = pod1  pod2 = pod2  pod3 = pod3
  Any = Any  Absent = Absent  Bad = Bad
  RouteKeys = {r1}
  RouteSpecs <- MCSpecs
  Services = {svc, svc2}
  Addresses = {pod1, pod2, pod3}
  Ports = {80, 81}
  NamespaceOf <- MCNamespaceOf
  Namespace = "ns"
  GatewayName = "lb-gateway"
  SliceNames = {sl1, sl3}
  SliceSpecs <- MCOneSlice
  SliceService <- MCSliceService
  Seed <- MCSeed
  MaxChanges = 2
  MaxFailures = 1
INVARIANTS TypeOK NoLostUpdate StoreMirrorsCluster
PROPERTIES Converges ImplementsRouteFeed
CHECK_DEADLOCK FALSE
