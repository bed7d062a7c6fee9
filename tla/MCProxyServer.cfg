CONSTANTS
  Conns = {c1}
  MaxStores = 3
  MaxRequests = 2
  NumWorkers = 2
  Preface <- MCPreface
  Heads <- MCHeads
SPECIFICATION ServerSpec
INVARIANTS
  NoStaleTable
  OneTable
  LateMissMeansChange
  HandOverIsFaithful
  OnlyShutdownStopsHyper
PROPERTY
  ShutdownCompletes
CHECK_DEADLOCK FALSE
