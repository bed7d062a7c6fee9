SPECIFICATION FairSpec
CONSTANTS
    Runs = 2
    Windows = 2
    Concurrency = 3
    MaxRequests = 3
INVARIANTS
    OneAtATime
    SamplersDoNotOverlap
    ResultsComplete
    DeltaIsOfTheBuilds
PROPERTIES
    EveryRequestCounted
    ProfileIsOfTraffic
    RunsToCompletion
CHECK_DEADLOCK FALSE
