SPECIFICATION Spec
CONSTANTS
    MaxMetricCalls = 7
    MaxMerge = 1
    UseMerge = TRUE
    RaiseOnException = FALSE
    BatchSize = 2
    MiniCost = 1
    SubsampleCost = 2
    ValCost = 2
    AddFaults = {"counted", "appended"}
    EvalFaults = TRUE
    MaxDeaths = 1
    MaxIterations = 6
    StopRequests = TRUE
INVARIANTS
    OvershootBounded
    LossBounded
    MergeCredit
    IterationsTell
PROPERTIES
    Terminates
    PoolIsDurable
    MergeFollowsDiscovery
CHECK_DEADLOCK FALSE
