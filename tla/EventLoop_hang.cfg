CONSTANTS
    N = 5
    MaxWorkers = 2
    Deps <- ChainDeps
    Prio <- MixedPrio
    Critical = {2, 4}
    MayFail = {2, 3}
    Conditional = {1}
    Subflow = {2, 3}
    RouteMap <- NoTargets
    RouteIndexes <- NoIndexes
    CanCancel = FALSE
SPECIFICATION FairSpec
CHECK_DEADLOCK FALSE
PROPERTIES
    RunTerminates
