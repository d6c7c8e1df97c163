CONSTANTS
    N = 6
    MaxWorkers = 2
    Deps <- BranchDeps
    Prio <- SamePrio
    Critical = {}
    MayFail = {}
    Conditional = {}
    Subflow = {}
    RouteMap <- BranchTargets
    RouteIndexes <- ThreeIndexes
    CanCancel = FALSE
SPECIFICATION Spec
INVARIANTS
    ADocumentOnRoutesHolds
