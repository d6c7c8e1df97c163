CONSTANTS
    N = 6
    MaxWorkers = 2
    Deps <- RouteDeps
    Prio <- SamePrio
    Critical = {4, 6}
    MayFail = {2, 4, 6}
    Conditional = {3}
    Subflow = {2, 6}
    RouteMap <- RouteTargets
    RouteIndexes <- SomeIndexes
    CanCancel = TRUE
SPECIFICATION FairSpec
INVARIANTS
    TypeOK
    OfferMatchesHeap
    DoneChHasRoom
    DispatchMarksWhatItSends
    ExecutedAtMostOnce
    DependencyOrder
    SuccessIsComplete
    RoutesDecide
    AbortIsJustified
PROPERTIES
    OnlySkippedOverwritten
    ImplementsContract
    RunTerminates
