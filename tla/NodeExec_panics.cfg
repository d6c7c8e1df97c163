CONSTANTS
    RetryCounts <- FewRetries
    RouteIndexes <- TwoRoutes
    MaxSubflowDepth = 1
SPECIFICATION Spec
INVARIANTS
    APromiseOnPanicsHolds
