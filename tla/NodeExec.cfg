CONSTANTS
    RetryCounts <- FewRetries
    RouteIndexes <- TwoRoutes
    MaxSubflowDepth = 1
SPECIFICATION FairSpec
INVARIANTS
    TypeOK
    OneLateAttempt
    RetriesReported
    HooksBracket
    ReportsAnOutcome
    SuccessIsEarned
PROPERTIES
    Completes
