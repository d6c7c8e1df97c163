CONSTANTS
    a = a
    b = b
    root = root
    middle = middle
    leaf = leaf
    other = other
    bad = bad
    Callers = {a, b}
    Dags = {root, middle, leaf, other, bad}
    Nodes = {1, 2, 3, 4, 5, 6}
    None = None
    Entries <- MCEntries
    Invalid = {bad}
    Owner <- MCOwner
    Home <- MCHome
    Deps <- MCDeps
    Child <- MCChild
    Reused = {middle}
    MayFail = {6}
    Conditional = {2}
    MayAbort = {root}
    RouteMap <- MCRoutes
    Hooks <- MCHooks
    Hash <- MCHash
    Duration <- MCDuration
    MaxDags = 4
    MaxNodes = 5
    MaxRuns = 2
SPECIFICATION Spec
INVARIANT
    AStatementOnResultsHolds
ACTION_CONSTRAINT
    GetsTheFirst
CHECK_DEADLOCK FALSE
