CONSTANTS
    k1 = k1
    k2 = k2
    k3 = k3
    p1 = p1
    p2 = p2
    Calls <- MCCalls
    Procs = {p1, p2}
    Keys = {k1, k2, k3}
    Vals = {"7", "text"}
    None = None
    Hash <- MCHash
    TypeOf <- MCTypeOf
    Requests = {0, 3}
    CPUs = {1, 2}
SPECIFICATION Spec
INVARIANTS
    TypeOK
    BulkIsBounded
PROPERTIES
    ImplementsStore
