CONSTANTS
    N = 6
    Prio <- TiedPrio
SPECIFICATION Spec
INVARIANTS
    HeapOrder
PROPERTIES
    ImplementsQueue
