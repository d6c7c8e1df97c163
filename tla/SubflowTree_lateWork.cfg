CONSTANTS
    Layers <- FourLayers
    Root = "root"
    NodesOf <- TreeNodes
    Deps <- TreeDeps
    Child <- TreeChild
    Critical = {"crit", "a1", "c1"}
    MayFail = {"crit", "c1", "s2"}
    MaxWorkers = 1
    NoNode = "nil"
SPECIFICATION Spec
INVARIANTS
    ACommentOnLateWorkHolds
