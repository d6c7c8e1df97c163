CONSTANTS
    a = a
    b = b
    c = c
    Names <- ThreeNames
    Options <- SomeOptions
    Configs <- SomeConfigs
SYMMETRY Symmetry
SPECIFICATION Spec
INVARIANTS
    TypeOK
    EdgesAreMirrored
    ValidateIsExact
    SortIsTopological
    LayersAreDepths
    SortFollowsLayers
