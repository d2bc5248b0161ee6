SPECIFICATION Spec
CONSTANTS
    Urls = {u1, u2, u3, u4}
    Items = {i1, i2}
    NULL = NULL
    MaxSize = 2
    MaxSaves = 7
    MaxDepth = 2
SYMMETRY Symmetry
INVARIANTS
    TypeOK
    SizeBound
    RecentSavesSurvive
PROPERTIES
    StableEntry
    ImplementsFifo
