SPECIFICATION Spec
CONSTANTS
    Features <- MCFeatures
    Drawn <- MCDrawn
    Score <- MCScore
    Lists <- MCLists
    MaxPers = {0, 1, 2}
    Regions <- MCRegions
    RootNames <- MCRootNames
    NoRootName <- MCNoRootName
    Half = 268435456
    MaxDepth = 24
    MaxStack = 6
    MaxRounds = 2
INVARIANT
    EachOnce
    LinksMatchFiles
    HigherFirst
PROPERTY
    NoFileTwice
    WalkEnds
CHECK_DEADLOCK FALSE
