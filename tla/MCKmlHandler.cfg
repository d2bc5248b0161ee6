SPECIFICATION Spec
CONSTANTS
    Complex <- AllComplex
    Simple <- AllSimple
    Unknown <- AllUnknown
    OldName = "S"
    FieldName = "X"
    Vetoed = {"Schema"}
    Stopping = {"Folder"}
    Unwanted = {"name"}
    MaxNesting = 4
    UIntSize = 16
    MaxTags = 6
    MaxTexts = 1
CONSTRAINT Documents
INVARIANTS TypeOK InSync TreeIsDocument UnknownIntact TextsInPlace OldDataReachesPlacemark NeverUndefined
CHECK_DEADLOCK FALSE
