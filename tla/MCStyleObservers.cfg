SPECIFICATION Spec
CONSTANTS
    Ids <- MCIds
    UniqueIds <- MCUniqueIds
    NoId = NoId
    NULL = NULL
    MaxElements = 7
INVARIANTS
    SplitKeepsStyles
    AllAreSplit
    UpdatesUntouched
    InlineKeepsStyles
CHECK_DEADLOCK FALSE
