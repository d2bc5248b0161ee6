SPECIFICATION Spec
CONSTANTS
    Ids <- MCIds
    UniqueIds <- MCUniqueIds
    NoId = NoId
    NULL = NULL
    MaxElements = 6
INVARIANT NothingTouched
CHECK_DEADLOCK FALSE
