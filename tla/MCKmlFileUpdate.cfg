SPECIFICATION Spec
CONSTANTS
    Ids <- MCIds
    NoId <- MCNoId
    NoField <- MCNoField
    Kinds <- MCKinds
    Fields <- MCFields
    Documents <- MCDocuments
    Changes <- MCChanges
    Containers <- MCContainers
    NewFeatures <- MCNewFeatures
    Maps <- MCMaps
    NoMap <- NoRemap
    MaxCalls = 3
INVARIANT
    OneHome
    ParentsLive
PROPERTY
    StepsAsPromised
CHECK_DEADLOCK FALSE
