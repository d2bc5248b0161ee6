SPECIFICATION FairSpec
CONSTANTS
    Base <- Root
    States <- MCStates
    NoSelector = NoSelector
    NoUrl = NoUrl
    Here = Here
    normal = normal
    highlight = highlight
    Urls <- MCUrls
    StyleSelectors <- MCSelectors
    StylesOfUrl <- MCStylesOfUrl
    StylesOfSelector <- MCStylesOf
    Sites <- MCSites
    StyledFeatures <- MCFeatures
    MaxNesting = 3
    MaxCalls = 2
INVARIANTS
    TypeOK
    MergedAsPromised
    LastOneWins
    InlineWins
PROPERTIES
    Terminates
CONSTRAINT Small
CHECK_DEADLOCK FALSE
