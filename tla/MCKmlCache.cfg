SPECIFICATION FairSpec
CONSTANTS
    Segments <- MCSegments
    Frags <- MCFrags
    KmzNames <- MCKmzNames
    KmlNames <- MCKmlNames
    Docs <- MCDocs
    Site <- MCSite
    Urls <- MCUrls
    Hrefs <- MCHrefs
    NoFrag = "none"
    NULL = NULL
    MaxSize = 1
    MaxCalls = 3
INVARIANTS
    Transparent
    CachedFilesAgree
    KmzStaysForRead
PROPERTIES
    ReturnsOrSelfResolves
CHECK_DEADLOCK FALSE
