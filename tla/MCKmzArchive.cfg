SPECIFICATION Spec
CONSTANTS
    Docs <- MCDocs
    Unparsed = {"deep"}
    Links <- MCLinks
    Local <- MCLocal
    Added <- MCAdded
    SizeOf <- MCSizeOf
    MaxSizes = {1, 3}
    MaxUncompressed = 3
    KmlNames = {"doc.kml", "a.kml"}
    Archives = {"k.kmz"}
    NULL = NULL
    MaxEntries = 2
INVARIANT
    SelfContained
    MissingAreCounted
CHECK_DEADLOCK FALSE
