SPECIFICATION Spec
CONSTANTS
    Classes <- MCClasses
    ClassRow <- MCClassRow
    CodeRow <- MCCodeRow
    KnownTypes <- MCKnown
    Enums <- SetEnumTypes
    IsA <- TypesOf
    As <- TakenAs
    NameOf <- ElementName
    ReadAs <- TypeWithin
    MethodAbove <- VisitCalls
    Unwritten <- MCUnwritten
    Unvisited <- MCUnvisited
    Inputs <- MCInputs
    Rounds = 2
INVARIANTS
    TypeOK
    NothingLost
    WrittenOnce
    RoundTrip
    ChildrenVisited
CHECK_DEADLOCK FALSE
