SPECIFICATION Spec
CONSTANTS
    Complex <- SchemaComplex
    Simple = {}
    Unknown <- SchemaUnknown
    OldName = "S"
    FieldName = "X"
    Vetoed = {}
    Stopping = {}
    Unwanted = {}
    MaxNesting = 10
    UIntSize = 16
    MaxTags = 6
    MaxTexts = 0
INVARIANT PlacemarkIsReached
CONSTRAINT Documents
CHECK_DEADLOCK FALSE
