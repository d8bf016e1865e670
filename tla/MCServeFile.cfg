SPECIFICATION ServeSpec
CONSTANTS
    Segment = {"a", "fs"}
    Tree <- MCTree
    Urls <- MCUrls
    MaxInt = 3
    MaxLen = 3
    Nothing = Nothing
    Buffer = 2
    SniffLen = 2
CHECK_DEADLOCK FALSE
INVARIANTS
    ServeTypeOK
    SmallBodyRight
    OpensWhatIsNamed
PROPERTIES
    RequestEnds
    SeekExact
    EndIsEnd
