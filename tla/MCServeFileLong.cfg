SPECIFICATION ServeSpec
CONSTANTS
    Segment = {"a", "fs"}
    Tree <- MCOneFile
    Urls <- MCOneUrl
    MaxInt = 7
    MaxLen = 4
    Nothing = Nothing
    Buffer = 2
    SniffLen = 1
CHECK_DEADLOCK FALSE
INVARIANTS
    BodyIsFile
