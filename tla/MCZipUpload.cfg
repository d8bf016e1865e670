SPECIFICATION Spec
CONSTANTS
    Segment = {"a", "b", "s"}
    Root <- MCRoot
    InitTrees <- MCTrees
    Archives <- MCArchives
    Broken = Broken
    NoReply = NoReply
    MaxUploads = 2
CHECK_DEADLOCK FALSE
INVARIANTS
    TypeOK
    SuccessIsComplete
    OnlyArchiveAdded
    DataInPlace
PROPERTIES
    UploadEnds
