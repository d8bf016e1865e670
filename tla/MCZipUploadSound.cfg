SPECIFICATION Spec
CONSTANTS
    Segment = {"a", "b", "s"}
    Root <- MCRoot
    InitTrees <- MCEmpty
    Archives <- MCSound
    Broken = Broken
    NoReply = NoReply
    MaxUploads = 1
CHECK_DEADLOCK FALSE
INVARIANTS
    UnpacksArchive
