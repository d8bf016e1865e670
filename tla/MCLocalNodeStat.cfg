SPECIFICATION Spec
CONSTANTS
    Segment = {"a", "shared"}
    Root <- MCRoot
    InitTrees <- MCFreshTree
    Sanitize <- MCSanitize
    Calls = {k1}
    Idle = Idle
    MaxNodes = 4
    MaxCaps = 2
    MaxSaved = 1
INVARIANTS
    StatReportsNode
