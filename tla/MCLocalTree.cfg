SPECIFICATION Spec
CONSTANTS
    Segment = {"a", "shared"}
    Root <- MCRoot
    InitTrees <- MCTrees
    Sanitize <- MCSanitize
    Calls = {k1}
    Idle = Idle
    MaxNodes = 7
    MaxCaps = 2
    MaxSaved = 1
INVARIANTS
    TypeOK
    Confinement
    KindAccurate
    AuthorityMatchesTree
    RootAvailable
PROPERTIES
    EffectsConfined
    ReadOnlyFrozen
    ImplementsCapTree
