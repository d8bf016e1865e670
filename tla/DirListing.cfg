SPECIFICATION Spec
CONSTANTS
    Counts = {0, 1, 3}
    Chunk = 2
    MaxEntries = 5
    NoResult = NoResult
CHECK_DEADLOCK FALSE
INVARIANTS
    TypeOK
    SignalledOnce
    ResultStable
    WithinLimit
PROPERTIES
    ReaddirKeepsPromise
    ReaddirReturns
