SPECIFICATION Spec
CONSTANTS
    Requests = {r1, r2, r3}
    Nothing = Nothing
INVARIANTS
    RunsAsCreated
    PanicsOnlyUnsaved
    PromiseKept
PROPERTIES
    WaitReturns
    SavedGrainServes
