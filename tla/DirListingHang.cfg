SPECIFICATION Spec
CONSTANTS
    Counts = {0, 1}
    Chunk = 2
    MaxEntries = 3
    NoResult = NoResult
CHECK_DEADLOCK FALSE
PROPERTIES
    ReaddirAnswers
