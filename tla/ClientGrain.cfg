SPECIFICATION Spec
CONSTANTS
    Requests = {r1, r2}
    NoOne = NoOne
    Nil = Nil
    MaxClaims = 2
INVARIANTS
    OneDirectory
PROPERTIES
    Answered
