CONSTANTS
    Items = {i1, i2}
    Requests = {r1, r2}
    Loads <- OneAtATime
    MaxPostings = 2
SPECIFICATION Spec
INVARIANT
    UndecidedKeepsPartial
CHECK_DEADLOCK FALSE
