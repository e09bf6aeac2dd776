CONSTANTS
    Items = {i1, i2}
    Requests = {r1, r2}
    Loads <- TwoAtATime
    MaxPostings = 2
SPECIFICATION Spec
CHECK_DEADLOCK FALSE
PROPERTY
    CancelledIsFinal
