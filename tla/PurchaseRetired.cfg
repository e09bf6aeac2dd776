CONSTANTS
    Items = {i1, i2}
    Requests = {r1, r2}
    Loads <- RetiredToo
    MaxPostings = 2
SPECIFICATION Spec
CHECK_DEADLOCK FALSE
INVARIANT
    ReceivedOnce
