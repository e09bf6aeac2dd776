CONSTANTS
    Items = {i1, i2}
    Requests = {r1, r2}
    Loads <- AllLoads
    MaxPostings = 2
SPECIFICATION Spec
SYMMETRY Interchangeable
CHECK_DEADLOCK FALSE
INVARIANTS
    TypeOK
    StockedOnce
    NoStageSkipped
    OrderReflectsItems
