CONSTANTS
    Departments = {d1, d2}
    Tasks = {x1, x2}
    Requests = {r1, r2}
    Kinds = {"it", "general", "construction"}
    MaxChildren = 2
    Allowed = {}
SPECIFICATION Spec
SYMMETRY Interchangeable
CHECK_DEADLOCK FALSE
INVARIANT
    ClosedParentHasNoOpenWork
