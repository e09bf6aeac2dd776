CONSTANTS
    Warehouse = {w1}
    Senior = {s1}
    Admin = {a1}
    Lines = {n1}
    MaxVariance = 1
    Costs = {k1, k2}
    Openings = {TRUE}
    Requests = {r1, r2}
    EarlyViews = {TRUE, FALSE}
    MaxVersion <- Versions
    MaxRevision = 1
SPECIFICATION Spec
SYMMETRY Interchangeable
INVARIANTS
    CorrectionCanBeSaved
