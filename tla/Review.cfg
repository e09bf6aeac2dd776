CONSTANTS
    Warehouse = {w1}
    Senior = {s1}
    Admin = {a1}
    Lines = {n1}
    MaxVariance = 1
    Costs = {k1, k2}
    Openings = {TRUE, FALSE}
    Requests = {r1, r2}
    EarlyViews = {TRUE}
    MaxVersion <- Versions
    MaxRevision = 1
SPECIFICATION Spec
SYMMETRY Interchangeable
INVARIANTS
    TypeOK
    SettledAtMostOnce
    FourEyes
    PostsWhatWasSubmitted
    PeriodicCorrectionCanBeSaved
PROPERTIES
    ReviewNotBypassed
