CONSTANTS
    Technicians = {u1, u2}
    Items = {i1, i2}
    Tickets = {t1, t2}
    Requests = {r1, r2}
    Quantities = {1, 2}
    MaxDecisions = 1
    MaxDeliveries = 2
    Allowed = {"warehouse", "selfService", "crashes", "reopening"}
SPECIFICATION Spec
SYMMETRY Interchangeable
CHECK_DEADLOCK FALSE
INVARIANTS
    TypeOK
    CompletedTaskMeansCompletedItems
    WorkHasItsVisit
    LinkedWithinNeed
    ReadyMeansSupplied
PROPERTIES
    ProjectionFollowsItems
