CONSTANTS
    Technicians = {u1}
    Items = {i1, i2}
    Tickets = {t1, t2}
    Requests = {r1, r2}
    Quantities = {1}
    MaxDecisions = 1
    MaxDeliveries = 1
    Allowed = {"lateItems"}
SPECIFICATION Spec
SYMMETRY Interchangeable
CHECK_DEADLOCK FALSE
INVARIANTS
    CompletedTaskMeansCompletedItems
