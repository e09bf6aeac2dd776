CONSTANTS
    Lots = {l1, l2}
    Counts = {c1}
    Clerks = {k1}
    MaxLines = 2
    Warehouses <- Scans
SPECIFICATION Spec
SYMMETRY Interchangeable
PROPERTIES
    SettlementReconciles
