CONSTANTS
    Lots = {l1, l2}
    Counts = {c1, c2}
    Clerks = {k1, k2}
    MaxLines = 2
    Warehouses <- QuietAndBusy
SPECIFICATION Spec
SYMMETRY Interchangeable
CHECK_DEADLOCK FALSE
INVARIANTS
    TypeOK
    DisciplineKeepsReference
    DisciplineReleases
    OneLinePerLot
PROPERTIES
    DisciplineReconciles
    SavedCountIsFinal
