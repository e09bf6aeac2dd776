CONSTANTS
    Lots = {l1, l2}
    Counts = {c1, c2}
    Clerks = {k1}
    MaxLines = 2
    Warehouses <- Overlaps
SPECIFICATION Spec
SYMMETRY Interchangeable
INVARIANTS
    FrozenLotsCanBeReleased
