CONSTANTS
    Lots = {l1, l2}
    Counts = {c1}
    Clerks = {k1}
    MaxLines = 2
    Warehouses <- MovingWhileOpening
SPECIFICATION Spec
SYMMETRY Interchangeable
INVARIANTS
    StableReference
