-------------------------- MODULE MCInventoryCount --------------------------
(* InventoryCount for two lots and one or two counts.                      *)
EXTENDS InventoryCount, TLC

Interchangeable ==
    Permutations(Lots) \cup Permutations(Counts) \cup Permutations(Clerks)

Quiet == Warehouse({}, {"full"}, 2)

Busy ==
    Warehouse({"movingWhileOpening", "scans", "overlaps", "returns"},
              {"full", "manual"}, 1)

QuietAndBusy == {Quiet, Busy}

\* One disturbance at a time, for full counts.
MovingWhileOpening == {Warehouse({"movingWhileOpening"}, {"full"}, 2)}
WorkWhileOpening == {Warehouse({"workWhileOpening"}, {"full"}, 2)}
Overlaps == {Warehouse({"overlaps"}, {"full"}, 2)}
Scans == {Warehouse({"scans"}, {"full", "manual"}, 2)}
OnlyQuiet == {Quiet}
=============================================================================
