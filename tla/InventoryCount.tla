--------------------------- MODULE InventoryCount ---------------------------
(***************************************************************************)
(* The periodic count of a warehouse, lot by lot, from its opening to the  *)
(* settlement of what it found, next to the movements that keep taking     *)
(* place meanwhile.                                                        *)
(*                                                                         *)
(* Opening a count notes the balance of every lot (the opening snapshot)   *)
(* and makes a line for every lot in stock; clerks count the shelf into    *)
(* the lines; saving the count makes it final; its settlement adds what    *)
(* was found, counted minus snapshot, to the balances of that moment.  In  *)
(* between, the guard of every lot movement refuses lots that are being    *)
(* counted or wait for their settlement, which is what makes "counted      *)
(* minus snapshot" mean anything.                                          *)
(*                                                                         *)
(* Opening is not one transaction: it inserts row after row.  A movement   *)
(* is one transaction, but its guard reads without locking, so the guard   *)
(* and the posting are two steps.  Every other operation holds the row of  *)
(* the count and is one step.  How a posting itself stays atomic is the    *)
(* subject of LotTransactions; here it is one step on one balance.         *)
(***************************************************************************)
EXTENDS Integers, Sequences, FiniteSets

CONSTANTS
    Lots,      \* the lots in the warehouse of the count
    Counts,    \* the count operations
    Clerks,    \* those who post movements
    MaxLines,  \* bound on the lines one count may have for one lot
    Warehouses \* the warehouses to look at, see Warehouse

\* The code allows all of these; a warehouse without one says that the
\* people who use the program refrain from it.
Practices ==
    {"movingWhileOpening", \* movements are under way while a count is opened
     "workWhileOpening",   \* somebody works on a count whose opening still runs
     "scans",              \* lots are added to a count by scanning them
     "overlaps",           \* a count is opened before the last one is settled
     "returns"}            \* recipients bring goods back

\* What is permitted in a warehouse, which counts are opened there, and the
\* bound on the goods of a lot.
Warehouse(permits, scopes, most) ==
    [permits |-> permits, scopes |-> scopes, most |-> most]

ASSUME CountAssumption ==
    /\ MaxLines \in Nat \ {0}
    /\ Warehouses \subseteq
           [permits : SUBSET Practices, scopes : SUBSET {"full", "manual"}, most : Nat]

VARIABLES
    warehouse, \* the warehouse of the count; it stays the same
    balance, \* balance[l]: inventory_lot_balances.quantity of lot l
    shelf,   \* shelf[l]: what really lies there; the program cannot see it
    count,   \* count[c]: the row of count operation c
    lines,   \* lines[c][l]: the count lines of lot l, each the counted
             \* quantity or Uncounted
    opener,  \* opener[c]: where the request that opens c is, and the lots it
             \* has still to make lines for
    moving   \* moving[k]: the movement of clerk k that has passed the guard

vars == <<warehouse, balance, shelf, count, lines, opener, moving>>

Permitted == warehouse.permits
Uncounted == -1
Stock == 0..warehouse.most
NoLines == [l \in Lots |-> <<>>]
NoSnapshot == [l \in Lots |-> 0]
Absent == [status |-> "absent", scope |-> "full", snapshot |-> NoSnapshot,
           settled |-> FALSE]
Idle == [step |-> "idle", left |-> {}]
NoMove == <<>>

CountRows ==
    [status : {"absent", "in_progress", "completed"}, scope : {"full", "manual"},
     snapshot : [Lots -> Stock], settled : BOOLEAN]

TypeOK ==
    /\ warehouse \in Warehouses
    /\ balance \in [Lots -> Stock]
    /\ shelf \in [Lots -> Stock]
    /\ count \in [Counts -> CountRows]
    /\ \A c \in Counts, l \in Lots :
        /\ Len(lines[c][l]) <= MaxLines
        /\ \A n \in 1..Len(lines[c][l]) : lines[c][l][n] \in Stock \cup {Uncounted}
    /\ opener \in [Counts -> [step : {"idle", "snapshot", "lines"},
                              left : SUBSET Lots]]
    /\ \A k \in Clerks : moving[k] # NoMove => moving[k] \in Lots \X {-1, 1}

Init ==
    /\ warehouse \in Warehouses
    /\ balance \in [Lots -> Stock]
    /\ shelf \in [Lots -> Stock]
    /\ count = [c \in Counts |-> Absent]
    /\ lines = [c \in Counts |-> NoLines]
    /\ opener = [c \in Counts |-> Idle]
    /\ moving = [k \in Clerks |-> NoMove]

-----------------------------------------------------------------------------
InProgress(c) == count[c].status = "in_progress"
Completed(c) == count[c].status = "completed"
Opening(c) == opener[c].step # "idle"

LineNumbers(c, l) == 1..Len(lines[c][l])

\* diffQuantity of a line, 0 while it is null.
Variance(c, l, n) ==
    IF lines[c][l][n] = Uncounted THEN 0
    ELSE lines[c][l][n] - count[c].snapshot[l]

Discrepant(c) ==
    {l \in Lots : \E n \in LineNumbers(c, l) : Variance(c, l, n) # 0}

AwaitsSettlement(c) == Completed(c) /\ ~count[c].settled /\ Discrepant(c) # {}

\* [A plausible bug: a count holds its lots only once it is finished.]
HoldsOnceSaved(c, l) == AwaitsSettlement(c) /\ l \in Discrepant(c)

\* The count keeps lot l from moving.
Holds(c, l) ==
    /\ LineNumbers(c, l) # {}
    /\ InProgress(c) \/ (AwaitsSettlement(c) /\ l \in Discrepant(c))

Frozen(l) == \E c \in Counts : Holds(c, l)

-----------------------------------------------------------------------------
(* Opening.                                                                *)

\* The row of the operation is inserted.
OpenCount(c, scope) ==
    /\ count[c].status = "absent"
    /\ ~Opening(c)
    /\ "overlaps" \notin Permitted =>
        \A o \in Counts : ~InProgress(o) /\ ~AwaitsSettlement(o) /\ ~Opening(o)
    /\ "movingWhileOpening" \notin Permitted => \A k \in Clerks : moving[k] = NoMove
    /\ count' = [count EXCEPT ![c] =
                    [Absent EXCEPT !.status = "in_progress", !.scope = scope]]
    /\ lines' = [lines EXCEPT ![c] = NoLines]
    /\ opener' = [opener EXCEPT ![c] = [step |-> "snapshot", left |-> {}]]
    /\ UNCHANGED <<warehouse, balance, shelf, moving>>

InStock == {l \in Lots : balance[l] > 0}

\* The balances are read and inserted as the opening snapshot.  A manual
\* count is open then; a full one of an empty warehouse is deleted again.
TakeSnapshot(c) ==
    /\ opener[c].step = "snapshot"
    /\ IF count[c].scope = "full" /\ InStock = {}
       THEN count' = [count EXCEPT ![c] = Absent]
       ELSE count' = [count EXCEPT ![c].snapshot = balance]
    /\ opener' = [opener EXCEPT ![c] =
                    IF count[c].scope = "full" /\ InStock # {}
                    THEN [step |-> "lines", left |-> InStock] ELSE Idle]
    /\ UNCHANGED <<warehouse, balance, shelf, lines, moving>>

\* The line of the next lot in stock is inserted, whatever has become of the
\* operation meanwhile.
InsertLine(c, l) ==
    /\ opener[c].step = "lines"
    /\ l \in opener[c].left
    /\ Len(lines[c][l]) < MaxLines
    /\ lines' = [lines EXCEPT ![c][l] = Append(@, Uncounted)]
    /\ opener' = [opener EXCEPT ![c] =
                    IF opener[c].left = {l}
                    THEN Idle ELSE [step |-> "lines", left |-> opener[c].left \ {l}]]
    /\ UNCHANGED <<warehouse, balance, shelf, count, moving>>

\* The server dies, or a statement fails, while the count is being opened.
\* What has been inserted stays.
BreakOff(c) ==
    /\ Opening(c)
    /\ opener' = [opener EXCEPT ![c] = Idle]
    /\ UNCHANGED <<warehouse, balance, shelf, count, lines, moving>>

-----------------------------------------------------------------------------
(* Counting.  Each of these operations locks the row of the count.         *)

Workable(c) ==
    /\ InProgress(c)
    /\ "workWhileOpening" \notin Permitted => ~Opening(c)

\* [A plausible bug: the line is not looked for before it is inserted.]
ScanTwice(c, l) ==
    /\ "scans" \in Permitted
    /\ Workable(c)
    /\ Len(lines[c][l]) < MaxLines
    /\ lines' = [lines EXCEPT ![c][l] = Append(@, Uncounted)]
    /\ UNCHANGED <<warehouse, balance, shelf, count, opener, moving>>

\* A lot of the opening snapshot is scanned into the count.
Scan(c, l) ==
    /\ "scans" \in Permitted
    /\ Workable(c)
    /\ opener[c].step # "snapshot"
    /\ lines[c][l] = <<>>
    /\ lines' = [lines EXCEPT ![c][l] = <<Uncounted>>]
    /\ UNCHANGED <<warehouse, balance, shelf, count, opener, moving>>

\* [A plausible bug: the status is not looked at once the row is locked.]
RecordAnyTime(c, l, n) ==
    /\ count[c].status # "absent"
    /\ lines' = [lines EXCEPT ![c][l][n] = shelf[l]]
    /\ UNCHANGED <<warehouse, balance, shelf, count, opener, moving>>

\* What lies on the shelf is recorded in a line of the lot, once or again.
Record(c, l, n) ==
    /\ Workable(c)
    /\ lines' = [lines EXCEPT ![c][l][n] = shelf[l]]
    /\ UNCHANGED <<warehouse, balance, shelf, count, opener, moving>>

\* The count is saved for good: every line counted, and at least one.
Complete(c) ==
    /\ Workable(c)
    /\ \A l \in Lots, n \in 1..MaxLines :
        n \in LineNumbers(c, l) => lines[c][l][n] # Uncounted
    /\ \E l \in Lots : lines[c][l] # <<>>
    /\ count' = [count EXCEPT ![c].status = "completed"]
    /\ UNCHANGED <<warehouse, balance, shelf, lines, opener, moving>>

\* A count that is not saved is deleted with its lines and its snapshot.
Delete(c) ==
    /\ Workable(c)
    /\ count' = [count EXCEPT ![c] = Absent]
    /\ lines' = [lines EXCEPT ![c] = NoLines]
    /\ UNCHANGED <<warehouse, balance, shelf, opener, moving>>

\* The settlement of count c would go through: one line for each discrepant
\* lot, and no balance below zero.
Settleable(c) ==
    /\ AwaitsSettlement(c)
    /\ \A l \in Discrepant(c) :
        /\ Len(lines[c][l]) = 1
        /\ balance[l] + Variance(c, l, 1) >= 0

\* The balances after the settlement, within the bound of the model.
Settled(c) ==
    [l \in Lots |-> IF l \in Discrepant(c)
                    THEN balance[l] + Variance(c, l, 1) ELSE balance[l]]

\* [A plausible bug: nothing tells that the count has been settled.]
SettleUnnoticed(c) ==
    /\ Settleable(c)
    /\ balance' = Settled(c)
    /\ balance' \in [Lots -> Stock]
    /\ UNCHANGED <<warehouse, shelf, count, lines, opener, moving>>

\* All discrepancies of a saved count are added to the balances of now.
Settle(c) ==
    /\ Settleable(c)
    /\ balance' = Settled(c)
    /\ balance' \in [Lots -> Stock]
    /\ count' = [count EXCEPT ![c].settled = TRUE]
    /\ UNCHANGED <<warehouse, shelf, lines, opener, moving>>

-----------------------------------------------------------------------------
(* Movements: delivery, disposal, return to the supplier, both ends of a   *)
(* transfer.                                                               *)

\* The guard lets the movement pass.
BeginMove(k, l, d) ==
    /\ moving[k] = NoMove
    /\ "movingWhileOpening" \notin Permitted => \A c \in Counts : ~Opening(c)
    /\ ~Frozen(l)
    /\ moving' = [moving EXCEPT ![k] = <<l, d>>]
    /\ UNCHANGED <<warehouse, balance, shelf, count, lines, opener>>

\* [A plausible bug: the posting does not look at the balance again.]
PostMoveUnchecked(k) ==
    /\ moving[k] # NoMove
    /\ LET l == moving[k][1]
           d == moving[k][2]
       IN /\ shelf[l] + d \in Stock
          /\ balance' = [balance EXCEPT ![l] = @ + d]
          /\ shelf' = [shelf EXCEPT ![l] = @ + d]
    /\ moving' = [moving EXCEPT ![k] = NoMove]
    /\ UNCHANGED <<warehouse, count, lines, opener>>

\* The movement is posted, and the goods change place.
PostMove(k) ==
    /\ moving[k] # NoMove
    /\ LET l == moving[k][1]
           d == moving[k][2]
       IN /\ balance[l] + d \in Stock
          /\ shelf[l] + d \in Stock
          /\ balance' = [balance EXCEPT ![l] = @ + d]
          /\ shelf' = [shelf EXCEPT ![l] = @ + d]
    /\ moving' = [moving EXCEPT ![k] = NoMove]
    /\ UNCHANGED <<warehouse, count, lines, opener>>

\* The movement finds too little, or its transaction is rolled back.
DropMove(k) ==
    /\ moving[k] # NoMove
    /\ moving' = [moving EXCEPT ![k] = NoMove]
    /\ UNCHANGED <<warehouse, balance, shelf, count, lines, opener>>

\* A recipient's return asks no guard.
Return(l) ==
    /\ "returns" \in Permitted
    /\ balance[l] + 1 \in Stock
    /\ shelf[l] + 1 \in Stock
    /\ balance' = [balance EXCEPT ![l] = @ + 1]
    /\ shelf' = [shelf EXCEPT ![l] = @ + 1]
    /\ UNCHANGED <<warehouse, count, lines, opener, moving>>

-----------------------------------------------------------------------------
Next ==
    \/ \E c \in Counts :
        \/ \E scope \in warehouse.scopes : OpenCount(c, scope)
        \/ TakeSnapshot(c)
        \/ \E l \in Lots : InsertLine(c, l)
        \/ BreakOff(c)
        \/ \E l \in Lots : Scan(c, l)
        \/ \E l \in Lots : \E n \in LineNumbers(c, l) : Record(c, l, n)
        \/ Complete(c)
        \/ Delete(c)
        \/ Settle(c)
    \/ \E k \in Clerks :
        \/ \E l \in Lots, d \in {-1, 1} : BeginMove(k, l, d)
        \/ PostMove(k)
        \/ DropMove(k)
    \/ \E l \in Lots : Return(l)

Spec == Init /\ [][Next]_vars

-----------------------------------------------------------------------------
(* What a count promises.                                                  *)

\* A lot under count has a stable reference: until the count is saved, the
\* balance of a lot with a line is the one of the opening snapshot.
StableReference ==
    \A c \in Counts, l \in Lots :
        InProgress(c) /\ lines[c][l] # <<>> => balance[l] = count[c].snapshot[l]

\* Nothing that could disturb a count happens in the warehouse.
Disciplined == Permitted = {}

\* Discipline is enough for a stable reference.
DisciplineKeepsReference == Disciplined => StableReference

\* A settlement makes the books say what lies on the shelf, although other
\* lots, and this one since it was released, have been moving all the time.
SettlementReconciles ==
    [][\A c \in Counts : Settle(c) =>
        \A l \in Discrepant(c) : balance'[l] = shelf'[l]]_vars

DisciplineReconciles ==
    [][Disciplined => \A c \in Counts : Settle(c) =>
        \A l \in Discrepant(c) : balance'[l] = shelf'[l]]_vars

\* A lot that waits for a settlement will not wait for ever: the settlement
\* it waits for can be posted.
FrozenLotsCanBeReleased ==
    \A c \in Counts : AwaitsSettlement(c) => Settleable(c)

DisciplineReleases == Disciplined => FrozenLotsCanBeReleased

\* Saving a count is final (but for the corrections its review asks for, see
\* SettlementReview): no request, however early it began, changes a
\* line or the snapshot of it, and it is never opened or deleted again.
SavedCountIsFinal ==
    [][\A c \in Counts : Completed(c) =>
        /\ count'[c].status = "completed"
        /\ count'[c].snapshot = count[c].snapshot
        /\ lines'[c] = lines[c]]_vars

\* A lot has one line in a count; with two of them no settlement goes through.
OneLinePerLot == \A c \in Counts, l \in Lots : Len(lines[c][l]) <= 1

\* A full count that has been saved has counted every lot that was in stock
\* when it was opened.
FullCountCoversStock ==
    \A c \in Counts : Completed(c) /\ count[c].scope = "full" =>
        \A l \in Lots : count[c].snapshot[l] > 0 => lines[c][l] # <<>>

=============================================================================
