------------------------ MODULE InventoryCountProofs ------------------------
(***************************************************************************)
(* What InventoryCount promises, for any lots, counts, clerks, warehouses  *)
(* and bounds.                                                             *)
(*                                                                         *)
(* The types hold whatever the warehouse permits.  Unless somebody works   *)
(* on a count that is still being opened, the count is in progress as long *)
(* as it is being opened and a lot gets one line (Orderly).  In a          *)
(* warehouse with discipline one count at a time has anything to do with   *)
(* the books (Alone), nothing moves while it is opened (Still), nothing on *)
(* its way belongs to a lot it holds (Clear), and so a held lot lies and   *)
(* is booked as it did at the opening (Sound).                             *)
(***************************************************************************)
EXTENDS InventoryCount, SequenceTheorems, TLAPS

Entries == Stock \cup {Uncounted}

\* Nobody works on a count that is still being opened.
Unhurried == "workWhileOpening" \notin Permitted

Active(c) == InProgress(c) \/ AwaitsSettlement(c) \/ Opening(c)

\* The lots the request that opens count c has not come to.
Outstanding(c, l) ==
    \/ opener[c].step = "snapshot"
    \/ opener[c].step = "lines" /\ l \in opener[c].left

Typing ==
    /\ warehouse \in Warehouses
    /\ balance \in [Lots -> Stock]
    /\ shelf \in [Lots -> Stock]
    /\ count \in [Counts -> CountRows]
    /\ lines \in [Counts -> [Lots -> Seq(Entries)]]
    /\ \A c \in Counts, l \in Lots : Len(lines[c][l]) <= MaxLines
    /\ opener \in [Counts -> [step : {"idle", "snapshot", "lines"},
                              left : SUBSET Lots]]
    /\ moving \in [Clerks -> {NoMove} \cup (Lots \X {-1, 1})]

OrderlyRow(c) ==
    /\ Opening(c) => InProgress(c)
    /\ \A l \in Lots : /\ Len(lines[c][l]) <= 1
                       /\ Outstanding(c, l) => lines[c][l] = <<>>

Orderly == Unhurried => \A c \in Counts : OrderlyRow(c)

Alone == Disciplined => \A c, o \in Counts : Active(c) /\ Active(o) => c = o

Still ==
    Disciplined => \A c \in Counts :
        /\ Opening(c) => \A k \in Clerks : moving[k] = NoMove
        /\ opener[c].step = "lines" => count[c].snapshot = balance

Clear ==
    Disciplined => \A k \in Clerks, l \in Lots :
        moving[k] # NoMove /\ moving[k][1] = l => ~Frozen(l)

AsOpened(c, l) ==
    /\ balance[l] = count[c].snapshot[l]
    /\ \A n \in LineNumbers(c, l) : lines[c][l][n] \in {Uncounted, shelf[l]}

Sound == Disciplined => \A c \in Counts, l \in Lots : Holds(c, l) => AsOpened(c, l)

IInv == Typing /\ Orderly /\ Alone /\ Still /\ Clear /\ Sound

-----------------------------------------------------------------------------
(* Types.                                                                  *)

\* What is known of a warehouse from the assumption on the constants.
LEMMA WarehouseType ==
    ASSUME Typing
    PROVE  /\ warehouse.most \in Nat
           /\ Permitted \subseteq Practices
           /\ warehouse.scopes \subseteq {"full", "manual"}
    BY CountAssumption DEF Typing, Permitted

\* The line of one lot in one count is replaced.
LEMMA LineReplaced ==
    ASSUME Typing, NEW c \in Counts, NEW l \in Lots,
           NEW s \in Seq(Entries), Len(s) <= MaxLines,
           lines' = [lines EXCEPT ![c][l] = s],
           UNCHANGED <<warehouse, balance, shelf, count, moving>>,
           opener' \in [Counts -> [step : {"idle", "snapshot", "lines"},
                                   left : SUBSET Lots]]
    PROVE  Typing'
  <1>1. Stock' = Stock /\ Entries' = Entries
    BY DEF Stock, Entries, Typing
  <1>2. lines' \in [Counts -> [Lots -> Seq(Entries)]]
    BY DEF Typing
  <1>3. ASSUME NEW o \in Counts, NEW m \in Lots
        PROVE  lines'[o][m] = IF o = c /\ m = l THEN s ELSE lines[o][m]
    BY DEF Typing
  <1>4. \A o \in Counts, m \in Lots : Len(lines'[o][m]) <= MaxLines
    BY <1>3 DEF Typing
  <1> QED BY <1>1, <1>2, <1>4 DEF Typing, CountRows

\* All lines of one count are removed, or none.
LEMMA LinesCleared ==
    ASSUME Typing, NEW c \in Counts,
           lines' = [lines EXCEPT ![c] = NoLines] \/ UNCHANGED lines,
           count' \in [Counts -> CountRows],
           opener' \in [Counts -> [step : {"idle", "snapshot", "lines"},
                                   left : SUBSET Lots]],
           UNCHANGED <<warehouse, balance, shelf, moving>>
    PROVE  Typing'
  <1>1. Stock' = Stock /\ Entries' = Entries /\ CountRows' = CountRows
    BY DEF Stock, Entries, CountRows
  <1>2. NoLines \in [Lots -> Seq(Entries)] /\ \A l \in Lots : Len(NoLines[l]) = 0
    BY EmptySeq DEF NoLines
  <1>3. MaxLines \in Nat
    BY CountAssumption
  <1>4. lines' \in [Counts -> [Lots -> Seq(Entries)]]
    BY <1>2 DEF Typing
  <1>5. \A o \in Counts, l \in Lots : Len(lines'[o][l]) <= MaxLines
    <2> TAKE o \in Counts, l \in Lots
    <2>1. lines'[o][l] = lines[o][l] \/ lines'[o][l] = NoLines[l]
      BY DEF Typing
    <2> QED BY <2>1, <1>2, <1>3 DEF Typing
  <1> HIDE DEF CountRows
  <1> QED BY <1>1, <1>4, <1>5 DEF Typing

\* Balances and shelf change, and nothing is lost of a count but the flag.
LEMMA StockChanged ==
    ASSUME Typing, UNCHANGED <<warehouse, lines, opener>>,
           balance' \in [Lots -> Stock], shelf' \in [Lots -> Stock],
           count' \in [Counts -> CountRows],
           moving' \in [Clerks -> {NoMove} \cup (Lots \X {-1, 1})]
    PROVE  Typing'
  <1>1. Stock' = Stock /\ Entries' = Entries /\ CountRows' = CountRows
    BY DEF Stock, Entries, CountRows
  <1> HIDE DEF CountRows
  <1> QED BY <1>1 DEF Typing

\* Rows of counts stay rows when they are filled, saved or settled.
LEMMA RowUpdates ==
    ASSUME NEW row \in CountRows
    PROVE  /\ [row EXCEPT !.status = "completed"] \in CountRows
           /\ [row EXCEPT !.settled = TRUE] \in CountRows
           /\ balance \in [Lots -> Stock] =>
                  [row EXCEPT !.snapshot = balance] \in CountRows
    BY DEF CountRows

LEMMA InitTyping == Init => Typing
  <1> SUFFICES ASSUME Init PROVE Typing
    OBVIOUS
  <1>1. warehouse.most \in Nat /\ MaxLines \in Nat
    BY CountAssumption DEF Init
  <1>2. NoLines \in [Lots -> Seq(Entries)] /\ \A l \in Lots : Len(NoLines[l]) = 0
    BY EmptySeq DEF NoLines
  <1>3. NoSnapshot \in [Lots -> Stock]
    BY <1>1 DEF NoSnapshot, Stock
  <1>4. Absent \in CountRows
    BY <1>3 DEF Absent, CountRows
  <1>5. lines \in [Counts -> [Lots -> Seq(Entries)]]
    BY <1>2 DEF Init
  <1>6. \A c \in Counts, l \in Lots : Len(lines[c][l]) <= MaxLines
    BY <1>1, <1>2 DEF Init
  <1>7. /\ count \in [Counts -> CountRows]
        /\ moving \in [Clerks -> {NoMove} \cup (Lots \X {-1, 1})]
        /\ opener \in [Counts -> [step : {"idle", "snapshot", "lines"},
                                  left : SUBSET Lots]]
    BY <1>4 DEF Init, Idle
  <1> QED BY <1>5, <1>6, <1>7 DEF Init, Typing

LEMMA TypingStep == Typing /\ [Next]_vars => Typing'
  <1> SUFFICES ASSUME Typing, [Next]_vars PROVE Typing'
    OBVIOUS
  <1> USE DEF Typing
  <1> DEFINE Openers == [step : {"idle", "snapshot", "lines"}, left : SUBSET Lots]
  <1>1. /\ warehouse.most \in Nat /\ warehouse.scopes \subseteq {"full", "manual"}
        /\ MaxLines \in Nat
    BY WarehouseType, CountAssumption
  <1>2. NoSnapshot \in [Lots -> Stock] /\ Absent \in CountRows
    BY <1>1 DEF NoSnapshot, Stock, Absent, CountRows
  <1>3. Idle \in Openers
    BY DEF Idle
  <1>4. ASSUME NEW c \in Counts, NEW scope \in warehouse.scopes, OpenCount(c, scope)
        PROVE  Typing'
    <2>1. [Absent EXCEPT !.status = "in_progress", !.scope = scope] \in CountRows
      BY <1>1, <1>2 DEF CountRows, Absent
    <2>2. count' \in [Counts -> CountRows] /\ opener' \in [Counts -> Openers]
      BY <1>4, <2>1 DEF OpenCount
    <2> QED BY <1>4, <2>2, LinesCleared DEF OpenCount
  <1>5. ASSUME NEW c \in Counts, TakeSnapshot(c) PROVE Typing'
    <2>1. [count EXCEPT ![c].snapshot = balance] \in [Counts -> CountRows]
      <3>1. [count[c] EXCEPT !.snapshot = balance] \in CountRows
        BY RowUpdates
      <3> QED BY <3>1
    <2>2. count' \in [Counts -> CountRows]
      BY <1>5, <1>2, <2>1 DEF TakeSnapshot
    <2>3. opener' \in [Counts -> Openers]
      BY <1>5, <1>3 DEF TakeSnapshot, InStock
    <2> QED BY <1>5, <2>2, <2>3, LinesCleared DEF TakeSnapshot
  <1>6. ASSUME NEW c \in Counts, NEW l \in Lots, InsertLine(c, l) PROVE Typing'
    <2>1. lines[c][l] \in Seq(Entries) /\ Uncounted \in Entries
      BY DEF Entries
    <2>2. /\ Append(lines[c][l], Uncounted) \in Seq(Entries)
          /\ Len(Append(lines[c][l], Uncounted)) = Len(lines[c][l]) + 1
      BY <2>1, AppendProperties
    <2>3. Len(Append(lines[c][l], Uncounted)) <= MaxLines
      BY <1>6, <1>1, <2>1, <2>2, LenProperties DEF InsertLine
    <2>4. opener' \in [Counts -> Openers]
      <3>1. opener' = [opener EXCEPT ![c] =
                        IF opener[c].left = {l}
                        THEN Idle ELSE [step |-> "lines", left |-> opener[c].left \ {l}]]
        BY <1>6 DEF InsertLine
      <3> QED BY <3>1, <1>3
    <2> QED BY <1>6, <2>2, <2>3, <2>4, LineReplaced DEF InsertLine
  <1>7. ASSUME NEW c \in Counts, BreakOff(c) PROVE Typing'
    <2>1. opener' \in [Counts -> Openers]
      BY <1>7, <1>3 DEF BreakOff
    <2> QED BY <1>7, <2>1, LinesCleared DEF BreakOff
  <1>8. ASSUME NEW c \in Counts, NEW l \in Lots, Scan(c, l) PROVE Typing'
    <2>1. <<Uncounted>> \in Seq(Entries) /\ Len(<<Uncounted>>) = 1
      BY DEF Entries
    <2>2. Len(<<Uncounted>>) <= MaxLines
      BY <2>1, CountAssumption
    <2> QED BY <1>8, <2>1, <2>2, LineReplaced DEF Scan
  <1>9. ASSUME NEW c \in Counts, NEW l \in Lots, NEW n \in LineNumbers(c, l),
               Record(c, l, n)
        PROVE  Typing'
    <2> DEFINE s == [lines[c][l] EXCEPT ![n] = shelf[l]]
    <2>1. lines[c][l] \in Seq(Entries) /\ shelf[l] \in Entries
      BY DEF Entries
    <2>2. s \in Seq(Entries) /\ Len(s) = Len(lines[c][l])
      BY <2>1, ExceptSeq DEF LineNumbers
    <2>3. /\ lines' = [lines EXCEPT ![c][l] = s]
          /\ UNCHANGED <<warehouse, balance, shelf, count, opener, moving>>
      BY <1>9 DEF Record
    <2>4. Len(s) <= MaxLines /\ opener' \in [Counts -> Openers]
      BY <2>2, <2>3
    <2> HIDE DEF s
    <2> QED BY <2>2, <2>3, <2>4, LineReplaced
  <1>10. ASSUME NEW c \in Counts, Complete(c) PROVE Typing'
    <2>1. count' = [count EXCEPT ![c].status = "completed"]
      BY <1>10 DEF Complete
    <2>2. [count[c] EXCEPT !.status = "completed"] \in CountRows
      BY RowUpdates
    <2>3. count' \in [Counts -> CountRows]
      BY <2>1, <2>2
    <2> QED BY <1>10, <2>3, LinesCleared DEF Complete
  <1>11. ASSUME NEW c \in Counts, Delete(c) PROVE Typing'
    <2>1. count' \in [Counts -> CountRows]
      BY <1>11, <1>2 DEF Delete
    <2> QED BY <1>11, <2>1, LinesCleared DEF Delete
  <1>12. ASSUME NEW c \in Counts, Settle(c) PROVE Typing'
    <2>1. count' = [count EXCEPT ![c].settled = TRUE] /\ Stock' = Stock
      BY <1>12 DEF Settle, Stock
    <2>2. [count[c] EXCEPT !.settled = TRUE] \in CountRows
      BY RowUpdates
    <2>3. count' \in [Counts -> CountRows]
      BY <2>1, <2>2
    <2> QED BY <1>12, <2>1, <2>3, StockChanged DEF Settle
  <1>13. ASSUME NEW k \in Clerks, NEW l \in Lots, NEW d \in {-1, 1}, BeginMove(k, l, d)
         PROVE  Typing'
    BY <1>13, StockChanged DEF BeginMove
  <1>14. ASSUME NEW k \in Clerks, PostMove(k) PROVE Typing'
    <2>1. moving[k] \in Lots \X {-1, 1}
      BY <1>14 DEF PostMove
    <2>2. balance' \in [Lots -> Stock] /\ shelf' \in [Lots -> Stock]
      BY <1>14, <2>1 DEF PostMove
    <2>3. moving' \in [Clerks -> {NoMove} \cup (Lots \X {-1, 1})]
      BY <1>14 DEF PostMove
    <2> QED BY <1>14, <2>2, <2>3, StockChanged DEF PostMove
  <1>15. ASSUME NEW k \in Clerks, DropMove(k) PROVE Typing'
    BY <1>15, StockChanged DEF DropMove
  <1>16. ASSUME NEW l \in Lots, Return(l) PROVE Typing'
    BY <1>16, StockChanged DEF Return
  <1>17. CASE UNCHANGED vars
    BY <1>17, StockChanged DEF vars
  <1> QED
    BY <1>4, <1>5, <1>6, <1>7, <1>8, <1>9, <1>10, <1>11, <1>12, <1>13, <1>14, <1>15,
       <1>16, <1>17 DEF Next

\* Balances, goods, rows, lines and movements stay within their types,
\* whatever the warehouse permits: in particular no posting, settlement or
\* return takes a balance below zero.
THEOREM TypeCorrect == Spec => []TypeOK
  <1>1. Typing => TypeOK
    <2> SUFFICES ASSUME Typing PROVE TypeOK
      OBVIOUS
    <2>1. ASSUME NEW c \in Counts, NEW l \in Lots, NEW n \in 1..Len(lines[c][l])
          PROVE  lines[c][l][n] \in Stock \cup {Uncounted}
      <3>1. lines[c][l] \in Seq(Entries)
        BY DEF Typing
      <3> QED BY <3>1, ElementOfSeq DEF Entries
    <2> QED BY <2>1 DEF Typing, TypeOK
  <1> QED BY <1>1, InitTyping, TypingStep, PTL DEF Spec

-----------------------------------------------------------------------------
(* Steps, as one count sees them.                                          *)

Untouched(c) ==
    /\ count'[c] = count[c]
    /\ lines'[c] = lines[c]
    /\ opener'[c] = opener[c]

OwnStep(c) ==
    \/ \E scope \in warehouse.scopes : OpenCount(c, scope)
    \/ TakeSnapshot(c)
    \/ \E l \in Lots : InsertLine(c, l)
    \/ BreakOff(c)
    \/ \E l \in Lots : Scan(c, l)
    \/ \E l \in Lots : \E n \in LineNumbers(c, l) : Record(c, l, n)
    \/ Complete(c)
    \/ Delete(c)
    \/ Settle(c)

\* Only the operations of a count touch its row, its lines and its opening.
LEMMA RowSteps ==
    ASSUME Typing, [Next]_vars, NEW c \in Counts
    PROVE  Untouched(c) \/ OwnStep(c)
  <1> USE DEF Typing, Untouched
  <1>1. ASSUME NEW o \in Counts, o # c, OwnStep(o) PROVE Untouched(c)
    <2>1. CASE \E scope \in warehouse.scopes : OpenCount(o, scope)
      BY <1>1, <2>1 DEF OpenCount
    <2>2. CASE TakeSnapshot(o)
      BY <1>1, <2>2 DEF TakeSnapshot
    <2>3. CASE \E l \in Lots : InsertLine(o, l)
      BY <1>1, <2>3 DEF InsertLine
    <2>4. CASE BreakOff(o)
      BY <1>1, <2>4 DEF BreakOff
    <2>5. CASE \E l \in Lots : Scan(o, l)
      BY <1>1, <2>5 DEF Scan
    <2>6. CASE \E l \in Lots : \E n \in LineNumbers(o, l) : Record(o, l, n)
      BY <1>1, <2>6 DEF Record
    <2>7. CASE Complete(o)
      BY <1>1, <2>7 DEF Complete
    <2>8. CASE Delete(o)
      BY <1>1, <2>8 DEF Delete
    <2>9. CASE Settle(o)
      BY <1>1, <2>9 DEF Settle
    <2> QED
      BY <1>1, <2>1, <2>2, <2>3, <2>4, <2>5, <2>6, <2>7, <2>8, <2>9 DEF OwnStep
  <1>2. ASSUME NEW k \in Clerks,
               (\E l \in Lots, d \in {-1, 1} : BeginMove(k, l, d)) \/ PostMove(k) \/ DropMove(k)
        PROVE  Untouched(c)
    BY <1>2 DEF BeginMove, PostMove, DropMove
  <1>3. ASSUME NEW l \in Lots, Return(l) PROVE Untouched(c)
    BY <1>3 DEF Return
  <1>4. CASE UNCHANGED vars
    BY <1>4 DEF vars
  <1>5. ASSUME NEW o \in Counts, OwnStep(o) PROVE Untouched(c) \/ OwnStep(c)
    BY <1>1, <1>5
  <1> HIDE DEF Untouched
  <1>6. CASE Next
    BY <1>2, <1>3, <1>5, <1>6 DEF Next, OwnStep
  <1> QED BY <1>4, <1>6

\* The balance and the goods of a lot change with a settlement, a movement
\* or a return only.
LEMMA StockSteps ==
    ASSUME Typing, [Next]_vars
    PROVE  \/ UNCHANGED <<balance, shelf>>
           \/ \E c \in Counts : Settle(c)
           \/ \E k \in Clerks : PostMove(k)
           \/ \E l \in Lots : Return(l)
  <1>1. ASSUME NEW c \in Counts, OwnStep(c)
        PROVE  UNCHANGED <<balance, shelf>> \/ Settle(c)
    BY <1>1 DEF OwnStep, OpenCount, TakeSnapshot, InsertLine, BreakOff, Scan, Record,
                Complete, Delete
  <1>2. ASSUME NEW k \in Clerks,
               (\E l \in Lots, d \in {-1, 1} : BeginMove(k, l, d)) \/ DropMove(k)
        PROVE  UNCHANGED <<balance, shelf>>
    BY <1>2 DEF BeginMove, DropMove
  <1> QED BY <1>1, <1>2 DEF Next, OwnStep, vars

\* The warehouse stays as it is, and so does what it permits.
LEMMA WarehouseStays ==
    ASSUME [Next]_vars
    PROVE  warehouse' = warehouse /\ Permitted' = Permitted
  <1>1. warehouse' = warehouse
    BY DEF Next, vars, OpenCount, TakeSnapshot, InsertLine, BreakOff, Scan, Record,
           Complete, Delete, Settle, BeginMove, PostMove, DropMove, Return
  <1> QED BY <1>1 DEF Permitted

\* A lot has no line exactly if the list of its lines has no length.
LEMMA NoLine ==
    ASSUME Typing, NEW c \in Counts, NEW l \in Lots
    PROVE  /\ lines[c][l] \in Seq(Entries) /\ Len(lines[c][l]) \in Nat
           /\ lines[c][l] = <<>> <=> Len(lines[c][l]) = 0
           /\ lines[c][l] = <<>> <=> LineNumbers(c, l) = {}
  <1>1. lines[c][l] \in Seq(Entries)
    BY DEF Typing
  <1>2. Len(lines[c][l]) \in Nat /\ (lines[c][l] = <<>> <=> Len(lines[c][l]) = 0)
    BY <1>1, EmptySeq, LenProperties
  <1>3. Len(lines[c][l]) = 0 => LineNumbers(c, l) = {}
    BY DEF LineNumbers
  <1>4. Len(lines[c][l]) # 0 => 1 \in LineNumbers(c, l)
    BY <1>2 DEF LineNumbers
  <1> QED BY <1>1, <1>2, <1>3, <1>4

-----------------------------------------------------------------------------
(* Openings nobody interferes with.                                        *)

LEMMA InitOrderly == Init => Orderly
  <1>1. NoLines \in [Lots -> Seq({})] /\ \A l \in Lots : NoLines[l] = <<>>
    BY EmptySeq DEF NoLines
  <1>2. Len(<<>>) = 0
    BY EmptySeq
  <1> QED
    BY <1>1, <1>2 DEF Init, Orderly, OrderlyRow, Opening, Outstanding, Idle

LEMMA OrderlyStep == Typing /\ Orderly /\ [Next]_vars => Orderly'
  <1> SUFFICES ASSUME Typing, Orderly, [Next]_vars, Unhurried, NEW c \in Counts
               PROVE  OrderlyRow(c)'
    BY WarehouseStays DEF Orderly, Unhurried
  <1>1. OrderlyRow(c)
    BY DEF Orderly
  <1>2. Opening(c) => InProgress(c)
    BY <1>1 DEF OrderlyRow
  <1>3. Len(<<>>) = 0 /\ Len(<<Uncounted>>) = 1
    BY EmptySeq
  <1>4. ASSUME Workable(c) PROVE ~Opening(c)
    BY <1>4 DEF Workable, Unhurried
  <1> USE DEF Typing
  <1> DEFINE Row(l) == Len(lines[c][l])' <= 1 /\ (Outstanding(c, l)' => lines'[c][l] = <<>>)
  <1>5. CASE Untouched(c)
    BY <1>1, <1>5 DEF Untouched, OrderlyRow, Opening, InProgress, Outstanding
  <1>6. CASE \E scope \in warehouse.scopes : OpenCount(c, scope)
    <2>1. lines'[c] = NoLines /\ InProgress(c)'
      BY <1>6 DEF OpenCount, Absent, InProgress
    <2> QED BY <2>1, <1>3 DEF OrderlyRow, NoLines
  <1>7. CASE TakeSnapshot(c)
    <2>1. Opening(c) /\ \A l \in Lots : lines[c][l] = <<>>
      BY <1>1, <1>7 DEF TakeSnapshot, Opening, OrderlyRow, Outstanding
    <2>2. \A l \in Lots : lines'[c][l] = <<>>
      BY <1>7, <2>1 DEF TakeSnapshot
    <2>3. Opening(c)' => InProgress(c)'
      <3>1. CASE count[c].scope = "full" /\ InStock = {}
        BY <3>1, <1>7 DEF TakeSnapshot, Opening, Idle
      <3>2. CASE ~(count[c].scope = "full" /\ InStock = {})
        <4>1. count' = [count EXCEPT ![c].snapshot = balance]
          BY <3>2, <1>7 DEF TakeSnapshot
        <4>2. count'[c].status = count[c].status
          BY <4>1 DEF CountRows
        <4> QED BY <4>2, <2>1, <1>2 DEF InProgress
      <3> QED BY <3>1, <3>2
    <2> QED BY <2>2, <2>3, <1>3 DEF OrderlyRow
  <1>8. ASSUME NEW m \in Lots, InsertLine(c, m) PROVE OrderlyRow(c)'
    <2>1. Opening(c) /\ lines[c][m] = <<>>
      BY <1>1, <1>8 DEF InsertLine, Opening, OrderlyRow, Outstanding
    <2>2. Append(<<>>, Uncounted) = <<Uncounted>>
      OBVIOUS
    <2>3. lines' = [lines EXCEPT ![c][m] = <<Uncounted>>]
      BY <1>8, <2>1, <2>2 DEF InsertLine
    <2>4. InProgress(c)'
      BY <1>8, <2>1, <1>2 DEF InsertLine, InProgress
    <2>5. ASSUME NEW l \in Lots PROVE Row(l)
      <3>1. CASE l = m
        <4>1. ~Outstanding(c, m)'
          BY <1>8 DEF InsertLine, Outstanding, Idle
        <4> QED BY <3>1, <4>1, <2>3, <1>3
      <3>2. CASE l # m
        <4>1. lines'[c][l] = lines[c][l]
          BY <3>2, <2>3
        <4>2. Outstanding(c, l)' => Outstanding(c, l)
          BY <1>8 DEF InsertLine, Outstanding, Idle
        <4> QED BY <4>1, <4>2, <1>1 DEF OrderlyRow
      <3> QED BY <3>1, <3>2
    <2> QED BY <2>4, <2>5 DEF OrderlyRow
  <1>9. CASE BreakOff(c)
    BY <1>1, <1>9 DEF BreakOff, OrderlyRow, Opening, Outstanding, Idle
  <1>10. ASSUME NEW m \in Lots, Scan(c, m) PROVE OrderlyRow(c)'
    <2>1. ~Opening(c)' /\ \A l \in Lots : ~Outstanding(c, l)'
      BY <1>4, <1>10 DEF Scan, Opening, Outstanding
    <2>2. \A l \in Lots : Len(lines'[c][l]) <= 1
      BY <1>1, <1>3, <1>10 DEF Scan, OrderlyRow
    <2> QED BY <2>1, <2>2 DEF OrderlyRow
  <1>11. ASSUME NEW m \in Lots, NEW n \in LineNumbers(c, m), Record(c, m, n)
         PROVE  OrderlyRow(c)'
    <2>1. ~Opening(c)' /\ \A l \in Lots : ~Outstanding(c, l)'
      BY <1>4, <1>11 DEF Record, Opening, Outstanding
    <2>2. lines[c][m] \in Seq(Entries) /\ shelf[m] \in Entries
      BY DEF Entries
    <2>3. Len([lines[c][m] EXCEPT ![n] = shelf[m]]) = Len(lines[c][m])
      BY <2>2, ExceptSeq DEF LineNumbers
    <2>4. ASSUME NEW l \in Lots PROVE Len(lines'[c][l]) = Len(lines[c][l])
      BY <2>3, <1>11 DEF Record
    <2> QED BY <1>1, <2>1, <2>4 DEF OrderlyRow
  <1>12. CASE Complete(c)
    <2>1. ~Opening(c)' /\ \A l \in Lots : ~Outstanding(c, l)'
      BY <1>4, <1>12 DEF Complete, Opening, Outstanding
    <2> QED BY <1>1, <1>12, <2>1 DEF OrderlyRow, Complete
  <1>13. CASE Delete(c)
    <2>1. ~Opening(c)' /\ \A l \in Lots : ~Outstanding(c, l)'
      BY <1>4, <1>13 DEF Delete, Opening, Outstanding
    <2>2. lines'[c] = NoLines
      BY <1>13 DEF Delete
    <2> QED BY <2>1, <2>2, <1>3 DEF OrderlyRow, NoLines
  <1>14. CASE Settle(c)
    <2>1. count'[c].status = count[c].status
      <3>1. count' = [count EXCEPT ![c].settled = TRUE]
        BY <1>14 DEF Settle
      <3> QED BY <3>1 DEF CountRows
    <2> QED BY <1>1, <1>14, <2>1 DEF Settle, OrderlyRow, Opening, InProgress, Outstanding
  <1> HIDE DEF Typing
  <1> QED
    BY RowSteps, <1>5, <1>6, <1>7, <1>8, <1>9, <1>10, <1>11, <1>12, <1>13, <1>14
       DEF OwnStep

\* Unless somebody works on a count that is still being opened, a lot has
\* one line in it, however it came in, and the settlement of the count is
\* not kept from going through by a second one.
THEOREM EachLotIsCountedOnce ==
    ASSUME \A w \in Warehouses : "workWhileOpening" \notin w.permits
    PROVE  Spec => []OneLinePerLot
  <1>1. Typing /\ Orderly => OneLinePerLot
    BY DEF Typing, Orderly, OrderlyRow, OneLinePerLot, Unhurried, Permitted
  <1> QED BY <1>1, InitTyping, TypingStep, InitOrderly, OrderlyStep, PTL DEF Spec

-----------------------------------------------------------------------------
(* Saved counts.                                                           *)

\* Saving a count is final: no request that works on the count, deletes it
\* or is still opening it has any effect on its lines or its snapshot from
\* then on, unless somebody works on a count that is being opened.
THEOREM SavingIsFinal ==
    ASSUME \A w \in Warehouses : "workWhileOpening" \notin w.permits
    PROVE  Spec => SavedCountIsFinal
  <1> DEFINE Final(c) == /\ count'[c].status = "completed"
                         /\ count'[c].snapshot = count[c].snapshot
                         /\ lines'[c] = lines[c]
  <1>1. ASSUME Typing, Orderly, [Next]_vars, NEW c \in Counts, Completed(c)
        PROVE  Final(c)
    <2>1. ~InProgress(c) /\ count[c].status # "absent"
      BY <1>1 DEF Completed, InProgress
    <2>2. ~Opening(c)
      BY <1>1, <2>1 DEF Typing, Orderly, OrderlyRow, Unhurried, Permitted
    <2>3. CASE Untouched(c)
      BY <1>1, <2>3 DEF Untouched, Completed
    <2>4. CASE Settle(c)
      <3>1. count' = [count EXCEPT ![c].settled = TRUE] /\ lines' = lines
        BY <2>4 DEF Settle
      <3>2. /\ count'[c].status = count[c].status
            /\ count'[c].snapshot = count[c].snapshot
        BY <1>1, <3>1 DEF Typing, CountRows
      <3> QED BY <1>1, <3>1, <3>2 DEF Completed
    <2>5. OwnStep(c) => Settle(c)
      BY <2>1, <2>2 DEF OwnStep, OpenCount, TakeSnapshot, InsertLine, BreakOff, Opening,
                        Scan, Record, Complete, Delete, Workable
    <2> QED BY <1>1, <2>3, <2>4, <2>5, RowSteps
  <1>2. Typing /\ Orderly /\ [Next]_vars
            => [\A c \in Counts : Completed(c) => Final(c)]_vars
    BY <1>1
  <1> QED
    BY <1>2, InitTyping, TypingStep, InitOrderly, OrderlyStep, PTL
       DEF Spec, SavedCountIsFinal

-----------------------------------------------------------------------------
(* Warehouses with discipline.                                             *)

\* What a disciplined warehouse does without.
LEMMA Discipline ==
    ASSUME Disciplined
    PROVE  /\ Unhurried
           /\ "movingWhileOpening" \notin Permitted
           /\ "scans" \notin Permitted
           /\ "overlaps" \notin Permitted
           /\ "returns" \notin Permitted
    BY DEF Disciplined, Unhurried

\* What holds a lot depends on the row and the lines of the count alone.
LEMMA HoldsUnchanged ==
    ASSUME NEW c \in Counts, count'[c] = count[c], lines'[c] = lines[c]
    PROVE  /\ InProgress(c)' = InProgress(c)
           /\ AwaitsSettlement(c)' = AwaitsSettlement(c)
           /\ \A l \in Lots : Holds(c, l)' = Holds(c, l)
    BY DEF InProgress, AwaitsSettlement, Completed, Discrepant, Variance, LineNumbers,
           Holds

\* A count becomes active when it is opened, and only then.
LEMMA ActiveSteps ==
    ASSUME Typing, [Next]_vars, NEW c \in Counts, Active(c)'
    PROVE  Active(c) \/ \E scope \in warehouse.scopes : OpenCount(c, scope)
  <1>1. CASE Untouched(c)
    BY <1>1, HoldsUnchanged DEF Untouched, Active, Opening
  <1>2. OwnStep(c) => Active(c) \/ \E scope \in warehouse.scopes : OpenCount(c, scope)
    BY DEF OwnStep, TakeSnapshot, InsertLine, BreakOff, Scan, Record, Complete, Delete,
           Settle, Settleable, Workable, Active, Opening
  <1> QED BY <1>1, <1>2, RowSteps

\* A count is being opened from its first step on.
LEMMA OpeningSteps ==
    ASSUME Typing, Orderly, Unhurried, [Next]_vars, NEW c \in Counts, Opening(c)'
    PROVE  Opening(c) \/ \E scope \in warehouse.scopes : OpenCount(c, scope)
  <1>1. CASE Untouched(c)
    BY <1>1 DEF Untouched, Opening
  <1>2. OwnStep(c) => Opening(c) \/ \E scope \in warehouse.scopes : OpenCount(c, scope)
    BY DEF OwnStep, TakeSnapshot, InsertLine, BreakOff, Scan, Record, Complete, Delete,
           Settle, Opening
  <1> QED BY <1>1, <1>2, RowSteps

\* A movement is on its way from its guard to its posting.
LEMMA MovingSteps ==
    ASSUME Typing, [Next]_vars, NEW k \in Clerks
    PROVE  \/ moving'[k] = moving[k]
           \/ moving'[k] = NoMove
           \/ \E l \in Lots, d \in {-1, 1} : BeginMove(k, l, d) /\ moving'[k] = <<l, d>>
  <1>1. ASSUME NEW c \in Counts, OwnStep(c) PROVE moving' = moving
    BY <1>1 DEF OwnStep, OpenCount, TakeSnapshot, InsertLine, BreakOff, Scan, Record,
                Complete, Delete, Settle
  <1>2. ASSUME NEW j \in Clerks, NEW l \in Lots, NEW d \in {-1, 1}, BeginMove(j, l, d)
        PROVE  moving'[k] = moving[k] \/ (j = k /\ moving'[k] = <<l, d>>)
    BY <1>2 DEF BeginMove, Typing
  <1>3. ASSUME NEW j \in Clerks, PostMove(j) \/ DropMove(j)
        PROVE  moving'[k] = moving[k] \/ moving'[k] = NoMove
    BY <1>3 DEF PostMove, DropMove, Typing
  <1>4. ASSUME NEW l \in Lots, Return(l) PROVE moving' = moving
    BY <1>4 DEF Return
  <1>5. CASE UNCHANGED vars
    BY <1>5 DEF vars
  <1> QED BY <1>1, <1>2, <1>3, <1>4, <1>5 DEF Next, OwnStep

LEMMA AloneStep == Typing /\ Alone /\ [Next]_vars => Alone'
  <1> SUFFICES ASSUME Typing, Alone, [Next]_vars, Disciplined,
                      NEW c \in Counts, NEW o \in Counts, Active(c)', Active(o)', c # o
               PROVE  FALSE
    BY WarehouseStays DEF Alone, Disciplined
  <1>1. ASSUME NEW a \in Counts, NEW b \in Counts, a # b, Active(b)',
               NEW scope \in warehouse.scopes, OpenCount(a, scope)
        PROVE  FALSE
    <2>1. ~Active(b)
      BY <1>1, Discipline DEF OpenCount, Active
    <2>2. PICK s \in warehouse.scopes : OpenCount(b, s)
      BY <1>1, <2>1, ActiveSteps
    <2>3. count'[b] = count[b] /\ count[b].status = "absent"
      BY <1>1, <2>2 DEF OpenCount, Typing
    <2>4. count'[b].status = "in_progress"
      BY <2>2 DEF OpenCount, Typing, Absent
    <2> QED BY <2>3, <2>4
  <1>2. Active(c) /\ Active(o)
    BY <1>1, ActiveSteps
  <1> QED BY <1>2 DEF Alone

\* The lots of a count that is being opened, and those it holds, stay where
\* they are until it is settled.
LEMMA HeldStays ==
    ASSUME Typing, Orderly, Alone, Still, Clear, Disciplined, [Next]_vars,
           NEW c \in Counts, NEW l \in Lots, Opening(c) \/ Holds(c, l), ~Settle(c)
    PROVE  balance'[l] = balance[l] /\ shelf'[l] = shelf[l]
  <1>1. Active(c)
    BY DEF Active, Holds
  <1>2. ASSUME NEW o \in Counts, Settle(o) PROVE FALSE
    <2>1. Active(o)
      BY <1>2 DEF Settle, Settleable, Active
    <2> QED BY <1>1, <1>2, <2>1 DEF Alone
  <1>3. ASSUME NEW k \in Clerks, PostMove(k)
        PROVE  balance'[l] = balance[l] /\ shelf'[l] = shelf[l]
    <2>1. moving[k] # NoMove
      BY <1>3 DEF PostMove
    <2>2. Holds(c, l)
      BY <2>1 DEF Still
    <2>3. Frozen(l)
      BY <2>2 DEF Frozen
    <2>4. moving[k][1] # l
      BY <2>1, <2>3 DEF Clear
    <2>5. moving[k] \in Lots \X {-1, 1}
      BY <2>1 DEF Typing
    <2> QED BY <1>3, <2>4, <2>5 DEF PostMove, Typing
  <1>4. ASSUME NEW m \in Lots, Return(m) PROVE FALSE
    BY <1>4, Discipline DEF Return
  <1> QED BY <1>2, <1>3, <1>4, StockSteps

LEMMA StillStep ==
    Typing /\ Orderly /\ Alone /\ Still /\ Clear /\ [Next]_vars => Still'
  <1> SUFFICES ASSUME Typing, Orderly, Alone, Still, Clear, [Next]_vars, Disciplined,
                      NEW c \in Counts
               PROVE  /\ Opening(c)' => \A k \in Clerks : moving'[k] = NoMove
                      /\ opener'[c].step = "lines" => count'[c].snapshot = balance'
    BY WarehouseStays DEF Still, Disciplined
  <1>1. ASSUME Opening(c)', NEW k \in Clerks PROVE moving'[k] = NoMove
    <2>1. CASE \E scope \in warehouse.scopes : OpenCount(c, scope)
      BY <2>1, Discipline DEF OpenCount
    <2>2. CASE Opening(c)
      <3>1. moving[k] = NoMove
        BY <2>2 DEF Still
      <3>2. ASSUME NEW l \in Lots, NEW d \in {-1, 1}, BeginMove(k, l, d) PROVE FALSE
        BY <2>2, <3>2, Discipline DEF BeginMove
      <3> QED BY <3>1, <3>2, MovingSteps
    <2> QED BY <1>1, <2>1, <2>2, OpeningSteps, Discipline
  <1>2. ASSUME opener'[c].step = "lines" PROVE count'[c].snapshot = balance'
    <2>1. Opening(c)'
      BY <1>2 DEF Opening
    <2>2. CASE TakeSnapshot(c)
      <3>1. count' = [count EXCEPT ![c].snapshot = balance] /\ balance' = balance
        BY <1>2, <2>2 DEF TakeSnapshot, Idle, Typing
      <3> QED BY <3>1 DEF Typing, CountRows
    <2>3. CASE opener[c].step = "lines" /\ count'[c].snapshot = count[c].snapshot
      <3>1. InProgress(c)
        BY <2>3, Discipline DEF Orderly, OrderlyRow, Opening
      <3>2. ~Settle(c)
        BY <3>1 DEF Settle, Settleable, AwaitsSettlement, Completed, InProgress
      <3>3. \A l \in Lots : balance'[l] = balance[l]
        BY <2>3, <3>2, HeldStays DEF Opening
      <3>4. balance' \in [Lots -> Stock'] /\ balance \in [Lots -> Stock]
        BY TypingStep DEF Typing
      <3>5. balance' = balance
        BY <3>3, <3>4
      <3> QED BY <2>3, <3>5 DEF Still
    <2>4. CASE Untouched(c)
      BY <1>2, <2>3, <2>4 DEF Untouched
    <2>5. CASE \E l \in Lots : InsertLine(c, l)
      BY <2>3, <2>5 DEF InsertLine
    <2>6. CASE OwnStep(c) /\ ~TakeSnapshot(c) /\ ~(\E l \in Lots : InsertLine(c, l))
      <3>1. ~Opening(c)'
        <4>1. CASE \E scope \in warehouse.scopes : OpenCount(c, scope)
          BY <1>2, <4>1 DEF OpenCount, Typing
        <4>2. CASE BreakOff(c)
          BY <4>2 DEF BreakOff, Opening, Idle, Typing
        <4>3. ASSUME Workable(c), UNCHANGED opener PROVE ~Opening(c)'
          BY <4>3, Discipline DEF Workable, Opening, Unhurried
        <4>4. CASE Settle(c)
          <5>1. ~InProgress(c) /\ UNCHANGED opener
            BY <4>4 DEF Settle, Settleable, AwaitsSettlement, Completed, InProgress
          <5> QED BY <5>1, Discipline DEF Orderly, OrderlyRow, Opening
        <4> QED
          BY <2>6, <4>1, <4>2, <4>3, <4>4 DEF OwnStep, Scan, Record, Complete, Delete
      <3> QED BY <2>1, <3>1
    <2> QED BY <2>2, <2>4, <2>5, <2>6, RowSteps
  <1> QED BY <1>1, <1>2

\* Without scans, a lot comes into the hold of a count as its opening makes a
\* line for it; what is known of the lot then changes by recording only.
LEMMA HoldsSteps ==
    ASSUME Typing, Orderly, Disciplined, [Next]_vars,
           NEW c \in Counts, NEW l \in Lots, Holds(c, l)'
    PROVE  \/ InsertLine(c, l) /\ lines[c][l] = <<>> /\ Opening(c)
           \/ /\ Holds(c, l)
              /\ ~Settle(c)
              /\ count'[c].snapshot = count[c].snapshot
              /\ \/ lines'[c][l] = lines[c][l]
                 \/ \E n \in LineNumbers(c, l) :
                        lines'[c][l] = [lines[c][l] EXCEPT ![n] = shelf[l]]
  <1> DEFINE Same == /\ Holds(c, l)
                     /\ ~Settle(c)
                     /\ count'[c].snapshot = count[c].snapshot
                     /\ \/ lines'[c][l] = lines[c][l]
                        \/ \E n \in LineNumbers(c, l) :
                               lines'[c][l] = [lines[c][l] EXCEPT ![n] = shelf[l]]
         Goal == (InsertLine(c, l) /\ lines[c][l] = <<>> /\ Opening(c)) \/ Same
  <1> SUFFICES Goal
    OBVIOUS
  <1>2. lines'[c][l] # <<>>
    <2>1. LineNumbers(c, l)' # {}
      BY DEF Holds
    <2>2. Len(<<>>) = 0
      BY EmptySeq
    <2> QED BY <2>1, <2>2 DEF LineNumbers
  <1>3. ASSUME lines[c][l] # <<>>, InProgress(c) PROVE Holds(c, l)
    BY <1>3, NoLine DEF Holds
  <1>4. InProgress(c) => ~Settle(c)
    BY DEF Settle, Settleable, AwaitsSettlement, Completed, InProgress
  <1>5. ~Settle(c)
    <2> SUFFICES ASSUME Settle(c) PROVE FALSE
      OBVIOUS
    <2>1. count' = [count EXCEPT ![c].settled = TRUE] /\ Completed(c)
      BY DEF Settle, Settleable, AwaitsSettlement
    <2>2. count'[c].settled /\ count'[c].status = count[c].status
      BY <2>1 DEF Typing, CountRows
    <2>3. ~InProgress(c)' /\ ~AwaitsSettlement(c)'
      BY <2>1, <2>2 DEF Completed, InProgress, AwaitsSettlement
    <2> QED BY <2>3 DEF Holds
  <1>6. CASE Untouched(c)
    BY <1>5, <1>6, HoldsUnchanged DEF Untouched
  <1>7. CASE (\E scope \in warehouse.scopes : OpenCount(c, scope)) \/ Delete(c)
    <2>1. lines' = [lines EXCEPT ![c] = NoLines]
      BY <1>7 DEF OpenCount, Delete
    <2> QED BY <2>1, <1>2 DEF Typing, NoLines
  <1>8. CASE TakeSnapshot(c)
    <2>1. lines[c][l] = <<>> /\ lines' = lines
      BY <1>8, Discipline DEF TakeSnapshot, Orderly, OrderlyRow, Outstanding
    <2> QED BY <2>1, <1>2
  <1>9. ASSUME NEW m \in Lots, InsertLine(c, m)
        PROVE  Goal
    <2>1. Opening(c) /\ lines[c][m] = <<>> /\ InProgress(c)
      BY <1>9, Discipline DEF InsertLine, Orderly, OrderlyRow, Opening, Outstanding
    <2>2. CASE m = l
      BY <1>9, <2>1, <2>2
    <2>3. CASE m # l
      <3>1. lines'[c][l] = lines[c][l] /\ count' = count
        BY <1>9, <2>3 DEF InsertLine, Typing
      <3> QED BY <3>1, <2>1, <1>2, <1>3, <1>4
    <2> QED BY <2>2, <2>3
  <1>10. CASE BreakOff(c)
    <2>1. count' = count /\ lines' = lines
      BY <1>10 DEF BreakOff
    <2> QED BY <1>5, <2>1, HoldsUnchanged
  <1>11. ~(\E m \in Lots : Scan(c, m))
    BY Discipline DEF Scan
  <1>12. ASSUME NEW m \in Lots, NEW n \in LineNumbers(c, m), Record(c, m, n)
         PROVE  Goal
    <2>1. InProgress(c) /\ count' = count
      BY <1>12 DEF Record, Workable
    <2>2. CASE m = l
      <3>1. lines'[c][l] = [lines[c][l] EXCEPT ![n] = shelf[l]]
        BY <1>12, <2>2 DEF Record, Typing
      <3>2. LineNumbers(c, l) # {}
        BY <2>2
      <3> QED BY <2>1, <2>2, <3>1, <3>2, <1>5 DEF Holds
    <2>3. CASE m # l
      <3>1. lines'[c][l] = lines[c][l]
        BY <1>12, <2>3 DEF Record, Typing
      <3> QED BY <3>1, <2>1, <1>2, <1>3, <1>4
    <2> QED BY <2>2, <2>3
  <1>13. CASE Complete(c)
    <2>1. /\ InProgress(c)
          /\ lines' = lines
          /\ count' = [count EXCEPT ![c].status = "completed"]
      BY <1>13 DEF Complete, Workable
    <2>2. count'[c].snapshot = count[c].snapshot
      BY <2>1 DEF Typing, CountRows
    <2> QED BY <2>1, <2>2, <1>2, <1>3, <1>4
  <1> HIDE DEF Goal
  <1> QED
    BY <1>5, <1>6, <1>7, <1>8, <1>9, <1>10, <1>11, <1>12, <1>13, RowSteps DEF OwnStep

LEMMA ClearStep ==
    Typing /\ Orderly /\ Still /\ Clear /\ [Next]_vars => Clear'
  <1> SUFFICES ASSUME Typing, Orderly, Still, Clear, [Next]_vars, Disciplined,
                      NEW k \in Clerks, NEW l \in Lots,
                      moving'[k] # NoMove, moving'[k][1] = l, Frozen(l)'
               PROVE  FALSE
    BY WarehouseStays DEF Clear, Disciplined
  <1>1. PICK c \in Counts : Holds(c, l)'
    BY DEF Frozen
  <1>2. ASSUME ~Frozen(l), ~Opening(c) PROVE FALSE
    BY <1>1, <1>2, HoldsSteps DEF Frozen
  <1>3. CASE moving'[k] = moving[k]
    BY <1>2, <1>3 DEF Clear, Still
  <1>4. ASSUME NEW m \in Lots, NEW d \in {-1, 1}, BeginMove(k, m, d),
               moving'[k] = <<m, d>>
        PROVE  FALSE
    <2>1. l = m /\ ~Frozen(m)
      BY <1>4 DEF BeginMove
    <2>2. ~Opening(c)
      BY <1>4, Discipline DEF BeginMove
    <2> QED BY <1>2, <2>1, <2>2
  <1> QED BY <1>3, <1>4, MovingSteps

LEMMA SoundStep ==
    Typing /\ Orderly /\ Alone /\ Still /\ Clear /\ Sound /\ [Next]_vars => Sound'
  <1> SUFFICES ASSUME Typing, Orderly, Alone, Still, Clear, Sound, [Next]_vars,
                      Disciplined, NEW c \in Counts, NEW l \in Lots, Holds(c, l)'
               PROVE  AsOpened(c, l)'
    BY WarehouseStays DEF Sound, Disciplined
  <1>1. CASE InsertLine(c, l) /\ lines[c][l] = <<>> /\ Opening(c)
    <2>1. count[c].snapshot = balance
      BY <1>1 DEF InsertLine, Still
    <2>2. count' = count /\ balance' = balance
      BY <1>1 DEF InsertLine
    <2>3. lines'[c][l] = <<Uncounted>>
      <3>1. Append(<<>>, Uncounted) = <<Uncounted>>
        OBVIOUS
      <3> QED BY <1>1, <3>1 DEF InsertLine, Typing
    <2>4. \A n \in LineNumbers(c, l)' : lines'[c][l][n] = Uncounted
      BY <2>3 DEF LineNumbers
    <2> QED BY <2>1, <2>2, <2>4 DEF AsOpened
  <1>2. CASE /\ Holds(c, l)
             /\ ~Settle(c)
             /\ count'[c].snapshot = count[c].snapshot
             /\ \/ lines'[c][l] = lines[c][l]
                \/ \E n \in LineNumbers(c, l) :
                       lines'[c][l] = [lines[c][l] EXCEPT ![n] = shelf[l]]
    <2>1. AsOpened(c, l)
      BY <1>2 DEF Sound
    <2>2. balance'[l] = balance[l] /\ shelf'[l] = shelf[l]
      BY <1>2, HeldStays
    <2>3. \A n \in LineNumbers(c, l)' : lines'[c][l][n] \in {Uncounted, shelf[l]}
      <3>1. CASE lines'[c][l] = lines[c][l]
        BY <2>1, <3>1 DEF AsOpened, LineNumbers
      <3>2. ASSUME NEW n \in LineNumbers(c, l),
                   lines'[c][l] = [lines[c][l] EXCEPT ![n] = shelf[l]]
            PROVE  \A m \in LineNumbers(c, l)' : lines'[c][l][m] \in {Uncounted, shelf[l]}
        <4>1. lines[c][l] \in Seq(Entries) /\ shelf[l] \in Entries
          BY DEF Typing, Entries
        <4>2. /\ Len(lines'[c][l]) = Len(lines[c][l])
              /\ \A m \in 1..Len(lines[c][l]) :
                    lines'[c][l][m] = IF m = n THEN shelf[l] ELSE lines[c][l][m]
          BY <3>2, <4>1, ExceptSeq DEF LineNumbers
        <4> QED BY <2>1, <4>2 DEF AsOpened, LineNumbers
      <3> QED BY <1>2, <3>1, <3>2
    <2> QED BY <1>2, <2>1, <2>2, <2>3 DEF AsOpened
  <1> QED BY <1>1, <1>2, HoldsSteps

LEMMA InitQuiet == Init => Alone /\ Still /\ Clear /\ Sound
  <1> SUFFICES ASSUME Init PROVE Alone /\ Still /\ Clear /\ Sound
    OBVIOUS
  <1>1. \A c \in Counts : /\ ~InProgress(c) /\ ~AwaitsSettlement(c) /\ ~Opening(c)
                          /\ opener[c].step # "lines"
    BY DEF Init, Absent, Idle, InProgress, AwaitsSettlement, Completed, Opening
  <1>2. \A k \in Clerks : moving[k] = NoMove
    BY DEF Init
  <1> QED BY <1>1, <1>2 DEF Alone, Still, Clear, Sound, Active, Holds

LEMMA Invariance == Spec => []IInv
  <1>1. Init => IInv
    BY InitTyping, InitOrderly, InitQuiet DEF IInv
  <1>2. IInv /\ [Next]_vars => IInv'
    BY TypingStep, OrderlyStep, AloneStep, StillStep, ClearStep, SoundStep DEF IInv
  <1> QED BY <1>1, <1>2, PTL DEF Spec

\* In a warehouse with discipline the balance of a lot under count is the one
\* the count started from, although the count was opened row by row, other
\* lots move meanwhile, and guard and posting of a movement are two steps.
THEOREM ReferenceIsStable == Spec => []DisciplineKeepsReference
  <1>1. IInv => DisciplineKeepsReference
    <2> SUFFICES ASSUME IInv, Disciplined, NEW c \in Counts, NEW l \in Lots,
                        InProgress(c), lines[c][l] # <<>>
                 PROVE  balance[l] = count[c].snapshot[l]
      BY DEF DisciplineKeepsReference, StableReference
    <2>1. Holds(c, l)
      BY NoLine DEF Holds, IInv
    <2> QED BY <2>1 DEF IInv, Sound, AsOpened
  <1> QED BY <1>1, Invariance, PTL

\* What a discrepant lot of a count that waits for its settlement has: one
\* line, with what lies on the shelf, and the balance of the opening.
LEMMA DiscrepantLot ==
    ASSUME IInv, Disciplined, NEW c \in Counts, AwaitsSettlement(c),
           NEW l \in Discrepant(c)
    PROVE  /\ Len(lines[c][l]) = 1
           /\ balance[l] + Variance(c, l, 1) = shelf[l]
  <1>1. PICK n \in LineNumbers(c, l) : Variance(c, l, n) # 0
    BY DEF Discrepant
  <1>2. l \in Lots /\ Holds(c, l)
    BY <1>1 DEF Discrepant, Holds
  <1>3. Len(lines[c][l]) <= 1 /\ Len(lines[c][l]) \in Nat
    BY <1>2, NoLine, Discipline DEF IInv, Orderly, OrderlyRow
  <1>4. Len(lines[c][l]) = 1 /\ n = 1
    <2> DEFINE x == Len(lines[c][l])
    <2>1. n \in 1..x /\ x \in Nat /\ x <= 1
      BY <1>1, <1>3 DEF LineNumbers
    <2> HIDE DEF x
    <2>2. x = 1 /\ n = 1
      BY <2>1
    <2> QED BY <2>2 DEF x
  <1>5. AsOpened(c, l)
    BY <1>2 DEF IInv, Sound
  <1>6. lines[c][l][1] # Uncounted /\ lines[c][l][1] \in {Uncounted, shelf[l]}
    BY <1>1, <1>4, <1>5 DEF Variance, AsOpened
  <1>7. Variance(c, l, 1) = shelf[l] - balance[l]
    BY <1>5, <1>6 DEF Variance, AsOpened
  <1>8. shelf[l] \in Int /\ balance[l] \in Int
    BY <1>2, WarehouseType DEF IInv, Typing, Stock
  <1> QED BY <1>4, <1>7, <1>8

\* In a warehouse with discipline a settlement that a lot waits for can be
\* posted: it meets one line for each lot and takes no balance below zero.
THEOREM SettlementGoesThrough == Spec => []DisciplineReleases
  <1>1. IInv => DisciplineReleases
    <2> SUFFICES ASSUME IInv, Disciplined, NEW c \in Counts, AwaitsSettlement(c),
                        NEW l \in Discrepant(c)
                 PROVE  Len(lines[c][l]) = 1 /\ balance[l] + Variance(c, l, 1) >= 0
      BY DEF DisciplineReleases, FrozenLotsCanBeReleased, Settleable
    <2>1. l \in Lots
      BY DEF Discrepant
    <2>2. shelf[l] >= 0
      BY <2>1, WarehouseType DEF IInv, Typing, Stock
    <2> QED BY <2>2, DiscrepantLot
  <1> QED BY <1>1, Invariance, PTL

\* In a warehouse with discipline a settlement makes the books say what lies
\* on the shelf, although lots have been moving since the count was opened.
THEOREM BooksBecomeTheShelf == Spec => DisciplineReconciles
  <1>1. ASSUME IInv, Disciplined, NEW c \in Counts, Settle(c), NEW l \in Discrepant(c)
        PROVE  balance'[l] = shelf'[l]
    <2>1. AwaitsSettlement(c) /\ l \in Lots
      BY <1>1 DEF Settle, Settleable, Discrepant
    <2>2. balance'[l] = balance[l] + Variance(c, l, 1) /\ shelf' = shelf
      BY <1>1, <2>1 DEF Settle, Settled
    <2> QED BY <1>1, <2>1, <2>2, DiscrepantLot
  <1>2. IInv => (Disciplined => \A c \in Counts : Settle(c) =>
                    \A l \in Discrepant(c) : balance'[l] = shelf'[l])
    BY <1>1
  <1> QED BY <1>2, Invariance, PTL DEF Spec, DisciplineReconciles
=============================================================================
