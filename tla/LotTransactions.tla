--------------------------- MODULE LotTransactions ---------------------------
(***************************************************************************)
(* How the warehouse module posts to the lot ledger: every operation is a  *)
(* database transaction of several SQL statements, and the statements of   *)
(* requests on different connections interleave.                           *)
(*                                                                         *)
(* An operation is the sequence of its statements that touch the ledger    *)
(* (Program).  One action executes one statement, under the rules of a     *)
(* MySQL compatible database at REPEATABLE READ, the level every           *)
(* transaction of the server runs at unless it asks for another:           *)
(*   - SELECT ... FOR UPDATE, UPDATE and INSERT lock the row until the     *)
(*     transaction ends and act on its latest committed version;           *)
(*   - a plain SELECT takes no lock and answers from the read view of the  *)
(*     transaction, except that it sees the transaction's own writes;      *)
(*   - an error, a lost connection or a crash drops everything written.    *)
(*                                                                         *)
(* So a plain SELECT after a FOR UPDATE of the same row may still show the *)
(* row as it was before the lock, and it is the conditional UPDATEs, not   *)
(* the locks, that most of these operations owe their correctness to.      *)
(*                                                                         *)
(* A transaction posts one line here.  Receipts, settlements, opening      *)
(* balances, disposals and batches of deliveries post all their lines in   *)
(* one transaction, in the order in which they were entered.  A line after *)
(* the first begins with an old read view, which is modelled (early); that *)
(* the transaction then holds rows of other lines, so that two receipts of *)
(* the same goods in opposite orders wait for each other, is not.  Nothing *)
(* is said here of which requests wait for one another: a circle is broken *)
(* by the database, and its victim is not tried again.                     *)
(***************************************************************************)
EXTENDS Integers, Sequences, FiniteSetsExt

CONSTANTS
    Procs,      \* database connections that run postings
    NLots,      \* lots are numbered 1..NLots
    NStocks,    \* stock rows are numbered 1..NStocks
    NDocs,      \* delivery documents 1..NDocs are open to recipient returns
    Quantities, \* the quantities one posting to an existing lot may carry
    MaxStock,   \* bound on the goods of one stock row or of one lot, a new
                \* lot included
    Loads       \* the loads the server may be under, see Load

AllKinds == {"issue", "purchaseIssue", "dispose", "supplierReturn", "transfer",
             "receipt", "draftReceipt", "openingBalance", "settle",
             "recipientReturn", "teamReturn"}

ASSUME TransactionsAssumption ==
    /\ NLots \in Nat \ {0}
    /\ NStocks \in Nat \ {0}
    /\ NDocs \in Nat
    /\ MaxStock \in Nat
    /\ Quantities \subseteq 1..MaxStock
    /\ \A load \in Loads :
        /\ load.kinds \subseteq AllKinds
        /\ load.early \subseteq BOOLEAN
        /\ load.width \in Nat

Lots == 1..NLots
Stocks == 1..NStocks
Docs == 1..NDocs

\* The requests that meet: "width" of them at a time, of these kinds, on
\* these lots, stock rows and documents.  "early" says whether the read view
\* may (TRUE) exist when the operation starts - a line of a batch after the
\* first, or a database that takes the view at BEGIN - or only (FALSE) from
\* its first plain SELECT on.
Load(kinds, lots, stocks, docs, early, width) ==
    [kinds |-> kinds, lots |-> lots, stocks |-> stocks, docs |-> docs,
     early |-> early, width |-> width]

-----------------------------------------------------------------------------
(* The rows, each with the one figure the ledger keeps in it.              *)
Inv(i) == <<"inventory", i>>               \* inventory.quantity
Bal(l, i) == <<"balance", l, i>>           \* inventory_lot_balances.quantity
Rem(l) == <<"remaining", l>>               \* inventory_lots.remainingQuantity
Made(l) == <<"lot", l>>                    \* 1: the lot has been inserted
LotCounter == <<"lotNumberCounter">>       \* locked, its number is not kept
Sent(d, l, i) == <<"delivery", d, l, i>>   \* 1: document d delivered from l, i
Open(d, l, i) == <<"returnable", d, l, i>> \* delivered minus returned under d

Rows ==
    {Inv(i) : i \in Stocks} \cup {Bal(l, i) : l \in Lots, i \in Stocks}
    \cup {Rem(l) : l \in Lots} \cup {Made(l) : l \in Lots} \cup {LotCounter}
    \cup {Sent(d, l, i) : d \in Docs, l \in Lots, i \in Stocks}
    \cup {Open(d, l, i) : d \in Docs, l \in Lots, i \in Stocks}

\* The rows that hold quantities of goods.
GoodsRows == {r \in Rows : r[1] \in {"inventory", "balance", "remaining"}}

-----------------------------------------------------------------------------
(* The statements.  "by" maps each row the statement touches to a number.  *)

Each(rows, n) == [r \in rows |-> n]

\* SELECT ... FOR UPDATE
Lock(r) == [op |-> "lock", by |-> Each({r}, 0)]
\* the same of several rows at once
LockAll(rows) == [op |-> "lock", by |-> Each(rows, 0)]
\* SELECT ... FOR UPDATE, and an error unless the row holds nothing
LockEmpty(r) == [op |-> "lockEmpty", by |-> Each({r}, 0)]
\* plain SELECTs, and an error unless every row shows at least q
Read(rows, q) == [op |-> "read", by |-> Each(rows, q)]
\* [A plausible bug: the condition of the update is lost.]
AddUnchecked(r, d) == [op |-> "insert", by |-> Each({r}, d)]

\* UPDATE ... SET quantity = quantity + d WHERE quantity + d >= 0, and an
\* error unless a row was changed
Add(r, d) == [op |-> "add", by |-> Each({r}, d)]
\* INSERT, or UPDATE ... SET quantity = quantity + d unconditionally
Insert(by) == [op |-> "insert", by |-> by]
\* plain SELECT, then UPDATE ... SET quantity = <what it showed> + d
Put(rows, d) == [op |-> "put", by |-> Each(rows, d)]
\* the same, WHERE quantity = <what it showed>, and an error unless a row
\* was changed
Swap(r, d) == [op |-> "swap", by |-> Each({r}, d)]
\* plain SELECT, then UPDATE of averageCost from what it showed
Weigh(r) == [op |-> "weigh", by |-> Each({r}, 0)]

\* plain SELECTs, and an error unless the rows add up: inventory.quantity to
\* the balances in it, remainingQuantity to the balances of the lot
Agree(rows) == [op |-> "agree", by |-> Each(rows, 0)]

LockingOps == {"lock", "lockEmpty", "add", "insert", "put", "swap", "weigh"}
PlainReadOps == {"read", "agree", "put", "swap", "weigh"}
WritingOps == {"add", "insert", "put", "swap", "weigh"}

\* The plain SELECTs an operation begins with and tests nothing of.
FirstRead(r) == Read({r}, 0)

-----------------------------------------------------------------------------
(* The operations.                                                         *)

\* Take q of lot l at stock row i from its balance and from the lot, whose row
\* is locked first.  A lot whose specification is not approved is refused then
\* (Abort).
ConsumeLot(l, i, q) == <<Lock(Rem(l)), Add(Bal(l, i), -q), Add(Rem(l), -q)>>

LotRows(l, i) == {Bal(l, i), Rem(l)}

\* Insert lot l with its whole quantity q at stock row i, under a number
\* from the counter.
CreateLot(l, i, q) ==
    <<Lock(LotCounter),
      Insert([r \in LotRows(l, i) \cup {Made(l)} |-> IF r = Made(l) THEN 1 ELSE q])>>

LotsAndBalances == {Rem(l) : l \in Lots} \cup {Bal(l, i) : l \in Lots, i \in Stocks}

\* A delivery that completes a purchase item looks, under locks, for lots of the
\* item that wait for a decision; all lots may be of that item.
CompletionCheck(i) == <<FirstRead(Inv(i)), LockAll(LotsAndBalances)>>

\* Deliver q of lot l from stock row i; document 0 is never returned against.
Delivered(d, l, i, q) ==
    <<Read(LotRows(l, i) \cup {Inv(i)}, q)>> \o ConsumeLot(l, i, q)
    \o <<Add(Inv(i), -q)>>
    \o IF d = 0 THEN <<>>
       ELSE <<Insert([r \in {Sent(d, l, i), Open(d, l, i)} |->
                      IF r = Sent(d, l, i) THEN 1 ELSE q])>>

Issue(d, l, i, q) == <<Lock(Inv(i))>> \o Delivered(d, l, i, q)

PurchaseIssue(d, l, i, q) ==
    <<Lock(Inv(i))>> \o CompletionCheck(i) \o Delivered(d, l, i, q)

\* [A plausible bug: the stock row is forgotten.]
DisposeLotOnly(l, i, q) == <<Read(LotRows(l, i), q)>> \o ConsumeLot(l, i, q)

\* Scrap q of lot l at stock row i.
Dispose(l, i, q) ==
    <<Read(LotRows(l, i), q)>> \o ConsumeLot(l, i, q)
    \o <<Lock(Inv(i)), Read({Inv(i)}, q), Add(Inv(i), -q)>>

\* Send q of lot l back to its supplier from stock row i.
SupplierReturn(l, i, q) ==
    <<Read(LotRows(l, i), q)>> \o ConsumeLot(l, i, q)
    \o <<Lock(Inv(i)), Read({Inv(i)}, q), Add(Inv(i), -q)>>

\* Move q of lot l from stock row i to stock row j.  The row of the lot is
\* locked before its balances, and not changed.
Transfer(l, i, j, q) ==
    <<FirstRead(Inv(i)), Lock(Inv(i)), Read({Inv(i)}, q),
      Lock(Inv(j)), Weigh(Inv(j)),
      Read(LotRows(l, i), q), Lock(Rem(l)),
      Add(Bal(l, i), -q), Insert(Each({Bal(l, j)}, q)),
      Add(Inv(i), -q), Insert(Each({Inv(j)}, q))>>

\* Receive lot l of quantity q into stock row i, one line.  The last statement reads a
\* row the transaction has already written, hence its current quantity.
Receipt(l, i, q) ==
    <<FirstRead(Inv(i)), Lock(Inv(i)), Weigh(Inv(i))>>
    \o CreateLot(l, i, q)
    \o <<Put({Inv(i)}, q)>>

\* Receive a line of an approved invoice draft.
DraftReceipt(l, i, q) ==
    <<Lock(Inv(i)), Put({Inv(i)}, q)>> \o CreateLot(l, i, q)

\* Settle an opening count: lot l of quantity q over an empty stock row i.
OpeningBalance(l, i, q) ==
    <<LockEmpty(Inv(i))>> \o CreateLot(l, i, q) \o <<Insert(Each({Inv(i)}, q))>>

AgreeRows(l, i) ==
    {Inv(i), Rem(l)} \cup {Bal(k, i) : k \in Lots} \cup {Bal(l, j) : j \in Stocks}

\* [A plausible bug: the settlement does not compare before it sets.]
SettleBlindly(l, i, d) ==
    <<FirstRead(Inv(i)), Lock(Inv(i)), Agree(AgreeRows(l, i)),
      Put({Bal(l, i)}, d), Put({Rem(l)}, d), Put({Inv(i)}, d)>>

\* Settle a periodic count that found d more (or less) of lot l at row i.
Settle(l, i, d) ==
    <<FirstRead(Inv(i)), Lock(Inv(i)), Agree(AgreeRows(l, i)),
      Swap(Bal(l, i), d), Swap(Rem(l), d), Swap(Inv(i), d)>>

\* [A plausible bug: what is left to return is read before the lock.]
ReturnReadsFirst(d, l, i, q) ==
    <<Read({Open(d, l, i)}, q), Lock(Open(d, l, i)),
      Lock(Bal(l, i)), Lock(Rem(l)), Lock(Inv(i)),
      Put(LotRows(l, i) \cup {Inv(i)}, q),
      Insert(Each({Open(d, l, i)}, -q))>>

\* A recipient returns q of what document d delivered.
RecipientReturn(d, l, i, q) ==
    <<Lock(Open(d, l, i)), Read({Open(d, l, i)}, q),
      Lock(Bal(l, i)), Lock(Rem(l)), Lock(Inv(i)),
      Put(LotRows(l, i) \cup {Inv(i)}, q),
      Insert(Each({Open(d, l, i)}, -q))>>

Program(j) ==
    LET l == j.lot
        i == j.stock
        q == j.qty
    IN CASE j.kind = "issue"           -> Issue(j.doc, l, i, q)
         [] j.kind = "purchaseIssue"   -> PurchaseIssue(j.doc, l, i, q)
         [] j.kind = "dispose"         -> Dispose(l, i, q)
         [] j.kind = "supplierReturn"  -> SupplierReturn(l, i, q)
         [] j.kind = "transfer"        -> Transfer(l, i, j.dest, q)
         [] j.kind = "receipt"         -> Receipt(l, i, q)
         [] j.kind = "draftReceipt"    -> DraftReceipt(l, i, q)
         [] j.kind = "openingBalance"  -> OpeningBalance(l, i, q)
         [] j.kind = "settle"          -> Settle(l, i, q)
         [] j.kind = "recipientReturn" -> RecipientReturn(j.doc, l, i, q)
         [] j.kind = "teamReturn"      -> RecipientReturn(j.doc, l, i, q)

CreatingKinds == {"receipt", "draftReceipt", "openingBalance"}
ReturnKinds == {"recipientReturn", "teamReturn"}
IssueKinds == {"issue", "purchaseIssue"}

\* Only the return of a maintenance team asks for READ COMMITTED.
ReadsCommitted(j) == j.kind = "teamReturn"

Jobs ==
    {j \in [kind : AllKinds, lot : Lots, stock : Stocks, dest : 0..NStocks,
            doc : 0..NDocs, qty : -MaxStock..MaxStock] :
        /\ CASE j.kind \in CreatingKinds -> j.qty > 0
             [] j.kind = "settle"        -> j.qty \in Quantities \/ -j.qty \in Quantities
             [] OTHER                    -> j.qty \in Quantities
        /\ IF j.kind = "transfer" THEN j.dest \notin {0, j.stock} ELSE j.dest = 0
        /\ j.doc # 0 => j.kind \in ReturnKinds \cup IssueKinds
        /\ j.kind \in ReturnKinds => j.doc # 0}

Programs == [j \in Jobs |-> Program(j)]

-----------------------------------------------------------------------------
VARIABLES
    load, \* the load of this behaviour
    db,   \* the committed figure of every row
    job,  \* job[p]: the request p executes, or NoJob
    pc,   \* pc[p]: the statement of Programs[job[p]] p is at
    view, \* view[p]: its read view, or NoView before its first plain SELECT
    own,  \* own[p]: the figures it has written and not committed
    held  \* held[p]: the rows it has locked

vars == <<load, db, job, pc, view, own, held>>

NoJob == [kind |-> "none"]
NoView == <<>>

Running(p) == job[p] # NoJob
Finished(p) == Running(p) /\ pc[p] > Len(Programs[job[p]])
Pending(p) == Running(p) /\ ~Finished(p)
Stmt(p) == Programs[job[p]][pc[p]]

\* Every figure stays a quantity (integrity rule 3: none is negative, except
\* what is left to return under a document, see ReturnedWithinDelivered), and
\* only a running request holds locks or has uncommitted figures.
TypeOK ==
    /\ load \in Loads
    /\ DOMAIN db = Rows
    /\ \A r \in Rows : db[r] \in Int /\ db[r] <= MaxStock
    /\ \A r \in GoodsRows : db[r] >= 0
    /\ job \in [Procs -> Jobs \cup {NoJob}]
    /\ \A p \in Procs :
        /\ Running(p) => pc[p] \in 1..(Len(Programs[job[p]]) + 1)
        /\ ~Running(p) => held[p] = {} /\ own[p] = <<>> /\ view[p] = NoView
        /\ held[p] \subseteq Rows
        /\ DOMAIN own[p] \subseteq held[p]

Init ==
    /\ load \in Loads
    /\ db = [r \in Rows |-> 0]
    /\ job = [p \in Procs |-> NoJob]
    /\ pc = [p \in Procs |-> 1]
    /\ view = [p \in Procs |-> NoView]
    /\ own = [p \in Procs |-> <<>>]
    /\ held = [p \in Procs |-> {}]

-----------------------------------------------------------------------------
(* Reading and locking.                                                    *)

\* The version of row r that p's locking statements and UPDATEs act on.
Current(p, r) == IF r \in DOMAIN own[p] THEN own[p][r] ELSE db[r]

\* The rows the plain SELECTs of a request look at.
ReadRows ==
    [j \in Jobs |->
        UNION {DOMAIN Programs[j][n].by :
               n \in {m \in 1..Len(Programs[j]) : Programs[j][m].op \in PlainReadOps}}]

Snapshot(j) == [r \in ReadRows[j] |-> db[r]]

\* The read view once p has executed its statement.
ViewAfter(p) ==
    IF view[p] = NoView /\ Stmt(p).op \in PlainReadOps
    THEN Snapshot(job[p]) ELSE view[p]

\* What a plain SELECT of p shows of row r.
Seen(p, r) ==
    IF r \in DOMAIN own[p] THEN own[p][r]
    ELSE IF ReadsCommitted(job[p]) THEN db[r]
    ELSE ViewAfter(p)[r]

Wants(p) ==
    IF Pending(p) /\ Stmt(p).op \in LockingOps THEN DOMAIN Stmt(p).by ELSE {}

WaitsFor(p, q) == p # q /\ Wants(p) \cap held[q] # {}

\* The figures p's statement leaves in the rows it writes.
Written(p) ==
    LET by == Stmt(p).by
    IN [r \in DOMAIN by |->
            CASE Stmt(p).op \in {"add", "insert"} -> Current(p, r) + by[r]
              [] Stmt(p).op \in {"put", "swap"}   -> Seen(p, r) + by[r]
              [] OTHER                            -> Current(p, r)]

\* What p has written once it has executed its statement.
OwnAfter(p) ==
    IF Stmt(p).op \notin WritingOps THEN own[p]
    ELSE [r \in DOMAIN own[p] \cup DOMAIN Stmt(p).by |->
             IF r \in DOMAIN Stmt(p).by THEN Written(p)[r] ELSE own[p][r]]

Agrees(p) ==
    LET l == job[p].lot
        i == job[p].stock
    IN /\ Seen(p, Inv(i)) = MapThenSumSet(LAMBDA k : Seen(p, Bal(k, i)), Lots)
       /\ Seen(p, Rem(l)) = MapThenSumSet(LAMBDA j : Seen(p, Bal(l, j)), Stocks)

\* p's statement finds what it needs; otherwise the operation throws.  The
\* last conjunct is the bound of the model.
Succeeds(p) ==
    LET by == Stmt(p).by
        rows == DOMAIN by
    IN /\ CASE Stmt(p).op = "read"      -> \A r \in rows : Seen(p, r) >= by[r]
             [] Stmt(p).op = "agree"     -> Agrees(p)
             [] Stmt(p).op = "lockEmpty" -> \A r \in rows : Current(p, r) = 0
             [] Stmt(p).op = "add"       -> \A r \in rows : Written(p)[r] >= 0
             [] Stmt(p).op = "swap"      -> \A r \in rows :
                    Current(p, r) = Seen(p, r) /\ Written(p)[r] >= 0
             [] OTHER                    -> TRUE
       /\ Stmt(p).op \in WritingOps => \A r \in rows : Written(p)[r] <= MaxStock

-----------------------------------------------------------------------------
(* The steps of a transaction.                                             *)

\* The request names a lot that exists or one that is to be created, and a
\* recipient return names a delivery document and its lot and stock row.
Acceptable(j) ==
    /\ IF j.kind \in CreatingKinds
       THEN /\ db[Made(j.lot)] = 0
            /\ \A p \in Procs : Running(p) /\ job[p].kind \in CreatingKinds
                                => job[p].lot # j.lot
       ELSE db[Made(j.lot)] = 1
    /\ j.kind \in ReturnKinds => db[Sent(j.doc, j.lot, j.stock)] = 1
    /\ j.kind \in IssueKinds /\ j.doc # 0 =>
        /\ \A l \in Lots, i \in Stocks : db[Sent(j.doc, l, i)] = 0
        /\ \A p \in Procs : Running(p) /\ job[p].kind \in IssueKinds => job[p].doc # j.doc

\* The requests a load brings.
Offered ==
    [w \in Loads |->
        {j \in Jobs :
            /\ j.kind \in w.kinds
            /\ j.lot \in w.lots
            /\ {j.stock, j.dest} \subseteq w.stocks \cup {0}
            /\ j.doc \in w.docs \cup {0}}]

Begin(p) ==
    /\ ~Running(p)
    /\ Cardinality({q \in Procs : Running(q)}) < load.width
    /\ \E j \in Offered[load], early \in load.early :
        /\ Acceptable(j)
        /\ job' = [job EXCEPT ![p] = j]
        /\ view' = [view EXCEPT ![p] = IF early THEN Snapshot(j) ELSE NoView]
    /\ pc' = [pc EXCEPT ![p] = 1]
    /\ UNCHANGED <<load, db, own, held>>

\* Execute one statement; it waits while another transaction holds its row.
Execute(p) ==
    /\ Pending(p)
    /\ \A q \in Procs : ~WaitsFor(p, q)
    /\ Succeeds(p)
    /\ pc' = [pc EXCEPT ![p] = @ + 1]
    /\ view' = [view EXCEPT ![p] = ViewAfter(p)]
    /\ held' = [held EXCEPT ![p] = @ \cup Wants(p)]
    /\ own' = [own EXCEPT ![p] = OwnAfter(p)]
    /\ UNCHANGED <<load, db, job>>

End(p) ==
    /\ job' = [job EXCEPT ![p] = NoJob]
    /\ pc' = [pc EXCEPT ![p] = 1]
    /\ view' = [view EXCEPT ![p] = NoView]
    /\ own' = [own EXCEPT ![p] = <<>>]
    /\ held' = [held EXCEPT ![p] = {}]
    /\ UNCHANGED load

Commit(p) ==
    /\ Finished(p)
    /\ db' = [r \in Rows |-> Current(p, r)]
    /\ End(p)

\* The statement finds what forbids it, and the operation throws.
Throw(p) ==
    /\ Pending(p)
    /\ \A q \in Procs : ~WaitsFor(p, q)
    /\ ~Succeeds(p)
    /\ End(p)
    /\ UNCHANGED db

\* The transactions that wait for one another in a circle.
Circles ==
    {C \in SUBSET Procs : C # {} /\ \A p \in C :
        /\ \E q \in C : WaitsFor(p, q)
        /\ \E q \in C : WaitsFor(q, p)}

\* The database breaks a circle by rolling one of its transactions back.
RollBackVictim(p) ==
    /\ \E q \in Procs : WaitsFor(p, q)
    /\ \E C \in Circles : p \in C
    /\ End(p)
    /\ UNCHANGED db

\* The connection is lost, the server dies, a lock wait times out, or some
\* check or write outside the ledger throws: at any point before the commit.
Abort(p) ==
    /\ Running(p)
    /\ End(p)
    /\ UNCHANGED db

Next ==
    \E p \in Procs :
        \/ Begin(p)
        \/ Execute(p)
        \/ Commit(p)
        \/ Throw(p)
        \/ RollBackVictim(p)
        \/ Abort(p)

Spec == Init /\ [][Next]_vars

-----------------------------------------------------------------------------
(* What the postings promise.                                              *)

CreatedLots == {l \in Lots : db[Made(l)] = 1}

Ledger ==
    INSTANCE LotLedger WITH
        Quantities <- 1..MaxStock,
        created <- CreatedLots,
        balance <- [l \in Lots |-> [i \in Stocks |-> db[Bal(l, i)]]],
        remaining <- [l \in Lots |-> db[Rem(l)]],
        quantity <- [i \in Stocks |-> db[Inv(i)]]

\* However the statements interleave and wherever a transaction dies, the
\* committed figures change one whole posting at a time.
PostsToTheLedger == Ledger!Spec

\* Integrity rules 1 and 2 of the reconciliation engine, of committed figures.
StockMatchesLots == Ledger!StockMatchesLots
LotMatchesBalances == Ledger!LotMatchesBalances

\* The change of the committed figures that a request asks for.
Asked(j) ==
    LET rows == LotRows(j.lot, j.stock) \cup {Inv(j.stock)}
        from == {Bal(j.lot, j.stock), Inv(j.stock)}
        to == {Bal(j.lot, j.dest), Inv(j.dest)}
    IN CASE j.kind \in IssueKinds \cup {"dispose", "supplierReturn"} -> Each(rows, -j.qty)
         [] j.kind = "transfer" ->
                [r \in from \cup to |-> IF r \in from THEN -j.qty ELSE j.qty]
         [] OTHER -> Each(rows, j.qty)

\* No update is lost: a commit adds to the figures committed just before it
\* exactly what its request asked for, and touches no other goods.
CommitsWhatWasAsked ==
    [][\A p \in Procs : Commit(p) =>
        \A r \in GoodsRows :
            db'[r] = db[r] + (IF r \in DOMAIN Asked(job[p])
                              THEN Asked(job[p])[r] ELSE 0)]_vars

\* Recipients never hand back more than a delivery document gave them.
ReturnedWithinDelivered ==
    \A d \in Docs, l \in Lots, i \in Stocks : db[Open(d, l, i)] >= 0

\* The weighted average is computed from the quantity the row has when the
\* average is written.
WeighsCurrentQuantity ==
    \A p \in Procs :
        Pending(p) /\ Stmt(p).op = "weigh" /\ (\A q \in Procs : ~WaitsFor(p, q))
            => \A r \in DOMAIN Stmt(p).by : Seen(p, r) = Current(p, r)
=============================================================================
