------------------------------ MODULE LotLedger ------------------------------
(***************************************************************************)
(* The lot ledger of the warehouse module, as one posting at a time sees   *)
(* it: what a committed database transaction promises.                     *)
(*                                                                         *)
(* A lot (inventory_lots) is a received or opening quantity of one item.   *)
(* It is spread over stock rows (inventory: one item in one warehouse) by  *)
(* inventory_lot_balances.  The same goods are therefore written down      *)
(* three times - per lot and stock row, per lot, per stock row - and every *)
(* posting has to move all the figures it touches together.                *)
(*                                                                         *)
(* LotTransactions shows how the code posts with several SQL statements    *)
(* from several connections at once, and that this is the specification it *)
(* implements.                                                             *)
(***************************************************************************)
EXTENDS Integers

CONSTANTS
    NLots,      \* lots are numbered 1..NLots (AUTO_INCREMENT ids)
    NStocks,    \* stock rows are numbered 1..NStocks
    Quantities, \* the quantities one posting may carry
    MaxStock    \* bound on the goods of one stock row or of one lot

ASSUME LedgerAssumption ==
    /\ NLots \in Nat \ {0}
    /\ NStocks \in Nat \ {0}
    /\ Quantities \subseteq Nat \ {0}
    /\ MaxStock \in Nat

Lots == 1..NLots
Stocks == 1..NStocks

VARIABLES
    created,   \* lots inserted so far
    balance,   \* balance[l][i]: inventory_lot_balances.quantity, 0 = no row
    remaining, \* remaining[l]: inventory_lots.remainingQuantity
    quantity   \* quantity[i]: inventory.quantity

vars == <<created, balance, remaining, quantity>>

TypeOK ==
    /\ created \subseteq Lots
    /\ balance \in [Lots -> [Stocks -> Nat]]
    /\ remaining \in [Lots -> Nat]
    /\ quantity \in [Stocks -> Nat]

Init ==
    /\ created = {}
    /\ balance = [l \in Lots |-> [i \in Stocks |-> 0]]
    /\ remaining = [l \in Lots |-> 0]
    /\ quantity = [i \in Stocks |-> 0]

-----------------------------------------------------------------------------
(* Plausible bugs in the postings below, to try the properties on.         *)

\* The conditional updates lose their "quantity >= requested" condition.
ConsumeUnchecked(l, i, q) ==
    /\ l \in created
    /\ balance' = [balance EXCEPT ![l][i] = @ - q]
    /\ remaining' = [remaining EXCEPT ![l] = @ - q]
    /\ quantity' = [quantity EXCEPT ![i] = @ - q]
    /\ UNCHANGED created

\* The lot is consumed and the stock row is left alone.
ConsumeLotOnly(l, i, q) ==
    /\ l \in created
    /\ q <= balance[l][i]
    /\ balance' = [balance EXCEPT ![l][i] = @ - q]
    /\ remaining' = [remaining EXCEPT ![l] = @ - q]
    /\ UNCHANGED <<created, quantity>>

\* A transfer treats its source as consumed.
MoveAsConsumption(l, i, j, q) ==
    /\ l \in created
    /\ i # j
    /\ q <= balance[l][i]
    /\ quantity[j] + q <= MaxStock
    /\ balance' = [balance EXCEPT ![l][i] = @ - q, ![l][j] = @ + q]
    /\ remaining' = [remaining EXCEPT ![l] = @ - q]
    /\ quantity' = [quantity EXCEPT ![i] = @ - q, ![j] = @ + q]
    /\ UNCHANGED created

-----------------------------------------------------------------------------
(* Change the balance of lot l at stock row i by d, which may be negative.  *)
Post(l, i, d) ==
    /\ balance[l][i] + d \in 0..MaxStock
    /\ remaining[l] + d \in 0..MaxStock
    /\ quantity[i] + d \in 0..MaxStock
    /\ balance' = [balance EXCEPT ![l][i] = @ + d]
    /\ remaining' = [remaining EXCEPT ![l] = @ + d]
    /\ quantity' = [quantity EXCEPT ![i] = @ + d]

\* A receipt, or an opening balance over an empty stock row, creates a lot
\* with its whole quantity in one stock row.
Receive(l, i, q) ==
    /\ l \notin created
    /\ created' = created \cup {l}
    /\ Post(l, i, q)

\* Delivery, disposal and return to the supplier take from one lot balance.
Consume(l, i, q) ==
    /\ l \in created
    /\ Post(l, i, -q)
    /\ UNCHANGED created

\* A recipient hands goods back into the lot and stock row they came from.
GiveBack(l, i, q) ==
    /\ l \in created
    /\ Post(l, i, q)
    /\ UNCHANGED created

\* A warehouse transfer moves part of a lot; the lot keeps its total.
Move(l, i, j, q) ==
    /\ l \in created
    /\ i # j
    /\ q <= balance[l][i]
    /\ q <= quantity[i]
    /\ quantity[j] + q <= MaxStock
    /\ balance' = [balance EXCEPT ![l][i] = @ - q, ![l][j] = @ + q]
    /\ quantity' = [quantity EXCEPT ![i] = @ - q, ![j] = @ + q]
    /\ UNCHANGED <<created, remaining>>

\* A settlement adds the variance of a finished count to the current figures.
Adjust(l, i, d) ==
    /\ l \in created
    /\ Post(l, i, d)
    /\ UNCHANGED created

Next ==
    \E l \in Lots, i \in Stocks, q \in Quantities :
        \/ Receive(l, i, q)
        \/ Consume(l, i, q)
        \/ GiveBack(l, i, q)
        \/ \E j \in Stocks : Move(l, i, j, q)
        \/ Adjust(l, i, q)
        \/ Adjust(l, i, -q)

Spec == Init /\ [][Next]_vars

-----------------------------------------------------------------------------
(* f[1] + ... + f[n] = total, stated by the partial sums p instead of by a *)
(* recursion, so that a change of one summand is a change of the partial   *)
(* sums from there on.                                                     *)
PartialSums(f, n, total, p) ==
    /\ p[0] = 0
    /\ p[n] = total
    /\ \A k \in 1..n : p[k] = p[k - 1] + f[k]
    /\ \A a, b \in 0..n : a <= b => p[a] <= p[b]

SumsTo(f, n, total) ==
    \E p \in [0..n -> 0..total] : PartialSums(f, n, total, p)

\* The balances of one stock row, by lot.
Column(i) == [l \in Lots |-> balance[l][i]]

\* Integrity rule 1: the quantity of a stock row is the sum of the balances
\* of the lots in it - whatever mixture of receipts, deliveries, transfers,
\* returns and settlements has touched the row.
StockMatchesLots == \A i \in Stocks : SumsTo(Column(i), NLots, quantity[i])

\* Integrity rule 2: what remains of a lot is what its balances in all the
\* warehouses add up to, so that a transfer neither loses nor makes goods.
LotMatchesBalances == \A l \in Lots : SumsTo(balance[l], NStocks, remaining[l])

=============================================================================
