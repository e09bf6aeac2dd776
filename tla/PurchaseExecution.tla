-------------------------- MODULE PurchaseExecution --------------------------
(***************************************************************************)
(* The execution of an approved purchase order: its items are bought by    *)
(* delegates, arrive at the warehouse, are received into stock and handed  *)
(* to the requester, or their purchase is cancelled and they go back to    *)
(* the requester, who sends them out again or gives them up.  The status   *)
(* of the order is meant to summarise those of its items.                  *)
(*                                                                         *)
(* An operation is a sequence of statements on the pool, each committed on *)
(* its own: read and check the item, write it whatever it has become by    *)
(* then, read all items, write the order.  Only the receipt into stock and *)
(* the delivery are transactions.                                          *)
(*                                                                         *)
(* The order belongs to no ticket and replaces no supplier return, and its *)
(* items are past pricing; "approved" stands for "funded", too, and        *)
(* "cancelled" for "rejected".                                             *)
(***************************************************************************)
EXTENDS Integers, FiniteSets

CONSTANTS
    Items,          \* the items of the order
    Requests,       \* the connections requests are served on
    Loads,          \* the ways the order may be worked on, see Load
    MaxPostings     \* bound on the deliveries of an item and on its receipts
                    \* from invoice drafts

\* At most width requests at a time; disturbed: the server may die between
\* two statements, and administrators may cancel items at any stage;
\* retired: somebody calls the endpoints that no page of the client uses.
Load(width, disturbed, retired) ==
    [width |-> width, disturbed |-> disturbed, retired |-> retired]

ASSUME ExecutionAssumption ==
    /\ IsFiniteSet(Items)
    /\ IsFiniteSet(Requests)
    /\ Loads \subseteq [width : Nat, disturbed : BOOLEAN, retired : BOOLEAN]
    /\ MaxPostings \in Nat

VARIABLES
    load,       \* the load, chosen at the start
    item,       \* item[i]: status of the item
    order,      \* status of the order
    bought,     \* the items whose purchase has been confirmed at least once
    receipts,   \* receipts[i]: confirmed receipts of the item into stock
    drafted,    \* drafted[i]: its receipts into stock from invoice drafts
    deliveries, \* deliveries[i]: deliveries of the item out of stock
    request     \* request[r]: what the request on connection r does next

vars == <<load, item, order, bought, receipts, drafted, deliveries, request>>

Arrived == {"delivered_to_warehouse", "delivered_to_requester"}
Bought == {"purchased"} \cup Arrived
ItemStatuses == {"approved", "purchase_cancelled", "cancelled"} \cup Bought
OrderStatuses == {"approved", "partial_purchase", "purchased", "received",
                  "rejected", "closed"}

Kinds == {"confirmItemPurchase", "cancelItemPurchase", "resubmitCancelledPurchase",
          "finalizeCancelledItem", "confirmDeliveryToWarehouse",
          "confirmDeliveryToRequester", "deliverToRequester", "cancelItem"}
Deliveries == {"confirmDeliveryToRequester", "deliverToRequester"}

\* Where a request is: about to write its item or to read all of them, to
\* write the order, or in the transaction of a delivery or a receipt.
Idle == [step |-> "idle"]
Writes == [step : {"write", "read"}, kind : Kinds, item : Items]
Summaries == [step : {"order"}, status : OrderStatuses]
Handovers == [step : {"delivery"}, item : Items, seen : [Items -> ItemStatuses]]
Postings == [step : {"receipt"}, items : SUBSET Items, seen : [Items -> ItemStatuses]]

TypeOK ==
    /\ load \in Loads
    /\ item \in [Items -> ItemStatuses]
    /\ order \in OrderStatuses
    /\ bought \subseteq Items
    /\ receipts \in [Items -> Nat]
    /\ drafted \in [Items -> 0..MaxPostings]
    /\ deliveries \in [Items -> 0..MaxPostings]
    /\ request \in [Requests -> {Idle} \cup Writes \cup Summaries \cup Handovers \cup Postings]

Init ==
    /\ load \in Loads
    /\ item = [i \in Items |-> "approved"]
    /\ order = "approved"
    /\ bought = {}
    /\ receipts = [i \in Items |-> 0]
    /\ drafted = [i \in Items |-> 0]
    /\ deliveries = [i \in Items |-> 0]
    /\ request = [r \in Requests |-> Idle]

-----------------------------------------------------------------------------
(* The summaries: what an operation makes of the statuses it reads.        *)

Live(s) == {i \in Items : s[i] # "cancelled"}
Undecided(s) == {i \in Items : s[i] = "purchase_cancelled"}
Active(s) == Live(s) \ Undecided(s)
SomeBought(s) == \E i \in Active(s) : s[i] \in Bought
AllBought(s) == Active(s) # {} /\ \A i \in Active(s) : s[i] \in Bought
AllArrived(s) == Live(s) # {} /\ \A i \in Live(s) : s[i] \in Arrived
AllDelivered(s) == Live(s) # {} /\ \A i \in Live(s) : s[i] = "delivered_to_requester"

\* The summaries of confirmItemPurchase, cancelItemPurchase,
\* finalizeCancelledItem, cancelItem and of the arrivals; "as it was" when
\* the order is not written.
AfterPurchase(s) ==
    CASE AllBought(s) -> "purchased"
      [] ~AllBought(s) /\ SomeBought(s) -> "partial_purchase"
      [] OTHER -> "as it was"

AfterPurchaseCancelled(s) ==
    CASE AllBought(s) /\ Undecided(s) = {} -> "purchased"
      [] Active(s) = {} /\ Undecided(s) = {} -> "received"
      [] OTHER -> "partial_purchase"

\* [A plausible bug: what is left is not looked at.]
AfterGivingUpAlone(s) == IF Live(s) = {} THEN "rejected" ELSE "as it was"

AfterGivingUp(s) ==
    CASE Live(s) = {} -> "rejected"
      [] AllBought(s) /\ Undecided(s) = {} -> "purchased"
      [] OTHER -> "as it was"

AfterCancelling(s) == IF Live(s) = {} THEN "rejected" ELSE "as it was"

AfterArrival(s) == IF AllArrived(s) THEN "received" ELSE "as it was"

Summary(kind, s) ==
    CASE kind = "confirmItemPurchase"        -> AfterPurchase(s)
      [] kind = "cancelItemPurchase"         -> AfterPurchaseCancelled(s)
      [] kind = "finalizeCancelledItem"      -> AfterGivingUp(s)
      [] kind = "cancelItem"                 -> AfterCancelling(s)
      [] kind = "confirmDeliveryToWarehouse" -> AfterArrival(s)
      [] OTHER                               -> "as it was"

-----------------------------------------------------------------------------
(* The operations on one item.                                             *)

\* The statuses in which an operation accepts an item.
Accepted(kind) ==
    CASE kind \in {"confirmItemPurchase", "cancelItemPurchase"} -> {"approved"}
      [] kind \in {"resubmitCancelledPurchase", "finalizeCancelledItem"} ->
            {"purchase_cancelled"}
      [] kind = "confirmDeliveryToWarehouse" -> {"purchased"}
      [] kind = "confirmDeliveryToRequester" -> {"delivered_to_warehouse"}
      [] kind = "deliverToRequester" -> ItemStatuses
      [] kind = "cancelItem" -> ItemStatuses \ {"delivered_to_requester", "cancelled"}

\* [A plausible bug: a cancelled purchase is priced again.]
WrittenForPricing(kind) ==
    CASE kind = "resubmitCancelledPurchase" -> "pending"
      [] kind = "confirmItemPurchase" -> "purchased"
      [] kind = "cancelItemPurchase" -> "purchase_cancelled"
      [] kind = "confirmDeliveryToWarehouse" -> "delivered_to_warehouse"
      [] OTHER -> "cancelled"

\* The status an operation writes.
Written(kind) ==
    CASE kind = "confirmItemPurchase" -> "purchased"
      [] kind = "cancelItemPurchase" -> "purchase_cancelled"
      [] kind = "resubmitCancelledPurchase" -> "approved"
      [] kind = "confirmDeliveryToWarehouse" -> "delivered_to_warehouse"
      [] kind \in {"finalizeCancelledItem", "cancelItem"} -> "cancelled"

Waiting == {r \in Requests : request[r] # Idle}
Receipts == {r \in Requests : request[r].step = "receipt"}

\* The item is locked by a receipt that is being posted.
Locked(i) == \E r \in Receipts : i \in request[r].items

Goto(r, next) == request' = [request EXCEPT ![r] = next]

\* A request arrives, reads its item and finds it in order.
Accept(r, kind, i) ==
    /\ request[r] = Idle
    /\ Cardinality(Waiting) < load.width
    /\ kind = "cancelItem" => load.disturbed
    /\ item[i] \in Accepted(kind)
    /\ Goto(r, [step |-> "write", kind |-> kind, item |-> i])
    /\ UNCHANGED <<load, item, order, bought, receipts, drafted, deliveries>>

\* The item is written, whatever it has become since.
WriteItem(r) ==
    /\ request[r].step = "write"
    /\ request[r].kind \notin Deliveries
    /\ ~Locked(request[r].item)
    /\ item' = [item EXCEPT ![request[r].item] = Written(request[r].kind)]
    /\ bought' = IF request[r].kind = "confirmItemPurchase"
                 THEN bought \cup {request[r].item} ELSE bought
    /\ Goto(r, IF request[r].kind = "resubmitCancelledPurchase" THEN Idle
               ELSE [request[r] EXCEPT !.step = "read"])
    /\ UNCHANGED <<load, order, receipts, drafted, deliveries>>

\* All items are read and summarised.
ReadItems(r) ==
    /\ request[r].step = "read"
    /\ Goto(r, LET status == Summary(request[r].kind, item) IN
               IF status = "as it was" THEN Idle
               ELSE [step |-> "order", status |-> status])
    /\ UNCHANGED <<load, item, order, bought, receipts, drafted, deliveries>>

\* The order is written.
WriteOrder(r) ==
    /\ request[r].step = "order"
    /\ order' = request[r].status
    /\ Goto(r, Idle)
    /\ UNCHANGED <<load, item, bought, receipts, drafted, deliveries>>

Stocked(i) == receipts[i] + drafted[i] > 0

Handing(r, i) ==
    Goto(r, [step |-> "delivery", item |-> i, seen |-> item])

\* [A plausible bug: the stock the item has come in by is not looked for.]
BeginDeliveryUnstocked(r) ==
    /\ request[r].step = "write"
    /\ request[r].kind \in Deliveries
    /\ Handing(r, request[r].item)
    /\ UNCHANGED <<load, item, order, bought, receipts, drafted, deliveries>>

\* A delivery: the item must have come into stock.  The transaction that
\* posts it takes its read view.
BeginDelivery(r) ==
    /\ request[r].step = "write"
    /\ request[r].kind \in Deliveries
    /\ Stocked(request[r].item)
    /\ Handing(r, request[r].item)
    /\ UNCHANGED <<load, item, order, bought, receipts, drafted, deliveries>>

\* It writes the item unless it is delivered or cancelled, summarises the
\* order as its view shows it, and commits.
CommitDelivery(r) ==
    /\ request[r].step = "delivery"
    /\ LET i == request[r].item
           given == "delivered_to_requester" IN
        /\ ~Locked(i)
        /\ item[i] \notin {given, "cancelled"}
        /\ deliveries[i] < MaxPostings
        /\ item' = [item EXCEPT ![i] = given]
        /\ deliveries' = [deliveries EXCEPT ![i] = @ + 1]
        /\ order' = IF AllDelivered([request[r].seen EXCEPT ![i] = given])
                    THEN "received" ELSE order
    /\ Goto(r, Idle)
    /\ UNCHANGED <<load, bought, receipts, drafted>>

\* The delivery is refused.
RefuseDelivery(r) ==
    /\ \/ /\ request[r].step = "write"
          /\ request[r].kind \in Deliveries
          /\ ~Stocked(request[r].item)
       \/ /\ request[r].step = "delivery"
          /\ item[request[r].item] \in {"delivered_to_requester", "cancelled"}
    /\ Goto(r, Idle)
    /\ UNCHANGED <<load, item, order, bought, receipts, drafted, deliveries>>

\* The server dies between two statements; a receipt is rolled back.
Die(r) ==
    /\ load.disturbed
    /\ request[r] # Idle
    /\ Goto(r, Idle)
    /\ UNCHANGED <<load, item, order, bought, receipts, drafted, deliveries>>

-----------------------------------------------------------------------------
(* The receipt of items into stock, and the closing of the order.          *)

\* [A plausible bug: the receipts that are already there are not read.]
BeginReceiptAgain(r, items) ==
    /\ request[r] = Idle
    /\ Cardinality(Waiting) < load.width
    /\ \A i \in items : ~Locked(i) /\ item[i] = "delivered_to_warehouse"
    /\ Goto(r, [step |-> "receipt", items |-> items, seen |-> item])
    /\ UNCHANGED <<load, item, order, bought, receipts, drafted, deliveries>>

\* The transaction locks the items, and checks that they have arrived and
\* have no confirmed receipt yet - a receipt from a draft is called
\* "approved" in the end.  The rest of the order is read later.
BeginReceipt(r, items) ==
    /\ request[r] = Idle
    /\ Cardinality(Waiting) < load.width
    /\ \A i \in items :
        ~Locked(i) /\ item[i] = "delivered_to_warehouse" /\ receipts[i] = 0
    /\ Goto(r, [step |-> "receipt", items |-> items, seen |-> item])
    /\ UNCHANGED <<load, item, order, bought, receipts, drafted, deliveries>>

\* It posts the items to the stock, reads the order - as it was when the
\* transaction took its read view - summarises it, and commits.
CommitReceipt(r) ==
    /\ request[r].step = "receipt"
    /\ receipts' = [i \in Items |->
            IF i \in request[r].items THEN receipts[i] + 1 ELSE receipts[i]]
    /\ order' = IF AllArrived(request[r].seen) THEN "received" ELSE order
    /\ Goto(r, Idle)
    /\ UNCHANGED <<load, item, bought, drafted, deliveries>>

\* approveDraft of an invoice draft: its items come into stock, whatever has
\* become of them.
ApproveDraft(items) ==
    /\ load.retired
    /\ \A i \in items : ~Locked(i) /\ drafted[i] < MaxPostings
    /\ drafted' = [i \in Items |-> IF i \in items THEN drafted[i] + 1 ELSE drafted[i]]
    /\ item' = [i \in Items |-> IF i \in items THEN "delivered_to_warehouse" ELSE item[i]]
    /\ UNCHANGED <<load, order, bought, receipts, deliveries, request>>

\* The confirmations of arrival and delivery of the warehouse router: the
\* item is written without a look at it.
Declare(i, status) ==
    /\ load.retired
    /\ ~Locked(i)
    /\ item' = [item EXCEPT ![i] = status]
    /\ UNCHANGED <<load, order, bought, receipts, drafted, deliveries, request>>

\* close: the requester closes an order of any status.
Close ==
    /\ load.disturbed
    /\ order' = "closed"
    /\ UNCHANGED <<load, item, bought, receipts, drafted, deliveries, request>>

-----------------------------------------------------------------------------
Next ==
    \/ \E r \in Requests :
        \/ \E kind \in Kinds, i \in Items : Accept(r, kind, i)
        \/ WriteItem(r)
        \/ ReadItems(r)
        \/ WriteOrder(r)
        \/ BeginDelivery(r)
        \/ CommitDelivery(r)
        \/ RefuseDelivery(r)
        \/ Die(r)
        \/ \E items \in (SUBSET Items) \ {{}} : BeginReceipt(r, items)
        \/ CommitReceipt(r)
    \/ Close
    \/ \E items \in (SUBSET Items) \ {{}} : ApproveDraft(items)
    \/ \E i \in Items, status \in Arrived : Declare(i, status)

Spec == Init /\ [][Next]_vars

-----------------------------------------------------------------------------
(* What the execution promises, as long as the endpoints that no page uses *)
(* are left alone.                                                         *)

\* An item comes into stock once, however many receipts are posted for it at
\* the same time or again, and whatever else is written to it meanwhile.
StockedOnce == ~load.retired => \A i \in Items : receipts[i] + drafted[i] <= 1

\* No stage is skipped: what is in the warehouse has been bought, and what is
\* handed out has come into stock - although items are overwritten by
\* requests that checked them long ago.
NoStageSkipped ==
    ~load.retired =>
        \A i \in Items :
            /\ item[i] \in Arrived => i \in bought
            /\ receipts[i] > 0 => i \in bought
            /\ deliveries[i] > 0 => receipts[i] > 0

\* One request at a time, the order says what has become of its items: it is
\* received only if all that are left have arrived, purchased or received if
\* all that are left are bought, and rejected if none is left.
Quiet == Waiting = {} /\ load.width = 1 /\ ~load.disturbed /\ ~load.retired
OrderReflectsItems ==
    Quiet =>
        /\ order = "received" => AllArrived(item)
        /\ AllBought(item) /\ Undecided(item) = {} => order \in {"purchased", "received"}
        /\ order = "rejected" <=> Live(item) = {}

\* An item whose purchase was cancelled and that awaits the requester keeps
\* the order at a partial purchase.
UndecidedKeepsPartial ==
    Quiet /\ Undecided(item) # {} => order = "partial_purchase"

\* An item that is given up stays given up.
CancelledIsFinal ==
    [][\A i \in Items : item[i] = "cancelled" => item'[i] = "cancelled"]_vars

\* An item is handed to the requester once.
DeliveredOnce == \A i \in Items : deliveries[i] <= 1

\* An item that has come into stock is never received again, from whichever
\* endpoint.
ReceivedOnce == \A i \in Items : receipts[i] + drafted[i] <= 1

=============================================================================
