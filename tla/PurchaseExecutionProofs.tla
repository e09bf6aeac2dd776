---------------------- MODULE PurchaseExecutionProofs ----------------------
(***************************************************************************)
(* The promises of PurchaseExecution about single items, for any items,    *)
(* any requests under way, any loads and any bound.                        *)
(*                                                                         *)
(* Requests overwrite items they checked long ago, so nothing can be said  *)
(* of the status of an item that would not be said of the pending writes,  *)
(* too: who is about to declare an item arrived has seen it bought, who is *)
(* about to hand it out has seen it in stock (Staged).  A receipt holds    *)
(* the locks of its items from its check to its commit, so no two of them  *)
(* name the same item and none names a received one (Single).              *)
(***************************************************************************)
EXTENDS PurchaseExecution, FiniteSetTheorems, TLAPS

-----------------------------------------------------------------------------
(* Types.                                                                  *)

\* What a request is, by the step it is at.
LEMMA RequestTyped ==
    ASSUME TypeOK, NEW r \in Requests
    PROVE  /\ request[r].step \in {"write", "read"} => request[r] \in Writes
           /\ request[r].step = "order" => request[r] \in Summaries
           /\ request[r].step = "delivery" => request[r] \in Handovers
           /\ request[r].step = "receipt" => request[r] \in Postings
  BY DEF TypeOK, Idle, Writes, Summaries, Handovers, Postings

\* What a request writes into an item, and makes of the order.
LEMMA WrittenTyped ==
    ASSUME NEW kind \in Kinds \ Deliveries
    PROVE  Written(kind) \in ItemStatuses
  BY DEF Kinds, Deliveries, Written, ItemStatuses, Bought, Arrived

LEMMA SummaryTyped ==
    ASSUME NEW kind, NEW s
    PROVE  Summary(kind, s) \in OrderStatuses \cup {"as it was"}
<1>1. /\ AfterPurchase(s) \in OrderStatuses \cup {"as it was"}
      /\ AfterPurchaseCancelled(s) \in OrderStatuses
      /\ AfterGivingUp(s) \in OrderStatuses \cup {"as it was"}
      /\ AfterCancelling(s) \in OrderStatuses \cup {"as it was"}
      /\ AfterArrival(s) \in OrderStatuses \cup {"as it was"}
  BY Zenon DEF AfterPurchase, AfterPurchaseCancelled, AfterGivingUp, AfterCancelling,
          AfterArrival, OrderStatuses
<1> QED
  BY <1>1 DEF Summary

\* Having read the items, a request is done or is about to write the order.
LEMMA SummaryRead ==
    ASSUME TypeOK, NEW r \in Requests, ReadItems(r)
    PROVE  request'[r].step \in {"idle", "order"}
<1> DEFINE status == Summary(request[r].kind, item)
           next == IF status = "as it was" THEN Idle
                   ELSE [step |-> "order", status |-> status]
<1>1. next.step \in {"idle", "order"}
  <2> HIDE DEF status
  <2> QED
    BY DEF Idle
<1>2. request' = [request EXCEPT ![r] = next]
  BY DEF ReadItems, Goto
<1> HIDE DEF next
<1> QED
  BY <1>1, <1>2 DEF TypeOK

\* Every step keeps the types.
LEMMA TypeStep == TypeOK /\ [Next]_vars => TypeOK'
<1> SUFFICES ASSUME TypeOK, [Next]_vars PROVE TypeOK'
  OBVIOUS
<1>1. ASSUME NEW r \in Requests, NEW kind \in Kinds, NEW i \in Items, Accept(r, kind, i)
      PROVE  TypeOK'
  <2>1. [step |-> "write", kind |-> kind, item |-> i] \in Writes
    BY DEF Writes
  <2> QED
    BY <1>1, <2>1 DEF Accept, Goto, TypeOK
<1>2. ASSUME NEW r \in Requests, WriteItem(r)
      PROVE  TypeOK'
  <2>1. request[r] \in Writes
    BY <1>2, RequestTyped DEF WriteItem
  <2>2. Written(request[r].kind) \in ItemStatuses
    BY <1>2, <2>1, WrittenTyped DEF WriteItem, Writes
  <2>3. [request[r] EXCEPT !.step = "read"] \in Writes
    BY <2>1 DEF Writes
  <2> QED
    BY <1>2, <2>1, <2>2, <2>3 DEF WriteItem, Goto, TypeOK, Writes
<1>3. ASSUME NEW r \in Requests, ReadItems(r)
      PROVE  TypeOK'
  <2> DEFINE status == Summary(request[r].kind, item)
  <2>1. status # "as it was" => [step |-> "order", status |-> status] \in Summaries
    BY SummaryTyped DEF Summaries
  <2> HIDE DEF status
  <2>2. request' = [request EXCEPT ![r] = IF status = "as it was" THEN Idle
                                          ELSE [step |-> "order", status |-> status]]
    BY <1>3 DEF ReadItems, Goto, status
  <2> QED
    BY <1>3, <2>1, <2>2 DEF ReadItems, TypeOK
<1>4. ASSUME NEW r \in Requests, WriteOrder(r)
      PROVE  TypeOK'
  BY <1>4, RequestTyped DEF WriteOrder, Goto, TypeOK, Summaries
<1>5. ASSUME NEW r \in Requests, BeginDelivery(r)
      PROVE  TypeOK'
  <2>1. [step |-> "delivery", item |-> request[r].item, seen |-> item] \in Handovers
    BY <1>5, RequestTyped DEF BeginDelivery, TypeOK, Writes, Handovers
  <2> QED
    BY <1>5, <2>1 DEF BeginDelivery, Handing, Goto, TypeOK
<1>6. ASSUME NEW r \in Requests, CommitDelivery(r)
      PROVE  TypeOK'
  <2>1. request[r].item \in Items
    BY <1>6, RequestTyped DEF CommitDelivery, Handovers
  <2>2. order' \in OrderStatuses
    BY <1>6 DEF CommitDelivery, TypeOK, OrderStatuses
  <2>3. item' \in [Items -> ItemStatuses]
    BY <1>6 DEF CommitDelivery, TypeOK, ItemStatuses, Bought, Arrived
  <2>4. deliveries' \in [Items -> 0..MaxPostings]
    BY <1>6, <2>1, ExecutionAssumption DEF CommitDelivery, TypeOK
  <2> QED
    BY <1>6, <2>2, <2>3, <2>4 DEF CommitDelivery, Goto, TypeOK
<1>7. ASSUME NEW r \in Requests, RefuseDelivery(r) \/ Die(r)
      PROVE  TypeOK'
  BY <1>7 DEF RefuseDelivery, Die, Goto, TypeOK
<1>8. ASSUME NEW r \in Requests, NEW items \in SUBSET Items, BeginReceipt(r, items)
      PROVE  TypeOK'
  <2>1. [step |-> "receipt", items |-> items, seen |-> item] \in Postings
    BY DEF Postings, TypeOK
  <2> QED
    BY <1>8, <2>1 DEF BeginReceipt, Goto, TypeOK
<1>9. ASSUME NEW r \in Requests, CommitReceipt(r)
      PROVE  TypeOK'
  <2>1. order' \in OrderStatuses
    BY <1>9 DEF CommitReceipt, TypeOK, OrderStatuses
  <2>2. receipts' \in [Items -> Nat]
    BY <1>9 DEF CommitReceipt, TypeOK
  <2> QED
    BY <1>9, <2>1, <2>2 DEF CommitReceipt, Goto, TypeOK
<1>10. ASSUME NEW items \in SUBSET Items, ApproveDraft(items)
       PROVE  TypeOK'
  <2>1. drafted' \in [Items -> 0..MaxPostings]
    BY <1>10, ExecutionAssumption DEF ApproveDraft, TypeOK
  <2>2. item' \in [Items -> ItemStatuses]
    BY <1>10 DEF ApproveDraft, TypeOK, ItemStatuses, Bought, Arrived
  <2> QED
    BY <1>10, <2>1, <2>2 DEF ApproveDraft, TypeOK
<1>11. ASSUME NEW i \in Items, NEW status \in Arrived, Declare(i, status)
       PROVE  TypeOK'
  BY <1>11 DEF Declare, TypeOK, ItemStatuses, Bought
<1>12. ASSUME Close PROVE TypeOK'
  BY <1>12 DEF Close, TypeOK, OrderStatuses
<1>13. ASSUME UNCHANGED vars PROVE TypeOK'
  BY <1>13 DEF vars, TypeOK
<1> QED
  BY <1>1, <1>2, <1>3, <1>4, <1>5, <1>6, <1>7, <1>8, <1>9, <1>10, <1>11, <1>12, <1>13 DEF Next

\* Statuses stay statuses of the schema, whatever overwrites whatever
\* (schema.ts, purchaseOrderItems.status and purchaseOrders.status).
THEOREM TypeCorrect == Spec => []TypeOK
<1>1. Init => TypeOK
  BY ExecutionAssumption DEF Init, TypeOK, ItemStatuses, OrderStatuses
<1> QED
  BY <1>1, TypeStep, PTL DEF Spec

-----------------------------------------------------------------------------
(* No item comes into stock twice.                                         *)

\* What the locks of a receipt protect: items named by one receipt at a time,
\* and by none once they are received.
Single ==
    /\ \A i \in Items : receipts[i] <= 1
    /\ \A r \in Receipts : \A i \in request[r].items : receipts[i] = 0
    /\ \A p, q \in Receipts : p # q => request[p].items \cap request[q].items = {}

\* A step that posts nothing and begins no receipt keeps Single.
LEMMA SingleKept ==
    ASSUME TypeOK, Single, UNCHANGED receipts,
           \A r \in Requests : request'[r] = request[r] \/ request'[r].step # "receipt"
    PROVE  Single'
<1>1. \A r \in Receipts' : r \in Receipts /\ request'[r] = request[r]
  BY DEF Receipts
<1> QED
  BY <1>1 DEF Single

LEMMA SingleStep == TypeOK /\ Single /\ [Next]_vars => Single'
<1> SUFFICES ASSUME TypeOK, Single, [Next]_vars PROVE Single'
  OBVIOUS
<1>1. ASSUME NEW r \in Requests, NEW kind \in Kinds, NEW i \in Items, Accept(r, kind, i)
      PROVE  Single'
  BY <1>1, SingleKept DEF Accept, Goto, TypeOK
<1>2. ASSUME NEW r \in Requests, WriteItem(r)
      PROVE  Single'
  <2>1. [request[r] EXCEPT !.step = "read"].step = "read" /\ Idle.step = "idle"
    BY <1>2, RequestTyped DEF WriteItem, Writes, Idle
  <2> QED
    BY <1>2, <2>1, SingleKept DEF WriteItem, Goto, TypeOK
<1>3. ASSUME NEW r \in Requests, ReadItems(r)
      PROVE  Single'
  <2>1. request'[r].step \in {"idle", "order"}
    BY <1>3, SummaryRead
  <2> QED
    BY <1>3, <2>1, SingleKept DEF ReadItems, Goto, TypeOK
<1>4. ASSUME NEW r \in Requests,
             WriteOrder(r) \/ CommitDelivery(r) \/ RefuseDelivery(r) \/ Die(r)
      PROVE  Single'
  BY <1>4, SingleKept DEF WriteOrder, CommitDelivery, RefuseDelivery, Die, Goto, Idle, TypeOK
<1>5. ASSUME NEW r \in Requests, BeginDelivery(r)
      PROVE  Single'
  BY <1>5, SingleKept DEF BeginDelivery, Handing, Goto, TypeOK
<1>6. ASSUME NEW r \in Requests, NEW items \in SUBSET Items, BeginReceipt(r, items)
      PROVE  Single'
  <2>1. /\ Receipts' = Receipts \cup {r}
        /\ r \notin Receipts
        /\ request'[r].items = items
        /\ \A p \in Receipts : request'[p] = request[p]
    BY <1>6 DEF BeginReceipt, Goto, Receipts, Idle, TypeOK
  <2>2. \A i \in items : receipts[i] = 0 /\ \A p \in Receipts : i \notin request[p].items
    BY <1>6 DEF BeginReceipt, Locked
  <2>3. UNCHANGED receipts
    BY <1>6 DEF BeginReceipt
  <2> QED
    BY <2>1, <2>2, <2>3 DEF Single
<1>7. ASSUME NEW r \in Requests, CommitReceipt(r)
      PROVE  Single'
  <2>1. /\ r \in Receipts
        /\ Receipts' = Receipts \ {r}
        /\ \A p \in Receipts' : request'[p] = request[p]
    BY <1>7 DEF CommitReceipt, Goto, Receipts, Idle, TypeOK
  <2>2. \A i \in Items :
          receipts'[i] = IF i \in request[r].items THEN receipts[i] + 1 ELSE receipts[i]
    BY <1>7 DEF CommitReceipt
  <2>3. \A i \in Items : receipts'[i] <= 1
    BY <2>1, <2>2 DEF Single, TypeOK
  <2>4. \A p \in Receipts' : \A i \in request'[p].items : receipts'[i] = 0
    <3> SUFFICES ASSUME NEW p \in Receipts', NEW i \in request'[p].items
                 PROVE  receipts'[i] = 0
      OBVIOUS
    <3>1. p \in Receipts /\ p # r /\ i \in request[p].items /\ i \notin request[r].items
      BY <2>1 DEF Single
    <3>2. i \in Items
      BY <3>1, RequestTyped DEF Receipts, Postings
    <3> QED
      BY <2>2, <3>1, <3>2 DEF Single
  <2> QED
    BY <2>1, <2>3, <2>4 DEF Single
<1>8. ASSUME NEW items \in SUBSET Items, ApproveDraft(items)
      PROVE  Single'
  BY <1>8, SingleKept DEF ApproveDraft
<1>9. ASSUME NEW i \in Items, NEW status \in Arrived, Declare(i, status)
      PROVE  Single'
  BY <1>9, SingleKept DEF Declare
<1>10. ASSUME Close \/ UNCHANGED vars PROVE Single'
  BY <1>10, SingleKept DEF Close, vars
<1> QED
  BY <1>1, <1>2, <1>3, <1>4, <1>5, <1>6, <1>7, <1>8, <1>9, <1>10 DEF Next

-----------------------------------------------------------------------------
(* No stage is skipped.                                                    *)

\* What is so of an item, and what whoever is about to write it has seen.
ItemStaged(i) ==
    /\ item[i] \in Bought => i \in bought
    /\ receipts[i] > 0 => i \in bought
    /\ deliveries[i] > 0 => receipts[i] > 0
    /\ drafted[i] = 0

RequestStaged(r) ==
    /\ request[r].step = "write" /\ request[r].kind = "confirmDeliveryToWarehouse" =>
            request[r].item \in bought
    /\ request[r].step = "delivery" => receipts[request[r].item] > 0
    /\ request[r].step = "receipt" => request[r].items \subseteq bought

Staged ==
    ~load.retired =>
        /\ \A i \in Items : ItemStaged(i)
        /\ \A r \in Requests : RequestStaged(r)

\* What the requests have seen stays true of the requests a step leaves alone.
LEMMA RequestsStaged ==
    ASSUME TypeOK, Staged, ~load.retired, NEW r \in Requests, NEW next,
           request' = [request EXCEPT ![r] = next],
           bought \subseteq bought',
           \A i \in Items : receipts[i] > 0 => receipts'[i] > 0,
           RequestStaged(r)'
    PROVE  \A p \in Requests : RequestStaged(p)'
<1> SUFFICES ASSUME NEW p \in Requests, p # r PROVE RequestStaged(p)'
  OBVIOUS
<1>1. request'[p] = request[p] /\ RequestStaged(p)
  BY DEF TypeOK, Staged
<1>2. request[p].step = "delivery" => request[p].item \in Items
  BY RequestTyped DEF Handovers
<1> QED
  BY <1>1, <1>2 DEF RequestStaged

\* Nobody starts to use an endpoint that nobody used before.
LEMMA LoadKept == [Next]_vars => UNCHANGED load
<1> SUFFICES ASSUME [Next]_vars PROVE UNCHANGED load
  OBVIOUS
<1>1. ASSUME NEW r \in Requests,
             \/ \E kind \in Kinds, i \in Items : Accept(r, kind, i)
             \/ WriteItem(r) \/ ReadItems(r) \/ WriteOrder(r)
             \/ BeginDelivery(r) \/ CommitDelivery(r) \/ RefuseDelivery(r) \/ Die(r)
             \/ \E items \in (SUBSET Items) \ {{}} : BeginReceipt(r, items)
             \/ CommitReceipt(r)
      PROVE  UNCHANGED load
  BY <1>1 DEF Accept, WriteItem, ReadItems, WriteOrder, BeginDelivery,
              CommitDelivery, RefuseDelivery, Die, BeginReceipt, CommitReceipt
<1>2. ASSUME Close PROVE UNCHANGED load
  BY <1>2 DEF Close
<1>3. ASSUME NEW items, ApproveDraft(items) PROVE UNCHANGED load
  BY <1>3 DEF ApproveDraft
<1>4. ASSUME NEW i, NEW status, Declare(i, status) PROVE UNCHANGED load
  BY <1>4 DEF Declare
<1>5. ASSUME UNCHANGED vars PROVE UNCHANGED load
  BY <1>5 DEF vars
<1> QED
  BY <1>1, <1>2, <1>3, <1>4, <1>5 DEF Next

LEMMA StagedStep == TypeOK /\ Staged /\ [Next]_vars => Staged'
<1> SUFFICES ASSUME TypeOK, Staged, [Next]_vars, ~load.retired
             PROVE  /\ \A i \in Items : ItemStaged(i)'
                    /\ \A r \in Requests : RequestStaged(r)'
  BY LoadKept DEF Staged
<1> USE DEF Staged
<1>1. ASSUME NEW r \in Requests, NEW kind \in Kinds, NEW i \in Items, Accept(r, kind, i)
      PROVE  /\ \A j \in Items : ItemStaged(j)'
             /\ \A p \in Requests : RequestStaged(p)'
  <2>1. kind = "confirmDeliveryToWarehouse" => i \in bought
    BY <1>1 DEF Accept, Accepted, ItemStaged, Bought
  <2>2. request'[r] = [step |-> "write", kind |-> kind, item |-> i]
    BY <1>1 DEF Accept, Goto, TypeOK
  <2>3. RequestStaged(r)'
    BY <1>1, <2>1, <2>2 DEF RequestStaged, Accept
  <2> QED
    BY <1>1, <2>3, RequestsStaged DEF Accept, Goto, ItemStaged
<1>2. ASSUME NEW r \in Requests, WriteItem(r)
      PROVE  /\ \A j \in Items : ItemStaged(j)'
             /\ \A p \in Requests : RequestStaged(p)'
  <2>1. request[r] \in Writes
    BY <1>2, RequestTyped DEF WriteItem
  <2>2. Written(request[r].kind) \in Bought => request[r].item \in bought'
    BY <1>2, <2>1 DEF WriteItem, Written, Writes, Kinds, Deliveries, Bought, Arrived,
                      RequestStaged
  <2>3. bought \subseteq bought'
    BY <1>2 DEF WriteItem
  <2>4. ASSUME NEW j \in Items PROVE ItemStaged(j)'
    <3>1. item'[j] = IF j = request[r].item THEN Written(request[r].kind) ELSE item[j]
      BY <1>2 DEF WriteItem, TypeOK
    <3> QED
      BY <1>2, <2>2, <2>3, <3>1 DEF WriteItem, ItemStaged
  <2>5. request'[r].step \in {"idle", "read"}
    BY <1>2, <2>1 DEF WriteItem, Goto, TypeOK, Idle, Writes
  <2>6. RequestStaged(r)'
    BY <2>5 DEF RequestStaged
  <2> QED
    BY <1>2, <2>3, <2>4, <2>6, RequestsStaged DEF WriteItem, Goto
<1>3. ASSUME NEW r \in Requests, ReadItems(r)
      PROVE  /\ \A j \in Items : ItemStaged(j)'
             /\ \A p \in Requests : RequestStaged(p)'
  <2>1. request'[r].step \in {"idle", "order"}
    BY <1>3, SummaryRead
  <2>2. RequestStaged(r)'
    BY <2>1 DEF RequestStaged
  <2> QED
    BY <1>3, <2>2, RequestsStaged DEF ReadItems, Goto, ItemStaged
<1>4. ASSUME NEW r \in Requests, WriteOrder(r) \/ RefuseDelivery(r) \/ Die(r)
      PROVE  /\ \A j \in Items : ItemStaged(j)'
             /\ \A p \in Requests : RequestStaged(p)'
  <2>1. RequestStaged(r)'
    BY <1>4 DEF WriteOrder, RefuseDelivery, Die, Goto, Idle, RequestStaged, TypeOK
  <2> QED
    BY <1>4, <2>1, RequestsStaged DEF WriteOrder, RefuseDelivery, Die, Goto, ItemStaged
<1>5. ASSUME NEW r \in Requests, BeginDelivery(r)
      PROVE  /\ \A j \in Items : ItemStaged(j)'
             /\ \A p \in Requests : RequestStaged(p)'
  <2>1. request[r].item \in Items
    BY <1>5, RequestTyped DEF BeginDelivery, Writes
  <2>2. receipts[request[r].item] > 0
    BY <1>5, <2>1 DEF BeginDelivery, Stocked, ItemStaged, TypeOK
  <2>3. request'[r] = [step |-> "delivery", item |-> request[r].item, seen |-> item]
    BY <1>5 DEF BeginDelivery, Handing, Goto, TypeOK
  <2>4. RequestStaged(r)'
    BY <1>5, <2>2, <2>3 DEF RequestStaged, BeginDelivery
  <2> QED
    BY <1>5, <2>4, RequestsStaged DEF BeginDelivery, Handing, Goto, ItemStaged
<1>6. ASSUME NEW r \in Requests, CommitDelivery(r)
      PROVE  /\ \A j \in Items : ItemStaged(j)'
             /\ \A p \in Requests : RequestStaged(p)'
  <2>1. request[r].item \in Items /\ receipts[request[r].item] > 0
    BY <1>6, RequestTyped DEF CommitDelivery, Handovers, RequestStaged
  <2>2. ASSUME NEW j \in Items PROVE ItemStaged(j)'
    <3>1. j = request[r].item => j \in bought /\ receipts[j] > 0
      BY <2>1 DEF ItemStaged
    <3>2. j # request[r].item => item'[j] = item[j] /\ deliveries'[j] = deliveries[j]
      BY <1>6 DEF CommitDelivery, TypeOK
    <3> QED
      BY <1>6, <3>1, <3>2 DEF CommitDelivery, ItemStaged
  <2>3. RequestStaged(r)'
    BY <1>6 DEF CommitDelivery, Goto, Idle, RequestStaged, TypeOK
  <2> QED
    BY <1>6, <2>2, <2>3, RequestsStaged DEF CommitDelivery, Goto
<1>7. ASSUME NEW r \in Requests, NEW items \in SUBSET Items, BeginReceipt(r, items)
      PROVE  /\ \A j \in Items : ItemStaged(j)'
             /\ \A p \in Requests : RequestStaged(p)'
  <2>1. items \subseteq bought
    BY <1>7 DEF BeginReceipt, ItemStaged, Bought, Arrived
  <2>2. request'[r] = [step |-> "receipt", items |-> items, seen |-> item]
    BY <1>7 DEF BeginReceipt, Goto, TypeOK
  <2>3. RequestStaged(r)'
    BY <1>7, <2>1, <2>2 DEF RequestStaged, BeginReceipt
  <2> QED
    BY <1>7, <2>3, RequestsStaged DEF BeginReceipt, Goto, ItemStaged
<1>8. ASSUME NEW r \in Requests, CommitReceipt(r)
      PROVE  /\ \A j \in Items : ItemStaged(j)'
             /\ \A p \in Requests : RequestStaged(p)'
  <2>1. request[r].items \subseteq bought
    BY <1>8 DEF CommitReceipt, RequestStaged
  <2>2. \A j \in Items :
          receipts'[j] = IF j \in request[r].items THEN receipts[j] + 1 ELSE receipts[j]
    BY <1>8 DEF CommitReceipt
  <2>3. \A j \in Items : /\ receipts[j] > 0 => receipts'[j] > 0
                         /\ receipts'[j] > 0 => j \in bought
    BY <2>1, <2>2 DEF ItemStaged, TypeOK
  <2>4. RequestStaged(r)'
    BY <1>8 DEF CommitReceipt, Goto, Idle, RequestStaged, TypeOK
  <2>5. \A j \in Items : ItemStaged(j)'
    BY <1>8, <2>3 DEF CommitReceipt, ItemStaged
  <2> QED
    BY <1>8, <2>3, <2>4, <2>5, RequestsStaged DEF CommitReceipt, Goto
<1>9. ASSUME \/ \E items \in (SUBSET Items) \ {{}} : ApproveDraft(items)
             \/ \E i \in Items, status \in Arrived : Declare(i, status)
      PROVE  FALSE
  BY <1>9 DEF ApproveDraft, Declare
<1>10. ASSUME Close \/ UNCHANGED vars
       PROVE  /\ \A j \in Items : ItemStaged(j)'
              /\ \A p \in Requests : RequestStaged(p)'
  BY <1>10 DEF Close, vars, ItemStaged, RequestStaged
<1> QED
  BY <1>1, <1>2, <1>3, <1>4, <1>5, <1>6, <1>7, <1>8, <1>9, <1>10 DEF Next

-----------------------------------------------------------------------------
LEMMA InitStaged == Init => TypeOK /\ Single /\ Staged
<1> SUFFICES ASSUME Init PROVE TypeOK /\ Single /\ Staged
  OBVIOUS
<1>1. TypeOK
  BY ExecutionAssumption DEF Init, TypeOK, ItemStatuses, OrderStatuses
<1>2. Single
  BY DEF Init, Single, Receipts, Idle
<1>3. Staged
  BY DEF Init, Staged, ItemStaged, RequestStaged, Idle, Bought, Arrived
<1> QED
  BY <1>1, <1>2, <1>3

\* However often and concurrently receipts are posted for an item, it comes
\* into stock once, if invoice drafts are not approved any more (the locked
\* eligibility check of evaluateLockedWarehouseReceiptEligibility).
THEOREM ReceivedIntoStockOnce == Spec => []StockedOnce
<1>1. TypeOK /\ Single /\ Staged => StockedOnce
  BY DEF TypeOK, Single, Staged, ItemStaged, StockedOnce
<1> QED
  BY <1>1, InitStaged, TypeStep, SingleStep, StagedStep, PTL DEF Spec

\* What has arrived was bought and what was handed out had been received,
\* although statements overwrite items that were checked long before.
THEOREM StagesInOrder == Spec => []NoStageSkipped
<1>1. Staged => NoStageSkipped
  BY DEF Staged, ItemStaged, NoStageSkipped, Bought
<1> QED
  BY <1>1, InitStaged, TypeStep, StagedStep, PTL DEF Spec

-----------------------------------------------------------------------------
(* One request at a time, the order summarises its items.                  *)

\* The order fits what its items have become.
Fits(s, o) ==
    /\ o = "received" => AllArrived(s)
    /\ AllBought(s) /\ Undecided(s) = {} => o \in {"purchased", "received"}
    /\ o = "rejected" <=> Live(s) = {}

\* What an operation of a kind leaves the order at when it reads the items s.
Summarised(kind, s, o) == IF Summary(kind, s) = "as it was" THEN o ELSE Summary(kind, s)

\* Requests come one at a time, from the pages of the client, and end.
InTurn == load.width = 1 /\ ~load.disturbed /\ ~load.retired

OneUnderWay == \A p, q \in Requests : request[p] # Idle /\ request[q] # Idle => p = q

\* What came into stock is in the warehouse or handed out.
StockArrived == \A i \in Items : receipts[i] > 0 => item[i] \in Arrived

\* The order fits its items, or will when the request under way is done:
\* that one has checked its item just before, has written it and not yet
\* summarised, has summarised and not yet written the order, or is in a
\* transaction with a view of the items as they are.
Fitting(r) ==
    LET q == request[r] IN
    /\ q.step = "write" => /\ item[q.item] \in Accepted(q.kind)
                           /\ q.kind # "cancelItem"
                           /\ Fits(item, order)
    /\ q.step = "read" => Fits(item, Summarised(q.kind, item, order))
    /\ q.step = "order" => Fits(item, q.status)
    /\ q.step \in {"delivery", "receipt"} => q.seen = item /\ Fits(item, order)
    /\ q.step = "delivery" => receipts[q.item] > 0
    /\ q.step = "receipt" => \A i \in q.items : item[i] \in Arrived

Reflected ==
    InTurn =>
        /\ OneUnderWay
        /\ StockArrived
        /\ Waiting = {} => Fits(item, order)
        /\ \A r \in Waiting : Fitting(r)

\* An operation that is done alone leaves the order fitting.
LEMMA OperationFits ==
    ASSUME NEW s \in [Items -> ItemStatuses], NEW o, Fits(s, o),
           NEW kind \in Kinds \ (Deliveries \cup {"cancelItem"}),
           NEW i \in Items, s[i] \in Accepted(kind),
           NEW t, t = [s EXCEPT ![i] = Written(kind)]
    PROVE  IF kind = "resubmitCancelledPurchase" THEN Fits(t, o)
           ELSE Fits(t, Summarised(kind, t, o))
<1>1. /\ t[i] = Written(kind)
      /\ \A j \in Items : j # i => t[j] = s[j]
  OBVIOUS
<1>2. CASE kind = "confirmItemPurchase"
  <2>1. t[i] = "purchased" /\ Summary(kind, t) = AfterPurchase(t)
    BY <1>1, <1>2 DEF Written, Summary
  <2>2. i \in Live(t) /\ SomeBought(t)
    BY <2>1 DEF Live, Active, Undecided, SomeBought, Bought
  <2>3. AfterPurchase(t) = IF AllBought(t) THEN "purchased" ELSE "partial_purchase"
    BY <2>2 DEF AfterPurchase
  <2> QED
    BY <1>2, <2>1, <2>2, <2>3 DEF Fits, Summarised
<1>3. CASE kind = "cancelItemPurchase"
  <2>1. t[i] = "purchase_cancelled" /\ Summary(kind, t) = AfterPurchaseCancelled(t)
    BY <1>1, <1>3 DEF Written, Summary
  <2>2. i \in Live(t) /\ Undecided(t) # {}
    BY <2>1 DEF Live, Undecided
  <2>3. AfterPurchaseCancelled(t) = "partial_purchase"
    BY <2>2 DEF AfterPurchaseCancelled
  <2> QED
    BY <1>3, <2>1, <2>2, <2>3 DEF Fits, Summarised
<1>4. CASE kind = "resubmitCancelledPurchase"
  <2>1. t[i] = "approved" /\ s[i] = "purchase_cancelled"
    BY <1>1, <1>4 DEF Written, Accepted
  <2>2. i \in Live(s) /\ i \in Active(t) /\ i \in Live(t)
    BY <2>1 DEF Live, Active, Undecided
  <2>3. ~AllArrived(s) /\ ~AllBought(t)
    BY <2>1, <2>2 DEF AllArrived, AllBought, Arrived, Bought
  <2> QED
    BY <1>4, <2>2, <2>3 DEF Fits
<1>5. CASE kind = "finalizeCancelledItem"
  <2>1. s[i] = "purchase_cancelled" /\ Summary(kind, t) = AfterGivingUp(t)
    BY <1>1, <1>5 DEF Summary, Accepted
  <2>2. i \in Live(s) /\ ~AllArrived(s)
    BY <2>1 DEF Live, AllArrived, Arrived
  <2>3. CASE Live(t) = {}
    <3>1. ~AllBought(t)
      BY <2>3 DEF AllBought, Active
    <3>2. AfterGivingUp(t) = "rejected"
      BY <2>3, <3>1 DEF AfterGivingUp
    <3> QED
      BY <1>5, <2>1, <2>3, <3>1, <3>2 DEF Fits, Summarised
  <2>4. CASE Live(t) # {} /\ AllBought(t) /\ Undecided(t) = {}
    <3>1. AfterGivingUp(t) = "purchased"
      BY <2>4 DEF AfterGivingUp
    <3> QED
      BY <1>5, <2>1, <2>4, <3>1 DEF Fits, Summarised
  <2>5. CASE Live(t) # {} /\ ~(AllBought(t) /\ Undecided(t) = {})
    <3>1. AfterGivingUp(t) = "as it was"
      BY <2>5 DEF AfterGivingUp
    <3> QED
      BY <1>5, <2>1, <2>2, <2>5, <3>1 DEF Fits, Summarised
  <2> QED
    BY <2>3, <2>4, <2>5
<1>6. CASE kind = "confirmDeliveryToWarehouse"
  <2>1. /\ s[i] = "purchased" /\ t[i] = "delivered_to_warehouse"
        /\ Summary(kind, t) = AfterArrival(t)
    BY <1>1, <1>6 DEF Summary, Accepted, Written
  <2>2. i \in Live(s) /\ ~AllArrived(s)
    BY <2>1 DEF Live, AllArrived, Arrived
  <2>3. Live(t) = Live(s) /\ Undecided(t) = Undecided(s) /\ Active(t) = Active(s)
    BY <1>1, <2>1 DEF Live, Undecided, Active
  <2>4. AllBought(t) => AllBought(s)
    BY <1>1, <2>1, <2>3 DEF AllBought, Bought, Active, Live
  <2> QED
    BY <1>6, <2>1, <2>2, <2>3, <2>4 DEF Fits, Summarised, AfterArrival
<1> QED
  BY <1>2, <1>3, <1>4, <1>5, <1>6 DEF Kinds, Deliveries

\* Nothing is under way when a request is let in.
LEMMA LetInAlone ==
    ASSUME InTurn, Cardinality(Waiting) < load.width
    PROVE  Waiting = {}
<1>1. IsFiniteSet(Waiting)
  BY ExecutionAssumption, FS_Subset DEF Waiting
<1>2. Cardinality(Waiting) \in Nat
  BY <1>1, FS_CardinalityType
<1>3. Cardinality(Waiting) = 0
  BY <1>2 DEF InTurn
<1> QED
  BY <1>1, <1>3, FS_EmptySet

\* The request that is under way is the only one; what the next step must
\* show of it, or of the order when it is done.
LEMMA ReflectedByStep ==
    ASSUME TypeOK, InTurn, NEW r \in Requests, NEW next,
           \A p \in Waiting : p = r,
           request' = [request EXCEPT ![r] = next],
           StockArrived',
           IF next = Idle THEN Fits(item', order') ELSE Fitting(r)'
    PROVE  /\ OneUnderWay'
           /\ StockArrived'
           /\ Waiting' = {} => Fits(item, order)'
           /\ \A p \in Waiting' : Fitting(p)'
<1>1. \A p \in Requests : p # r => request'[p] = Idle
  BY DEF TypeOK, Waiting
<1>2. request'[r] = next
  BY DEF TypeOK
<1>3. \A p \in Waiting' : p = r /\ next # Idle
  BY <1>1, <1>2 DEF Waiting
<1>4. next # Idle => r \in Waiting'
  BY <1>2 DEF Waiting
<1> QED
  BY <1>1, <1>3, <1>4 DEF OneUnderWay

\* Every step keeps the order fitting.
LEMMA ReflectedStep ==
    ASSUME TypeOK, Staged, Reflected, [Next]_vars
    PROVE  Reflected'
<1> DEFINE Done == /\ OneUnderWay'
                   /\ StockArrived'
                   /\ Waiting' = {} => Fits(item, order)'
                   /\ \A p \in Waiting' : Fitting(p)'
<1> SUFFICES ASSUME InTurn PROVE Done
  BY LoadKept DEF Reflected, InTurn
<1>1. /\ OneUnderWay
      /\ StockArrived
      /\ Waiting = {} => Fits(item, order)
      /\ \A r \in Waiting : Fitting(r)
  BY DEF Reflected
<1>2. \A r \in Requests : request[r] # Idle => r \in Waiting /\ \A p \in Waiting : p = r
  BY <1>1 DEF OneUnderWay, Waiting
<1>3. ASSUME NEW r \in Requests, NEW kind \in Kinds, NEW i \in Items, Accept(r, kind, i)
      PROVE  Done
  <2> DEFINE next == [step |-> "write", kind |-> kind, item |-> i]
  <2>1. /\ Waiting = {} /\ kind # "cancelItem" /\ item[i] \in Accepted(kind)
        /\ UNCHANGED <<item, order, receipts>>
        /\ request' = [request EXCEPT ![r] = next]
    BY <1>3, LetInAlone DEF Accept, Goto, InTurn
  <2>2. request'[r] = next /\ next # Idle
    BY <2>1 DEF TypeOK, Idle
  <2>3. Fitting(r)'
    BY <1>1, <2>1, <2>2 DEF Fitting
  <2>4. StockArrived'
    BY <1>1, <2>1 DEF StockArrived
  <2> HIDE DEF next
  <2> QED
    BY <2>1, <2>2, <2>3, <2>4, ReflectedByStep
<1>4. ASSUME NEW r \in Requests, WriteItem(r)
      PROVE  Done
  <2> DEFINE q == request[r]
             next == IF q.kind = "resubmitCancelledPurchase" THEN Idle
                     ELSE [q EXCEPT !.step = "read"]
  <2>1. /\ q \in Writes /\ q.step = "write" /\ q.kind \notin Deliveries
        /\ item' = [item EXCEPT ![q.item] = Written(q.kind)]
        /\ UNCHANGED <<order, receipts>>
        /\ request' = [request EXCEPT ![r] = next]
    BY <1>4, RequestTyped DEF WriteItem, Goto
  <2>2. \A p \in Waiting : p = r
    BY <1>2, <2>1 DEF Idle
  <2>3. /\ item[q.item] \in Accepted(q.kind) /\ q.kind # "cancelItem"
        /\ Fits(item, order)
    BY <1>1, <1>2, <2>1 DEF Fitting, Idle
  <2>4. /\ item \in [Items -> ItemStatuses] /\ q.item \in Items
        /\ q.kind \in Kinds \ (Deliveries \cup {"cancelItem"})
    BY <2>1, <2>3 DEF TypeOK, Writes
  <2>5. IF q.kind = "resubmitCancelledPurchase" THEN Fits(item', order)
        ELSE Fits(item', Summarised(q.kind, item', order))
    <3> HIDE DEF q
    <3> QED
      BY <2>1, <2>3, <2>4, OperationFits
  <2>6. /\ request'[r] = next
        /\ q.kind = "resubmitCancelledPurchase" => next = Idle
        /\ q.kind # "resubmitCancelledPurchase" =>
               next # Idle /\ next.step = "read" /\ next.kind = q.kind
    BY <2>1 DEF TypeOK, Writes, Idle
  <2> HIDE DEF next, q
  <2>7. IF next = Idle THEN Fits(item', order') ELSE Fitting(r)'
    BY <2>1, <2>5, <2>6 DEF Fitting
  <2>8. StockArrived'
    <3>1. receipts[q.item] > 0 => Written(q.kind) \in Arrived
      BY <1>1, <2>3, <2>4 DEF StockArrived, Accepted, Arrived, Kinds, Deliveries
    <3>2. \A j \in Items : j # q.item => item'[j] = item[j]
      BY <2>1 DEF TypeOK
    <3>3. item'[q.item] = Written(q.kind)
      BY <2>1, <2>4
    <3> QED
      BY <1>1, <2>1, <3>1, <3>2, <3>3 DEF StockArrived
  <2> QED
    BY <2>1, <2>2, <2>7, <2>8, ReflectedByStep
<1>5. ASSUME NEW r \in Requests, ReadItems(r)
      PROVE  Done
  <2> DEFINE status == Summary(request[r].kind, item)
             next == IF status = "as it was" THEN Idle
                     ELSE [step |-> "order", status |-> status]
  <2>1. /\ request[r].step = "read" /\ UNCHANGED <<item, order, receipts>>
        /\ request' = [request EXCEPT ![r] = next]
    BY <1>5 DEF ReadItems, Goto
  <2> HIDE DEF status, next
  <2>2. r \in Waiting /\ \A p \in Waiting : p = r
    BY <1>2, <2>1 DEF Idle
  <2>3. Fits(item, IF status = "as it was" THEN order ELSE status)
    <3>1. Fits(item, Summarised(request[r].kind, item, order))
      BY <1>1, <2>1, <2>2 DEF Fitting
    <3> QED
      BY <3>1 DEF Summarised, status
  <2>4. /\ request'[r] = next
        /\ status = "as it was" => next = Idle
        /\ status # "as it was" => next # Idle /\ next.step = "order" /\ next.status = status
    BY <2>1 DEF TypeOK, Idle, next
  <2>5. IF next = Idle THEN Fits(item', order') ELSE Fitting(r)'
    BY <2>1, <2>3, <2>4 DEF Fitting
  <2>6. StockArrived'
    BY <1>1, <2>1 DEF StockArrived
  <2> QED
    BY <2>1, <2>2, <2>5, <2>6, ReflectedByStep
<1>6. ASSUME NEW r \in Requests, WriteOrder(r) \/ RefuseDelivery(r)
      PROVE  Done
  <2>1. /\ request[r].step \in {"order", "write", "delivery"}
        /\ UNCHANGED <<item, receipts>>
        /\ request' = [request EXCEPT ![r] = Idle]
    BY <1>6 DEF WriteOrder, RefuseDelivery, Goto
  <2>2. r \in Waiting /\ \A p \in Waiting : p = r
    BY <1>2, <2>1 DEF Idle
  <2>3. Fits(item', order')
    BY <1>1, <1>6, <2>2 DEF Fitting, WriteOrder, RefuseDelivery
  <2>4. StockArrived'
    BY <1>1, <2>1 DEF StockArrived
  <2> QED
    BY <2>1, <2>2, <2>3, <2>4, ReflectedByStep
<1>7. ASSUME NEW r \in Requests, BeginDelivery(r)
      PROVE  Done
  <2> DEFINE next == [step |-> "delivery", item |-> request[r].item, seen |-> item]
  <2>1. /\ request[r].step = "write" /\ Stocked(request[r].item)
        /\ UNCHANGED <<item, order, receipts>>
        /\ request' = [request EXCEPT ![r] = next]
    BY <1>7 DEF BeginDelivery, Handing, Goto
  <2>2. r \in Waiting /\ \A p \in Waiting : p = r
    BY <1>2, <2>1 DEF Idle
  <2>3. request[r].item \in Items
    BY <2>1, RequestTyped DEF Writes
  <2>4. receipts[request[r].item] > 0
    BY <2>1, <2>3 DEF Stocked, Staged, ItemStaged, InTurn, TypeOK
  <2>5. request'[r] = next /\ next # Idle
    BY <2>1 DEF TypeOK, Idle
  <2>6. Fitting(r)'
    BY <1>1, <2>1, <2>2, <2>4, <2>5 DEF Fitting
  <2>7. StockArrived'
    BY <1>1, <2>1 DEF StockArrived
  <2> HIDE DEF next
  <2> QED
    BY <2>1, <2>2, <2>5, <2>6, <2>7, ReflectedByStep
<1>8. ASSUME NEW r \in Requests, CommitDelivery(r)
      PROVE  Done
  <2> DEFINE i == request[r].item
             given == "delivered_to_requester"
             t == [item EXCEPT ![i] = given]
  <2>1. /\ request[r].step = "delivery" /\ i \in Items
        /\ item[i] \notin {given, "cancelled"}
        /\ item' = t
        /\ UNCHANGED receipts
        /\ request' = [request EXCEPT ![r] = Idle]
    BY <1>8, RequestTyped DEF CommitDelivery, Goto, Handovers
  <2>2. r \in Waiting /\ \A p \in Waiting : p = r
    BY <1>2, <2>1 DEF Idle
  <2>3. request[r].seen = item /\ Fits(item, order) /\ receipts[i] > 0
    BY <1>1, <2>1, <2>2 DEF Fitting
  <2>4. order' = IF AllDelivered(t) THEN "received" ELSE order
    BY <1>8, <2>3 DEF CommitDelivery
  <2>5. item[i] \in Arrived
    BY <1>1, <2>1, <2>3 DEF StockArrived
  <2>6. t[i] = given /\ \A j \in Items : j # i => t[j] = item[j]
    BY <2>1 DEF TypeOK
  <2> HIDE DEF t, i
  <2>7. Live(t) = Live(item) /\ Undecided(t) = Undecided(item) /\ Active(t) = Active(item)
    BY <2>1, <2>5, <2>6 DEF Live, Undecided, Active, Arrived
  <2>8. /\ AllBought(t) <=> AllBought(item)
        /\ AllArrived(t) <=> AllArrived(item)
        /\ AllDelivered(t) => AllArrived(t) /\ Live(t) # {}
    BY <2>5, <2>6, <2>7 DEF AllBought, AllArrived, AllDelivered, Bought, Arrived, Active, Live
  <2>9. Fits(item', order')
    BY <2>1, <2>3, <2>4, <2>7, <2>8 DEF Fits
  <2>10. StockArrived'
    BY <1>1, <2>1, <2>6 DEF StockArrived, Arrived
  <2> QED
    BY <2>1, <2>2, <2>9, <2>10, ReflectedByStep
<1>9. ASSUME NEW r \in Requests, NEW items \in SUBSET Items, BeginReceipt(r, items)
      PROVE  Done
  <2> DEFINE next == [step |-> "receipt", items |-> items, seen |-> item]
  <2>1. /\ Waiting = {} /\ \A i \in items : item[i] \in Arrived
        /\ UNCHANGED <<item, order, receipts>>
        /\ request' = [request EXCEPT ![r] = next]
    BY <1>9, LetInAlone DEF BeginReceipt, Goto, Arrived
  <2>2. request'[r] = next /\ next # Idle
    BY <2>1 DEF TypeOK, Idle
  <2>3. Fitting(r)'
    BY <1>1, <2>1, <2>2 DEF Fitting
  <2>4. StockArrived'
    BY <1>1, <2>1 DEF StockArrived
  <2> HIDE DEF next
  <2> QED
    BY <2>1, <2>2, <2>3, <2>4, ReflectedByStep
<1>10. ASSUME NEW r \in Requests, CommitReceipt(r)
       PROVE  Done
  <2>1. /\ request[r].step = "receipt" /\ UNCHANGED item
        /\ order' = IF AllArrived(request[r].seen) THEN "received" ELSE order
        /\ request' = [request EXCEPT ![r] = Idle]
    BY <1>10 DEF CommitReceipt, Goto
  <2>2. r \in Waiting /\ \A p \in Waiting : p = r
    BY <1>2, <2>1 DEF Idle
  <2>3. request[r].seen = item /\ Fits(item, order) /\ \A i \in request[r].items : item[i] \in Arrived
    BY <1>1, <2>1, <2>2 DEF Fitting
  <2>4. Fits(item', order')
    BY <2>1, <2>3 DEF Fits, AllArrived
  <2>5. StockArrived'
    <3>1. \A i \in Items : i \notin request[r].items => receipts'[i] = receipts[i]
      BY <1>10 DEF CommitReceipt
    <3> QED
      BY <1>1, <2>1, <2>3, <3>1 DEF StockArrived
  <2> QED
    BY <2>1, <2>2, <2>4, <2>5, ReflectedByStep
<1>11. ASSUME UNCHANGED vars PROVE Done
  BY <1>1, <1>11 DEF vars, OneUnderWay, StockArrived, Waiting, Fitting
<1>12. ~Close /\ (\A r \in Requests : ~Die(r))
       /\ (\A items \in SUBSET Items : ~ApproveDraft(items))
       /\ (\A i \in Items, status \in Arrived : ~Declare(i, status))
  BY DEF InTurn, Close, Die, ApproveDraft, Declare
<1> HIDE DEF Done
<1> QED
  BY <1>3, <1>4, <1>5, <1>6, <1>7, <1>8, <1>9, <1>10, <1>11, <1>12 DEF Next

\* Handled one after the other, from the pages of the client, the requests
\* leave the order saying what has become of its items, though six operations
\* summarise them by six rules.  An order has an item: creating one without is
\* refused (purchase-orders.router.ts:1548).
THEOREM OrderSummarisesItems ==
    ASSUME Items # {}
    PROVE  Spec => []OrderReflectsItems
<1>1. Init => Reflected
  <2> SUFFICES ASSUME Init PROVE Reflected
    OBVIOUS
  <2>1. Waiting = {}
    BY DEF Init, Waiting
  <2>2. \A i \in Items : item[i] = "approved" /\ receipts[i] = 0
    BY DEF Init
  <2>3. Live(item) = Items /\ Active(item) = Items
    BY <2>2 DEF Live, Active, Undecided
  <2>4. Fits(item, order)
    BY <2>2, <2>3 DEF Init, Fits, AllBought, Bought, Arrived
  <2> QED
    BY <2>1, <2>2, <2>4 DEF Reflected, OneUnderWay, StockArrived, Waiting
<1>2. TypeOK /\ Staged /\ Reflected => OrderReflectsItems
  BY DEF Reflected, InTurn, OrderReflectsItems, Quiet, Fits
<1>3. TypeOK /\ Staged /\ Reflected /\ [Next]_vars => Reflected'
  BY ReflectedStep
<1> QED
  BY <1>1, <1>2, <1>3, InitStaged, TypeStep, StagedStep, PTL DEF Spec
=============================================================================
