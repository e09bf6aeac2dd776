------------------------------- MODULE PmTask -------------------------------
(***************************************************************************)
(* One task of preventive maintenance: the items of its checklist, the     *)
(* visit of its technicians, the tickets opened for items that need one,   *)
(* the material issued for items that wait for it, and the status of the   *)
(* task, which is a cached projection of the statuses of its items.        *)
(*                                                                         *)
(* What a technician submits locks the row of the task before it reads, so *)
(* it is one step.  Two other writers of the projection are not: closing a *)
(* linked ticket has taken its read view before it waits for that lock,    *)
(* and linking a delivery locks the row of the item only.  Both compute    *)
(* the projection from the items of their view, and so do a Begin and a    *)
(* Commit.  A technician who takes material himself runs through several   *)
(* transactions, any of which may be the last one before a crash.          *)
(***************************************************************************)
EXTENDS Integers, Sequences, FiniteSets

CONSTANTS
    Technicians,    \* the executors of the team
    Items,          \* the items of the task
    Tickets,        \* tickets that may be opened for the items
    Requests,       \* connections that close, issue or link
    Quantities,     \* what an item may need of its material
    MaxDecisions,   \* bound on the needs declared per item
    MaxDeliveries,  \* bound on the deliveries posted
    Allowed         \* which of Practices happen

Practices == {"lateItems", "warehouse", "selfService", "crashes", "reopening"}

ASSUME PmAssumption ==
    /\ "nobody" \notin Technicians
    /\ Quantities \subseteq Nat \ {0}
    /\ MaxDecisions \in Nat
    /\ MaxDeliveries \in Nat
    /\ Allowed \subseteq Practices

VARIABLES
    task,      \* pmv2_tasks.status
    item,      \* item[i]: status and result of pmv2_task_items
    visit,     \* the leader of the open visit, or Nobody
    ticket,    \* ticket[t]: the item it was opened for and whether it is open
    need,      \* need[i]: the route decisions of the item, the last one counts
    delivery,  \* the deliveries posted for the items, one unit each
    request    \* request[r]: the transaction or sequence under way, or Idle

vars == <<task, item, visit, ticket, need, delivery, request>>

Nobody == "nobody"
Idle == [step |-> "idle"]
Missing == "missing" \* the scheduler has not inserted the item yet
NoTicket == [status |-> "none"]

ItemStatuses == {"pending", "in_progress", "waiting_material", "waiting_ticket",
                 "ready_to_complete", "completed"}
Results == {"none", "needs_material", "needs_ticket", "done"}
ItemStates == [status : ItemStatuses \cup {Missing}, result : Results]

Deliveries == [item : Items, decision : 1..MaxDecisions, linked : BOOLEAN,
               marked : BOOLEAN]

\* The steps of a request: closing a ticket, issuing by the warehouse, taking
\* material oneself and linking a delivery.
RequestStates ==
    {Idle}
    \cup [step : {"closing"}, ticket : Tickets, seen : [Items -> ItemStates],
          others : SUBSET Tickets]
    \cup [step : {"selecting", "taking"}, item : Items,
          decision : 1..MaxDecisions, left : Nat \ {0}]
    \cup [step : {"issuing"}, item : Items, decision : 1..MaxDecisions,
          left : Nat \ {0}, seen : [Items -> ItemStates]]
    \cup [step : {"posted"}, delivery : 1..MaxDeliveries, left : Nat]
    \cup [step : {"asked"}, delivery : 1..MaxDeliveries, left : Nat,
          self : BOOLEAN, known : ItemStates]
    \cup [step : {"linking"}, delivery : 1..MaxDeliveries, left : Nat,
          self : BOOLEAN, seen : [Items -> ItemStates]]

TypeOK ==
    /\ task \in ItemStatuses
    /\ item \in [Items -> ItemStates]
    /\ visit \in Technicians \cup {Nobody}
    /\ ticket \in [Tickets -> {NoTicket} \cup
                       [status : {"open", "closed"}, item : Items]]
    /\ need \in [Items -> Seq(Quantities)]
    /\ delivery \in Seq(Deliveries)
    /\ request \in [Requests -> RequestStates]

Init ==
    /\ task = "pending"
    /\ item = [i \in Items |-> [status |-> Missing, result |-> "none"]]
    /\ visit = Nobody
    /\ ticket = [t \in Tickets |-> NoTicket]
    /\ need = [i \in Items |-> <<>>]
    /\ delivery = <<>>
    /\ request = [r \in Requests |-> Idle]

-----------------------------------------------------------------------------
(* The projection.                                                         *)

Statuses(items) == {items[i].status : i \in Items} \ {Missing}

\* deriveTaskStatus: material before ticket before work under way.
Priority == <<"waiting_material", "waiting_ticket", "in_progress", "ready_to_complete">>

Projection(has) ==
    LET ranks == {k \in DOMAIN Priority : Priority[k] \in has} IN
    IF has = {"completed"} THEN "completed"
    ELSE IF ranks # {} THEN Priority[CHOOSE k \in ranks : \A j \in ranks : k <= j]
    ELSE IF "completed" \in has THEN "in_progress" ELSE "pending"

\* [A plausible bug: items that wait for a ticket are left to the ticket.]
DeriveWithoutTickets(items) ==
    LET has == Statuses(items) \ {"waiting_ticket"} IN
    IF has = {} THEN "completed" ELSE Projection(has)

DeriveTaskStatus(items) == Projection(Statuses(items))

Update(i, status, result) == [item EXCEPT ![i] = [status |-> status, result |-> result]]

\* [A plausible bug: linking does not lock the item.]
HeldByIssues(i) ==
    \E r \in Requests : request[r].step = "issuing" /\ request[r].item = i

\* The row of item i is locked by a transaction that issues or links.
Held(i) ==
    \E r \in Requests :
        \/ request[r].step = "issuing" /\ request[r].item = i
        \/ request[r].step = "linking" /\ delivery[request[r].delivery].item = i

OpenForStart == task # "completed"
OpenForResult == task \notin {"pending", "completed"}

-----------------------------------------------------------------------------
(* The technicians.                                                        *)

\* The scheduler inserts the items of a task one by one, and on every hourly
\* run those that are still missing or were added to the checklist since.
ScheduleItem(i) ==
    /\ "lateItems" \in Allowed \/ task = "pending"
    /\ item[i].status = Missing
    /\ item' = Update(i, "pending", "none")
    /\ UNCHANGED <<task, visit, ticket, need, delivery, request>>

\* Whoever finds no visit open opens one and leads it.
JoinVisit(u) == visit' = IF visit = Nobody THEN u ELSE visit

StartItem(u, i) ==
    /\ OpenForStart
    /\ item[i].status = "pending"
    /\ ~Held(i)
    /\ JoinVisit(u)
    /\ item' = Update(i, "in_progress", item[i].result)
    /\ task' = IF task = "pending" THEN "in_progress" ELSE task
    /\ UNCHANGED <<ticket, need, delivery, request>>

\* [A plausible bug: resuming, like starting, leaves the task as it is.]
ResumeItemAlone(u, i) ==
    /\ OpenForStart
    /\ item[i] = [status |-> "ready_to_complete", result |-> "needs_material"]
    /\ ~Held(i)
    /\ JoinVisit(u)
    /\ item' = Update(i, "in_progress", "needs_material")
    /\ UNCHANGED <<task, ticket, need, delivery, request>>

ResumeItem(u, i) ==
    /\ OpenForStart
    /\ item[i] = [status |-> "ready_to_complete", result |-> "needs_material"]
    /\ ~Held(i)
    /\ JoinVisit(u)
    /\ item' = Update(i, "in_progress", "needs_material")
    /\ task' = DeriveTaskStatus(item')
    /\ UNCHANGED <<ticket, need, delivery, request>>

\* submitBasicResult: ok or fixed.
SubmitResult(i) ==
    /\ OpenForResult
    /\ item[i].status \in {"in_progress", "ready_to_complete"}
    /\ visit # Nobody
    /\ ~Held(i)
    /\ item' = Update(i, "completed", "done")
    /\ task' = DeriveTaskStatus(item')
    /\ UNCHANGED <<visit, ticket, need, delivery, request>>

SubmitDependency(i) ==
    /\ OpenForResult
    /\ item[i].status = "in_progress"
    /\ visit # Nobody
    /\ ~Held(i)
    /\ \/ item' = Update(i, "waiting_material", "needs_material")
       \/ item' = Update(i, "waiting_ticket", "needs_ticket")
    /\ task' = DeriveTaskStatus(item')
    /\ UNCHANGED <<visit, ticket, need, delivery, request>>

\* [A plausible bug: the leader may leave while others work.]
EndVisitEarly(u) ==
    /\ visit = u
    /\ visit' = Nobody
    /\ UNCHANGED <<task, item, ticket, need, delivery, request>>

EndVisit(u) ==
    /\ visit = u
    /\ \A i \in Items : item[i].status # "in_progress"
    /\ visit' = Nobody
    /\ UNCHANGED <<task, item, ticket, need, delivery, request>>

-----------------------------------------------------------------------------
(* Tickets.                                                                *)

Active(i) == {t \in Tickets : ticket[t].status = "open" /\ ticket[t].item = i}

WaitsForTicket(state) ==
    state = [status |-> "waiting_ticket", result |-> "needs_ticket"]

\* The items of a view once item i, if it still waits, is completed.
Repaired(seen, i) ==
    IF WaitsForTicket(item[i])
    THEN [seen EXCEPT ![i] = [status |-> "completed", result |-> "done"]]
    ELSE seen

\* The ticket is created and linked in one transaction that locks the item.
CreateTicket(i, t) ==
    /\ ticket[t] = NoTicket
    /\ WaitsForTicket(item[i])
    /\ Active(i) = {}
    /\ ~Held(i)
    /\ ticket' = [ticket EXCEPT ![t] = [status |-> "open", item |-> i]]
    /\ UNCHANGED <<task, item, visit, need, delivery, request>>

\* The transaction that closes the ticket has taken its read view; it waits
\* for the row of the task.
BeginClose(r, t) ==
    /\ request[r] = Idle
    /\ ticket[t].status = "open"
    /\ \A q \in Requests : request[q].step = "closing" => request[q].ticket # t
    /\ request' = [request EXCEPT ![r] =
           [step |-> "closing", ticket |-> t, seen |-> item,
            others |-> Active(ticket[t].item) \ {t}]]
    /\ UNCHANGED <<task, item, visit, ticket, need, delivery>>

\* syncClosedTicketWithDb: what it read before the lock is what it still sees;
\* its UPDATE of the item, though, applies to the current row, if that waits.
CommitClose(r) ==
    LET q == request[r]
        i == ticket[q.ticket].item
        completes == WaitsForTicket(q.seen[i]) /\ q.others = {}
    IN  /\ q.step = "closing"
        /\ ~Held(i)
        /\ ticket' = [ticket EXCEPT ![q.ticket].status = "closed"]
        /\ IF completes
           THEN /\ item' = Repaired(item, i)
                /\ task' = DeriveTaskStatus(Repaired(q.seen, i))
           ELSE UNCHANGED <<item, task>>
        /\ request' = [request EXCEPT ![r] = Idle]
        /\ UNCHANGED <<visit, need, delivery>>

\* The IT team closes a ticket of its own without telling the task.
CloseByIt(t) ==
    /\ ticket[t].status = "open"
    /\ \A q \in Requests : request[q].step = "closing" => request[q].ticket # t
    /\ ticket' = [ticket EXCEPT ![t].status = "closed"]
    /\ UNCHANGED <<task, item, visit, need, delivery, request>>

\* submitForTriage takes tickets of any status.
ReopenTicket(t) ==
    /\ ticket[t].status = "closed"
    /\ ticket' = [ticket EXCEPT ![t].status = "open"]
    /\ UNCHANGED <<task, item, visit, need, delivery, request>>

-----------------------------------------------------------------------------
(* Material.                                                               *)

WaitsForMaterial(state) ==
    state = [status |-> "waiting_material", result |-> "needs_material"]

Posted(i, n) == {d \in DOMAIN delivery : delivery[d].item = i /\ delivery[d].decision = n}
Linked(i, n) == {d \in Posted(i, n) : delivery[d].linked}
Remaining(i, n) == need[i][n] - Cardinality(Linked(i, n))

\* [A plausible bug: the first delivery sends the technician back to work.]
CoveredByAny(i, more) == need[i] # <<>> /\ more > 0

\* areAllLatestRequirementsIssued, once more deliveries are linked
Covered(i, more) ==
    need[i] # <<>> /\ Remaining(i, Len(need[i])) <= more

\* submitMaterialNeed: a further decision takes the place of the last one.
DecideMaterial(i, quantity) ==
    /\ WaitsForMaterial(item[i])
    /\ task # "completed"
    /\ ~Held(i)
    /\ Len(need[i]) < MaxDecisions
    /\ need' = [need EXCEPT ![i] = Append(@, quantity)]
    /\ UNCHANGED <<task, item, visit, ticket, delivery, request>>

\* [A plausible bug: cards stay on the queue when all is issued.]
OnQueueForGood(i) ==
    /\ WaitsForMaterial(item[i])
    /\ need[i] # <<>>
    /\ \A d \in Posted(i, Len(need[i])) : delivery[d].marked => delivery[d].linked

\* A card of the queue: the last decision of an item, what it still lacks, and
\* no delivery that is known to be posted but not linked.
OnQueue(i) ==
    /\ WaitsForMaterial(item[i])
    /\ need[i] # <<>>
    /\ Remaining(i, Len(need[i])) > 0
    /\ \A d \in Posted(i, Len(need[i])) : delivery[d].marked => delivery[d].linked

\* issueReadyRequirement, by the warehouse or by a technician for himself
TakeCard(r, i, step) ==
    /\ request[r] = Idle
    /\ OnQueue(i)
    /\ request' = [request EXCEPT ![r] =
           [step |-> step, item |-> i, decision |-> Len(need[i]),
            left |-> Remaining(i, Len(need[i]))]]
    /\ UNCHANGED <<task, item, visit, ticket, need, delivery>>

\* issueSelectedRequirement: one transaction from here to CommitIssue, which
\* posts and links whatever the need still lacks.
BeginIssue(r) ==
    LET q == request[r] IN
    /\ q.step = "selecting"
    /\ ~Held(q.item)
    /\ WaitsForMaterial(item[q.item])
    /\ task # "completed"
    /\ Remaining(q.item, q.decision) = q.left
    /\ request' = [request EXCEPT ![r] =
           [step |-> "issuing", item |-> q.item, decision |-> q.decision,
            left |-> q.left, seen |-> item]]
    /\ UNCHANGED <<task, item, visit, ticket, need, delivery>>

NewDelivery(i, n, linked) ==
    [item |-> i, decision |-> n, linked |-> linked, marked |-> FALSE]

\* The items of a view once more deliveries of decision n of item i are linked.
Supplied(seen, i, n, more) ==
    IF WaitsForMaterial(item[i]) /\ Covered(i, IF n = Len(need[i]) THEN more ELSE 0)
    THEN [seen EXCEPT ![i] = [status |-> "ready_to_complete", result |-> "needs_material"]]
    ELSE seen

CommitIssue(r) ==
    LET q == request[r]
        Issued(items) == Supplied(items, q.item, q.decision, q.left)
    IN  /\ q.step = "issuing"
        /\ Len(delivery) + q.left <= MaxDeliveries
        /\ delivery' = delivery \o [d \in 1..q.left |-> NewDelivery(q.item, q.decision, TRUE)]
        /\ item' = Issued(item)
        /\ task' = DeriveTaskStatus(Issued(q.seen))
        /\ request' = [request EXCEPT ![r] = Idle]
        /\ UNCHANGED <<visit, ticket, need>>

\* The delivery of one unit to the technician is a transaction of its own.
PostDelivery(r) ==
    LET q == request[r] IN
    /\ q.step = "taking"
    /\ Len(delivery) < MaxDeliveries
    /\ delivery' = Append(delivery, NewDelivery(q.item, q.decision, FALSE))
    /\ request' = [request EXCEPT ![r] =
           [step |-> "posted", delivery |-> Len(delivery) + 1, left |-> q.left - 1]]
    /\ UNCHANGED <<task, item, visit, ticket, need>>

\* linkConfirmedDelivery reads the requirement before its transaction,
Ask(r, d, left, self) ==
    /\ request' = [request EXCEPT ![r] =
           [step |-> "asked", delivery |-> d, left |-> left, self |-> self,
            known |-> item[delivery[d].item]]]
    /\ UNCHANGED <<task, item, visit, ticket, need, delivery>>

AskLink(r) ==
    /\ request[r].step = "posted"
    /\ Ask(r, request[r].delivery, request[r].left, TRUE)

\* and the warehouse may call it for a delivery that was left unlinked.
Relink(r, d) ==
    /\ request[r] = Idle
    /\ ~delivery[d].linked
    /\ Ask(r, d, 0, FALSE)

\* Its transaction locks the delivery and the item and checks that the
\* delivery is not linked and fits what is still needed.
BeginLink(r) ==
    LET q == request[r]
        d == delivery[q.delivery]
    IN  /\ q.step = "asked"
        /\ ~Held(d.item)
        /\ ~d.linked
        /\ WaitsForMaterial(q.known)
        /\ Remaining(d.item, d.decision) > 0
        /\ request' = [request EXCEPT ![r] =
               [step |-> "linking", delivery |-> q.delivery, left |-> q.left,
                self |-> q.self, seen |-> item]]
        /\ UNCHANGED <<task, item, visit, ticket, need, delivery>>

CommitLink(r) ==
    LET q == request[r]
        d == delivery[q.delivery]
        LinkedOne(items) == Supplied(items, d.item, d.decision, 1)
    IN  /\ q.step = "linking"
        /\ delivery' = [delivery EXCEPT ![q.delivery].linked = TRUE]
        /\ item' = LinkedOne(item)
        /\ task' = DeriveTaskStatus(LinkedOne(q.seen))
        /\ request' = [request EXCEPT ![r] =
               IF q.left > 0
               THEN [step |-> "taking", item |-> d.item, decision |-> d.decision,
                     left |-> q.left]
               ELSE Idle]
        /\ UNCHANGED <<visit, ticket, need>>

\* The link is refused or rolled back.  Where the delivery was posted by the
\* same request, a marker says that it is not to be repeated.
FailLink(r) ==
    LET q == request[r] IN
    /\ q.step \in {"asked", "linking"}
    /\ delivery' = IF q.self /\ ~delivery[q.delivery].linked
                   THEN [delivery EXCEPT ![q.delivery].marked = TRUE]
                   ELSE delivery
    /\ request' = [request EXCEPT ![r] = Idle]
    /\ UNCHANGED <<task, item, visit, ticket, need>>

\* An issue or a closing is refused or rolled back.
GiveUp(r) ==
    /\ request[r].step \in {"selecting", "issuing", "taking", "closing"}
    /\ request' = [request EXCEPT ![r] = Idle]
    /\ UNCHANGED <<task, item, visit, ticket, need, delivery>>

\* The server dies: no transaction commits and no marker is written.
Crash(r) ==
    /\ request[r].step \in {"posted", "asked", "linking"}
    /\ request' = [request EXCEPT ![r] = Idle]
    /\ UNCHANGED <<task, item, visit, ticket, need, delivery>>

-----------------------------------------------------------------------------
Technician ==
    \/ \E u \in Technicians, i \in Items : StartItem(u, i) \/ ResumeItem(u, i)
    \/ \E i \in Items : SubmitResult(i) \/ SubmitDependency(i)
    \/ \E u \in Technicians : EndVisit(u)
    \/ \E i \in Items, quantity \in Quantities : DecideMaterial(i, quantity)

Ticketing ==
    \/ \E i \in Items, t \in Tickets : CreateTicket(i, t)
    \/ \E r \in Requests : (\E t \in Tickets : BeginClose(r, t)) \/ CommitClose(r)
    \/ \E t \in Tickets : CloseByIt(t)
    \/ "reopening" \in Allowed /\ \E t \in Tickets : ReopenTicket(t)

Issuing ==
    \/ "warehouse" \in Allowed
       /\ \E r \in Requests, i \in Items : TakeCard(r, i, "selecting")
    \/ "selfService" \in Allowed
       /\ \E r \in Requests, i \in Items : TakeCard(r, i, "taking")
    \/ \E r \in Requests :
           BeginIssue(r) \/ CommitIssue(r) \/ PostDelivery(r) \/ AskLink(r)
           \/ BeginLink(r) \/ CommitLink(r) \/ FailLink(r) \/ GiveUp(r)
    \/ \E r \in Requests, d \in DOMAIN delivery : Relink(r, d)
    \/ "crashes" \in Allowed /\ \E r \in Requests : Crash(r)

Next ==
    \/ Technician
    \/ Ticketing
    \/ Issuing
    \/ \E i \in Items : ScheduleItem(i)

Spec == Init /\ [][Next]_vars

-----------------------------------------------------------------------------
(* Properties.                                                             *)

\* A task is not completed before all of its items are, whatever old items the
\* writer of its status may have seen (docs/pmv2/04_WORKFLOWS.md:96).
CompletedTaskMeansCompletedItems ==
    task = "completed" => Statuses(item) = {"completed"}

\* And when the last item is completed the task is (same line).
CompletedItemsMeanCompletedTask ==
    Statuses(item) = {"completed"} => task = "completed"

\* Nobody works on an item without an open visit, so that every result has a
\* visit to be recorded under.
WorkHasItsVisit ==
    (\E i \in Items : item[i].status = "in_progress") => visit # Nobody

\* Deliveries linked to a need never exceed it, however many of them were
\* posted and however often links are tried at the same time.
LinkedWithinNeed ==
    \A i \in Items : \A n \in DOMAIN need[i] : Remaining(i, n) >= 0

\* Work that waited for material resumes only when all of it was linked.
ReadyMeansSupplied ==
    \A i \in Items :
        item[i].status = "ready_to_complete"
        \/ (item[i].status = "in_progress" /\ item[i].result = "needs_material")
        => need[i] # <<>> /\ Remaining(i, Len(need[i])) = 0

\* What was handed out for a need stays within it ("do not repeat the issue",
\* team-issue-handoff-service.ts:707).
HandedOutWithinNeed ==
    \A i \in Items : \A n \in DOMAIN need[i] : Cardinality(Posted(i, n)) <= need[i][n]

\* A commit made from a view of the items that is older than their state.
StaleCommit ==
    \E r \in Requests :
        /\ request[r].step \in {"closing", "issuing", "linking"}
        /\ request'[r] # request[r]
        /\ request[r].seen # item

\* Whenever an item changes, the status of the task becomes the projection of
\* all of them, unless the writer saw an older state of the items.  Starting a
\* pending item alone leaves a status other than pending as it is.
ProjectionFollowsItems ==
    [][item' # item =>
         \/ task' = DeriveTaskStatus(item')
         \/ StaleCommit
         \/ task' = task
            /\ \E i \in Items : item[i].status \in {"pending", Missing}
                                /\ item'[i] # item[i]]_vars
=============================================================================
