---------------------------- MODULE PmTaskProofs ----------------------------
(***************************************************************************)
(* Proofs about PmTask.                                                    *)
(*                                                                         *)
(* A request commits long after it has read, so the argument speaks of     *)
(* what stays true meanwhile: what a request refers to does not vanish     *)
(* (Referring), work that has begun is never unbegun and a completed item  *)
(* stays completed (Begun, Viewed), and while a request holds the row of   *)
(* an item nobody else links deliveries to its needs (OneHolder, Exact).   *)
(***************************************************************************)
EXTENDS PmTask, FiniteSetTheorems, SequenceTheorems, TLAPS

Untouched == {Missing, "pending"}

HasView(r) == request[r].step \in {"closing", "issuing", "linking"}

\* Request r has locked the row of item i.
Holds(r, i) ==
    \/ request[r].step = "issuing" /\ request[r].item = i
    \/ request[r].step = "linking" /\ delivery[request[r].delivery].item = i

Bounded ==
    /\ \A i \in Items : Len(need[i]) <= MaxDecisions
    /\ Len(delivery) <= MaxDeliveries

\* What requests and deliveries refer to is there.
RequestRefers(r) ==
    /\ request[r].step = "closing" => ticket[request[r].ticket] # NoTicket
    /\ request[r].step \in {"selecting", "taking", "issuing"} =>
           request[r].decision <= Len(need[request[r].item])
    /\ request[r].step \in {"posted", "asked", "linking"} =>
           request[r].delivery <= Len(delivery)

Referring ==
    /\ \A r \in Requests : RequestRefers(r)
    /\ \A d \in DOMAIN delivery : delivery[d].decision <= Len(need[delivery[d].item])

Typing == TypeOK /\ Bounded /\ Referring

\* A task is pending until work on it begins; until then an item has no
\* result, needs nothing and has no ticket.
Begun ==
    /\ task = "pending" => \A i \in Items : item[i].status \in Untouched
    /\ \A i \in Items : item[i].status \in Untouched =>
           item[i].result = "none" /\ need[i] = <<>>
    /\ \A t \in Tickets : ticket[t] # NoTicket => item[ticket[t].item].status \notin Untouched

\* A view is taken of a task on which work has begun, and the items that were
\* completed then are so now.
Viewed ==
    \A r \in Requests : HasView(r) =>
        /\ \E i \in Items : request[r].seen[i].status \notin Untouched
                            /\ item[i].status \notin Untouched
        /\ \A i \in Items : request[r].seen[i].status = "completed" =>
                                item[i].status = "completed"

\* Items that were missing from a view are missing still.
ViewedMissing ==
    \A r \in Requests : HasView(r) =>
        \A i \in Items : request[r].seen[i].status = Missing => item[i].status = Missing

OneHolder ==
    \A r, q \in Requests, i \in Items : Holds(r, i) /\ Holds(q, i) => r = q

\* While the row of an item is held, what its needs lack is what the holder
\* found.
Exact ==
    \A r \in Requests, i \in Items, n \in 1..MaxDecisions :
        /\ /\ request[r].step = "issuing"
           /\ i = request[r].item /\ n = request[r].decision
           => Remaining(i, n) = request[r].left
        /\ LET d == delivery[request[r].delivery] IN
           request[r].step = "linking" /\ i = d.item /\ n = d.decision =>
               ~d.linked /\ Remaining(i, n) > 0

-----------------------------------------------------------------------------
(* Types.                                                                  *)

\* What the state of a request holds at each of its steps.
LEMMA RequestTyped ==
    ASSUME TypeOK, NEW r \in Requests
    PROVE  /\ request[r].step \in {"idle", "closing", "selecting", "taking", "issuing",
                                   "posted", "asked", "linking"}
           /\ request[r].step = "closing" => request[r].ticket \in Tickets
           /\ request[r].step \in {"selecting", "taking", "issuing"} =>
                  /\ request[r].item \in Items
                  /\ request[r].decision \in 1..MaxDecisions
                  /\ request[r].left \in Nat \ {0}
           /\ request[r].step \in {"posted", "asked", "linking"} =>
                  /\ request[r].delivery \in 1..MaxDeliveries
                  /\ request[r].left \in Nat
           /\ request[r].step \in {"asked", "linking"} => request[r].self \in BOOLEAN
           /\ HasView(r) => request[r].seen \in [Items -> ItemStates]
<1>1. request[r] \in RequestStates
      BY DEF TypeOK
<1>2. QED
      BY <1>1 DEF RequestStates, Idle, HasView

\* What a delivery is.
LEMMA DeliveryTyped ==
    ASSUME TypeOK, NEW d \in DOMAIN delivery
    PROVE  /\ DOMAIN delivery = 1..Len(delivery)
           /\ Len(delivery) \in Nat
           /\ delivery[d] \in Deliveries
           /\ delivery[d].item \in Items
           /\ delivery[d].decision \in 1..MaxDecisions
           /\ delivery[d].linked \in BOOLEAN
<1>1. delivery \in Seq(Deliveries)
      BY DEF TypeOK
<1>2. DOMAIN delivery = 1..Len(delivery) /\ Len(delivery) \in Nat
      BY <1>1
<1>3. delivery[d] \in Deliveries
      BY <1>1, <1>2
<1>4. QED
      BY <1>2, <1>3 DEF Deliveries

\* The deliveries linked to a need are finitely many.
LEMMA LinkedFinite ==
    ASSUME TypeOK, NEW i \in Items, NEW n
    PROVE  /\ IsFiniteSet(Linked(i, n))
           /\ Cardinality(Linked(i, n)) \in Nat
           /\ n \in 1..Len(need[i]) => Remaining(i, n) \in Int
<1>1. DOMAIN delivery = 1..Len(delivery) /\ Len(delivery) \in Nat
      BY DEF TypeOK
<1>2. IsFiniteSet(1..Len(delivery))
      BY <1>1, FS_Interval
<1>3. Linked(i, n) \subseteq 1..Len(delivery)
      BY <1>1 DEF Linked, Posted
<1>4. IsFiniteSet(Linked(i, n))
      BY <1>2, <1>3, FS_Subset
<1>5. Cardinality(Linked(i, n)) \in Nat
      BY <1>4, FS_CardinalityType
<1>6. ASSUME n \in 1..Len(need[i])
      PROVE  need[i][n] \in Nat
  <2>1. need[i] \in Seq(Quantities)
        BY DEF TypeOK
  <2>2. need[i][n] \in Quantities
        BY <2>1, <1>6
  <2>3. QED
        BY <2>2, PmAssumption
<1>7. QED
      BY <1>4, <1>5, <1>6 DEF Remaining

\* A request in a state of the right form keeps the requests typed.
LEMMA RequestStep ==
    ASSUME TypeOK, NEW r \in Requests, NEW q \in RequestStates,
           request' = [request EXCEPT ![r] = q]
    PROVE  /\ request' \in [Requests -> RequestStates]
           /\ request'[r] = q
           /\ \A o \in Requests \ {r} : request'[o] = request[o]
BY DEF TypeOK

LEMMA IdleTyped == Idle \in RequestStates
BY DEF RequestStates

\* The statuses a task may be given.
LEMMA ProjectionFacts ==
    ASSUME NEW has, has \subseteq ItemStatuses
    PROVE  /\ Projection(has) \in ItemStatuses
           /\ Projection(has) = "completed" => has = {"completed"}
           /\ Projection(has) = "pending" => has \subseteq {"pending"}
           /\ "in_progress" \in has /\ has \subseteq {"pending", "in_progress"} =>
                  Projection(has) = "in_progress"
<1> DEFINE ranks == {k \in DOMAIN Priority : Priority[k] \in has}
           first == CHOOSE k \in ranks : \A j \in ranks : k <= j
<1>1. /\ DOMAIN Priority = {1, 2, 3, 4}
      /\ Priority[1] = "waiting_material" /\ Priority[2] = "waiting_ticket"
      /\ Priority[3] = "in_progress" /\ Priority[4] = "ready_to_complete"
      BY DEF Priority
<1>2. ranks \subseteq {1, 2, 3, 4}
      BY <1>1
<1>3. ASSUME ranks # {}
      PROVE  first \in ranks
  <2>1. \E k \in ranks : \A j \in ranks : k <= j
    <3>1. CASE 1 \in ranks  BY <3>1, <1>2
    <3>2. CASE 1 \notin ranks /\ 2 \in ranks  BY <3>2, <1>2
    <3>3. CASE 1 \notin ranks /\ 2 \notin ranks /\ 3 \in ranks  BY <3>3, <1>2
    <3>4. CASE 1 \notin ranks /\ 2 \notin ranks /\ 3 \notin ranks /\ 4 \in ranks
          BY <3>4, <1>2
    <3>5. QED  BY <3>1, <3>2, <3>3, <3>4, <1>2, <1>3
  <2>2. QED  BY <2>1
<1>4. Projection(has) = IF has = {"completed"} THEN "completed"
                        ELSE IF ranks # {} THEN Priority[first]
                        ELSE IF "completed" \in has THEN "in_progress" ELSE "pending"
      BY DEF Projection
<1>5. ASSUME ranks # {}
      PROVE  /\ Priority[first] \in has
             /\ Priority[first] \in {"waiting_material", "waiting_ticket", "in_progress",
                                     "ready_to_complete"}
      BY <1>1, <1>2, <1>3, <1>5
<1>6. \A s \in has : s \in {"waiting_material", "waiting_ticket", "in_progress",
                            "ready_to_complete"} => ranks # {}
      BY <1>1
<1> HIDE DEF ranks, first
<1>7. QED
      BY <1>4, <1>5, <1>6 DEF ItemStatuses

\* What the projection of typed items says of them.
LEMMA DerivedFacts ==
    ASSUME NEW items \in [Items -> ItemStates]
    PROVE  /\ DeriveTaskStatus(items) \in ItemStatuses
           /\ DeriveTaskStatus(items) = "completed" =>
                  /\ \A i \in Items : items[i].status \in {"completed", Missing}
                  /\ \E i \in Items : items[i].status = "completed"
           /\ DeriveTaskStatus(items) = "pending" =>
                  \A i \in Items : items[i].status \in Untouched
           /\ (\E i \in Items : items[i].status = "in_progress")
              /\ (\A i \in Items : items[i].status \in Untouched \cup {"in_progress"}) =>
                  DeriveTaskStatus(items) = "in_progress"
<1>1. Statuses(items) \subseteq ItemStatuses
      BY DEF Statuses, ItemStates
<1>2. \A i \in Items : items[i].status = Missing \/ items[i].status \in Statuses(items)
      BY DEF Statuses
<1>3. \A s \in Statuses(items) : \E i \in Items : items[i].status = s
      BY DEF Statuses
<1>4. Missing \notin Statuses(items)
      BY DEF Statuses
<1>5. QED
      BY <1>1, <1>2, <1>3, <1>4, ProjectionFacts DEF DeriveTaskStatus, Untouched, Missing

\* Nothing that is referred to vanishes.
Grows ==
    /\ \A t \in Tickets : ticket[t] # NoTicket => ticket'[t] # NoTicket
    /\ \A i \in Items : Len(need[i]) <= Len(need'[i])
    /\ Len(delivery) <= Len(delivery')

LEMMA LengthTyped ==
    ASSUME TypeOK
    PROVE  /\ \A i \in Items : Len(need[i]) \in Nat
           /\ Len(delivery) \in Nat
<1>1. \A i \in Items : need[i] \in Seq(Quantities)
      BY DEF TypeOK
<1>2. delivery \in Seq(Deliveries)
      BY DEF TypeOK
<1>3. QED
      BY <1>1, <1>2

LEMMA RefersKept ==
    ASSUME Typing, Grows, TypeOK', NEW r \in Requests, request'[r] = request[r]
    PROVE  RequestRefers(r)'
<1>1. RequestRefers(r)
      BY DEF Typing, Referring
<1>2. /\ request[r].step = "closing" => request[r].ticket \in Tickets
      /\ request[r].step \in {"selecting", "taking", "issuing"} =>
             request[r].item \in Items /\ request[r].decision \in Nat
      /\ request[r].step \in {"posted", "asked", "linking"} => request[r].delivery \in Nat
      BY RequestTyped DEF Typing
<1>3. /\ \A i \in Items : Len(need[i]) \in Nat /\ Len(need'[i]) \in Nat
      /\ Len(delivery) \in Nat /\ Len(delivery') \in Nat
  <2>1. /\ \A i \in Items : Len(need[i]) \in Nat
        /\ Len(delivery) \in Nat
        BY LengthTyped DEF Typing
  <2>2. /\ \A i \in Items : need'[i] \in Seq(Quantities)
        /\ delivery' \in Seq(Deliveries)
        BY DEF TypeOK
  <2>3. QED
        BY <2>1, <2>2
<1>4. QED
      BY <1>1, <1>2, <1>3 DEF RequestRefers, Grows

\* Items and the task alone.
LEMMA ItemStepTyped ==
    ASSUME Typing, NEW i \in Items, NEW s \in ItemStatuses, NEW v \in Results,
           item' = Update(i, s, v)
    PROVE  /\ item' \in [Items -> ItemStates]
           /\ item'[i] = [status |-> s, result |-> v]
           /\ \A j \in Items \ {i} : item'[j] = item[j]
<1>1. item \in [Items -> ItemStates]
      BY DEF Typing, TypeOK
<1>2. QED
      BY <1>1 DEF Update, ItemStates

LEMMA TypingOfItems ==
    ASSUME Typing, item' \in [Items -> ItemStates], task' \in ItemStatuses,
           visit' \in Technicians \cup {Nobody},
           UNCHANGED <<ticket, need, delivery, request>>
    PROVE  Typing'
BY DEF Typing, TypeOK, Bounded, Referring, RequestRefers

\* Requests alone.
LEMMA TypingOfRequest ==
    ASSUME Typing, NEW r \in Requests, NEW q \in RequestStates,
           request' = [request EXCEPT ![r] = q],
           UNCHANGED <<task, item, visit, ticket, need, delivery>>,
           RequestRefers(r)'
    PROVE  Typing'
<1>1. TypeOK'
      BY RequestStep DEF Typing, TypeOK
<1>2. Bounded'
      BY DEF Typing, Bounded
<1>3. Grows
      BY LengthTyped DEF Grows, Typing
<1>4. ASSUME NEW o \in Requests
      PROVE  RequestRefers(o)'
      BY <1>1, <1>3, RequestStep, RefersKept DEF Typing
<1>5. Referring'
      BY <1>4 DEF Typing, Referring
<1>6. QED
      BY <1>1, <1>2, <1>5 DEF Typing

LEMMA IdleRefers ==
    ASSUME NEW r \in Requests, request'[r] = Idle
    PROVE  RequestRefers(r)'
BY DEF RequestRefers, Idle

LEMMA TypingOfTechnician ==
    ASSUME Typing, Technician \/ \E i \in Items : ScheduleItem(i)
    PROVE  Typing'
<1> DEFINE Goal == Typing'
<1>0. /\ task \in ItemStatuses
      /\ item \in [Items -> ItemStates]
      /\ visit \in Technicians \cup {Nobody}
      BY DEF Typing, TypeOK
<1>1. ASSUME NEW u \in Technicians, NEW i \in Items, StartItem(u, i)
      PROVE  Goal
  <2>1. item[i].result \in Results
        BY <1>0 DEF ItemStates
  <2>2. item' \in [Items -> ItemStates]
        BY <1>1, <2>1, ItemStepTyped DEF StartItem, ItemStatuses
  <2>3. QED
        BY <1>0, <1>1, <2>2, TypingOfItems DEF StartItem, JoinVisit, ItemStatuses
<1>2. ASSUME NEW u \in Technicians, NEW i \in Items, ResumeItem(u, i)
      PROVE  Goal
  <2>1. item' \in [Items -> ItemStates]
        BY <1>2, ItemStepTyped DEF ResumeItem, ItemStatuses, Results
  <2>2. QED
        BY <1>0, <1>2, <2>1, DerivedFacts, TypingOfItems DEF ResumeItem, JoinVisit
<1>3. ASSUME NEW i \in Items, SubmitResult(i)
      PROVE  Goal
  <2>1. item' \in [Items -> ItemStates]
        BY <1>3, ItemStepTyped DEF SubmitResult, ItemStatuses, Results
  <2>2. QED
        BY <1>0, <1>3, <2>1, DerivedFacts, TypingOfItems DEF SubmitResult
<1>4. ASSUME NEW i \in Items, SubmitDependency(i)
      PROVE  Goal
  <2>1. item' \in [Items -> ItemStates]
        BY <1>4, ItemStepTyped DEF SubmitDependency, ItemStatuses, Results
  <2>2. QED
        BY <1>0, <1>4, <2>1, DerivedFacts, TypingOfItems DEF SubmitDependency
<1>5. ASSUME NEW u \in Technicians, EndVisit(u)
      PROVE  Goal
      BY <1>0, <1>5, TypingOfItems DEF EndVisit
<1>6. ASSUME NEW i \in Items, ScheduleItem(i)
      PROVE  Goal
  <2>1. item' \in [Items -> ItemStates]
        BY <1>6, ItemStepTyped DEF ScheduleItem, ItemStatuses, Results
  <2>2. QED
        BY <1>0, <1>6, <2>1, TypingOfItems DEF ScheduleItem
<1>7. ASSUME NEW i \in Items, NEW quantity \in Quantities, DecideMaterial(i, quantity)
      PROVE  Goal
  <2>1. /\ need \in [Items -> Seq(Quantities)]
        /\ need' = [need EXCEPT ![i] = Append(need[i], quantity)]
        /\ Len(need[i]) < MaxDecisions
        /\ UNCHANGED <<task, item, visit, ticket, delivery, request>>
        BY <1>7 DEF DecideMaterial, Typing, TypeOK
  <2>2. /\ need' \in [Items -> Seq(Quantities)]
        /\ need'[i] = Append(need[i], quantity)
        /\ \A j \in Items \ {i} : need'[j] = need[j]
        BY <2>1
  <2>3. need[i] \in Seq(Quantities)
        BY <2>1
  <2>4. Len(need'[i]) = Len(need[i]) + 1 /\ Len(need[i]) \in Nat
        BY <2>2, <2>3
  <2>5. TypeOK'
        BY <2>1, <2>2 DEF Typing, TypeOK
  <2>6. Grows
        BY <2>1, <2>2, <2>4, LengthTyped DEF Typing, Grows
  <2>7. Bounded'
        BY <2>1, <2>2, <2>4, PmAssumption DEF Typing, Bounded
  <2>8. \A r \in Requests : RequestRefers(r)'
        BY <2>1, <2>5, <2>6, RefersKept
  <2>9. \A d \in DOMAIN delivery : delivery[d].decision <= Len(need'[delivery[d].item])
    <3> TAKE d \in DOMAIN delivery
    <3>1. delivery[d].decision <= Len(need[delivery[d].item])
          BY DEF Typing, Referring
    <3>2. /\ delivery[d].item \in Items
          /\ delivery[d].decision \in Nat
          BY DeliveryTyped DEF Typing
    <3>3. QED
          BY <2>2, <2>4, <3>1, <3>2
  <2>10. QED
        BY <2>1, <2>5, <2>7, <2>8, <2>9 DEF Typing, Referring
<1> HIDE DEF Goal
<1>8. Goal
      BY <1>1, <1>2, <1>3, <1>4, <1>5, <1>6, <1>7 DEF Technician
<1>9. QED
      BY <1>8 DEF Goal

LEMMA RepairedTyped ==
    ASSUME TypeOK, NEW i \in Items, NEW seen \in [Items -> ItemStates]
    PROVE  /\ Repaired(seen, i) \in [Items -> ItemStates]
           /\ \A j \in Items \ {i} : Repaired(seen, i)[j] = seen[j]
           /\ Repaired(seen, i)[i] = IF WaitsForTicket(item[i])
                                     THEN [status |-> "completed", result |-> "done"]
                                     ELSE seen[i]
BY DEF Repaired, ItemStates, ItemStatuses, Results

LEMMA SuppliedTyped ==
    ASSUME TypeOK, NEW i \in Items, NEW seen \in [Items -> ItemStates], NEW n, NEW more
    PROVE  /\ Supplied(seen, i, n, more) \in [Items -> ItemStates]
           /\ \A j \in Items \ {i} : Supplied(seen, i, n, more)[j] = seen[j]
           /\ Supplied(seen, i, n, more)[i] =
                  IF WaitsForMaterial(item[i])
                     /\ Covered(i, IF n = Len(need[i]) THEN more ELSE 0)
                  THEN [status |-> "ready_to_complete", result |-> "needs_material"]
                  ELSE seen[i]
BY DEF Supplied, ItemStates, ItemStatuses, Results

\* A ticket once opened is for the same item.
LEMMA TicketTyped ==
    ASSUME TypeOK, NEW t \in Tickets, ticket[t] # NoTicket
    PROVE  ticket[t].item \in Items
BY DEF TypeOK

LEMMA TypingOfTicketing ==
    ASSUME Typing, Ticketing
    PROVE  Typing'
<1> DEFINE Goal == Typing'
<1>0. /\ item \in [Items -> ItemStates]
      /\ ticket \in [Tickets -> {NoTicket} \cup [status : {"open", "closed"}, item : Items]]
      BY DEF Typing, TypeOK
<1>a. ASSUME ticket' \in [Tickets -> {NoTicket} \cup
                                     [status : {"open", "closed"}, item : Items]],
             \A t \in Tickets : ticket[t] # NoTicket => ticket'[t] # NoTicket,
             UNCHANGED <<task, item, visit, need, delivery, request>>
      PROVE  Goal
  <2>1. TypeOK'
        BY <1>a DEF Typing, TypeOK
  <2>2. Grows
        BY <1>a, LengthTyped DEF Typing, Grows
  <2>3. \A r \in Requests : RequestRefers(r)'
        BY <1>a, <2>1, <2>2, RefersKept
  <2>4. QED
        BY <1>a, <2>1, <2>3 DEF Typing, Referring, Bounded
<1>1. ASSUME NEW i \in Items, NEW t \in Tickets, CreateTicket(i, t)
      PROVE  Goal
      BY <1>0, <1>1, <1>a DEF CreateTicket, NoTicket
<1>2. ASSUME NEW r \in Requests, NEW t \in Tickets, BeginClose(r, t)
      PROVE  Goal
  <2> DEFINE q == [step |-> "closing", ticket |-> t, seen |-> item,
                   others |-> Active(ticket[t].item) \ {t}]
  <2>1. q \in RequestStates
        BY <1>0 DEF RequestStates, Active
  <2>2. /\ request' = [request EXCEPT ![r] = q]
        /\ UNCHANGED <<task, item, visit, ticket, need, delivery>>
        /\ ticket[t] # NoTicket
        BY <1>2 DEF BeginClose, NoTicket
  <2>3. RequestRefers(r)'
        BY <2>1, <2>2, RequestStep DEF Typing, RequestRefers
  <2> HIDE DEF q
  <2>4. QED
        BY <2>1, <2>2, <2>3, TypingOfRequest
<1>3. ASSUME NEW r \in Requests, CommitClose(r)
      PROVE  Goal
  <2> DEFINE t == request[r].ticket
             i == ticket[t].item
  <2>1. /\ request[r].step = "closing"
        /\ t \in Tickets
        /\ ticket[t] # NoTicket
        /\ request[r].seen \in [Items -> ItemStates]
        BY <1>3, RequestTyped DEF CommitClose, Typing, Referring, RequestRefers, HasView
  <2>2. i \in Items
        BY <2>1, TicketTyped DEF Typing
  <2>3. /\ ticket' = [ticket EXCEPT ![t].status = "closed"]
        /\ \/ /\ item' = Repaired(item, i)
              /\ task' = DeriveTaskStatus(Repaired(request[r].seen, i))
           \/ UNCHANGED <<item, task>>
        /\ request' = [request EXCEPT ![r] = Idle]
        /\ UNCHANGED <<visit, need, delivery>>
        BY <1>3 DEF CommitClose
  <2>4. /\ ticket' \in [Tickets -> {NoTicket} \cup
                                   [status : {"open", "closed"}, item : Items]]
        /\ \A o \in Tickets : ticket[o] # NoTicket => ticket'[o] # NoTicket
        BY <1>0, <2>1, <2>3 DEF NoTicket
  <2>a. /\ Repaired(item, i) \in [Items -> ItemStates]
        /\ Repaired(request[r].seen, i) \in [Items -> ItemStates]
        BY <1>0, <2>1, <2>2, RepairedTyped DEF Typing
  <2>b. DeriveTaskStatus(Repaired(request[r].seen, i)) \in ItemStatuses
        BY <2>a, DerivedFacts
  <2>5. item' \in [Items -> ItemStates] /\ task' \in ItemStatuses
        BY <2>3, <2>a, <2>b DEF Typing, TypeOK
  <2>6. /\ request' \in [Requests -> RequestStates]
        /\ request'[r] = Idle
        /\ \A o \in Requests \ {r} : request'[o] = request[o]
        BY <2>3, RequestStep, IdleTyped DEF Typing
  <2>7. TypeOK'
        BY <2>3, <2>4, <2>5, <2>6 DEF Typing, TypeOK
  <2>8. Grows
        BY <2>3, <2>4, LengthTyped DEF Typing, Grows
  <2>9. \A o \in Requests : RequestRefers(o)'
        BY <2>6, <2>7, <2>8, IdleRefers, RefersKept
  <2>10. QED
        BY <2>3, <2>7, <2>9 DEF Typing, Referring, Bounded
<1>4. ASSUME NEW t \in Tickets, CloseByIt(t)
      PROVE  Goal
      BY <1>0, <1>4, <1>a DEF CloseByIt, NoTicket
<1>5. ASSUME NEW t \in Tickets, ReopenTicket(t)
      PROVE  Goal
      BY <1>0, <1>5, <1>a DEF ReopenTicket, NoTicket
<1> HIDE DEF Goal
<1>6. Goal
      BY <1>1, <1>2, <1>3, <1>4, <1>5, Zenon DEF Ticketing
<1>7. QED
      BY <1>6 DEF Goal

-----------------------------------------------------------------------------
(* Deliveries.                                                             *)

LEMMA DecisionTyped ==
    ASSUME Typing, NEW i \in Items, need[i] # <<>>
    PROVE  Len(need[i]) \in 1..MaxDecisions /\ Len(need[i]) \in DOMAIN need[i]
<1>1. need[i] \in Seq(Quantities)
      BY DEF Typing, TypeOK
<1>2. Len(need[i]) \in Nat /\ Len(need[i]) > 0 /\ DOMAIN need[i] = 1..Len(need[i])
      BY <1>1
<1>3. QED
      BY <1>2, PmAssumption DEF Typing, Bounded

LEMMA NewDeliveryTyped ==
    ASSUME NEW i \in Items, NEW n \in 1..MaxDecisions, NEW b \in BOOLEAN
    PROVE  NewDelivery(i, n, b) \in Deliveries
BY DEF NewDelivery, Deliveries

\* What each of the steps that touch deliveries makes of them.
LEMMA Issuance ==
    ASSUME Typing, NEW r \in Requests, CommitIssue(r)
    PROVE  /\ delivery' \in Seq(Deliveries)
           /\ Len(delivery') = Len(delivery) + request[r].left
           /\ Len(delivery') <= MaxDeliveries
           /\ \A d \in 1..Len(delivery) : delivery'[d] = delivery[d]
           /\ \A d \in Len(delivery) + 1 .. Len(delivery') :
                  delivery'[d] = NewDelivery(request[r].item, request[r].decision, TRUE)
<1> DEFINE new == [d \in 1..request[r].left |->
                       NewDelivery(request[r].item, request[r].decision, TRUE)]
<1>1. /\ request[r].item \in Items
      /\ request[r].decision \in 1..MaxDecisions
      /\ request[r].left \in Nat
      BY RequestTyped DEF CommitIssue, Typing
<1>2. NewDelivery(request[r].item, request[r].decision, TRUE) \in Deliveries
      BY <1>1, NewDeliveryTyped
<1>3. new \in Seq(Deliveries) /\ Len(new) = request[r].left
  <2>1. new \in [1..request[r].left -> Deliveries]
        BY <1>2
  <2>a. new \in UNION {[1..n -> Deliveries] : n \in Nat}
        BY <1>1, <2>1
  <2>2. new \in Seq(Deliveries)
        BY <2>a, SeqDef, Zenon
  <2>3. DOMAIN new = 1..request[r].left /\ DOMAIN new = 1..Len(new) /\ Len(new) \in Nat
        BY <2>2, LenProperties
  <2>4. QED
        BY <1>1, <2>2, <2>3
<1>4. delivery \in Seq(Deliveries) /\ Len(delivery) \in Nat
      BY DEF Typing, TypeOK
<1>5. delivery' = delivery \o new /\ Len(delivery) + request[r].left <= MaxDeliveries
      BY DEF CommitIssue
<1>6. \A d \in 1..request[r].left : 
          new[d] = NewDelivery(request[r].item, request[r].decision, TRUE)
      OBVIOUS
<1> HIDE DEF new
<1>7. /\ delivery' \in Seq(Deliveries)
      /\ Len(delivery') = Len(delivery) + request[r].left
      BY <1>1, <1>3, <1>4, <1>5
<1>8. \A d \in 1..Len(delivery) : delivery'[d] = delivery[d]
      BY <1>3, <1>4, <1>5
<1>9. ASSUME NEW d \in Len(delivery) + 1 .. Len(delivery')
      PROVE  delivery'[d] = new[d - Len(delivery)] /\ d - Len(delivery) \in 1..request[r].left
      BY <1>1, <1>3, <1>4, <1>5, <1>7
<1>10. QED
      BY <1>1, <1>4, <1>5, <1>6, <1>7, <1>8, <1>9

LEMMA Posting ==
    ASSUME Typing, NEW r \in Requests, PostDelivery(r)
    PROVE  /\ delivery' \in Seq(Deliveries)
           /\ Len(delivery') = Len(delivery) + 1
           /\ Len(delivery') <= MaxDeliveries
           /\ \A d \in 1..Len(delivery) : delivery'[d] = delivery[d]
           /\ delivery'[Len(delivery) + 1] =
                  NewDelivery(request[r].item, request[r].decision, FALSE)
<1>1. /\ request[r].item \in Items
      /\ request[r].decision \in 1..MaxDecisions
      BY RequestTyped DEF PostDelivery, Typing
<1>2. NewDelivery(request[r].item, request[r].decision, FALSE) \in Deliveries
      BY <1>1, NewDeliveryTyped
<1>3. delivery \in Seq(Deliveries) /\ Len(delivery) \in Nat
      BY DEF Typing, TypeOK
<1>4. Len(delivery) < MaxDeliveries /\ MaxDeliveries \in Nat
      BY PmAssumption DEF PostDelivery
<1>5. ASSUME NEW d \in Deliveries, delivery' = Append(delivery, d)
      PROVE  /\ delivery' \in Seq(Deliveries)
             /\ Len(delivery') = Len(delivery) + 1
             /\ \A n \in 1..Len(delivery) : delivery'[n] = delivery[n]
             /\ delivery'[Len(delivery) + 1] = d
  <2>1. /\ Append(delivery, d) \in Seq(Deliveries)
        /\ Len(Append(delivery, d)) = Len(delivery) + 1
        /\ \A n \in 1..Len(delivery) : Append(delivery, d)[n] = delivery[n]
        /\ Append(delivery, d)[Len(delivery) + 1] = d
        BY <1>3, AppendProperties
  <2>2. QED
        BY <1>5, <2>1, Zenon
<1>6. delivery' = Append(delivery, NewDelivery(request[r].item, request[r].decision, FALSE))
      BY DEF PostDelivery
<1>7. /\ delivery' \in Seq(Deliveries)
      /\ Len(delivery') = Len(delivery) + 1
      /\ \A n \in 1..Len(delivery) : delivery'[n] = delivery[n]
      /\ delivery'[Len(delivery) + 1] =
             NewDelivery(request[r].item, request[r].decision, FALSE)
      BY <1>2, <1>5, <1>6, Zenon
<1>8. Len(delivery') <= MaxDeliveries
      BY <1>3, <1>4, <1>7
<1>9. QED
      BY <1>7, <1>8

LEMMA Linking ==
    ASSUME Typing, NEW r \in Requests, CommitLink(r)
    PROVE  /\ request[r].delivery \in DOMAIN delivery
           /\ delivery' \in Seq(Deliveries)
           /\ Len(delivery') = Len(delivery)
           /\ DOMAIN delivery' = DOMAIN delivery
           /\ \A d \in DOMAIN delivery :
                  /\ delivery'[d].item = delivery[d].item
                  /\ delivery'[d].decision = delivery[d].decision
                  /\ delivery'[d].linked = (delivery[d].linked \/ d = request[r].delivery)
<1>1. request[r].delivery \in 1..Len(delivery)
      BY RequestTyped DEF CommitLink, Typing, Referring, RequestRefers
<1>2. delivery \in Seq(Deliveries) /\ DOMAIN delivery = 1..Len(delivery)
      BY DEF Typing, TypeOK
<1>3. \A d \in DOMAIN delivery : delivery[d] \in Deliveries
      BY <1>2
<1>4. delivery' = [delivery EXCEPT ![request[r].delivery].linked = TRUE]
      BY DEF CommitLink
<1>5. /\ DOMAIN delivery' = DOMAIN delivery
      /\ delivery'[request[r].delivery] = [delivery[request[r].delivery] EXCEPT !.linked = TRUE]
      /\ \A d \in DOMAIN delivery \ {request[r].delivery} : delivery'[d] = delivery[d]
      BY <1>1, <1>2, <1>4
<1>6. [delivery[request[r].delivery] EXCEPT !.linked = TRUE] \in Deliveries
      BY <1>1, <1>2, <1>3 DEF Deliveries
<1>7. delivery' \in Seq(Deliveries) /\ Len(delivery') = Len(delivery)
      BY <1>1, <1>2, <1>4, <1>6
<1>8. ASSUME NEW d \in DOMAIN delivery
      PROVE  /\ delivery'[d].item = delivery[d].item
             /\ delivery'[d].decision = delivery[d].decision
             /\ delivery'[d].linked = (delivery[d].linked \/ d = request[r].delivery)
      BY <1>1, <1>2, <1>3, <1>5 DEF Deliveries
<1>9. QED
      BY <1>1, <1>2, <1>5, <1>7, <1>8

LEMMA Marking ==
    ASSUME Typing, NEW r \in Requests, FailLink(r)
    PROVE  /\ delivery' \in Seq(Deliveries)
           /\ Len(delivery') = Len(delivery)
           /\ DOMAIN delivery' = DOMAIN delivery
           /\ \A d \in DOMAIN delivery :
                  /\ delivery'[d].item = delivery[d].item
                  /\ delivery'[d].decision = delivery[d].decision
                  /\ delivery'[d].linked = delivery[d].linked
<1>1. request[r].delivery \in 1..Len(delivery)
      BY RequestTyped DEF FailLink, Typing, Referring, RequestRefers
<1>2. delivery \in Seq(Deliveries) /\ DOMAIN delivery = 1..Len(delivery)
      BY DEF Typing, TypeOK
<1>3. CASE delivery' = delivery
      BY <1>2, <1>3
<1>4. CASE delivery' = [delivery EXCEPT ![request[r].delivery].marked = TRUE]
  <2>1. \A d \in DOMAIN delivery : delivery[d] \in Deliveries
        BY <1>2
  <2>2. /\ DOMAIN delivery' = DOMAIN delivery
        /\ delivery'[request[r].delivery] =
               [delivery[request[r].delivery] EXCEPT !.marked = TRUE]
        /\ \A d \in DOMAIN delivery \ {request[r].delivery} : delivery'[d] = delivery[d]
        BY <1>1, <1>2, <1>4
  <2>3. [delivery[request[r].delivery] EXCEPT !.marked = TRUE] \in Deliveries
        BY <1>1, <1>2, <2>1 DEF Deliveries
  <2>4. delivery' \in Seq(Deliveries) /\ Len(delivery') = Len(delivery)
        BY <1>1, <1>2, <1>4, <2>3
  <2>5. /\ delivery'[request[r].delivery].item = delivery[request[r].delivery].item
        /\ delivery'[request[r].delivery].decision = delivery[request[r].delivery].decision
        /\ delivery'[request[r].delivery].linked = delivery[request[r].delivery].linked
    <3>1. delivery[request[r].delivery] \in Deliveries
          BY <1>1, <1>2, <2>1
    <3>2. QED
          BY <2>2, <3>1 DEF Deliveries
  <2>6. QED
        BY <2>2, <2>4, <2>5
<1>5. QED
      BY <1>3, <1>4 DEF FailLink

LEMMA TypingOfDelivery ==
    ASSUME Typing, NEW r \in Requests, NEW q \in RequestStates,
           request' = [request EXCEPT ![r] = q],
           delivery' \in Seq(Deliveries),
           Len(delivery) <= Len(delivery'), Len(delivery') <= MaxDeliveries,
           item' \in [Items -> ItemStates], task' \in ItemStatuses,
           UNCHANGED <<visit, ticket, need>>,
           RequestRefers(r)',
           \A d \in DOMAIN delivery' :
               delivery'[d].decision <= Len(need[delivery'[d].item])
    PROVE  Typing'
<1>1. TypeOK'
      BY RequestStep DEF Typing, TypeOK
<1>2. Bounded'
      BY DEF Typing, Bounded
<1>3. Grows
      BY LengthTyped DEF Grows, Typing
<1>4. ASSUME NEW o \in Requests
      PROVE  RequestRefers(o)'
      BY <1>1, <1>3, RequestStep, RefersKept DEF Typing
<1>5. Referring'
      BY <1>4 DEF Typing, Referring
<1>6. QED
      BY <1>1, <1>2, <1>5 DEF Typing

\* What a delivery or a request refers to is a need that was declared.
LEMMA NeedThere ==
    ASSUME Typing
    PROVE  /\ DOMAIN delivery = 1..Len(delivery)
           /\ \A d \in DOMAIN delivery :
                  /\ delivery[d].item \in Items
                  /\ delivery[d].decision \in 1..MaxDecisions
                  /\ delivery[d].decision \in 1..Len(need[delivery[d].item])
           /\ \A r \in Requests :
                  /\ request[r].step \in {"selecting", "taking", "issuing"} =>
                         request[r].decision \in 1..Len(need[request[r].item])
                  /\ request[r].step \in {"posted", "asked", "linking"} =>
                         request[r].delivery \in DOMAIN delivery
<1>1. DOMAIN delivery = 1..Len(delivery)
      BY DEF Typing, TypeOK
<1>2. ASSUME NEW d \in DOMAIN delivery
      PROVE  /\ delivery[d].item \in Items
             /\ delivery[d].decision \in 1..MaxDecisions
             /\ delivery[d].decision \in 1..Len(need[delivery[d].item])
  <2>1. delivery[d].item \in Items /\ delivery[d].decision \in 1..MaxDecisions
        BY DeliveryTyped DEF Typing
  <2>2. delivery[d].decision <= Len(need[delivery[d].item])
        BY DEF Typing, Referring
  <2>3. Len(need[delivery[d].item]) \in Nat
        BY <2>1, LengthTyped DEF Typing
  <2>4. QED
        BY <2>1, <2>2, <2>3
<1>3. ASSUME NEW r \in Requests, request[r].step \in {"selecting", "taking", "issuing"}
      PROVE  request[r].decision \in 1..Len(need[request[r].item])
  <2>1. request[r].item \in Items /\ request[r].decision \in 1..MaxDecisions
        BY <1>3, RequestTyped DEF Typing
  <2>2. request[r].decision <= Len(need[request[r].item])
        BY <1>3 DEF Typing, Referring, RequestRefers
  <2>3. Len(need[request[r].item]) \in Nat
        BY <2>1, LengthTyped DEF Typing
  <2>4. QED
        BY <2>1, <2>2, <2>3
<1>4. ASSUME NEW r \in Requests, request[r].step \in {"posted", "asked", "linking"}
      PROVE  request[r].delivery \in DOMAIN delivery
      BY <1>1, <1>4, RequestTyped DEF Typing, Referring, RequestRefers
<1>5. QED
      BY <1>1, <1>2, <1>3, <1>4

\* What a request that holds an item knows of the need it works for.
LEMMA HolderKnows ==
    ASSUME Typing, Exact, NEW r \in Requests
    PROVE  /\ request[r].step = "issuing" =>
                  Remaining(request[r].item, request[r].decision) = request[r].left
           /\ request[r].step = "linking" =>
                  LET d == delivery[request[r].delivery] IN
                  ~d.linked /\ Remaining(d.item, d.decision) > 0
<1>1. ASSUME request[r].step = "issuing"
      PROVE  Remaining(request[r].item, request[r].decision) = request[r].left
  <2>1. request[r].item \in Items /\ request[r].decision \in 1..MaxDecisions
        BY <1>1, RequestTyped DEF Typing
  <2>2. QED
        BY <1>1, <2>1 DEF Exact
<1>2. ASSUME request[r].step = "linking"
      PROVE  LET d == delivery[request[r].delivery] IN
             ~d.linked /\ Remaining(d.item, d.decision) > 0
  <2>1. request[r].delivery \in DOMAIN delivery
        BY <1>2, NeedThere
  <2>2. /\ delivery[request[r].delivery].item \in Items
        /\ delivery[request[r].delivery].decision \in 1..MaxDecisions
        BY <2>1, NeedThere
  <2>3. QED
        BY <1>2, <2>2 DEF Exact
<1>3. QED
      BY <1>1, <1>2

LEMMA TypingOfCommitIssue ==
    ASSUME Typing, NEW r \in Requests, CommitIssue(r)
    PROVE  Typing'
<1>1. /\ request[r].item \in Items
      /\ request[r].left \in Nat
      /\ request[r].decision \in 1..Len(need[request[r].item])
      /\ request[r].seen \in [Items -> ItemStates]
      /\ item \in [Items -> ItemStates]
      BY RequestTyped, NeedThere DEF CommitIssue, Typing, HasView, TypeOK
<1>2. /\ item' = Supplied(item, request[r].item, request[r].decision, request[r].left)
      /\ task' = DeriveTaskStatus(
             Supplied(request[r].seen, request[r].item, request[r].decision, request[r].left))
      /\ request' = [request EXCEPT ![r] = Idle]
      /\ UNCHANGED <<visit, ticket, need>>
      BY DEF CommitIssue
<1>3. item' \in [Items -> ItemStates]
      BY <1>1, <1>2, SuppliedTyped DEF Typing
<1>4. task' \in ItemStatuses
  <2>1. Supplied(request[r].seen, request[r].item, request[r].decision, request[r].left)
            \in [Items -> ItemStates]
        BY <1>1, SuppliedTyped DEF Typing
  <2>2. QED
        BY <1>2, <2>1, DerivedFacts
<1>5. RequestRefers(r)'
      BY <1>2, RequestStep, IdleTyped, IdleRefers DEF Typing
<1>a. /\ delivery' \in Seq(Deliveries)
      /\ Len(delivery') = Len(delivery) + request[r].left
      /\ Len(delivery') <= MaxDeliveries
      /\ \A d \in 1..Len(delivery) : delivery'[d] = delivery[d]
      BY Issuance
<1>b. \A d \in Len(delivery) + 1 .. Len(delivery') :
          delivery'[d] = NewDelivery(request[r].item, request[r].decision, TRUE)
      BY Issuance
<1>c. /\ Len(delivery) \in Nat /\ Len(delivery') \in Nat
      /\ Len(need[request[r].item]) \in Nat
      BY <1>1, <1>a, LengthTyped DEF Typing
<1>6. DOMAIN delivery' = 1..Len(delivery')
      BY <1>a
<1>7. ASSUME NEW d \in DOMAIN delivery'
      PROVE  delivery'[d].decision <= Len(need[delivery'[d].item])
  <2>2. CASE d \in 1..Len(delivery)
    <3>1. d \in DOMAIN delivery /\ delivery'[d] = delivery[d]
          BY <1>a, <2>2, NeedThere
    <3>2. QED
          BY <3>1 DEF Typing, Referring
  <2>3. CASE d \in Len(delivery) + 1 .. Len(delivery')
    <3>1. /\ delivery'[d].item = request[r].item
          /\ delivery'[d].decision = request[r].decision
          BY <1>b, <2>3 DEF NewDelivery
    <3>2. QED
          BY <1>1, <1>c, <3>1
  <2>4. QED
        BY <1>6, <1>c, <2>2, <2>3
<1>8. Len(delivery) <= Len(delivery')
      BY <1>1, <1>a, <1>c
<1>9. QED
      BY <1>2, <1>3, <1>4, <1>5, <1>7, <1>8, <1>a, IdleTyped, TypingOfDelivery

LEMMA TypingOfPostDelivery ==
    ASSUME Typing, NEW r \in Requests, PostDelivery(r)
    PROVE  Typing'
<1> DEFINE q == [step |-> "posted", delivery |-> Len(delivery) + 1,
                 left |-> request[r].left - 1]
<1>1. /\ request[r].item \in Items
      /\ request[r].left \in Nat \ {0}
      /\ request[r].decision \in 1..Len(need[request[r].item])
      BY RequestTyped, NeedThere DEF PostDelivery, Typing
<1>2. Len(delivery) \in Nat /\ Len(need[request[r].item]) \in Nat
      BY <1>1, LengthTyped DEF Typing
<1>a. /\ delivery' \in Seq(Deliveries)
      /\ Len(delivery') = Len(delivery) + 1
      /\ Len(delivery') <= MaxDeliveries
      /\ \A d \in 1..Len(delivery) : delivery'[d] = delivery[d]
      BY Posting
<1>b. delivery'[Len(delivery) + 1] = NewDelivery(request[r].item, request[r].decision, FALSE)
      BY Posting
<1>3. Len(delivery) + 1 \in 1..MaxDeliveries
      BY <1>2, <1>a, PmAssumption
<1>4. q \in RequestStates
      BY <1>1, <1>3 DEF RequestStates
<1>5. /\ request' = [request EXCEPT ![r] = q]
      /\ UNCHANGED <<task, item, visit, ticket, need>>
      BY DEF PostDelivery
<1>6. RequestRefers(r)'
  <2>1. request'[r] = q
        BY <1>4, <1>5, RequestStep DEF Typing
  <2>2. QED
        BY <2>1, <1>2, <1>a DEF RequestRefers
<1>7. DOMAIN delivery' = 1..Len(delivery')
      BY <1>a
<1>8. ASSUME NEW d \in DOMAIN delivery'
      PROVE  delivery'[d].decision <= Len(need[delivery'[d].item])
  <2>1. CASE d \in 1..Len(delivery)
    <3>1. d \in DOMAIN delivery /\ delivery'[d] = delivery[d]
          BY <1>a, <2>1, NeedThere
    <3>2. QED
          BY <3>1 DEF Typing, Referring
  <2>2. CASE d = Len(delivery) + 1
    <3>1. /\ delivery'[d].item = request[r].item
          /\ delivery'[d].decision = request[r].decision
          BY <1>b, <2>2 DEF NewDelivery
    <3>2. QED
          BY <1>1, <1>2, <3>1
  <2>3. QED
        BY <1>2, <1>7, <1>a, <2>1, <2>2
<1> HIDE DEF q
<1>9. Len(delivery) <= Len(delivery')
      BY <1>2, <1>a
<1>10. item' \in [Items -> ItemStates] /\ task' \in ItemStatuses
      BY <1>5 DEF Typing, TypeOK
<1>11. QED
      BY <1>4, <1>5, <1>6, <1>8, <1>9, <1>10, <1>a, TypingOfDelivery

LEMMA TypingOfCommitLink ==
    ASSUME Typing, NEW r \in Requests, CommitLink(r)
    PROVE  Typing'
<1> DEFINE d == delivery[request[r].delivery]
           q == IF request[r].left > 0
                THEN [step |-> "taking", item |-> d.item, decision |-> d.decision,
                      left |-> request[r].left]
                ELSE Idle
<1>1. /\ d.item \in Items
      /\ d.decision \in 1..MaxDecisions
      /\ d.decision \in 1..Len(need[d.item])
      /\ request[r].left \in Nat
      /\ request[r].seen \in [Items -> ItemStates]
      /\ item \in [Items -> ItemStates]
      BY RequestTyped, NeedThere DEF CommitLink, Typing, HasView, TypeOK
<1>2. Len(need[d.item]) \in Nat
      BY <1>1, LengthTyped DEF Typing
<1>3. q \in RequestStates
      BY <1>1, IdleTyped DEF RequestStates
<1>4. /\ item' = Supplied(item, d.item, d.decision, 1)
      /\ task' = DeriveTaskStatus(Supplied(request[r].seen, d.item, d.decision, 1))
      /\ request' = [request EXCEPT ![r] = q]
      /\ UNCHANGED <<visit, ticket, need>>
      BY DEF CommitLink
<1>5. RequestRefers(r)'
  <2>1. request'[r] = q
        BY <1>3, <1>4, RequestStep DEF Typing
  <2>2. CASE request[r].left > 0
    <3>1. /\ request'[r].step = "taking"
          /\ request'[r].item = d.item
          /\ request'[r].decision = d.decision
          BY <2>1, <2>2
    <3>2. need' = need /\ d.decision <= Len(need[d.item])
          BY <1>1, <1>2, <1>4
    <3>3. QED
          BY <3>1, <3>2 DEF RequestRefers
  <2>3. CASE ~(request[r].left > 0)
        BY <2>1, <2>3, IdleRefers
  <2>4. QED
        BY <2>2, <2>3
<1> HIDE DEF q, d
<1>6. item' \in [Items -> ItemStates]
      BY <1>1, <1>4, SuppliedTyped DEF Typing
<1>7. task' \in ItemStatuses
  <2>1. Supplied(request[r].seen, d.item, d.decision, 1) \in [Items -> ItemStates]
        BY <1>1, SuppliedTyped DEF Typing
  <2>2. QED
        BY <1>4, <2>1, DerivedFacts
<1>8. \A e \in DOMAIN delivery' : delivery'[e].decision <= Len(need[delivery'[e].item])
      BY Linking DEF Typing, Referring
<1>9. Len(delivery) <= Len(delivery') /\ Len(delivery') <= MaxDeliveries
      BY Linking, LengthTyped DEF Typing, Bounded
<1>10. QED
      BY <1>3, <1>4, <1>5, <1>6, <1>7, <1>8, <1>9, Linking, TypingOfDelivery

LEMMA TypingOfFailLink ==
    ASSUME Typing, NEW r \in Requests, FailLink(r)
    PROVE  Typing'
<1>1. /\ request' = [request EXCEPT ![r] = Idle]
      /\ UNCHANGED <<task, item, visit, ticket, need>>
      BY DEF FailLink
<1>2. RequestRefers(r)'
      BY <1>1, RequestStep, IdleTyped, IdleRefers DEF Typing
<1>3. \A e \in DOMAIN delivery' : delivery'[e].decision <= Len(need[delivery'[e].item])
      BY Marking DEF Typing, Referring
<1>4. Len(delivery) <= Len(delivery') /\ Len(delivery') <= MaxDeliveries
      BY Marking, LengthTyped DEF Typing, Bounded
<1>5. item' \in [Items -> ItemStates] /\ task' \in ItemStatuses
      BY <1>1 DEF Typing, TypeOK
<1>6. QED
      BY <1>1, <1>2, <1>3, <1>4, <1>5, Marking, IdleTyped, TypingOfDelivery

LEMMA TypingOfIssuing ==
    ASSUME Typing, Issuing
    PROVE  Typing'
<1> DEFINE Goal == Typing'
<1>0. /\ item \in [Items -> ItemStates]
      /\ Len(delivery) \in Nat
      /\ Len(delivery) <= MaxDeliveries
      /\ DOMAIN delivery = 1..Len(delivery)
      BY LengthTyped, NeedThere DEF Typing, TypeOK, Bounded
<1>1. ASSUME NEW r \in Requests, NEW i \in Items, NEW s \in {"selecting", "taking"},
             TakeCard(r, i, s)
      PROVE  Goal
  <2> DEFINE q == [step |-> s, item |-> i, decision |-> Len(need[i]),
                   left |-> Remaining(i, Len(need[i]))]
  <2>1. /\ need[i] # <<>>
        /\ Remaining(i, Len(need[i])) > 0
        /\ request' = [request EXCEPT ![r] = q]
        /\ UNCHANGED <<task, item, visit, ticket, need, delivery>>
        BY <1>1 DEF TakeCard, OnQueue
  <2>2. Len(need[i]) \in 1..MaxDecisions /\ Len(need[i]) \in 1..Len(need[i])
        BY <2>1, DecisionTyped
  <2>3. Remaining(i, Len(need[i])) \in Nat \ {0}
        BY <2>1, <2>2, LinkedFinite DEF Typing
  <2>4. q \in RequestStates
        BY <2>2, <2>3 DEF RequestStates
  <2>5. RequestRefers(r)'
    <3>1. request'[r] = q
          BY <2>1, <2>4, RequestStep DEF Typing
    <3>2. QED
          BY <2>1, <2>2, <3>1 DEF RequestRefers
  <2> HIDE DEF q
  <2>6. QED
        BY <2>1, <2>4, <2>5, TypingOfRequest
<1>2. ASSUME NEW r \in Requests, BeginIssue(r)
      PROVE  Goal
  <2> DEFINE q == [step |-> "issuing", item |-> request[r].item,
                   decision |-> request[r].decision, left |-> request[r].left, seen |-> item]
  <2>1. /\ request[r].item \in Items
        /\ request[r].decision \in 1..MaxDecisions
        /\ request[r].decision \in 1..Len(need[request[r].item])
        /\ request[r].left \in Nat \ {0}
        /\ request' = [request EXCEPT ![r] = q]
        /\ UNCHANGED <<task, item, visit, ticket, need, delivery>>
        BY <1>2, RequestTyped, NeedThere DEF BeginIssue, Typing
  <2>2. q \in RequestStates
        BY <1>0, <2>1 DEF RequestStates
  <2>3. RequestRefers(r)'
    <3>1. request'[r] = q
          BY <2>1, <2>2, RequestStep DEF Typing
    <3>2. QED
          BY <2>1, <3>1 DEF RequestRefers
  <2> HIDE DEF q
  <2>4. QED
        BY <2>1, <2>2, <2>3, TypingOfRequest
<1>3. ASSUME NEW r \in Requests, NEW d \in DOMAIN delivery, NEW n \in Nat, NEW b \in BOOLEAN,
             Ask(r, d, n, b)
      PROVE  Goal
  <2> DEFINE q == [step |-> "asked", delivery |-> d, left |-> n, self |-> b,
                   known |-> item[delivery[d].item]]
  <2>1. /\ request' = [request EXCEPT ![r] = q]
        /\ UNCHANGED <<task, item, visit, ticket, need, delivery>>
        BY <1>3 DEF Ask
  <2>2. d \in 1..MaxDeliveries /\ d <= Len(delivery)
        BY <1>0, PmAssumption
  <2>3. item[delivery[d].item] \in ItemStates
        BY <1>0, NeedThere
  <2>4. q \in RequestStates
        BY <2>2, <2>3 DEF RequestStates
  <2>5. RequestRefers(r)'
    <3>1. request'[r] = q
          BY <2>1, <2>4, RequestStep DEF Typing
    <3>2. QED
          BY <2>1, <2>2, <3>1 DEF RequestRefers
  <2> HIDE DEF q
  <2>6. QED
        BY <2>1, <2>4, <2>5, TypingOfRequest
<1>4. ASSUME NEW r \in Requests, AskLink(r)
      PROVE  Goal
      BY <1>3, <1>4, RequestTyped, NeedThere DEF AskLink, Typing
<1>5. ASSUME NEW r \in Requests, NEW d \in DOMAIN delivery, Relink(r, d)
      PROVE  Goal
      BY <1>3, <1>5 DEF Relink
<1>6. ASSUME NEW r \in Requests, BeginLink(r)
      PROVE  Goal
  <2> DEFINE q == [step |-> "linking", delivery |-> request[r].delivery,
                   left |-> request[r].left, self |-> request[r].self, seen |-> item]
  <2>1. /\ request[r].delivery \in 1..MaxDeliveries
        /\ request[r].delivery <= Len(delivery)
        /\ request[r].left \in Nat
        /\ request[r].self \in BOOLEAN
        /\ request' = [request EXCEPT ![r] = q]
        /\ UNCHANGED <<task, item, visit, ticket, need, delivery>>
        BY <1>0, <1>6, RequestTyped, NeedThere DEF BeginLink, Typing
  <2>2. q \in RequestStates
        BY <1>0, <2>1 DEF RequestStates
  <2>3. RequestRefers(r)'
    <3>1. request'[r] = q
          BY <2>1, <2>2, RequestStep DEF Typing
    <3>2. QED
          BY <2>1, <3>1 DEF RequestRefers
  <2> HIDE DEF q
  <2>4. QED
        BY <2>1, <2>2, <2>3, TypingOfRequest
<1>7. ASSUME NEW r \in Requests, GiveUp(r) \/ Crash(r)
      PROVE  Goal
  <2>1. /\ request' = [request EXCEPT ![r] = Idle]
        /\ UNCHANGED <<task, item, visit, ticket, need, delivery>>
        BY <1>7 DEF GiveUp, Crash
  <2>2. RequestRefers(r)'
        BY <2>1, RequestStep, IdleTyped, IdleRefers DEF Typing
  <2>3. QED
        BY <2>1, <2>2, IdleTyped, TypingOfRequest
<1>8. ASSUME NEW r \in Requests,
             CommitIssue(r) \/ PostDelivery(r) \/ CommitLink(r) \/ FailLink(r)
      PROVE  Goal
      BY <1>8, TypingOfCommitIssue, TypingOfPostDelivery, TypingOfCommitLink, TypingOfFailLink
<1> HIDE DEF Goal
<1>9. Goal
      BY <1>1, <1>2, <1>4, <1>5, <1>6, <1>7, <1>8, Zenon DEF Issuing
<1>10. QED
      BY <1>9 DEF Goal

LEMMA TypingInit == Init => Typing
<1> SUFFICES ASSUME Init
             PROVE  Typing
    OBVIOUS
<1>1. TypeOK
      BY IdleTyped DEF Init, TypeOK, ItemStatuses, ItemStates, Results
<1>2. Bounded /\ Referring
      BY PmAssumption DEF Init, Bounded, Referring, RequestRefers, Idle
<1>3. QED
      BY <1>1, <1>2 DEF Typing

LEMMA TypingStep == Typing /\ [Next]_vars => Typing'
<1>1. ASSUME Typing, Next
      PROVE  Typing'
      BY <1>1, TypingOfTechnician, TypingOfTicketing, TypingOfIssuing DEF Next
<1>2. ASSUME Typing, UNCHANGED vars
      PROVE  Typing'
      BY <1>2 DEF Typing, TypeOK, Bounded, Referring, RequestRefers, vars
<1>3. QED
      BY <1>1, <1>2

LEMMA TypingAlways == Spec => []Typing
BY TypingInit, TypingStep, PTL DEF Spec

\* Every state is of the declared form, however requests interleave with
\* technicians, tickets and the scheduler.
THEOREM TypeCorrect == Spec => []TypeOK
<1>1. Typing => TypeOK
      BY DEF Typing
<1>2. QED
      BY <1>1, TypingAlways, PTL

-----------------------------------------------------------------------------
(* The life of an item.                                                    *)

\* Item i stays what it is or takes one of the steps of its life.
Moves(i) ==
    \/ item'[i] = item[i]
    \/ /\ item[i].status = Missing
       /\ item'[i] = [status |-> "pending", result |-> "none"]
       /\ "lateItems" \in Allowed \/ task = "pending"
    \/ /\ item[i].status = "pending"
       /\ item'[i] = [status |-> "in_progress", result |-> item[i].result]
       /\ visit' # Nobody
    \/ /\ item[i] = [status |-> "ready_to_complete", result |-> "needs_material"]
       /\ item'[i] = [status |-> "in_progress", result |-> "needs_material"]
       /\ visit' # Nobody
    \/ /\ item[i].status \in {"in_progress", "ready_to_complete", "waiting_ticket"}
       /\ item'[i] = [status |-> "completed", result |-> "done"]
    \/ /\ item[i].status = "in_progress"
       /\ item'[i] \in {[status |-> "waiting_material", result |-> "needs_material"],
                        [status |-> "waiting_ticket", result |-> "needs_ticket"]}
    \/ /\ WaitsForMaterial(item[i])
       /\ item'[i] = [status |-> "ready_to_complete", result |-> "needs_material"]

LEMMA JoinedVisit ==
    ASSUME TypeOK, NEW u \in Technicians, JoinVisit(u)
    PROVE  visit' # Nobody
BY PmAssumption DEF JoinVisit, Nobody

\* Where a request that commits finds its item.
LEMMA HeldItem ==
    ASSUME Typing, NEW r \in Requests
    PROVE  /\ request[r].step = "closing" => ticket[request[r].ticket].item \in Items
           /\ request[r].step = "issuing" => request[r].item \in Items
           /\ request[r].step = "linking" => delivery[request[r].delivery].item \in Items
<1>1. request[r].step = "closing" =>
          request[r].ticket \in Tickets /\ ticket[request[r].ticket] # NoTicket
      BY RequestTyped DEF Typing, Referring, RequestRefers
<1>2. request[r].step = "closing" => ticket[request[r].ticket].item \in Items
      BY <1>1, TicketTyped DEF Typing
<1>3. request[r].step = "issuing" => request[r].item \in Items
      BY RequestTyped DEF Typing
<1>4. request[r].step = "linking" => delivery[request[r].delivery].item \in Items
      BY NeedThere
<1>5. QED
      BY <1>2, <1>3, <1>4

LEMMA ItemMoves ==
    ASSUME Typing, [Next]_vars, NEW k \in Items
    PROVE  Moves(k)
<1>0. item \in [Items -> ItemStates] /\ TypeOK
      BY DEF Typing, TypeOK
<1>1. ASSUME NEW u \in Technicians, NEW i \in Items, StartItem(u, i)
      PROVE  Moves(k)
  <2>1. item[i].result \in Results
        BY <1>0 DEF ItemStates
  <2>2. /\ item'[i] = [status |-> "in_progress", result |-> item[i].result]
        /\ \A j \in Items \ {i} : item'[j] = item[j]
        BY <1>1, <2>1, ItemStepTyped DEF StartItem, ItemStatuses
  <2>3. item[i].status = "pending" /\ visit' # Nobody
        BY <1>0, <1>1, JoinedVisit DEF StartItem
  <2>4. QED
        BY <2>2, <2>3 DEF Moves
<1>2. ASSUME NEW u \in Technicians, NEW i \in Items, ResumeItem(u, i)
      PROVE  Moves(k)
  <2>1. /\ item'[i] = [status |-> "in_progress", result |-> "needs_material"]
        /\ \A j \in Items \ {i} : item'[j] = item[j]
        BY <1>2, ItemStepTyped DEF ResumeItem, ItemStatuses, Results
  <2>2. /\ item[i] = [status |-> "ready_to_complete", result |-> "needs_material"]
        /\ visit' # Nobody
        BY <1>0, <1>2, JoinedVisit DEF ResumeItem
  <2>3. QED
        BY <2>1, <2>2 DEF Moves
<1>3. ASSUME NEW i \in Items, SubmitResult(i)
      PROVE  Moves(k)
  <2>1. /\ item'[i] = [status |-> "completed", result |-> "done"]
        /\ \A j \in Items \ {i} : item'[j] = item[j]
        BY <1>3, ItemStepTyped DEF SubmitResult, ItemStatuses, Results
  <2>2. QED
        BY <1>3, <2>1 DEF Moves, SubmitResult
<1>4. ASSUME NEW i \in Items, SubmitDependency(i)
      PROVE  Moves(k)
  <2>1. /\ item'[i] \in {[status |-> "waiting_material", result |-> "needs_material"],
                         [status |-> "waiting_ticket", result |-> "needs_ticket"]}
        /\ \A j \in Items \ {i} : item'[j] = item[j]
        BY <1>4, ItemStepTyped DEF SubmitDependency, ItemStatuses, Results
  <2>2. QED
        BY <1>4, <2>1 DEF Moves, SubmitDependency
<1>5. ASSUME NEW i \in Items, ScheduleItem(i)
      PROVE  Moves(k)
  <2>1. /\ item'[i] = [status |-> "pending", result |-> "none"]
        /\ \A j \in Items \ {i} : item'[j] = item[j]
        BY <1>5, ItemStepTyped DEF ScheduleItem, ItemStatuses, Results
  <2>2. QED
        BY <1>5, <2>1 DEF Moves, ScheduleItem
<1>6. ASSUME NEW r \in Requests, CommitClose(r)
      PROVE  Moves(k)
  <2> DEFINE i == ticket[request[r].ticket].item
  <2>1. i \in Items
        BY <1>6, HeldItem DEF CommitClose
  <2>2. item' = Repaired(item, i) \/ item' = item
        BY <1>6 DEF CommitClose
  <2> HIDE DEF i
  <2>3. \/ item'[k] = item[k]
        \/ WaitsForTicket(item[k]) /\ item'[k] = [status |-> "completed", result |-> "done"]
        BY <1>0, <2>1, <2>2, RepairedTyped
  <2>4. QED
        BY <2>3 DEF Moves, WaitsForTicket
<1>7. ASSUME NEW i \in Items, NEW n, NEW more, item' = Supplied(item, i, n, more)
      PROVE  Moves(k)
  <2>1. \/ item'[k] = item[k]
        \/ /\ WaitsForMaterial(item[k])
           /\ item'[k] = [status |-> "ready_to_complete", result |-> "needs_material"]
        BY <1>0, <1>7, SuppliedTyped
  <2>2. QED
        BY <2>1 DEF Moves
<1>8. ASSUME NEW r \in Requests, CommitIssue(r)
      PROVE  Moves(k)
      BY <1>7, <1>8, HeldItem DEF CommitIssue
<1>9. ASSUME NEW r \in Requests, CommitLink(r)
      PROVE  Moves(k)
      BY <1>7, <1>9, HeldItem DEF CommitLink
<1>10. ASSUME item' = item
       PROVE  Moves(k)
       BY <1>10 DEF Moves
<1>11. QED
       BY <1>1, <1>2, <1>3, <1>4, <1>5, <1>6, <1>8, <1>9, <1>10
       DEF Next, Technician, Ticketing, Issuing, EndVisit, DecideMaterial, CreateTicket,
           BeginClose, CloseByIt, ReopenTicket, TakeCard, BeginIssue, PostDelivery, AskLink,
           Ask, BeginLink, FailLink, GiveUp, Relink, Crash, vars

\* Work that has begun is not unbegun, and what is completed stays completed.
LEMMA Monotone ==
    ASSUME Typing, [Next]_vars, NEW i \in Items
    PROVE  /\ item[i].status \notin Untouched => item'[i].status \notin Untouched
           /\ item[i].status = "completed" => item'[i].status = "completed"
           /\ item'[i].status \in Untouched => item'[i] = item[i] \/ item'[i].result = "none"
<1>1. Moves(i)
      BY ItemMoves
<1>2. QED
      BY <1>1 DEF Moves, Untouched, WaitsForMaterial, Missing

-----------------------------------------------------------------------------
(* Visits.                                                                 *)

LEMMA WorkVisitedStep ==
    ASSUME Typing, WorkHasItsVisit, [Next]_vars
    PROVE  WorkHasItsVisit'
<1> SUFFICES ASSUME NEW i \in Items, item'[i].status = "in_progress"
             PROVE  visit' # Nobody
    BY DEF WorkHasItsVisit
<1>1. item[i].status = "in_progress" \/ visit' # Nobody
  <2>1. Moves(i)
        BY ItemMoves
  <2>2. QED
        BY <2>1 DEF Moves, WaitsForMaterial
<1>2. \/ visit' = visit
      \/ \E u \in Technicians : JoinVisit(u)
      \/ \A j \in Items : item[j].status # "in_progress"
      BY DEF Next, Technician, Ticketing, Issuing, StartItem, ResumeItem, SubmitResult,
             SubmitDependency, EndVisit, DecideMaterial, CreateTicket, BeginClose, CommitClose,
             CloseByIt, ReopenTicket, TakeCard, BeginIssue, CommitIssue, PostDelivery, AskLink,
             Ask, BeginLink, CommitLink, FailLink, GiveUp, Relink, Crash, ScheduleItem, vars
<1>3. QED
      BY <1>1, <1>2, JoinedVisit DEF WorkHasItsVisit, Typing

\* Nobody works on an item without an open visit: visits are joined by whoever
\* starts or resumes an item, nothing else puts an item in progress, and the
\* leader cannot end the visit before.
THEOREM WorkIsVisited == Spec => []WorkHasItsVisit
<1>1. Init => WorkHasItsVisit
      BY DEF Init, WorkHasItsVisit, Missing
<1>2. Typing /\ WorkHasItsVisit /\ [Next]_vars => WorkHasItsVisit'
      BY WorkVisitedStep
<1>3. QED
      BY <1>1, <1>2, TypingAlways, PTL DEF Spec

-----------------------------------------------------------------------------
(* The task and the views it is computed from.                             *)

\* The task's status is computed from items of which one is under way or done,
\* of which the completed ones are completed now, and of which the missing
\* ones are missing still.
Derived ==
    \E items \in [Items -> ItemStates] :
        /\ task' = DeriveTaskStatus(items)
        /\ \E i \in Items : items[i].status \notin Untouched
        /\ \A i \in Items : items[i].status = "completed" => item'[i].status = "completed"
        /\ ViewedMissing =>
               \A i \in Items : items[i].status = Missing => item'[i].status = Missing

LEMMA DerivedFromItems ==
    ASSUME item' \in [Items -> ItemStates], task' = DeriveTaskStatus(item'),
           \E i \in Items : item'[i].status \notin Untouched
    PROVE  Derived
BY DEF Derived

LEMMA DerivedFromView ==
    ASSUME Typing, Viewed, [Next]_vars, NEW r \in Requests, HasView(r), NEW i \in Items,
           NEW items \in [Items -> ItemStates], task' = DeriveTaskStatus(items),
           \A j \in Items \ {i} : items[j] = request[r].seen[j] /\ item'[j] = item[j],
           \/ items[i] = request[r].seen[i] /\ item'[i] = item[i]
           \/ items[i] = item'[i] /\ item'[i].status \notin Untouched
    PROVE  Derived
<1>1. /\ \E k \in Items : request[r].seen[k].status \notin Untouched
      /\ \A k \in Items : request[r].seen[k].status = "completed" =>
                              item[k].status = "completed"
      BY DEF Viewed
<1>2. ViewedMissing => \A k \in Items : request[r].seen[k].status = Missing =>
                                            item[k].status = Missing
      BY DEF ViewedMissing
<1>3. \E k \in Items : items[k].status \notin Untouched
  <2>1. PICK k \in Items : request[r].seen[k].status \notin Untouched
        BY <1>1
  <2>2. CASE items[k] = request[r].seen[k]
        BY <2>1, <2>2
  <2>3. CASE items[k] # request[r].seen[k]
    <3>1. k = i
          BY <2>3
    <3>2. items[i].status \notin Untouched
          BY <2>3, <3>1
    <3>3. QED
          BY <3>2
  <2>4. QED
        BY <2>2, <2>3
<1>4. ASSUME NEW k \in Items, items[k].status = "completed"
      PROVE  item'[k].status = "completed"
      BY <1>1, <1>4
<1>5. ASSUME NEW k \in Items, items[k].status = Missing, ViewedMissing
      PROVE  item'[k].status = Missing
      BY <1>2, <1>5
<1>6. QED
      BY <1>3, <1>4, <1>5 DEF Derived

LEMMA TaskMoves ==
    ASSUME Typing, Viewed, [Next]_vars
    PROVE  \/ task' = task /\ item' = item
           \/ task' = task /\ \E i \in Items : ScheduleItem(i)
           \/ \E u \in Technicians, i \in Items : StartItem(u, i)
           \/ Derived
<1> DEFINE Goal == \/ task' = task /\ item' = item
                   \/ task' = task /\ \E i \in Items : ScheduleItem(i)
                   \/ \E u \in Technicians, i \in Items : StartItem(u, i)
                   \/ Derived
<1>0. TypeOK /\ item \in [Items -> ItemStates]
      BY DEF Typing, TypeOK
<1>1. ASSUME NEW i \in Items, NEW s \in ItemStatuses \ {"pending"}, NEW v \in Results,
             item' = Update(i, s, v), task' = DeriveTaskStatus(item')
      PROVE  Derived
  <2>1. /\ item' \in [Items -> ItemStates]
        /\ item'[i] = [status |-> s, result |-> v]
        BY <1>1, ItemStepTyped
  <2>2. item'[i].status \notin Untouched
        BY <2>1 DEF Untouched, ItemStatuses, Missing
  <2>3. QED
        BY <1>1, <2>1, <2>2, DerivedFromItems
<1>2. ASSUME NEW u \in Technicians, NEW i \in Items, ResumeItem(u, i)
      PROVE  Goal
      BY <1>1, <1>2 DEF ResumeItem, ItemStatuses, Results
<1>3. ASSUME NEW i \in Items, SubmitResult(i)
      PROVE  Goal
      BY <1>1, <1>3 DEF SubmitResult, ItemStatuses, Results
<1>4. ASSUME NEW i \in Items, SubmitDependency(i)
      PROVE  Goal
      BY <1>1, <1>4 DEF SubmitDependency, ItemStatuses, Results
<1>5. ASSUME NEW r \in Requests, CommitClose(r)
      PROVE  Goal
  <2> DEFINE i == ticket[request[r].ticket].item
  <2>1. /\ i \in Items
        /\ HasView(r)
        /\ request[r].seen \in [Items -> ItemStates]
        BY <1>5, HeldItem, RequestTyped DEF CommitClose, HasView, Typing
  <2>2. \/ /\ item' = Repaired(item, i)
           /\ task' = DeriveTaskStatus(Repaired(request[r].seen, i))
        \/ task' = task /\ item' = item
        BY <1>5 DEF CommitClose
  <2> HIDE DEF i
  <2>3. CASE /\ item' = Repaired(item, i)
             /\ task' = DeriveTaskStatus(Repaired(request[r].seen, i))
    <3>1. /\ Repaired(request[r].seen, i) \in [Items -> ItemStates]
          /\ \A j \in Items \ {i} : /\ Repaired(request[r].seen, i)[j] = request[r].seen[j]
                                    /\ item'[j] = item[j]
          BY <1>0, <2>1, <2>3, RepairedTyped
    <3>2. \/ Repaired(request[r].seen, i)[i] = request[r].seen[i] /\ item'[i] = item[i]
          \/ /\ Repaired(request[r].seen, i)[i] = item'[i]
             /\ item'[i] = [status |-> "completed", result |-> "done"]
          BY <1>0, <2>1, <2>3, RepairedTyped
    <3>3. [status |-> "completed", result |-> "done"].status \notin Untouched
          BY DEF Untouched, Missing
    <3>4. Derived
          BY <2>1, <2>3, <3>1, <3>2, <3>3, DerivedFromView
    <3>5. QED
          BY <3>4
  <2>4. QED
        BY <2>2, <2>3
<1>6. ASSUME NEW r \in Requests, HasView(r), NEW i \in Items, NEW n, NEW more,
             item' = Supplied(item, i, n, more),
             task' = DeriveTaskStatus(Supplied(request[r].seen, i, n, more))
      PROVE  Derived
  <2>1. request[r].seen \in [Items -> ItemStates]
        BY <1>0, <1>6, RequestTyped
  <2>2. /\ Supplied(request[r].seen, i, n, more) \in [Items -> ItemStates]
        /\ \A j \in Items \ {i} :
               /\ Supplied(request[r].seen, i, n, more)[j] = request[r].seen[j]
               /\ item'[j] = item[j]
        BY <1>0, <1>6, <2>1, SuppliedTyped
  <2>3. \/ /\ Supplied(request[r].seen, i, n, more)[i] = request[r].seen[i]
           /\ item'[i] = item[i]
        \/ /\ Supplied(request[r].seen, i, n, more)[i] = item'[i]
           /\ item'[i] = [status |-> "ready_to_complete", result |-> "needs_material"]
        BY <1>0, <1>6, <2>1, SuppliedTyped
  <2>4. [status |-> "ready_to_complete", result |-> "needs_material"].status \notin Untouched
        BY DEF Untouched, Missing
  <2>5. QED
        BY <1>6, <2>2, <2>3, <2>4, DerivedFromView
<1>7. ASSUME NEW r \in Requests, CommitIssue(r)
      PROVE  Goal
      BY <1>6, <1>7, HeldItem DEF CommitIssue, HasView
<1>8. ASSUME NEW r \in Requests, CommitLink(r)
      PROVE  Goal
      BY <1>6, <1>8, HeldItem DEF CommitLink, HasView
<1>9. ASSUME NEW i \in Items, ScheduleItem(i)
      PROVE  Goal
      BY <1>9 DEF ScheduleItem
<1>10. ASSUME NEW u \in Technicians, NEW i \in Items, StartItem(u, i)
       PROVE  Goal
       BY <1>10
<1>11. ASSUME task' = task, item' = item
       PROVE  Goal
       BY <1>11
<1> HIDE DEF Goal
<1>12. Goal
       BY <1>2, <1>3, <1>4, <1>5, <1>7, <1>8, <1>9, <1>10, <1>11
       DEF Next, Technician, Ticketing, Issuing, EndVisit, DecideMaterial, CreateTicket,
           BeginClose, CloseByIt, ReopenTicket, TakeCard, BeginIssue, PostDelivery, AskLink,
           Ask, BeginLink, FailLink, GiveUp, Relink, Crash, vars
<1>13. QED
       BY <1>12 DEF Goal

LEMMA BegunStep ==
    ASSUME Typing, Begun, Viewed, [Next]_vars
    PROVE  Begun'
<1>1. ASSUME task' = "pending"
      PROVE  \A i \in Items : item'[i].status \in Untouched
  <2>1. CASE task' = task /\ item' = item
        BY <1>1, <2>1 DEF Begun
  <2>2. CASE task' = task /\ \E i \in Items : ScheduleItem(i)
    <3>1. PICK i \in Items : ScheduleItem(i)
          BY <2>2
    <3>2. /\ item'[i] = [status |-> "pending", result |-> "none"]
          /\ \A j \in Items \ {i} : item'[j] = item[j]
          BY <3>1, ItemStepTyped DEF ScheduleItem, ItemStatuses, Results
    <3>3. QED
          BY <1>1, <2>2, <3>2 DEF Begun, Untouched
  <2>3. CASE \E u \in Technicians, i \in Items : StartItem(u, i)
        BY <1>1, <2>3 DEF StartItem
  <2>4. CASE Derived
    <3>1. PICK items \in [Items -> ItemStates] :
              /\ task' = DeriveTaskStatus(items)
              /\ \E i \in Items : items[i].status \notin Untouched
          BY <2>4 DEF Derived
    <3>2. QED
          BY <1>1, <3>1, DerivedFacts
  <2>5. QED
        BY <2>1, <2>2, <2>3, <2>4, TaskMoves
<1>2. ASSUME NEW i \in Items, item'[i].status \in Untouched
      PROVE  item'[i].result = "none" /\ need'[i] = <<>>
  <2>1. item[i].status \in Untouched
        BY <1>2, Monotone
  <2>2. item[i].result = "none" /\ need[i] = <<>>
        BY <2>1 DEF Begun
  <2>3. item'[i].result = "none"
        BY <1>2, <2>2, Monotone
  <2>4. \/ need' = need
        \/ \E j \in Items, q \in Quantities : DecideMaterial(j, q)
        BY DEF Next, Technician, Ticketing, Issuing, StartItem, ResumeItem, SubmitResult,
               SubmitDependency, EndVisit, CreateTicket, BeginClose, CommitClose,
               CloseByIt, ReopenTicket, TakeCard, BeginIssue, CommitIssue, PostDelivery,
               AskLink, Ask, BeginLink, CommitLink, FailLink, GiveUp, Relink, Crash,
               ScheduleItem, vars
  <2>5. ASSUME NEW j \in Items, NEW q \in Quantities, DecideMaterial(j, q)
        PROVE  need'[i] = need[i]
    <3>1. WaitsForMaterial(item[j])
          BY <2>5 DEF DecideMaterial
    <3>2. j # i
          BY <2>1, <3>1 DEF WaitsForMaterial, Untouched, Missing
    <3>3. need \in [Items -> Seq(Quantities)]
          BY DEF Typing, TypeOK
    <3>4. QED
          BY <2>5, <3>2, <3>3 DEF DecideMaterial
  <2>6. QED
        BY <2>2, <2>3, <2>4, <2>5
<1>3. ASSUME NEW t \in Tickets, ticket'[t] # NoTicket
      PROVE  item'[ticket'[t].item].status \notin Untouched
  <2>0. ticket \in [Tickets -> {NoTicket} \cup [status : {"open", "closed"}, item : Items]]
        BY DEF Typing, TypeOK
  <2>1. \/ ticket[t] # NoTicket /\ ticket'[t].item = ticket[t].item
        \/ \E i \in Items : CreateTicket(i, t) 
    <3>1. ASSUME NEW o \in Tickets, NEW s, ticket[o] # NoTicket,
                 ticket' = [ticket EXCEPT ![o].status = s]
          PROVE  ticket[t] # NoTicket /\ ticket'[t].item = ticket[t].item
      <4>1. ticket'[t] = IF t = o THEN [ticket[t] EXCEPT !.status = s] ELSE ticket[t]
            BY <2>0, <3>1
      <4>2. CASE t = o
        <5>1. ticket[t] \in [status : {"open", "closed"}, item : Items]
              BY <2>0, <3>1, <4>2
        <5>2. QED
              BY <3>1, <4>1, <4>2, <5>1
      <4>3. CASE t # o
            BY <1>3, <4>1, <4>3
      <4>4. QED
            BY <4>2, <4>3
    <3>2. ASSUME NEW r \in Requests, CommitClose(r)
          PROVE  ticket[t] # NoTicket /\ ticket'[t].item = ticket[t].item
      <4>1. request[r].ticket \in Tickets /\ ticket[request[r].ticket] # NoTicket
            BY <3>2, RequestTyped DEF CommitClose, Typing, Referring, RequestRefers
      <4>2. QED
            BY <3>1, <3>2, <4>1 DEF CommitClose
    <3>3. ASSUME NEW o \in Tickets, CloseByIt(o) \/ ReopenTicket(o)
          PROVE  ticket[t] # NoTicket /\ ticket'[t].item = ticket[t].item
          BY <3>1, <3>3 DEF CloseByIt, ReopenTicket, NoTicket
    <3>4. ASSUME NEW i \in Items, NEW o \in Tickets, CreateTicket(i, o)
          PROVE  (ticket[t] # NoTicket /\ ticket'[t].item = ticket[t].item) \/ CreateTicket(i, t)
          BY <1>3, <2>0, <3>4 DEF CreateTicket
    <3>5. CASE ticket' = ticket
          BY <1>3, <3>5
    <3>6. QED
          BY <3>2, <3>3, <3>4, <3>5
          DEF Next, Technician, Ticketing, Issuing, StartItem, ResumeItem, SubmitResult,
              SubmitDependency, EndVisit, DecideMaterial, BeginClose, TakeCard, BeginIssue,
              CommitIssue, PostDelivery, AskLink, Ask, BeginLink, CommitLink, FailLink, GiveUp,
              Relink, Crash, ScheduleItem, vars
  <2>2. CASE ticket[t] # NoTicket /\ ticket'[t].item = ticket[t].item
    <3>1. ticket[t].item \in Items /\ item[ticket[t].item].status \notin Untouched
          BY <2>2, TicketTyped DEF Begun, Typing
    <3>2. QED
          BY <2>2, <3>1, Monotone
  <2>3. CASE \E i \in Items : CreateTicket(i, t)
    <3>1. PICK i \in Items : CreateTicket(i, t)
          BY <2>3
    <3>2. ticket'[t].item = i /\ item' = item
          BY <2>0, <3>1 DEF CreateTicket
    <3>3. item[i].status \notin Untouched
          BY <3>1 DEF CreateTicket, WaitsForTicket, Untouched, Missing
    <3>4. QED
          BY <3>2, <3>3
  <2>4. QED
        BY <2>1, <2>2, <2>3
<1>4. QED
      BY <1>1, <1>2, <1>3 DEF Begun

\* A request that has a view either had it before or has just taken it.
LEMMA ViewMoves ==
    ASSUME Typing, Begun, [Next]_vars, NEW r \in Requests, HasView(r)'
    PROVE  \/ HasView(r) /\ request'[r] = request[r]
           \/ /\ request'[r].seen = item
              /\ item' = item
              /\ \E i \in Items : item[i].status \notin Untouched
<1> DEFINE Goal == \/ HasView(r) /\ request'[r] = request[r]
                   \/ /\ request'[r].seen = item
                      /\ item' = item
                      /\ \E i \in Items : item[i].status \notin Untouched
<1>0. request \in [Requests -> RequestStates]
      BY DEF Typing, TypeOK
<1>a. ASSUME NEW o \in Requests, NEW q, request' = [request EXCEPT ![o] = q],
             q.step \notin {"closing", "issuing", "linking"}
      PROVE  Goal
      BY <1>0, <1>a DEF HasView
<1>b. ASSUME NEW o \in Requests, NEW q, request' = [request EXCEPT ![o] = q],
             q.seen = item, item' = item, NEW i \in Items, item[i].status \notin Untouched
      PROVE  Goal
      BY <1>0, <1>b DEF HasView
<1>1. ASSUME NEW o \in Requests, NEW t \in Tickets, BeginClose(o, t)
      PROVE  Goal
  <2>1. ticket[t] # NoTicket
        BY <1>1 DEF BeginClose, NoTicket
  <2>2. ticket[t].item \in Items /\ item[ticket[t].item].status \notin Untouched
        BY <2>1, TicketTyped DEF Typing, Begun
  <2>3. QED
    <3> DEFINE q == [step |-> "closing", ticket |-> t, seen |-> item,
                     others |-> Active(ticket[t].item) \ {t}]
    <3>1. request' = [request EXCEPT ![o] = q] /\ q.seen = item /\ item' = item
          BY <1>1 DEF BeginClose
    <3> HIDE DEF q
    <3>2. QED
          BY <1>b, <2>2, <3>1
<1>2. ASSUME NEW o \in Requests, BeginIssue(o)
      PROVE  Goal
  <2>1. request[o].item \in Items
        BY <1>2, RequestTyped DEF BeginIssue, Typing
  <2>2. item[request[o].item].status \notin Untouched
        BY <1>2 DEF BeginIssue, WaitsForMaterial, Untouched, Missing
  <2>3. QED
    <3> DEFINE q == [step |-> "issuing", item |-> request[o].item,
                     decision |-> request[o].decision, left |-> request[o].left,
                     seen |-> item]
    <3>1. request' = [request EXCEPT ![o] = q] /\ q.seen = item /\ item' = item
          BY <1>2 DEF BeginIssue
    <3> HIDE DEF q
    <3>2. QED
          BY <1>b, <2>1, <2>2, <3>1
<1>3. ASSUME NEW o \in Requests, BeginLink(o)
      PROVE  Goal
  <2> DEFINE d == delivery[request[o].delivery]
  <2>1. d.item \in Items /\ d.decision \in 1..Len(need[d.item])
        BY <1>3, NeedThere DEF BeginLink
  <2>2. need[d.item] # <<>>
        BY <2>1
  <2>3. item[d.item].status \notin Untouched
        BY <2>1, <2>2 DEF Begun
  <2>4. QED
    <3> DEFINE q == [step |-> "linking", delivery |-> request[o].delivery,
                     left |-> request[o].left, self |-> request[o].self, seen |-> item]
    <3>1. request' = [request EXCEPT ![o] = q] /\ q.seen = item /\ item' = item
          BY <1>3 DEF BeginLink
    <3> HIDE DEF q, d
    <3>2. QED
          BY <1>b, <2>1, <2>3, <3>1
<1>4. ASSUME NEW o \in Requests, NEW i \in Items, NEW s \in {"selecting", "taking"},
             TakeCard(o, i, s)
      PROVE  Goal
      BY <1>4, <1>a DEF TakeCard
<1>5. ASSUME NEW o \in Requests, CommitClose(o) \/ CommitIssue(o) \/ FailLink(o)
                                 \/ GiveUp(o) \/ Crash(o)
      PROVE  Goal
      BY <1>5, <1>a DEF CommitClose, CommitIssue, FailLink, GiveUp, Crash, Idle
<1>6. ASSUME NEW o \in Requests, PostDelivery(o)
      PROVE  Goal
      BY <1>6, <1>a DEF PostDelivery
<1>7. ASSUME NEW o \in Requests, NEW d, NEW n, NEW b, Ask(o, d, n, b)
      PROVE  Goal
      BY <1>7, <1>a DEF Ask
<1>8. ASSUME NEW o \in Requests, AskLink(o) \/ \E d \in DOMAIN delivery : Relink(o, d)
      PROVE  Goal
      BY <1>7, <1>8 DEF AskLink, Relink
<1>9. ASSUME NEW o \in Requests, CommitLink(o)
      PROVE  Goal
  <2> DEFINE d == delivery[request[o].delivery]
             q == IF request[o].left > 0
                  THEN [step |-> "taking", item |-> d.item, decision |-> d.decision,
                        left |-> request[o].left]
                  ELSE Idle
  <2>1. request' = [request EXCEPT ![o] = q]
        BY <1>9 DEF CommitLink
  <2>2. q.step \notin {"closing", "issuing", "linking"}
        BY DEF Idle
  <2> HIDE DEF q
  <2>3. QED
        BY <1>a, <2>1, <2>2
<1>10. ASSUME request' = request
       PROVE  Goal
       BY <1>10 DEF HasView
<1> HIDE DEF Goal
<1>11. Goal
       BY <1>1, <1>2, <1>3, <1>4, <1>5, <1>6, <1>8, <1>9, <1>10
       DEF Next, Technician, Ticketing, Issuing, StartItem, ResumeItem, SubmitResult,
           SubmitDependency, EndVisit, DecideMaterial, CreateTicket, CloseByIt, ReopenTicket,
           ScheduleItem, vars
<1>12. QED
       BY <1>11 DEF Goal

LEMMA ViewedStep ==
    ASSUME Typing, Begun, Viewed, [Next]_vars
    PROVE  Viewed'
<1> SUFFICES ASSUME NEW r \in Requests, HasView(r)'
             PROVE  /\ \E i \in Items : request'[r].seen[i].status \notin Untouched
                                        /\ item'[i].status \notin Untouched
                    /\ \A i \in Items : request'[r].seen[i].status = "completed" =>
                                            item'[i].status = "completed"
    BY DEF Viewed
<1>1. CASE HasView(r) /\ request'[r] = request[r]
  <2>1. /\ \E i \in Items : request[r].seen[i].status \notin Untouched
                            /\ item[i].status \notin Untouched
        /\ \A i \in Items : request[r].seen[i].status = "completed" =>
                                item[i].status = "completed"
        BY <1>1 DEF Viewed
  <2>2. QED
        BY <1>1, <2>1, Monotone
<1>2. CASE /\ request'[r].seen = item
           /\ item' = item
           /\ \E i \in Items : item[i].status \notin Untouched
      BY <1>2
<1>3. QED
      BY <1>1, <1>2, ViewMoves

LEMMA ViewedMissingStep ==
    ASSUME Typing, Begun, Viewed, ViewedMissing, [Next]_vars, "lateItems" \notin Allowed
    PROVE  ViewedMissing'
<1> SUFFICES ASSUME NEW r \in Requests, HasView(r)', NEW i \in Items,
                    request'[r].seen[i].status = Missing
             PROVE  item'[i].status = Missing
    BY DEF ViewedMissing
<1>1. CASE HasView(r) /\ request'[r] = request[r]
  <2>1. item[i].status = Missing
        BY <1>1 DEF ViewedMissing
  <2>2. \E k \in Items : item[k].status \notin Untouched
        BY <1>1 DEF Viewed
  <2>3. task # "pending"
        BY <2>2 DEF Begun
  <2>4. Moves(i)
        BY ItemMoves
  <2>5. QED
        BY <2>1, <2>3, <2>4 DEF Moves, WaitsForMaterial, Missing
<1>2. CASE request'[r].seen = item /\ item' = item
      BY <1>2
<1>3. QED
      BY <1>1, <1>2, ViewMoves

Progress == Begun /\ Viewed

LEMMA ProgressAlways == Spec => []Progress
<1>1. Init => Progress
      BY DEF Init, Progress, Begun, Viewed, HasView, Idle, Untouched
<1>2. Typing /\ Progress /\ [Next]_vars => Progress'
      BY BegunStep, ViewedStep DEF Progress
<1>3. QED
      BY <1>1, <1>2, TypingAlways, PTL DEF Spec

-----------------------------------------------------------------------------
(* Completion.                                                             *)

LEMMA CompletionStep ==
    ASSUME Typing, Progress, ViewedMissing, CompletedTaskMeansCompletedItems,
           [Next]_vars, "lateItems" \notin Allowed
    PROVE  CompletedTaskMeansCompletedItems'
<1> SUFFICES ASSUME task' = "completed"
             PROVE  Statuses(item)' = {"completed"}
    BY DEF CompletedTaskMeansCompletedItems
<1>1. CASE task' = task /\ item' = item
      BY <1>1 DEF CompletedTaskMeansCompletedItems, Statuses
<1>2. CASE task' = task /\ \E i \in Items : ScheduleItem(i)
      BY <1>2 DEF ScheduleItem
<1>3. CASE \E u \in Technicians, i \in Items : StartItem(u, i)
      BY <1>3 DEF StartItem, OpenForStart
<1>4. CASE Derived
  <2>1. PICK items \in [Items -> ItemStates] :
            /\ task' = DeriveTaskStatus(items)
            /\ \A i \in Items : items[i].status = "completed" => item'[i].status = "completed"
            /\ \A i \in Items : items[i].status = Missing => item'[i].status = Missing
        BY <1>4 DEF Derived
  <2>2. /\ \A i \in Items : items[i].status \in {"completed", Missing}
        /\ \E i \in Items : items[i].status = "completed"
        BY <2>1, DerivedFacts
  <2>3. /\ \A i \in Items : item'[i].status \in {"completed", Missing}
        /\ \E i \in Items : item'[i].status = "completed"
        BY <2>1, <2>2
  <2>4. QED
        BY <2>3 DEF Statuses, Missing
<1>5. QED
      BY <1>1, <1>2, <1>3, <1>4, TaskMoves DEF Progress

\* A task is not completed before all of its items are, whatever old items the
\* writer of its status has seen: completed items stay completed, and a view is
\* only taken once no further item can appear.  For that the scheduler must
\* add no items to a task that has begun.
THEOREM CompletionIsEarned ==
    ASSUME "lateItems" \notin Allowed
    PROVE  Spec => []CompletedTaskMeansCompletedItems
<1>1. Init => ViewedMissing /\ CompletedTaskMeansCompletedItems
      BY DEF Init, ViewedMissing, HasView, Idle, CompletedTaskMeansCompletedItems
<1>2. Typing /\ Progress /\ ViewedMissing /\ [Next]_vars => ViewedMissing'
      BY ViewedMissingStep DEF Progress
<1>3. Typing /\ Progress /\ ViewedMissing /\ CompletedTaskMeansCompletedItems /\ [Next]_vars
          => CompletedTaskMeansCompletedItems'
      BY CompletionStep
<1>4. QED
      BY <1>1, <1>2, <1>3, TypingAlways, ProgressAlways, PTL DEF Spec

-----------------------------------------------------------------------------
(* The projection.                                                         *)

LEMMA ProjectionStep ==
    ASSUME Typing, Progress, Next, item' # item
    PROVE  \/ task' = DeriveTaskStatus(item')
           \/ StaleCommit
           \/ /\ task' = task
              /\ \E i \in Items : item[i].status \in {"pending", Missing}
                                  /\ item'[i] # item[i]
<1> DEFINE Untold == /\ task' = task
                     /\ \E i \in Items : item[i].status \in {"pending", Missing}
                                         /\ item'[i] # item[i]
           Goal == task' = DeriveTaskStatus(item') \/ StaleCommit \/ Untold
<1>0. TypeOK /\ item \in [Items -> ItemStates] /\ request \in [Requests -> RequestStates]
      BY DEF Typing, TypeOK
<1>1. ASSUME NEW u \in Technicians, NEW i \in Items, StartItem(u, i)
      PROVE  Goal
  <2>1. item[i].result \in Results /\ item[i].status = "pending"
        BY <1>0, <1>1 DEF ItemStates, StartItem
  <2>2. /\ item' \in [Items -> ItemStates]
        /\ item'[i] = [status |-> "in_progress", result |-> item[i].result]
        /\ \A j \in Items \ {i} : item'[j] = item[j]
        BY <1>1, <2>1, ItemStepTyped DEF StartItem, ItemStatuses
  <2>3. CASE task = "pending"
    <3>1. \A j \in Items : item[j].status \in Untouched
          BY <2>3 DEF Progress, Begun
    <3>2. /\ item'[i].status = "in_progress"
          /\ \A j \in Items : item'[j].status \in Untouched \cup {"in_progress"}
          BY <2>2, <3>1
    <3>3. DeriveTaskStatus(item') = "in_progress"
          BY <2>2, <3>2, DerivedFacts
    <3>4. QED
          BY <1>1, <2>3, <3>3 DEF StartItem
  <2>4. CASE task # "pending"
    <3>1. task' = task
          BY <1>1, <2>4 DEF StartItem
    <3>2. item'[i] # item[i]
          BY <2>1, <2>2
    <3>3. QED
          BY <2>1, <3>1, <3>2
  <2>5. QED
        BY <2>3, <2>4
<1>2. ASSUME NEW i \in Items, ScheduleItem(i)
      PROVE  Goal
  <2>1. /\ item'[i] = [status |-> "pending", result |-> "none"]
        /\ item[i].status = Missing
        /\ task' = task
        BY <1>2, ItemStepTyped DEF ScheduleItem, ItemStatuses, Results
  <2>2. item'[i] # item[i]
        BY <2>1 DEF Missing
  <2>3. QED
        BY <2>1, <2>2
<1>3. ASSUME NEW i \in Items,
             (\E u \in Technicians : ResumeItem(u, i)) \/ SubmitResult(i) \/ SubmitDependency(i)
      PROVE  Goal
      BY <1>3 DEF ResumeItem, SubmitResult, SubmitDependency
<1>a. ASSUME NEW r \in Requests, HasView(r), NEW q, request' = [request EXCEPT ![r] = q],
             q.step \notin {"closing", "issuing", "linking"}, request[r].seen # item
      PROVE  StaleCommit
  <2>1. request'[r] = q
        BY <1>0, <1>a
  <2>2. request'[r] # request[r]
        BY <1>a, <2>1 DEF HasView
  <2>3. QED
        BY <1>a, <2>2 DEF StaleCommit, HasView
<1>4. ASSUME NEW r \in Requests, CommitClose(r)
      PROVE  Goal
  <2>1. CASE request[r].seen = item
        BY <1>4, <2>1 DEF CommitClose
  <2>2. CASE request[r].seen # item
    <3>1. HasView(r) /\ request' = [request EXCEPT ![r] = Idle]
          BY <1>4 DEF CommitClose, HasView
    <3>2. StaleCommit
          BY <1>a, <2>2, <3>1 DEF Idle
    <3>3. QED
          BY <3>2
  <2>3. QED
        BY <2>1, <2>2
<1>5. ASSUME NEW r \in Requests, CommitIssue(r)
      PROVE  Goal
  <2>1. CASE request[r].seen = item
        BY <1>5, <2>1 DEF CommitIssue
  <2>2. CASE request[r].seen # item
    <3>1. HasView(r) /\ request' = [request EXCEPT ![r] = Idle]
          BY <1>5 DEF CommitIssue, HasView
    <3>2. StaleCommit
          BY <1>a, <2>2, <3>1 DEF Idle
    <3>3. QED
          BY <3>2
  <2>3. QED
        BY <2>1, <2>2
<1>6. ASSUME NEW r \in Requests, CommitLink(r)
      PROVE  Goal
  <2>1. CASE request[r].seen = item
        BY <1>6, <2>1 DEF CommitLink
  <2>2. CASE request[r].seen # item
    <3> DEFINE d == delivery[request[r].delivery]
               q == IF request[r].left > 0
                    THEN [step |-> "taking", item |-> d.item, decision |-> d.decision,
                          left |-> request[r].left]
                    ELSE Idle
    <3>1. HasView(r) /\ request' = [request EXCEPT ![r] = q]
          BY <1>6 DEF CommitLink, HasView
    <3>2. q.step \notin {"closing", "issuing", "linking"}
          BY DEF Idle
    <3> HIDE DEF q
    <3>3. StaleCommit
          BY <1>a, <2>2, <3>1, <3>2
    <3>4. QED
          BY <3>3
  <2>3. QED
        BY <2>1, <2>2
<1> HIDE DEF Goal
<1>7. Goal
      BY <1>1, <1>2, <1>3, <1>4, <1>5, <1>6
      DEF Next, Technician, Ticketing, Issuing, EndVisit, DecideMaterial, CreateTicket,
          BeginClose, CloseByIt, ReopenTicket, TakeCard, BeginIssue, PostDelivery, AskLink,
          Ask, BeginLink, FailLink, GiveUp, Relink, Crash
<1>8. QED
      BY <1>7 DEF Goal

\* Whenever an item changes, the status of the task becomes the projection of
\* all items, unless the transaction that writes it saw an older state of them
\* or only begins a pending item of a task under way.
THEOREM ProjectionIsKept == Spec => ProjectionFollowsItems
<1>1. Typing /\ Progress /\ [Next]_vars =>
          [item' # item =>
             \/ task' = DeriveTaskStatus(item')
             \/ StaleCommit
             \/ task' = task
                /\ \E i \in Items : item[i].status \in {"pending", Missing}
                                    /\ item'[i] # item[i]]_vars
      BY ProjectionStep
<1>2. QED
      BY <1>1, TypingAlways, ProgressAlways, PTL DEF Spec, ProjectionFollowsItems

-----------------------------------------------------------------------------
(* What the needs still lack.                                              *)

\* The numbers behind Remaining are integers.
LEMMA RemainingTyped ==
    ASSUME Typing, NEW i \in Items, NEW n \in 1..Len(need[i])
    PROVE  /\ Remaining(i, n) \in Int
           /\ Cardinality(Linked(i, n)) \in Nat
           /\ need[i][n] \in Nat \ {0}
           /\ Remaining(i, n) = need[i][n] - Cardinality(Linked(i, n))
<1>1. need[i] \in Seq(Quantities)
      BY DEF Typing, TypeOK
<1>2. need[i][n] \in Quantities
      BY <1>1
<1>3. Remaining(i, n) \in Int /\ Cardinality(Linked(i, n)) \in Nat
      BY LinkedFinite DEF Typing
<1>4. QED
      BY <1>2, <1>3, PmAssumption DEF Remaining

\* A commit of an issue links what it posts,
LEMMA IssueLinks ==
    ASSUME Typing, NEW r \in Requests, CommitIssue(r), NEW i \in Items,
           NEW n \in 1..Len(need[i])
    PROVE  Remaining(i, n)' =
               IF i = request[r].item /\ n = request[r].decision
               THEN Remaining(i, n) - request[r].left ELSE Remaining(i, n)
<1> DEFINE new == Len(delivery) + 1 .. Len(delivery')
<1>1. /\ delivery' \in Seq(Deliveries)
      /\ Len(delivery') = Len(delivery) + request[r].left
      /\ \A d \in 1..Len(delivery) : delivery'[d] = delivery[d]
      BY Issuance
<1>2. \A d \in new : delivery'[d] = NewDelivery(request[r].item, request[r].decision, TRUE)
      BY Issuance
<1>3. /\ request[r].left \in Nat
      /\ Len(delivery) \in Nat
      /\ DOMAIN delivery = 1..Len(delivery)
      /\ need' = need
      BY RequestTyped, LengthTyped, NeedThere DEF CommitIssue, Typing
<1>4. /\ DOMAIN delivery' = 1..Len(delivery')
      /\ Len(delivery') \in Nat
      BY <1>1
<1>5. /\ DOMAIN delivery' = DOMAIN delivery \cup new
      /\ DOMAIN delivery \cap new = {}
      BY <1>1, <1>3, <1>4
<1>6. \A d \in new : /\ delivery'[d].item = request[r].item
                     /\ delivery'[d].decision = request[r].decision
                     /\ delivery'[d].linked
      BY <1>2 DEF NewDelivery
<1>7. IsFiniteSet(new) /\ Cardinality(new) = request[r].left
  <2>1. Len(delivery) + 1 \in Int /\ Len(delivery') \in Int
        BY <1>3, <1>4
  <2>2. /\ IsFiniteSet(new)
        /\ Cardinality(new) = IF Len(delivery) + 1 > Len(delivery') THEN 0
                              ELSE Len(delivery') - (Len(delivery) + 1) + 1
        BY <2>1, FS_Interval
  <2> HIDE DEF new
  <2>3. Len(delivery') = Len(delivery) + request[r].left
        BY <1>1
  <2>4. QED
        BY <1>3, <2>2, <2>3
<1>8. IsFiniteSet(Linked(i, n)) /\ Linked(i, n) \subseteq DOMAIN delivery
      BY LinkedFinite DEF Typing, Linked, Posted
<1>a. /\ Remaining(i, n) = need[i][n] - Cardinality(Linked(i, n))
      /\ Cardinality(Linked(i, n)) \in Nat
      /\ need[i][n] \in Nat
      /\ request[r].left \in Nat
      BY <1>3, RemainingTyped
<1> HIDE DEF new
<1>9. CASE i = request[r].item /\ n = request[r].decision
  <2>1. Linked(i, n)' = Linked(i, n) \cup new
        BY <1>1, <1>3, <1>5, <1>6, <1>9 DEF Linked, Posted
  <2>2. Linked(i, n) \cap new = {}
        BY <1>5, <1>8
  <2>3. Cardinality(Linked(i, n) \cup new) =
            Cardinality(Linked(i, n)) + Cardinality(new) - Cardinality(Linked(i, n) \cap new)
        BY <1>7, <1>8, FS_Union
  <2>4. Cardinality({}) = 0
        BY FS_EmptySet
  <2>a. Cardinality(Linked(i, n) \cap new) = 0
        BY <2>2, <2>4
  <2>b. Cardinality(Linked(i, n) \cup new) = Cardinality(Linked(i, n)) + request[r].left
        BY <1>7, <1>a, <2>3, <2>a
  <2>5. Cardinality(Linked(i, n)') = Cardinality(Linked(i, n)) + request[r].left
        BY <2>1, <2>b
  <2>6. Remaining(i, n)' = need[i][n] - (Cardinality(Linked(i, n)) + request[r].left)
        BY <1>3, <2>5 DEF Remaining
  <2>7. QED
        BY <1>9, <1>a, <2>6
<1>10. CASE ~(i = request[r].item /\ n = request[r].decision)
  <2>1. Linked(i, n)' = Linked(i, n)
        BY <1>1, <1>3, <1>5, <1>6, <1>10 DEF Linked, Posted
  <2>2. QED
        BY <1>3, <1>10, <2>1 DEF Remaining
<1>11. QED
      BY <1>9, <1>10

\* a commit of a link links one,
LEMMA LinkLinks ==
    ASSUME Typing, NEW r \in Requests, CommitLink(r), ~delivery[request[r].delivery].linked,
           NEW i \in Items, NEW n \in 1..Len(need[i])
    PROVE  Remaining(i, n)' =
               IF /\ i = delivery[request[r].delivery].item
                  /\ n = delivery[request[r].delivery].decision
               THEN Remaining(i, n) - 1 ELSE Remaining(i, n)
<1> DEFINE d == request[r].delivery
<1>1. /\ d \in DOMAIN delivery
      /\ DOMAIN delivery' = DOMAIN delivery
      /\ \A e \in DOMAIN delivery :
             /\ delivery'[e].item = delivery[e].item
             /\ delivery'[e].decision = delivery[e].decision
             /\ delivery'[e].linked = (delivery[e].linked \/ e = d)
      BY Linking
<1>2. need' = need
      BY DEF CommitLink
<1>3. IsFiniteSet(Linked(i, n))
      BY LinkedFinite DEF Typing
<1>4. d \notin Linked(i, n)
      BY DEF Linked
<1> HIDE DEF d
<1>5. CASE i = delivery[d].item /\ n = delivery[d].decision
  <2>1. Linked(i, n)' = Linked(i, n) \cup {d}
        BY <1>1, <1>5 DEF Linked, Posted
  <2>2. Cardinality(Linked(i, n)') = Cardinality(Linked(i, n)) + 1
        BY <1>3, <1>4, <2>1, FS_AddElement
  <2>3. Remaining(i, n)' = need[i][n] - (Cardinality(Linked(i, n)) + 1)
        BY <1>2, <2>2 DEF Remaining
  <2>4. Remaining(i, n)' = Remaining(i, n) - 1
        BY <2>3, RemainingTyped
  <2>5. QED
        BY <1>5, <2>4 DEF d
<1>6. CASE ~(i = delivery[d].item /\ n = delivery[d].decision)
  <2>1. Linked(i, n)' = Linked(i, n)
        BY <1>1, <1>6 DEF Linked, Posted
  <2>2. QED
        BY <1>2, <1>6, <2>1 DEF Remaining, d
<1>7. QED
      BY <1>5, <1>6

\* and nothing else does.
LEMMA OthersLinkNothing ==
    ASSUME Typing, [Next]_vars, \A r \in Requests : ~CommitIssue(r) /\ ~CommitLink(r),
           NEW i \in Items, NEW n \in 1..Len(need[i])
    PROVE  Remaining(i, n)' = Remaining(i, n)
<1> DEFINE Goal == Remaining(i, n)' = Remaining(i, n)
<1>1. ASSUME need' = need, delivery' = delivery
      PROVE  Goal
      BY <1>1 DEF Remaining, Linked, Posted
<1>2. ASSUME NEW j \in Items, NEW q \in Quantities, DecideMaterial(j, q)
      PROVE  Goal
  <2>1. /\ need \in [Items -> Seq(Quantities)]
        /\ need' = [need EXCEPT ![j] = Append(need[j], q)]
        /\ delivery' = delivery
        BY <1>2 DEF DecideMaterial, Typing, TypeOK
  <2>2. need[j] \in Seq(Quantities) /\ need[i] \in Seq(Quantities)
        BY <2>1
  <2>3. need'[i][n] = need[i][n]
        BY <2>1, <2>2
  <2>4. Linked(i, n)' = Linked(i, n)
        BY <2>1 DEF Linked, Posted
  <2>5. QED
        BY <2>3, <2>4 DEF Remaining
<1>3. ASSUME NEW r \in Requests, PostDelivery(r)
      PROVE  Goal
  <2>1. /\ delivery' \in Seq(Deliveries)
        /\ Len(delivery') = Len(delivery) + 1
        /\ \A d \in 1..Len(delivery) : delivery'[d] = delivery[d]
        /\ need' = need
        BY <1>3, Posting DEF PostDelivery
  <2>2. ~delivery'[Len(delivery) + 1].linked
    <3>1. delivery'[Len(delivery) + 1] =
              NewDelivery(request[r].item, request[r].decision, FALSE)
          BY <1>3, Posting
    <3>2. QED
          BY <3>1 DEF NewDelivery
  <2>3. Len(delivery) \in Nat /\ DOMAIN delivery = 1..Len(delivery)
        BY LengthTyped, NeedThere DEF Typing
  <2>4. DOMAIN delivery' = DOMAIN delivery \cup {Len(delivery) + 1}
        BY <2>1, <2>3
  <2>5. Linked(i, n)' = Linked(i, n)
        BY <2>1, <2>2, <2>3, <2>4 DEF Linked, Posted
  <2>6. QED
        BY <2>1, <2>5 DEF Remaining
<1>4. ASSUME NEW r \in Requests, FailLink(r)
      PROVE  Goal
  <2>1. /\ DOMAIN delivery' = DOMAIN delivery
        /\ \A d \in DOMAIN delivery :
               /\ delivery'[d].item = delivery[d].item
               /\ delivery'[d].decision = delivery[d].decision
               /\ delivery'[d].linked = delivery[d].linked
        BY <1>4, Marking
  <2>2. need' = need
        BY <1>4 DEF FailLink
  <2>3. Linked(i, n)' = Linked(i, n)
        BY <2>1 DEF Linked, Posted
  <2>4. QED
        BY <2>2, <2>3 DEF Remaining
<1> HIDE DEF Goal
<1>5. Goal
      BY <1>1, <1>2, <1>3, <1>4
      DEF Next, Technician, Ticketing, Issuing, StartItem, ResumeItem, SubmitResult,
          SubmitDependency, EndVisit, CreateTicket, BeginClose, CommitClose, CloseByIt,
          ReopenTicket, TakeCard, BeginIssue, AskLink, Ask, BeginLink, GiveUp, Relink, Crash,
          ScheduleItem, vars
<1>6. QED
      BY <1>5 DEF Goal

\* What a need lacks is lessened only by whoever holds its item.
LEMMA RemainingMoves ==
    ASSUME Typing, Exact, [Next]_vars, NEW i \in Items, NEW n \in 1..Len(need[i])
    PROVE  \/ Remaining(i, n)' = Remaining(i, n)
           \/ Remaining(i, n)' = 0
              /\ \E r \in Requests : CommitIssue(r) /\ Holds(r, i) /\ Remaining(i, n) > 0
           \/ /\ Remaining(i, n)' = Remaining(i, n) - 1
              /\ Remaining(i, n) > 0
              /\ \E r \in Requests : CommitLink(r) /\ Holds(r, i)
<1>0. Remaining(i, n) \in Int
      BY RemainingTyped
<1>1. ASSUME NEW r \in Requests, CommitIssue(r)
      PROVE  \/ Remaining(i, n)' = Remaining(i, n)
             \/ Remaining(i, n)' = 0 /\ Holds(r, i) /\ Remaining(i, n) > 0
  <2>1. /\ Remaining(request[r].item, request[r].decision) = request[r].left
        /\ request[r].left \in Nat \ {0}
        BY <1>1, HolderKnows, RequestTyped DEF CommitIssue, Typing
  <2>2. CASE i = request[r].item /\ n = request[r].decision
    <3>1. Remaining(i, n)' = Remaining(i, n) - request[r].left
          BY <1>1, <2>2, IssueLinks
    <3>2. Holds(r, i)
          BY <1>1, <2>2 DEF Holds, CommitIssue
    <3>3. QED
          BY <1>0, <2>1, <2>2, <3>1, <3>2
  <2>3. CASE ~(i = request[r].item /\ n = request[r].decision)
        BY <1>1, <2>3, IssueLinks
  <2>4. QED
        BY <2>2, <2>3
<1>2. ASSUME NEW r \in Requests, CommitLink(r)
      PROVE  \/ Remaining(i, n)' = Remaining(i, n)
             \/ Remaining(i, n)' = Remaining(i, n) - 1 /\ Remaining(i, n) > 0 /\ Holds(r, i)
  <2> DEFINE d == delivery[request[r].delivery]
  <2>1. ~d.linked /\ Remaining(d.item, d.decision) > 0
        BY <1>2, HolderKnows DEF CommitLink
  <2>2. CASE i = d.item /\ n = d.decision
    <3>1. Remaining(i, n)' = Remaining(i, n) - 1
          BY <1>2, <2>1, <2>2, LinkLinks
    <3>2. Holds(r, i)
          BY <1>2, <2>2 DEF Holds, CommitLink
    <3>3. QED
          BY <2>1, <2>2, <3>1, <3>2
  <2>3. CASE ~(i = d.item /\ n = d.decision)
        BY <1>2, <2>1, <2>3, LinkLinks
  <2>4. QED
        BY <2>2, <2>3
<1>3. CASE \A r \in Requests : ~CommitIssue(r) /\ ~CommitLink(r)
      BY <1>3, OthersLinkNothing
<1>4. QED
      BY <1>1, <1>2, <1>3

-----------------------------------------------------------------------------
(* Locks.                                                                  *)

\* The item and the decision a delivery was posted for stay the same, and a
\* delivery is linked by nothing but a commit of its link.
LEMMA DeliveryMoves ==
    ASSUME Typing, [Next]_vars, NEW d \in DOMAIN delivery
    PROVE  /\ d \in DOMAIN delivery'
           /\ delivery'[d].item = delivery[d].item
           /\ delivery'[d].decision = delivery[d].decision
           /\ \/ delivery'[d].linked = delivery[d].linked
              \/ \E r \in Requests : CommitLink(r) /\ request[r].delivery = d
<1> DEFINE Goal == /\ d \in DOMAIN delivery'
                   /\ delivery'[d].item = delivery[d].item
                   /\ delivery'[d].decision = delivery[d].decision
                   /\ \/ delivery'[d].linked = delivery[d].linked
                      \/ \E r \in Requests : CommitLink(r) /\ request[r].delivery = d
<1>0. DOMAIN delivery = 1..Len(delivery) /\ Len(delivery) \in Nat
      BY LengthTyped, NeedThere DEF Typing
<1>1. ASSUME NEW r \in Requests, CommitIssue(r)
      PROVE  Goal
  <2>1. /\ delivery' \in Seq(Deliveries)
        /\ Len(delivery') = Len(delivery) + request[r].left
        /\ \A e \in 1..Len(delivery) : delivery'[e] = delivery[e]
        /\ request[r].left \in Nat
        BY <1>1, Issuance, RequestTyped DEF CommitIssue, Typing
  <2>2. DOMAIN delivery' = 1..Len(delivery')
        BY <2>1
  <2>3. d \in DOMAIN delivery'
        BY <1>0, <2>1, <2>2
  <2>4. QED
        BY <1>0, <2>1, <2>3
<1>2. ASSUME NEW r \in Requests, PostDelivery(r)
      PROVE  Goal
  <2>1. /\ delivery' \in Seq(Deliveries)
        /\ Len(delivery') = Len(delivery) + 1
        /\ \A e \in 1..Len(delivery) : delivery'[e] = delivery[e]
        BY <1>2, Posting
  <2>2. DOMAIN delivery' = 1..Len(delivery')
        BY <2>1
  <2>3. d \in DOMAIN delivery'
        BY <1>0, <2>1, <2>2
  <2>4. QED
        BY <1>0, <2>1, <2>3
<1>3. ASSUME NEW r \in Requests, CommitLink(r)
      PROVE  Goal
  <2>1. /\ DOMAIN delivery' = DOMAIN delivery
        /\ delivery'[d].item = delivery[d].item
        /\ delivery'[d].decision = delivery[d].decision
        /\ delivery'[d].linked = (delivery[d].linked \/ d = request[r].delivery)
        BY <1>3, Linking
  <2>2. delivery[d].linked \in BOOLEAN
        BY DeliveryTyped DEF Typing
  <2>3. QED
        BY <1>3, <2>1, <2>2
<1>4. ASSUME NEW r \in Requests, FailLink(r)
      PROVE  Goal
      BY <1>4, Marking
<1>5. ASSUME delivery' = delivery
      PROVE  Goal
      BY <1>5
<1> HIDE DEF Goal
<1>6. Goal
      BY <1>1, <1>2, <1>3, <1>4, <1>5
      DEF Next, Technician, Ticketing, Issuing, StartItem, ResumeItem, SubmitResult,
          SubmitDependency, EndVisit, DecideMaterial, CreateTicket, BeginClose, CommitClose,
          CloseByIt, ReopenTicket, TakeCard, BeginIssue, AskLink, Ask, BeginLink, GiveUp,
          Relink, Crash, ScheduleItem, vars
<1>7. QED
      BY <1>6 DEF Goal

Locking(r) == request[r].step \in {"issuing", "linking"}

\* A request that holds locks either held them before or has just begun, under
\* the guards of its begin.
LEMMA LockMoves ==
    ASSUME Typing, [Next]_vars, NEW r \in Requests, Locking(r)'
    PROVE  \/ Locking(r) /\ request'[r] = request[r] /\ ~CommitIssue(r) /\ ~CommitLink(r)
           \/ BeginIssue(r)
           \/ BeginLink(r)
<1> DEFINE Goal == \/ /\ Locking(r) /\ request'[r] = request[r]
                      /\ ~CommitIssue(r) /\ ~CommitLink(r)
                   \/ BeginIssue(r)
                   \/ BeginLink(r)
<1>0. request \in [Requests -> RequestStates]
      BY DEF Typing, TypeOK
<1>a. ASSUME NEW q, request' = [request EXCEPT ![r] = q], q.step \notin {"issuing", "linking"}
      PROVE  FALSE
      BY <1>0, <1>a DEF Locking
<1>b. ~CommitIssue(r)
      BY <1>a DEF CommitIssue, Idle
<1>c. ~CommitLink(r)
  <2> SUFFICES ASSUME CommitLink(r)
               PROVE  FALSE
      OBVIOUS
  <2> DEFINE d == delivery[request[r].delivery]
             q == IF request[r].left > 0
                  THEN [step |-> "taking", item |-> d.item, decision |-> d.decision,
                        left |-> request[r].left]
                  ELSE Idle
  <2>1. request' = [request EXCEPT ![r] = q]
        BY DEF CommitLink
  <2>2. q.step \notin {"issuing", "linking"}
        BY DEF Idle
  <2> HIDE DEF q
  <2>3. QED
        BY <1>a, <2>1, <2>2
<1>d. ASSUME NEW o \in Requests, NEW q, request' = [request EXCEPT ![o] = q],
             q.step \notin {"issuing", "linking"}
      PROVE  Goal
  <2>1. o # r
        BY <1>a, <1>d
  <2>2. request'[r] = request[r]
        BY <1>0, <1>d, <2>1
  <2>3. QED
        BY <1>b, <1>c, <2>2 DEF Locking
<1>e. ASSUME NEW o \in Requests, o # r, NEW q, request' = [request EXCEPT ![o] = q]
      PROVE  Goal
      BY <1>0, <1>b, <1>c, <1>e DEF Locking
<1>1. ASSUME NEW o \in Requests, NEW t \in Tickets, BeginClose(o, t)
      PROVE  Goal
      BY <1>1, <1>d DEF BeginClose
<1>2. ASSUME NEW o \in Requests, BeginIssue(o)
      PROVE  Goal
      BY <1>2, <1>e DEF BeginIssue
<1>3. ASSUME NEW o \in Requests, BeginLink(o)
      PROVE  Goal
      BY <1>3, <1>e DEF BeginLink
<1>4. ASSUME NEW o \in Requests, NEW i \in Items, NEW s \in {"selecting", "taking"},
             TakeCard(o, i, s)
      PROVE  Goal
      BY <1>4, <1>d DEF TakeCard
<1>5. ASSUME NEW o \in Requests, CommitClose(o) \/ CommitIssue(o) \/ FailLink(o)
                                 \/ GiveUp(o) \/ Crash(o)
      PROVE  Goal
      BY <1>5, <1>d DEF CommitClose, CommitIssue, FailLink, GiveUp, Crash, Idle
<1>6. ASSUME NEW o \in Requests, PostDelivery(o)
      PROVE  Goal
      BY <1>6, <1>d DEF PostDelivery
<1>7. ASSUME NEW o \in Requests, NEW d, NEW n, NEW b, Ask(o, d, n, b)
      PROVE  Goal
      BY <1>7, <1>d DEF Ask
<1>8. ASSUME NEW o \in Requests, AskLink(o) \/ \E d \in DOMAIN delivery : Relink(o, d)
      PROVE  Goal
      BY <1>7, <1>8 DEF AskLink, Relink
<1>9. ASSUME NEW o \in Requests, CommitLink(o)
      PROVE  Goal
      BY <1>9, <1>c, <1>e DEF CommitLink
<1>10. ASSUME request' = request
       PROVE  Goal
       BY <1>10, <1>b, <1>c DEF Locking
<1> HIDE DEF Goal
<1>11. Goal
       BY <1>1, <1>2, <1>3, <1>4, <1>5, <1>6, <1>8, <1>9, <1>10
       DEF Next, Technician, Ticketing, Issuing, StartItem, ResumeItem, SubmitResult,
           SubmitDependency, EndVisit, DecideMaterial, CreateTicket, CloseByIt, ReopenTicket,
           ScheduleItem, vars
<1>12. QED
       BY <1>11 DEF Goal

\* What a begin does to the locks and what it has checked.
LEMMA BeginLocks ==
    ASSUME Typing, NEW r \in Requests, BeginIssue(r) \/ BeginLink(r)
    PROVE  /\ \A o \in Requests \ {r} : request'[o] = request[o]
           /\ UNCHANGED <<need, delivery>>
           /\ \A i \in Items : Holds(r, i)' => ~Held(i)
           /\ request'[r].step = "issuing" =>
                  /\ request'[r].item = request[r].item
                  /\ request'[r].decision = request[r].decision
                  /\ request'[r].left = request[r].left
                  /\ Remaining(request[r].item, request[r].decision) = request[r].left
           /\ request'[r].step = "linking" =>
                  /\ request'[r].delivery = request[r].delivery
                  /\ ~delivery[request[r].delivery].linked
                  /\ Remaining(delivery[request[r].delivery].item,
                               delivery[request[r].delivery].decision) > 0
<1>0. request \in [Requests -> RequestStates]
      BY DEF Typing, TypeOK
<1>1. CASE BeginIssue(r)
  <2> DEFINE q == [step |-> "issuing", item |-> request[r].item,
                   decision |-> request[r].decision, left |-> request[r].left, seen |-> item]
  <2>1. /\ request'[r] = q
        /\ \A o \in Requests \ {r} : request'[o] = request[o]
        BY <1>0, <1>1 DEF BeginIssue
  <2>2. /\ UNCHANGED <<need, delivery>>
        /\ ~Held(request[r].item)
        /\ Remaining(request[r].item, request[r].decision) = request[r].left
        BY <1>1 DEF BeginIssue
  <2>3. QED
        BY <2>1, <2>2 DEF Holds
<1>2. CASE BeginLink(r)
  <2> DEFINE q == [step |-> "linking", delivery |-> request[r].delivery,
                   left |-> request[r].left, self |-> request[r].self, seen |-> item]
  <2>1. /\ request'[r] = q
        /\ \A o \in Requests \ {r} : request'[o] = request[o]
        BY <1>0, <1>2 DEF BeginLink
  <2>2. /\ UNCHANGED <<need, delivery>>
        /\ ~Held(delivery[request[r].delivery].item)
        /\ ~delivery[request[r].delivery].linked
        /\ Remaining(delivery[request[r].delivery].item,
                     delivery[request[r].delivery].decision) > 0
        BY <1>2 DEF BeginLink
  <2>3. QED
        BY <2>1, <2>2 DEF Holds
<1>3. QED
      BY <1>1, <1>2

\* The locks of a request that goes on are the same.
LEMMA HoldsSame ==
    ASSUME Typing, [Next]_vars, NEW r \in Requests, request'[r] = request[r], NEW i \in Items
    PROVE  Holds(r, i)' <=> Holds(r, i)
<1>1. request[r].step = "linking" =>
          /\ request[r].delivery \in DOMAIN delivery
          /\ delivery'[request[r].delivery].item = delivery[request[r].delivery].item
      BY NeedThere, DeliveryMoves
<1>2. QED
      BY <1>1 DEF Holds

LEMMA OneHolderStep ==
    ASSUME Typing, OneHolder, [Next]_vars
    PROVE  OneHolder'
<1> SUFFICES ASSUME NEW r \in Requests, NEW q \in Requests, NEW i \in Items,
                    Holds(r, i)', Holds(q, i)', r # q
             PROVE  FALSE
    BY DEF OneHolder
<1>1. Locking(r)' /\ Locking(q)'
      BY DEF Holds, Locking
<1>2. ASSUME NEW o \in Requests, NEW p \in Requests, o # p, Holds(o, i)', Holds(p, i)',
             BeginIssue(o) \/ BeginLink(o)
      PROVE  FALSE
  <2>1. ~Held(i) /\ request'[p] = request[p]
        BY <1>2, BeginLocks
  <2>2. Holds(p, i)
        BY <1>2, <2>1, HoldsSame
  <2>3. QED
        BY <2>1, <2>2 DEF Holds, Held
<1>3. request'[r] = request[r] /\ request'[q] = request[q]
      BY <1>1, <1>2, LockMoves
<1>4. Holds(r, i) /\ Holds(q, i)
      BY <1>3, HoldsSame
<1>5. QED
      BY <1>4 DEF OneHolder

LEMMA ExactStep ==
    ASSUME Typing, OneHolder, Exact, [Next]_vars
    PROVE  Exact'
<1> SUFFICES ASSUME NEW r \in Requests, Locking(r)',
                    NEW i \in Items, NEW n \in 1..MaxDecisions
             PROVE  /\ request'[r].step = "issuing"
                       /\ i = request'[r].item /\ n = request'[r].decision =>
                           Remaining(i, n)' = request'[r].left
                    /\ request'[r].step = "linking"
                       /\ i = delivery'[request'[r].delivery].item
                       /\ n = delivery'[request'[r].delivery].decision =>
                           /\ ~delivery'[request'[r].delivery].linked
                           /\ Remaining(i, n)' > 0
    BY DEF Exact, Locking
<1>1. CASE Locking(r) /\ request'[r] = request[r] /\ ~CommitIssue(r) /\ ~CommitLink(r)
  <2>a. ASSUME i \in Items, Holds(r, i), n \in 1..Len(need[i])
        PROVE  Remaining(i, n)' = Remaining(i, n)
    <3>1. ASSUME NEW o \in Requests, CommitIssue(o) \/ CommitLink(o), Holds(o, i)
          PROVE  FALSE
          BY <1>1, <2>a, <3>1 DEF OneHolder
    <3>2. QED
          BY <2>a, <3>1, RemainingMoves
  <2>1. ASSUME request[r].step = "issuing", i = request[r].item, n = request[r].decision
        PROVE  Remaining(i, n)' = request[r].left
    <3>1. i \in Items /\ n \in 1..Len(need[i]) /\ Holds(r, i)
          BY <2>1, RequestTyped, NeedThere DEF Typing, Holds
    <3>2. Remaining(i, n) = request[r].left
          BY <2>1 DEF Exact
    <3>3. QED
          BY <2>a, <3>1, <3>2
  <2>2. ASSUME request[r].step = "linking"
        PROVE  ~delivery'[request[r].delivery].linked
    <3> DEFINE d == request[r].delivery
    <3>1. /\ d \in DOMAIN delivery
          /\ delivery[d].item \in Items
          /\ Holds(r, delivery[d].item)
          BY <2>2, NeedThere DEF Holds
    <3>2. ~delivery[d].linked
          BY <2>2, HolderKnows
    <3>3. ASSUME NEW o \in Requests, CommitLink(o), request[o].delivery = d
          PROVE  FALSE
      <4>1. Holds(o, delivery[d].item)
            BY <3>3 DEF Holds, CommitLink
      <4>2. o = r
            BY <3>1, <4>1 DEF OneHolder
      <4>3. QED
            BY <1>1, <3>3, <4>2
    <3>4. QED
          BY <3>1, <3>2, <3>3, DeliveryMoves
  <2>3. ASSUME request[r].step = "linking",
               i = delivery'[request[r].delivery].item,
               n = delivery'[request[r].delivery].decision
        PROVE  Remaining(i, n)' > 0
    <3>1. request[r].delivery \in DOMAIN delivery
          BY <2>3, NeedThere
    <3>2. i = delivery[request[r].delivery].item /\ n = delivery[request[r].delivery].decision
          BY <2>3, <3>1, DeliveryMoves
    <3>3. i \in Items /\ n \in 1..Len(need[i]) /\ Holds(r, i)
          BY <2>3, <3>1, <3>2, NeedThere DEF Holds
    <3>4. Remaining(i, n) > 0
          BY <2>3, <3>2 DEF Exact
    <3>5. QED
          BY <2>a, <3>3, <3>4
  <2>4. QED
        BY <1>1, <2>1, <2>2, <2>3
<1>2. CASE BeginIssue(r) \/ BeginLink(r)
  <2>1. UNCHANGED <<need, delivery>>
        BY <1>2, BeginLocks
  <2>2. Remaining(i, n)' = Remaining(i, n)
        BY <2>1 DEF Remaining, Linked, Posted
  <2>3. QED
        BY <1>2, <2>1, <2>2, BeginLocks
<1>3. QED
      BY <1>1, <1>2, LockMoves

Locks == OneHolder /\ Exact

LEMMA LocksAlways == Spec => []Locks
<1>1. Init => Locks
      BY DEF Init, Locks, OneHolder, Exact, Holds, Idle
<1>2. Typing /\ Locks /\ [Next]_vars => Locks'
      BY OneHolderStep, ExactStep DEF Locks
<1>3. QED
      BY <1>1, <1>2, TypingAlways, PTL DEF Spec

-----------------------------------------------------------------------------
(* Needs and deliveries.                                                   *)

LEMMA LinkedWithinNeedStep ==
    ASSUME Typing, Locks, LinkedWithinNeed, [Next]_vars
    PROVE  LinkedWithinNeed'
<1> SUFFICES ASSUME NEW i \in Items, NEW n \in DOMAIN need'[i]
             PROVE  Remaining(i, n)' >= 0
    BY DEF LinkedWithinNeed
<1>0. need \in [Items -> Seq(Quantities)] /\ need[i] \in Seq(Quantities)
      BY DEF Typing, TypeOK
<1>1. CASE n \in 1..Len(need[i])
  <2>1. Remaining(i, n) >= 0 /\ Remaining(i, n) \in Int
        BY <1>0, <1>1, RemainingTyped DEF LinkedWithinNeed
  <2>2. QED
        BY <1>1, <2>1, RemainingMoves DEF Locks
<1>2. CASE n \notin 1..Len(need[i])
  <2>1. need'[i] # need[i]
        BY <1>0, <1>2
  <2>2. PICK j \in Items, q \in Quantities : DecideMaterial(j, q)
        BY <2>1
        DEF Next, Technician, Ticketing, Issuing, StartItem, ResumeItem, SubmitResult,
            SubmitDependency, EndVisit, CreateTicket, BeginClose, CommitClose,
            CloseByIt, ReopenTicket, TakeCard, BeginIssue, CommitIssue, PostDelivery,
            AskLink, Ask, BeginLink, CommitLink, FailLink, GiveUp, Relink, Crash,
            ScheduleItem, vars
  <2>3. /\ j = i
        /\ need'[i] = Append(need[i], q)
        /\ delivery' = delivery
        BY <1>0, <2>1, <2>2 DEF DecideMaterial
  <2>4. n = Len(need[i]) + 1 /\ need'[i][n] = q /\ Len(need[i]) \in Nat
        BY <1>0, <1>2, <2>3
  <2>5. Linked(i, n)' = {}
    <3>1. \A d \in DOMAIN delivery : delivery[d].item = i => delivery[d].decision # n
          BY <2>4, NeedThere
    <3>2. QED
          BY <2>3, <3>1 DEF Linked, Posted
  <2>6. Cardinality(Linked(i, n)') = 0
        BY <2>5, FS_EmptySet
  <2>7. Remaining(i, n)' = q - 0
        BY <2>4, <2>6 DEF Remaining
  <2>8. QED
        BY <2>7, PmAssumption
<1>3. QED
      BY <1>1, <1>2

\* Deliveries linked to a need never exceed it, however many of them were
\* posted and however many requests try to link them: while one holds the row
\* of the item, the room it has found stays.
THEOREM LinksStayWithinNeed == Spec => []LinkedWithinNeed
<1>1. Init => LinkedWithinNeed
      BY DEF Init, LinkedWithinNeed
<1>2. Typing /\ Locks /\ LinkedWithinNeed /\ [Next]_vars => LinkedWithinNeed'
      BY LinkedWithinNeedStep
<1>3. QED
      BY <1>1, <1>2, TypingAlways, LocksAlways, PTL DEF Spec

\* Item i is worked on, or may be, with the material it needed.
Resumed(i) ==
    \/ item[i].status = "ready_to_complete"
    \/ item[i].status = "in_progress" /\ item[i].result = "needs_material"

\* An item is made ready by the commit that covers its last need.
LEMMA MadeReady ==
    ASSUME Typing, [Next]_vars, NEW i \in Items, WaitsForMaterial(item[i]), Resumed(i)'
    PROVE  /\ UNCHANGED need
           /\ \E r \in Requests :
                  \/ /\ CommitIssue(r) /\ request[r].item = i
                     /\ Covered(i, IF request[r].decision = Len(need[i])
                                   THEN request[r].left ELSE 0)
                  \/ /\ CommitLink(r) /\ delivery[request[r].delivery].item = i
                     /\ Covered(i, IF delivery[request[r].delivery].decision = Len(need[i])
                                   THEN 1 ELSE 0)
<1>0. TypeOK /\ item \in [Items -> ItemStates]
      BY DEF Typing, TypeOK
<1>1. item'[i] # item[i]
      BY DEF WaitsForMaterial, Resumed
<1>2. ASSUME NEW j \in Items, NEW n, NEW more, item' = Supplied(item, j, n, more)
      PROVE  j = i /\ Covered(i, IF n = Len(need[i]) THEN more ELSE 0)
  <2>1. /\ \A k \in Items \ {j} : item'[k] = item[k]
        /\ ~Covered(j, IF n = Len(need[j]) THEN more ELSE 0) => item'[j] = item[j]
        BY <1>0, <1>2, SuppliedTyped
  <2>2. QED
        BY <1>1, <2>1
<1>3. ASSUME NEW r \in Requests, CommitIssue(r)
      PROVE  /\ UNCHANGED need
             /\ request[r].item = i
             /\ Covered(i, IF request[r].decision = Len(need[i]) THEN request[r].left ELSE 0)
      BY <1>2, <1>3, HeldItem DEF CommitIssue
<1>4. ASSUME NEW r \in Requests, CommitLink(r)
      PROVE  /\ UNCHANGED need
             /\ delivery[request[r].delivery].item = i
             /\ Covered(i, IF delivery[request[r].delivery].decision = Len(need[i])
                           THEN 1 ELSE 0)
      BY <1>2, <1>4, HeldItem DEF CommitLink
<1>5. ASSUME NEW j \in Items, NEW s \in ItemStatuses, NEW v \in Results,
             item' = Update(j, s, v), ~WaitsForMaterial(item[j])
      PROVE  FALSE
  <2>1. \A k \in Items \ {j} : item'[k] = item[k]
        BY <1>5, ItemStepTyped
  <2>2. QED
        BY <1>1, <1>5, <2>1
<1>6. ASSUME NEW j \in Items,
             \/ \E u \in Technicians : StartItem(u, j) \/ ResumeItem(u, j)
             \/ SubmitResult(j) \/ SubmitDependency(j) \/ ScheduleItem(j)
      PROVE  FALSE
  <2>1. item[j].result \in Results
        BY <1>0 DEF ItemStates
  <2>2. QED
        BY <1>5, <1>6, <2>1
        DEF StartItem, ResumeItem, SubmitResult, SubmitDependency, ScheduleItem,
            WaitsForMaterial, ItemStatuses, Results, Missing
<1>7. ASSUME NEW r \in Requests, CommitClose(r)
      PROVE  FALSE
  <2> DEFINE j == ticket[request[r].ticket].item
  <2>1. j \in Items
        BY <1>7, HeldItem DEF CommitClose
  <2>2. item' = Repaired(item, j) \/ item' = item
        BY <1>7 DEF CommitClose
  <2> HIDE DEF j
  <2>3. item'[i] = item[i] \/ item'[i] = [status |-> "completed", result |-> "done"]
        BY <1>0, <2>1, <2>2, RepairedTyped
  <2>4. QED
        BY <1>1, <2>3 DEF Resumed
<1>8. ASSUME item' = item
      PROVE  FALSE
      BY <1>1, <1>8
<1>9. QED
      BY <1>3, <1>4, <1>6, <1>7, <1>8
      DEF Next, Technician, Ticketing, Issuing, EndVisit, DecideMaterial, CreateTicket,
          BeginClose, CloseByIt, ReopenTicket, TakeCard, BeginIssue, PostDelivery, AskLink,
          Ask, BeginLink, FailLink, GiveUp, Relink, Crash, vars

LEMMA ReadyStep ==
    ASSUME Typing, Progress, Locks, LinkedWithinNeed, ReadyMeansSupplied, [Next]_vars
    PROVE  ReadyMeansSupplied'
<1> SUFFICES ASSUME NEW i \in Items, Resumed(i)'
             PROVE  need'[i] # <<>> /\ \A n : n = Len(need'[i]) => Remaining(i, n)' = 0
    BY DEF ReadyMeansSupplied, Resumed, Remaining, Linked, Posted
<1>0. need[i] \in Seq(Quantities)
      BY DEF Typing, TypeOK
<1> DEFINE n == Len(need[i])
<1>1. CASE Resumed(i)
  <2>1. need[i] # <<>> /\ Remaining(i, n) = 0
        BY <1>1 DEF Resumed, ReadyMeansSupplied
  <2>2. n \in 1..Len(need[i])
        BY <1>0, <2>1
  <2>3. need'[i] = need[i]
    <3>1. ~WaitsForMaterial(item[i])
          BY <1>1 DEF Resumed, WaitsForMaterial
    <3>2. \/ need' = need
          \/ \E j \in Items, q \in Quantities : DecideMaterial(j, q)
          BY DEF Next, Technician, Ticketing, Issuing, StartItem, ResumeItem, SubmitResult,
                 SubmitDependency, EndVisit, CreateTicket, BeginClose, CommitClose,
                 CloseByIt, ReopenTicket, TakeCard, BeginIssue, CommitIssue, PostDelivery,
                 AskLink, Ask, BeginLink, CommitLink, FailLink, GiveUp, Relink, Crash,
                 ScheduleItem, vars
    <3>3. need \in [Items -> Seq(Quantities)]
          BY DEF Typing, TypeOK
    <3>4. QED
          BY <3>1, <3>2, <3>3 DEF DecideMaterial
  <2>4. ASSUME NEW m, m = n
        PROVE  Remaining(i, m)' = 0
    <3>1. m \in 1..Len(need[i]) /\ Remaining(i, m) = 0
          BY <2>1, <2>2, <2>4
    <3>2. QED
          BY <3>1, RemainingMoves DEF Locks
  <2>5. QED
        BY <2>1, <2>3, <2>4
<1>2. CASE ~Resumed(i)
  <2>1. WaitsForMaterial(item[i])
    <3>1. Moves(i)
          BY ItemMoves
    <3>2. item[i].status = "pending" => item[i].result = "none"
          BY DEF Progress, Begun, Untouched
    <3>3. QED
          BY <1>2, <3>1, <3>2 DEF Moves, Resumed
  <2>2. need' = need
        BY <2>1, MadeReady
  <2>3. PICK r \in Requests :
            \/ /\ CommitIssue(r) /\ request[r].item = i
               /\ Covered(i, IF request[r].decision = n THEN request[r].left ELSE 0)
            \/ /\ CommitLink(r) /\ delivery[request[r].delivery].item = i
               /\ Covered(i, IF delivery[request[r].delivery].decision = n THEN 1 ELSE 0)
        BY <2>1, MadeReady
  <2>4. need[i] # <<>>
        BY <2>3 DEF Covered
  <2>5. n \in 1..Len(need[i]) /\ n \in DOMAIN need[i]
        BY <1>0, <2>4
  <2>6. ASSUME NEW m, m = n
        PROVE  Remaining(i, m)' = 0
    <3>1. m \in 1..Len(need[i]) /\ Remaining(i, m) \in Int /\ Remaining(i, m) >= 0
          BY <2>5, <2>6, RemainingTyped DEF LinkedWithinNeed
    <3>2. CASE /\ CommitIssue(r) /\ request[r].item = i
               /\ Covered(i, IF request[r].decision = n THEN request[r].left ELSE 0)
      <4>1. Remaining(i, request[r].decision) = request[r].left
            BY <3>2, HolderKnows DEF Locks, CommitIssue
      <4>2. CASE request[r].decision = m
        <5>1. Remaining(i, m)' = Remaining(i, m) - request[r].left
              BY <3>1, <3>2, <4>2, IssueLinks
        <5>2. QED
              BY <3>1, <4>1, <4>2, <5>1
      <4>3. CASE request[r].decision # m
        <5>1. Remaining(i, m)' = Remaining(i, m)
              BY <3>1, <3>2, <4>3, IssueLinks
        <5>2. Remaining(i, m) <= 0
              BY <2>6, <3>2, <4>3 DEF Covered
        <5>3. QED
              BY <3>1, <5>1, <5>2
      <4>4. QED
            BY <4>2, <4>3
    <3>3. CASE /\ CommitLink(r) /\ delivery[request[r].delivery].item = i
               /\ Covered(i, IF delivery[request[r].delivery].decision = n THEN 1 ELSE 0)
      <4>1. /\ ~delivery[request[r].delivery].linked
            /\ Remaining(i, delivery[request[r].delivery].decision) > 0
            BY <3>3, HolderKnows DEF Locks, CommitLink
      <4>2. CASE delivery[request[r].delivery].decision = m
        <5>1. Remaining(i, m)' = Remaining(i, m) - 1
              BY <3>1, <3>3, <4>1, <4>2, LinkLinks
        <5>2. Remaining(i, m) <= 1
              BY <2>6, <3>3, <4>2 DEF Covered
        <5>3. QED
              BY <3>1, <4>1, <4>2, <5>1, <5>2
      <4>3. CASE delivery[request[r].delivery].decision # m
        <5>1. Remaining(i, m)' = Remaining(i, m)
              BY <3>1, <3>3, <4>1, <4>3, LinkLinks
        <5>2. Remaining(i, m) <= 0
              BY <2>6, <3>3, <4>3 DEF Covered
        <5>3. QED
              BY <3>1, <5>1, <5>2
      <4>4. QED
            BY <4>2, <4>3
    <3>4. QED
          BY <2>3, <3>2, <3>3
  <2>7. QED
        BY <2>2, <2>4, <2>6
<1>3. QED
      BY <1>1, <1>2

\* Work that waited for material goes on only when all of its last need was
\* linked: the commit that makes it ready counts under the lock of the item,
\* and nothing is needed or linked afterwards.
THEOREM ReadyIsSupplied == Spec => []ReadyMeansSupplied
<1>1. Init => ReadyMeansSupplied
      BY DEF Init, ReadyMeansSupplied, Missing
<1>2. Typing /\ Progress /\ Locks /\ LinkedWithinNeed /\ ReadyMeansSupplied /\ [Next]_vars
          => ReadyMeansSupplied'
      BY ReadyStep
<1>3. QED
      BY <1>1, <1>2, TypingAlways, ProgressAlways, LocksAlways, LinksStayWithinNeed, PTL DEF Spec
=============================================================================
