-------------------------- MODULE TicketPlanProofs --------------------------
(***************************************************************************)
(* The promises of TicketPlan, for any departments, tasks, requests, kinds *)
(* and any number of sub-tickets.                                          *)
(*                                                                         *)
(* A request commits long after it has read, so the types rest on what it  *)
(* refers to being there still: nothing that was planned ever vanishes     *)
(* (Placed, Referring).  That staff and sub-tickets fit the department of  *)
(* their task, in turn, is what the second checks under the locks are for; *)
(* it needs them to see current rows (ReadLate), and it needs the numbers  *)
(* of sub-tickets to be new (Counted), since a task that kept the number   *)
(* of a deleted one would otherwise take over another task's sub-ticket.   *)
(***************************************************************************)
EXTENDS TicketPlan, TLAPS

\* The department of a task is in the plan.
Placed == \A x \in Tasks : Planned(x) => Present(task[x].dept)

\* What request r is about is there.
RefersToRows(r) ==
    /\ request[r].step \in {"creating", "transferring"} => Present(request[r].dept)
    /\ request[r].step \in {"assigning", "promoting"} => Planned(request[r].task)
    /\ request[r].step = "deleting" => child[request[r].child] # Absent
    /\ request[r].step \in {"transferring", "finishing", "completing"} /\ request[r].seen # Late =>
           /\ \A x \in Tasks : request[r].seen.task[x] # Absent => Planned(x)
           /\ \A d \in Departments : request[r].seen.dept[d] # Absent => Present(d)
Referring == \A r \in Requests : RefersToRows(r)

\* All transactions read current rows under their locks.
ReadLate ==
    \A r \in Requests :
        request[r].step \in {"creating", "transferring", "assigning", "promoting"} =>
            request[r].seen = Late

\* Numbers above the counter of the main ticket are free.
Counted == \A n \in Numbers : child[n] # Absent => n <= ticket.counter

\* A promoted task has a sub-ticket, and is that of the sub-ticket, which is
\* alive.
TaskLinked(x) ==
    Planned(x) =>
        /\ task[x].status = "promoted" => task[x].child # None
        /\ task[x].child # None => /\ task[x].status \in {"promoted", "completed"}
                                   /\ child[task[x].child].status \in {"open", "closed"}
                                   /\ child[task[x].child].source = x
TasksLinked == \A x \in Tasks : TaskLinked(x)

\* A sub-ticket belongs to its task or is being deleted,
Deleting(n) == \E r \in Requests : request[r].step = "deleting" /\ request[r].child = n
ChildrenLinked ==
    \A n \in Alive :
        \/ Planned(child[n].source) /\ task[child[n].source].child = n
        \/ Deleting(n)

\* and what is being deleted has left its task.
Unlinked ==
    \A r \in Requests : request[r].step = "deleting" =>
        \A x \in Tasks : Planned(x) => task[x].child # request[r].child

-----------------------------------------------------------------------------
(* Types.                                                                  *)

LEMMA RowsDiffer ==
    /\ Absent \notin DepartmentRows
    /\ Absent \notin TaskRows
    /\ Absent \notin SubTickets
    /\ Late \notin Plans
<1>1. \A row \in DepartmentRows : row.status # "absent"
  BY DEF DepartmentRows
<1>2. \A row \in TaskRows : row.status # "absent"
  BY DEF TaskRows
<1>3. \A row \in SubTickets : row.status # "absent"
  BY DEF SubTickets
<1>4. Absent.status = "absent"
  BY DEF Absent
<1>5. \A plan \in Plans : "ticket" \in DOMAIN plan
  BY DEF Plans
<1>6. "ticket" \notin DOMAIN Late
  BY DEF Late
<1> QED
  BY <1>1, <1>2, <1>3, <1>4, <1>5, <1>6

\* What a request is, by the step it is at.
LEMMA RequestTyped ==
    ASSUME TypeOK, NEW r \in Requests
    PROVE  /\ request[r].step \in {"creating", "transferring"} =>
                  /\ request[r].dept \in Departments
                  /\ request[r].kind \in Kinds
                  /\ request[r].seen \in Plans \cup {Late}
           /\ request[r].step \in {"assigning", "promoting"} =>
                  /\ request[r].task \in Tasks
                  /\ request[r].kind \in Kinds
                  /\ request[r].seen \in Plans \cup {Late}
           /\ request[r].step = "deleting" => request[r].child \in Numbers
           /\ request[r].step = "finishing" => request[r].seen \in Plans \cup {Late}
           /\ request[r].step = "completing" => request[r].seen \in Plans
  BY DEF TypeOK, RequestStates, Idle

\* What a request sees is a plan.
LEMMA PlanTyped ==
    ASSUME TypeOK, NEW r \in Requests, request[r].seen \in Plans \cup {Late}
    PROVE  /\ Now \in Plans
           /\ Seen(request[r]) \in Plans
<1>1. Now \in Plans
  BY DEF TypeOK, Now, Plans
<1> QED
  BY <1>1 DEF Seen

LEMMA ViewsTyped == TypeOK => ViewsTaken \subseteq Plans \cup {Late}
  BY DEF TypeOK, ViewsTaken, Now, Plans

\* What closing completes is there.
LEMMA ClosingSees ==
    ASSUME TypeOK, Referring, NEW r \in Requests, request[r].step = "completing"
    PROVE  /\ \A x \in Tasks : request[r].seen.task[x].status = "promoted" => Planned(x)
           /\ \A d \in Departments : request[r].seen.dept[d] # Absent => Present(d)
<1>1. request[r].seen # Late
  BY RequestTyped, RowsDiffer
<1>2. Absent.status # "promoted"
  BY DEF Absent
<1> QED
  BY <1>1, <1>2 DEF Referring, RefersToRows

\* Tasks that are given back stay tasks.
LEMMA UnstaffedTyped ==
    ASSUME TypeOK, NEW xs, \A x \in Tasks : x \in xs => Planned(x)
    PROVE  Unstaffed(xs) \in [Tasks -> TaskRows \cup {Absent}]
<1>1. ASSUME NEW x \in Tasks, x \in xs
      PROVE  [task[x] EXCEPT !.staff = "nobody", !.status = "pending_assignment"] \in TaskRows
  BY <1>1 DEF TypeOK, Planned, TaskRows
<1> QED
  BY <1>1 DEF TypeOK, Unstaffed

LEMMA NoneNoNumber == None \notin Numbers /\ Numbers \subseteq 0..MaxChildren
  BY PlanAssumption DEF None, Numbers


LEMMA RememberedTyped ==
    ASSUME TypeOK, NEW r \in Requests, NEW what \in RequestStates,
           request' = [request EXCEPT ![r] = what]
    PROVE  request' \in [Requests -> RequestStates]
  BY DEF TypeOK

LEMMA DoneTyped ==
    ASSUME TypeOK, NEW r \in Requests, Done(r)
    PROVE  request' \in [Requests -> RequestStates]
  BY DEF TypeOK, Done, RequestStates

\* A new sub-ticket.
LEMMA SubTicketTyped ==
    ASSUME TypeOK, NEW x \in Tasks, Planned(x), NEW kind \in Kinds, NEW n, SubTicket(x, kind, n)
    PROVE  /\ ticket' \in TicketRows
           /\ child' \in [Numbers -> SubTickets \cup {Absent}]
           /\ task' \in [Tasks -> TaskRows \cup {Absent}]
<1>1. n \in Numbers /\ n \in 0..MaxChildren
  BY NoneNoNumber DEF SubTicket
<1>2. ticket' \in TicketRows
  BY <1>1 DEF SubTicket, TypeOK, TicketRows
<1>3. [status |-> "open", kind |-> kind, source |-> x] \in SubTickets
  BY DEF SubTickets
<1>4. child' \in [Numbers -> SubTickets \cup {Absent}]
  BY <1>1, <1>3 DEF SubTicket, TypeOK
<1>5. task[x] \in TaskRows
  BY DEF Planned, TypeOK
<1>6. task' = [task EXCEPT ![x] = [[task[x] EXCEPT !.status = "promoted"] EXCEPT !.child = n]]
  BY DEF SubTicket, TypeOK
<1>7. [[task[x] EXCEPT !.status = "promoted"] EXCEPT !.child = n] \in TaskRows
  BY <1>1, <1>5 DEF TaskRows
<1>8. task' \in [Tasks -> TaskRows \cup {Absent}]
  BY <1>6, <1>7 DEF TypeOK
<1> QED
  BY <1>2, <1>4, <1>8

\* A department that is there gets another field.
LEMMA DepartmentTyped ==
    ASSUME TypeOK, NEW d \in Departments, Present(d)
    PROVE  /\ dept[d] \in DepartmentRows
           /\ [dept EXCEPT ![d].status = "active"] \in [Departments -> DepartmentRows \cup {Absent}]
           /\ \A claimed \in BOOLEAN :
                  [dept EXCEPT ![d].claimed = claimed] \in [Departments -> DepartmentRows \cup {Absent}]
<1>1. dept[d] \in DepartmentRows
  BY DEF Present, TypeOK
<1>2. [dept[d] EXCEPT !.status = "active"] \in DepartmentRows
  BY <1>1 DEF DepartmentRows
<1>3. \A claimed \in BOOLEAN : [dept[d] EXCEPT !.claimed = claimed] \in DepartmentRows
  BY <1>1 DEF DepartmentRows
<1> QED
  BY <1>1, <1>2, <1>3 DEF TypeOK

LEMMA NewDepartmentTyped ==
    ASSUME NEW kind \in Kinds
    PROVE  [kind |-> kind, claimed |-> FALSE, status |-> "planning"] \in DepartmentRows
  BY DEF DepartmentRows

\* Every step keeps the types.
LEMMA TypeStep == TypeOK /\ Placed /\ Referring /\ [Next]_vars => TypeOK'
<1> SUFFICES ASSUME TypeOK, Placed, Referring, [Next]_vars PROVE TypeOK'
  OBVIOUS
<1>1. CASE SubmitForTriage
  <2>1. ticket' \in TicketRows
    BY <1>1 DEF SubmitForTriage, TypeOK, TicketRows, TicketStatuses
  <2> QED
    BY <1>1, <2>1 DEF SubmitForTriage, TypeOK
<1>2. ASSUME NEW n \in Numbers, ResubmitChild(n) \/ CloseChild(n)
      PROVE  TypeOK'
  <2>1. child[n] \in SubTickets
    BY <1>2 DEF ResubmitChild, CloseChild, TypeOK, Absent
  <2>2. /\ [child[n] EXCEPT !.status = "open"] \in SubTickets
        /\ [child[n] EXCEPT !.status = "closed"] \in SubTickets
    BY <2>1 DEF SubTickets
  <2>3. child' \in [Numbers -> SubTickets \cup {Absent}]
    BY <1>2, <2>2 DEF ResubmitChild, CloseChild, TypeOK
  <2> QED
    BY <1>2, <2>3 DEF ResubmitChild, CloseChild, TypeOK
<1>3. ASSUME NEW kinds \in SUBSET Kinds, NEW first \in kinds, TriageMulti(kinds, first)
      PROVE  TypeOK'
  <2>1. ticket' \in TicketRows
    BY <1>3 DEF TriageMulti, TypeOK, TicketRows, TicketStatuses
  <2>2. PICK named \in [Departments -> kinds \cup {"none"}] :
            dept' = [d \in Departments |->
                IF named[d] = "none" THEN Absent
                ELSE [kind |-> named[d], claimed |-> FALSE, status |-> "planning"]]
    BY <1>3 DEF TriageMulti
  <2>3. \A d \in Departments : named[d] # "none" => named[d] \in Kinds
    BY <2>2
  <2>4. dept' \in [Departments -> DepartmentRows \cup {Absent}]
    BY <2>2, <2>3, NewDepartmentTyped
  <2> QED
    BY <1>3, <2>1, <2>4 DEF TriageMulti, TypeOK
<1>4. CASE RouteToIt
  <2>1. "it" \in Kinds
    BY PlanAssumption
  <2>2. ticket' \in TicketRows
    BY <1>4, <2>1 DEF RouteToIt, TypeOK, TicketRows, TicketStatuses
  <2>3. dept' \in [Departments -> DepartmentRows \cup {Absent}]
    BY <1>4, <2>1, NewDepartmentTyped DEF RouteToIt, TypeOK
  <2>4. task' \in [Tasks -> TaskRows \cup {Absent}]
    BY <1>4, UnstaffedTyped DEF RouteToIt
  <2> QED
    BY <1>4, <2>2, <2>3, <2>4 DEF RouteToIt, TypeOK
<1>5. ASSUME NEW d \in Departments, NEW claimed \in BOOLEAN,
             ClaimItTicket(d) \/ HandoverItTicket(d, claimed)
      PROVE  TypeOK'
  <2>1. Present(d) /\ dept[d] \in DepartmentRows
    BY <1>5, DepartmentTyped DEF ClaimItTicket, HandoverItTicket, KindKept, Now, Present
  <2>2. /\ [[dept[d] EXCEPT !.claimed = TRUE] EXCEPT !.status = "active"] \in DepartmentRows
        /\ [dept[d] EXCEPT !.claimed = claimed] \in DepartmentRows
    BY <2>1 DEF DepartmentRows
  <2>3. \/ dept' = [dept EXCEPT ![d] = [[dept[d] EXCEPT !.claimed = TRUE] EXCEPT !.status = "active"]]
        \/ dept' = [dept EXCEPT ![d] = [dept[d] EXCEPT !.claimed = claimed]]
    BY <1>5 DEF ClaimItTicket, HandoverItTicket, TypeOK
  <2>4. dept' \in [Departments -> DepartmentRows \cup {Absent}]
    BY <2>2, <2>3 DEF TypeOK
  <2> QED
    BY <1>5, <2>4 DEF ClaimItTicket, HandoverItTicket, TypeOK
<1>6. ASSUME NEW r \in Requests, NEW d \in Departments, NEW kind \in Kinds,
             BeginTransfer(r, d, kind)
      PROVE  TypeOK'
  <2>1. PICK v \in ViewsTaken :
            Remember(r, [step |-> "transferring", dept |-> d, kind |-> kind, seen |-> v])
    BY <1>6 DEF BeginTransfer
  <2>2. [step |-> "transferring", dept |-> d, kind |-> kind, seen |-> v] \in RequestStates
    BY ViewsTyped DEF RequestStates
  <2> QED
    BY <2>1, <2>2, RememberedTyped DEF Remember, TypeOK
<1>7. ASSUME NEW r \in Requests, CommitTransfer(r)
      PROVE  TypeOK'
  <2>1. request[r].dept \in Departments /\ request[r].kind \in Kinds
    BY <1>7, RequestTyped DEF CommitTransfer
  <2>2. \A x \in Tasks : x \in TasksOf(Seen(request[r]), request[r].dept) => Planned(x)
    BY <1>7 DEF CommitTransfer, TasksOf, Seen, Now, Referring, RefersToRows, Planned
  <2>3. task' \in [Tasks -> TaskRows \cup {Absent}]
    BY <1>7, <2>2, UnstaffedTyped DEF CommitTransfer
  <2>4. dept' \in [Departments -> DepartmentRows \cup {Absent}]
    BY <1>7, <2>1, NewDepartmentTyped DEF CommitTransfer, TypeOK
  <2>5. ticket' \in TicketRows
    BY <1>7, <2>1 DEF CommitTransfer, TypeOK, TicketRows, TicketStatuses
  <2> QED
    BY <1>7, <2>3, <2>4, <2>5, DoneTyped DEF CommitTransfer, TypeOK
<1>8. ASSUME NEW r \in Requests, NEW d \in Departments, BeginCreate(r, d)
      PROVE  TypeOK'
  <2>1. PICK v \in ViewsTaken :
            Remember(r, [step |-> "creating", dept |-> d, kind |-> dept[d].kind, seen |-> v])
    BY <1>8 DEF BeginCreate
  <2>2. dept[d].kind \in Kinds
    BY <1>8, DepartmentTyped DEF BeginCreate, DepartmentRows
  <2>3. [step |-> "creating", dept |-> d, kind |-> dept[d].kind, seen |-> v] \in RequestStates
    BY <2>2, ViewsTyped DEF RequestStates
  <2> QED
    BY <2>1, <2>3, RememberedTyped DEF Remember, TypeOK
<1>9. ASSUME NEW r \in Requests, NEW x \in Tasks, CommitCreate(r, x)
      PROVE  TypeOK'
  <2> DEFINE d == request[r].dept
             it == request[r].kind = "it"
  <2>1. d \in Departments /\ Present(d)
    BY <1>9, RequestTyped DEF CommitCreate, Referring, RefersToRows
  <2>2. NewTask(d, it) \in TaskRows
    BY <2>1 DEF NewTask, TaskRows
  <2>3. task' = [task EXCEPT ![x] = NewTask(d, it)]
    BY <1>9 DEF CommitCreate
  <2>4. task' \in [Tasks -> TaskRows \cup {Absent}]
    BY <2>2, <2>3 DEF TypeOK
  <2>5. dept' \in [Departments -> DepartmentRows \cup {Absent}]
    BY <1>9, <2>1, DepartmentTyped DEF CommitCreate, TypeOK
  <2> QED
    BY <1>9, <2>4, <2>5, DoneTyped DEF CommitCreate, TypeOK
<1>10. ASSUME NEW r \in Requests, NEW x \in Tasks, BeginAssign(r, x) \/ BeginPromote(r, x)
       PROVE  TypeOK'
  <2>1. PICK v \in ViewsTaken, step \in {"assigning", "promoting"} :
            Remember(r, [step |-> step, task |-> x, kind |-> dept[task[x].dept].kind, seen |-> v])
    BY <1>10 DEF BeginAssign, BeginPromote
  <2>2. task[x] \in TaskRows /\ Present(task[x].dept)
    BY <1>10 DEF BeginAssign, BeginPromote, Planned, TypeOK, Placed
  <2>3. dept[task[x].dept].kind \in Kinds
    BY <2>2, DepartmentTyped DEF TaskRows, DepartmentRows
  <2>4. [step |-> step, task |-> x, kind |-> dept[task[x].dept].kind, seen |-> v] \in RequestStates
    BY <2>3, ViewsTyped DEF RequestStates
  <2> QED
    BY <2>1, <2>4, RememberedTyped DEF Remember, TypeOK
<1>11. ASSUME NEW r \in Requests, CommitAssign(r)
       PROVE  TypeOK'
  <2> DEFINE x == request[r].task
             kind == request[r].kind
  <2>1. x \in Tasks /\ Planned(x)
    BY <1>11, RequestTyped DEF CommitAssign, Referring, RefersToRows
  <2>2. task[x] \in TaskRows /\ Present(task[x].dept)
    BY <2>1 DEF Planned, TypeOK, Placed
  <2>3. [[task[x] EXCEPT !.staff = Staff(kind)] EXCEPT !.status = "assigned"] \in TaskRows
    BY <2>2 DEF TaskRows, Staff
  <2>4. task' = [task EXCEPT ![x] = [[task[x] EXCEPT !.staff = Staff(kind)] EXCEPT !.status = "assigned"]]
    BY <1>11, <2>1 DEF CommitAssign, TypeOK
  <2>5. task' \in [Tasks -> TaskRows \cup {Absent}]
    BY <2>3, <2>4 DEF TypeOK
  <2>6. dept' \in [Departments -> DepartmentRows \cup {Absent}]
    BY <1>11, <2>2, DepartmentTyped DEF CommitAssign, TaskRows
  <2> QED
    BY <1>11, <2>5, <2>6, DoneTyped DEF CommitAssign, TypeOK
<1>12. ASSUME NEW r \in Requests, CommitPromote(r)
       PROVE  TypeOK'
  <2>1. /\ request[r].task \in Tasks
        /\ request[r].kind \in Kinds
        /\ Planned(request[r].task)
    BY <1>12, RequestTyped DEF CommitPromote, Referring, RefersToRows
  <2>2. SubTicket(request[r].task, request[r].kind, Seen(request[r]).ticket.counter + 1)
    BY <1>12 DEF CommitPromote, Promoted
  <2> QED
    BY <1>12, <2>1, <2>2, SubTicketTyped, DoneTyped DEF CommitPromote, TypeOK
<1>13. ASSUME NEW x \in Tasks, AssignTeam(x)
       PROVE  TypeOK'
  <2>1. Planned(x)
    BY <1>13 DEF AssignTeam
  <2>2. task[x] \in TaskRows /\ Present(task[x].dept)
    BY <2>1 DEF Planned, TypeOK, Placed
  <2>3. dept[task[x].dept].kind \in Kinds
    BY <2>2, DepartmentTyped DEF TaskRows, DepartmentRows
  <2>4. SubTicket(x, dept[task[x].dept].kind, Now.ticket.counter + 1)
    BY <1>13 DEF AssignTeam, Promoted
  <2>5. dept' \in [Departments -> DepartmentRows \cup {Absent}]
    BY <1>13, <2>2, DepartmentTyped DEF AssignTeam, TaskRows
  <2> QED
    BY <1>13, <2>1, <2>3, <2>4, <2>5, SubTicketTyped DEF AssignTeam, TypeOK
<1>14. ASSUME NEW r \in Requests, NEW n \in Numbers, BeginDelete(r, n)
       PROVE  TypeOK'
  <2>1. \A x \in Tasks : Planned(x) =>
            [[task[x] EXCEPT !.child = None] EXCEPT !.status = "assigned"] \in TaskRows
    BY DEF Planned, TypeOK, TaskRows
  <2>2. task' \in [Tasks -> TaskRows \cup {Absent}]
    BY <1>14, <2>1 DEF BeginDelete, TypeOK
  <2>3. [step |-> "deleting", child |-> n] \in RequestStates
    BY DEF RequestStates
  <2>4. request' \in [Requests -> RequestStates]
    BY <1>14, <2>3, RememberedTyped DEF BeginDelete
  <2> QED
    BY <1>14, <2>2, <2>4 DEF BeginDelete, TypeOK
<1>15. ASSUME NEW r \in Requests, CommitDelete(r)
       PROVE  TypeOK'
  <2> DEFINE n == request[r].child
  <2>1. n \in Numbers /\ child[n] \in SubTickets
    BY <1>15, RequestTyped DEF CommitDelete, Referring, RefersToRows, TypeOK
  <2>2. [child[n] EXCEPT !.status = "deleted"] \in SubTickets
    BY <2>1 DEF SubTickets
  <2>3. child' \in [Numbers -> SubTickets \cup {Absent}]
    BY <1>15, <2>1, <2>2 DEF CommitDelete, TypeOK
  <2> QED
    BY <1>15, <2>3, DoneTyped DEF CommitDelete, TypeOK
<1>16. ASSUME NEW r \in Requests,
              BeginClose(r) \/ CheckChildren(r) \/ LockToClose(r) \/ BeginConfirm(r)
       PROVE  TypeOK'
  <2>1. ASSUME NEW what \in RequestStates, request' = [request EXCEPT ![r] = what],
               UNCHANGED <<ticket, dept, task, child>>
        PROVE  TypeOK'
    BY <2>1, RememberedTyped DEF TypeOK
  <2>2. CASE BeginClose(r) \/ BeginConfirm(r)
    <3>1. \A step \in {"closing", "confirming"} : [step |-> step] \in RequestStates
      BY DEF RequestStates
    <3> QED
      BY <2>1, <2>2, <3>1 DEF BeginClose, BeginConfirm, Remember
  <2>3. CASE CheckChildren(r)
    <3>1. \A v \in ViewsTaken : [step |-> "finishing", seen |-> v] \in RequestStates
      BY ViewsTyped DEF RequestStates
    <3> QED
      BY <2>1, <2>3, <3>1 DEF CheckChildren
  <2>4. CASE LockToClose(r)
    <3>1. Seen(request[r]) \in Plans
      BY <2>4, RequestTyped, PlanTyped DEF LockToClose
    <3>2. [step |-> "completing", seen |-> Seen(request[r])] \in RequestStates
      BY <3>1 DEF RequestStates
    <3> QED
      BY <2>1, <2>4, <3>2 DEF LockToClose
  <2> QED
    BY <1>16, <2>2, <2>3, <2>4
<1>17. ASSUME NEW r \in Requests, CommitClose(r)
       PROVE  TypeOK'
  <2>1. ticket' \in TicketRows
    BY <1>17 DEF CommitClose, TypeOK, TicketRows, TicketStatuses
  <2>2. \A d \in Departments : Present(d) =>
            [dept[d] EXCEPT !.status = "completed"] \in DepartmentRows
    BY DEF Present, TypeOK, DepartmentRows
  <2>3. dept' \in [Departments -> DepartmentRows \cup {Absent}]
    BY <1>17, <2>2, ClosingSees DEF CommitClose, Completed, TypeOK
  <2>4. \A x \in Tasks : Planned(x) =>
            [task[x] EXCEPT !.status = "completed"] \in TaskRows
    BY DEF Planned, TypeOK, TaskRows
  <2>5. task' \in [Tasks -> TaskRows \cup {Absent}]
    BY <1>17, <2>4, ClosingSees DEF CommitClose, TypeOK
  <2> QED
    BY <1>17, <2>1, <2>3, <2>5, DoneTyped DEF CommitClose, TypeOK
<1>18. ASSUME NEW r \in Requests, CommitConfirm(r)
       PROVE  TypeOK'
  <2>1. ticket' \in TicketRows
    BY <1>18 DEF CommitConfirm, TypeOK, TicketRows, TicketStatuses
  <2> QED
    BY <1>18, <2>1, DoneTyped DEF CommitConfirm, TypeOK
<1>19. ASSUME NEW r \in Requests, GiveUp(r)
       PROVE  TypeOK'
  BY <1>19, DoneTyped DEF GiveUp, TypeOK
<1>20. CASE UNCHANGED vars
  BY <1>20 DEF vars, TypeOK
<1> QED
  BY <1>1, <1>2, <1>3, <1>4, <1>5, <1>6, <1>7, <1>8, <1>9, <1>10, <1>11, <1>12, <1>13,
     <1>14, <1>15, <1>16, <1>17, <1>18, <1>19, <1>20 DEF Next, Routing, Planning, Closing

-----------------------------------------------------------------------------
(* Nothing planned vanishes.                                               *)

\* A row that is not absent says so in its status.
LEMMA RowsByStatus ==
    /\ TypeOK =>
           /\ \A d \in Departments : Present(d) <=> dept[d].status # "absent"
           /\ \A x \in Tasks : Planned(x) <=> task[x].status # "absent"
           /\ \A n \in Numbers : child[n] # Absent <=> child[n].status # "absent"
    /\ TypeOK' =>
           /\ \A d \in Departments : Present(d)' <=> dept'[d].status # "absent"
           /\ \A x \in Tasks : Planned(x)' <=> task'[x].status # "absent"
           /\ \A n \in Numbers : child'[n] # Absent <=> child'[n].status # "absent"
<1>1. Absent.status = "absent"
  BY DEF Absent
<1>2. \A row \in DepartmentRows \cup TaskRows \cup SubTickets : row.status # "absent"
  BY DEF DepartmentRows, TaskRows, SubTickets
<1> QED
  BY <1>1, <1>2 DEF TypeOK, Present, Planned

\* The views that are kept show no task that is not there.
LEMMA ViewsTrue ==
    ASSUME NEW v \in ViewsTaken, v # Late, NEW x \in Tasks, v.task[x] # Absent
    PROVE  Planned(x)
  BY DEF ViewsTaken, Now, Planned

LEMMA ViewsOfDepartmentsTrue ==
    ASSUME NEW v \in ViewsTaken, v # Late, NEW d \in Departments, v.dept[d] # Absent
    PROVE  Present(d)
  BY DEF ViewsTaken, Now, Present

\* What has been planned stays.
Kept ==
    /\ \A d \in Departments : Present(d) => Present(d)'
    /\ \A x \in Tasks : Planned(x) => Planned(x)'
    /\ \A n \in Numbers : child[n] # Absent => child'[n] # Absent

LEMMA KeptStep == TypeOK /\ Placed /\ Referring /\ [Next]_vars => Kept
<1> SUFFICES ASSUME TypeOK, Placed, Referring, [Next]_vars PROVE Kept
  OBVIOUS
<1>0. TypeOK'
  BY TypeStep
<1>1. \A d \in Departments : Present(d) => Present(d)'
  <2>1. ASSUME NEW kinds \in SUBSET Kinds, NEW first \in kinds, TriageMulti(kinds, first)
        PROVE  \A d \in Departments : ~Present(d)
    BY <2>1 DEF TriageMulti, Routed
  <2>2. ASSUME NEW d \in Departments, dept'[d].status \in {"planning", "active", "completed"}
        PROVE  Present(d)'
    BY <1>0, <2>2, RowsByStatus
  <2>3. CASE RouteToIt
    BY <2>2, <2>3 DEF RouteToIt, Present, TypeOK
  <2>4. ASSUME NEW d \in Departments, NEW claimed \in BOOLEAN,
               ClaimItTicket(d) \/ HandoverItTicket(d, claimed)
        PROVE  \A e \in Departments : Present(e) => Present(e)'
    <3>1. Present(d) /\ dept[d] \in DepartmentRows
      BY <2>4, DepartmentTyped DEF ClaimItTicket, HandoverItTicket, KindKept, Now, Present
    <3>2. ClaimItTicket(d) => dept'[d].status = "active"
      BY DEF ClaimItTicket, TypeOK
    <3>3. HandoverItTicket(d, claimed) => dept'[d].status = dept[d].status
      BY <3>1 DEF HandoverItTicket, TypeOK, DepartmentRows
    <3>4. \A e \in Departments \ {d} : dept'[e] = dept[e]
      BY <2>4 DEF ClaimItTicket, HandoverItTicket, TypeOK
    <3> QED
      BY <1>0, <2>4, <3>1, <3>2, <3>3, <3>4, RowsByStatus
  <2>5. ASSUME NEW r \in Requests, CommitTransfer(r)
        PROVE  \A e \in Departments : Present(e) => Present(e)'
    BY <2>2, <2>5 DEF CommitTransfer, Present, TypeOK
  <2>6. ASSUME NEW r \in Requests, NEW x \in Tasks, CommitCreate(r, x)
        PROVE  \A e \in Departments : Present(e) => Present(e)'
    BY <1>0, <2>6, RowsByStatus DEF CommitCreate, TypeOK
  <2>11. ASSUME NEW d, dept' = [dept EXCEPT ![d].status = "active"]
         PROVE  \A e \in Departments : Present(e) => Present(e)'
    <3>1. d \in Departments => dept'[d].status = "active"
      BY <2>11 DEF TypeOK
    <3>2. \A e \in Departments \ {d} : dept'[e] = dept[e]
      BY <2>11 DEF TypeOK
    <3> QED
      BY <1>0, <3>1, <3>2, RowsByStatus
  <2>7. ASSUME NEW r \in Requests, CommitAssign(r)
        PROVE  \A e \in Departments : Present(e) => Present(e)'
    BY <2>11, <2>7 DEF CommitAssign
  <2>8. ASSUME NEW x \in Tasks, AssignTeam(x)
        PROVE  \A e \in Departments : Present(e) => Present(e)'
    BY <2>11, <2>8 DEF AssignTeam
  <2>9. ASSUME NEW r \in Requests, CommitClose(r)
        PROVE  \A e \in Departments : Present(e) => Present(e)'
    <3>1. ASSUME NEW e \in Departments, Present(e)
          PROVE  dept'[e] = dept[e] \/ dept'[e].status = "completed"
      BY <2>9, <3>1 DEF CommitClose, Completed, Present, TypeOK, DepartmentRows
    <3> QED
      BY <2>2, <3>1 DEF Present
  <2>10. CASE UNCHANGED dept
    BY <2>10 DEF Present
  <2> QED
    BY <2>1, <2>3, <2>4, <2>5, <2>6, <2>7, <2>8, <2>9, <2>10
       DEF Next, Routing, Planning, Closing, SubmitForTriage, ResubmitChild, BeginTransfer,
           BeginCreate, BeginAssign, BeginPromote, CommitPromote, CloseChild, BeginDelete,
           CommitDelete, BeginClose, CheckChildren, LockToClose, BeginConfirm, CommitConfirm,
           GiveUp, Remember, vars
<1>2. \A x \in Tasks : Planned(x) => Planned(x)'
  <2>1. ASSUME NEW xs, task' = Unstaffed(xs)
        PROVE  \A x \in Tasks : Planned(x) => Planned(x)'
    <3>1. ASSUME NEW x \in Tasks, Planned(x), x \in xs
          PROVE  task'[x].status = "pending_assignment"
      BY <2>1, <3>1 DEF Unstaffed, Planned, TypeOK, TaskRows
    <3> QED
      BY <1>0, <2>1, <3>1, RowsByStatus DEF Unstaffed
  <2>2. CASE RouteToIt
    BY <2>1, <2>2 DEF RouteToIt
  <2>3. ASSUME NEW r \in Requests, CommitTransfer(r)
        PROVE  \A x \in Tasks : Planned(x) => Planned(x)'
    BY <2>1, <2>3 DEF CommitTransfer
  <2>4. ASSUME NEW r \in Requests, NEW x \in Tasks, CommitCreate(r, x)
        PROVE  \A y \in Tasks : Planned(y) => Planned(y)'
    BY <2>4 DEF CommitCreate, Planned, TypeOK
  <2>5. ASSUME NEW r \in Requests, CommitAssign(r)
        PROVE  \A x \in Tasks : Planned(x) => Planned(x)'
    <3>1. request[r].task \in Tasks
      BY <2>5, RequestTyped DEF CommitAssign
    <3>2. task'[request[r].task].status = "assigned"
      BY <2>5, <3>1 DEF CommitAssign, TypeOK
    <3>3. \A x \in Tasks \ {request[r].task} : task'[x] = task[x]
      BY <2>5 DEF CommitAssign, TypeOK
    <3> QED
      BY <1>0, <3>2, <3>3, RowsByStatus
  <2>6. ASSUME NEW x \in Tasks, NEW kind, NEW n, SubTicket(x, kind, n)
        PROVE  \A y \in Tasks : Planned(y) => Planned(y)'
    BY <1>0, <2>6, RowsByStatus DEF SubTicket, TypeOK
  <2>7. ASSUME NEW r \in Requests, CommitPromote(r)
        PROVE  \A x \in Tasks : Planned(x) => Planned(x)'
    BY <2>6, <2>7, RequestTyped DEF CommitPromote, Promoted
  <2>8. ASSUME NEW x \in Tasks, AssignTeam(x)
        PROVE  \A y \in Tasks : Planned(y) => Planned(y)'
    BY <2>6, <2>8 DEF AssignTeam, Promoted
  <2>9. ASSUME NEW r \in Requests, NEW n \in Numbers, BeginDelete(r, n)
        PROVE  \A x \in Tasks : Planned(x) => Planned(x)'
    <3>1. ASSUME NEW x \in Tasks, Planned(x), task[x].child = n
          PROVE  task'[x].status = "assigned"
      BY <2>9, <3>1 DEF BeginDelete, Planned, TypeOK, TaskRows
    <3> QED
      BY <1>0, <2>9, <3>1, RowsByStatus DEF BeginDelete
  <2>10. ASSUME NEW r \in Requests, CommitClose(r)
         PROVE  \A x \in Tasks : Planned(x) => Planned(x)'
    <3>1. ASSUME NEW x \in Tasks, Planned(x)
          PROVE  task'[x] = task[x] \/ task'[x].status = "completed"
      BY <2>10, <3>1 DEF CommitClose, Planned, TypeOK, TaskRows
    <3> QED
      BY <1>0, <3>1, RowsByStatus
  <2>11. CASE UNCHANGED task
    BY <2>11 DEF Planned
  <2> QED
    BY <2>2, <2>3, <2>4, <2>5, <2>7, <2>8, <2>9, <2>10, <2>11
       DEF Next, Routing, Planning, Closing, SubmitForTriage, ResubmitChild, TriageMulti,
           ClaimItTicket, HandoverItTicket, BeginTransfer, BeginCreate, BeginAssign,
           BeginPromote, CloseChild, CommitDelete, BeginClose, CheckChildren, LockToClose,
           BeginConfirm, CommitConfirm, GiveUp, Remember, vars
<1>3. \A n \in Numbers : child[n] # Absent => child'[n] # Absent
  <2>1. ASSUME NEW m \in Numbers, NEW status \in {"open", "closed", "deleted"},
               child' = [child EXCEPT ![m].status = status]
        PROVE  \A n \in Numbers : child[n] # Absent => child'[n] # Absent
    BY <1>0, <2>1, RowsByStatus DEF TypeOK
  <2>2. ASSUME NEW n \in Numbers, ResubmitChild(n) \/ CloseChild(n)
        PROVE  \A m \in Numbers : child[m] # Absent => child'[m] # Absent
    BY <2>1, <2>2 DEF ResubmitChild, CloseChild
  <2>3. ASSUME NEW r \in Requests, CommitDelete(r)
        PROVE  \A m \in Numbers : child[m] # Absent => child'[m] # Absent
    BY <2>1, <2>3, RequestTyped DEF CommitDelete
  <2>4. ASSUME NEW x \in Tasks, NEW kind, NEW n, SubTicket(x, kind, n)
        PROVE  \A m \in Numbers : child[m] # Absent => child'[m] # Absent
    BY <1>0, <2>4, RowsByStatus DEF SubTicket, TypeOK
  <2>5. ASSUME NEW r \in Requests, CommitPromote(r)
        PROVE  \A m \in Numbers : child[m] # Absent => child'[m] # Absent
    BY <2>4, <2>5, RequestTyped DEF CommitPromote, Promoted
  <2>6. ASSUME NEW x \in Tasks, AssignTeam(x)
        PROVE  \A m \in Numbers : child[m] # Absent => child'[m] # Absent
    BY <2>4, <2>6 DEF AssignTeam, Promoted
  <2>7. CASE UNCHANGED child
    BY <2>7
  <2> QED
    BY <2>2, <2>3, <2>5, <2>6, <2>7
       DEF Next, Routing, Planning, Closing, SubmitForTriage, TriageMulti, RouteToIt,
           ClaimItTicket, HandoverItTicket, BeginTransfer, CommitTransfer, BeginCreate,
           CommitCreate, BeginAssign, CommitAssign, BeginPromote, BeginDelete, BeginClose,
           CheckChildren, LockToClose, CommitClose, BeginConfirm, CommitConfirm, GiveUp,
           Remember, vars
<1> QED
  BY <1>1, <1>2, <1>3 DEF Kept

LEMMA PlacedStep == TypeOK /\ Placed /\ Referring /\ [Next]_vars => Placed'
<1> SUFFICES ASSUME TypeOK, Placed, Referring, [Next]_vars,
                    NEW x \in Tasks, Planned(x)'
             PROVE  Present(task[x].dept)'
  BY DEF Placed
<1>0. Kept /\ TypeOK'
  BY KeptStep, TypeStep
<1>1. Planned(x) /\ task'[x].dept = task[x].dept => Present(task[x].dept)'
  <2>1. Planned(x) => task[x].dept \in Departments /\ Present(task[x].dept)
    BY DEF Planned, TypeOK, TaskRows, Placed
  <2> QED
    BY <1>0, <2>1 DEF Kept, Present
<1>2. ASSUME NEW xs, task' = Unstaffed(xs), \A y \in Tasks : y \in xs => Planned(y)
      PROVE  Planned(x) /\ task'[x].dept = task[x].dept
  BY <1>2 DEF Unstaffed, Planned, TypeOK, TaskRows
<1>3. CASE RouteToIt
  BY <1>1, <1>2, <1>3 DEF RouteToIt
<1>4. ASSUME NEW r \in Requests, CommitTransfer(r)
      PROVE  Present(task[x].dept)'
  <2>1. \A y \in Tasks : y \in TasksOf(Seen(request[r]), request[r].dept) => Planned(y)
    BY <1>4 DEF CommitTransfer, TasksOf, Seen, Now, Referring, RefersToRows, Planned
  <2> QED
    BY <1>1, <1>2, <1>4, <2>1 DEF CommitTransfer
<1>5. ASSUME NEW r \in Requests, NEW y \in Tasks, CommitCreate(r, y)
      PROVE  Present(task[x].dept)'
  <2>1. request[r].dept \in Departments /\ Present(request[r].dept)
    BY <1>5, RequestTyped DEF CommitCreate, Referring, RefersToRows
  <2>2. x = y => task'[x].dept = request[r].dept
    BY <1>5 DEF CommitCreate, NewTask, TypeOK
  <2>3. x # y => task'[x] = task[x]
    BY <1>5 DEF CommitCreate, TypeOK
  <2> QED
    BY <1>0, <1>1, <2>1, <2>2, <2>3 DEF Kept, Present, Planned
<1>6. ASSUME NEW r \in Requests, CommitAssign(r)
      PROVE  Present(task[x].dept)'
  <2>1. request[r].task \in Tasks /\ Planned(request[r].task)
    BY <1>6, RequestTyped DEF CommitAssign, Referring, RefersToRows
  <2>2. task[request[r].task] \in TaskRows
    BY <2>1 DEF Planned, TypeOK
  <2>3. x = request[r].task => task'[x].dept = task[x].dept
    BY <1>6, <2>1, <2>2 DEF CommitAssign, TypeOK, TaskRows
  <2>4. x # request[r].task => task'[x] = task[x]
    BY <1>6 DEF CommitAssign, TypeOK
  <2> QED
    BY <1>1, <2>1, <2>3, <2>4 DEF Planned
<1>7. ASSUME NEW y \in Tasks, Planned(y), NEW kind, NEW n, SubTicket(y, kind, n)
      PROVE  Present(task[x].dept)'
  <2>1. task[y] \in TaskRows
    BY <1>7 DEF Planned, TypeOK
  <2>2. x = y => task'[x].dept = task[x].dept
    BY <1>7, <2>1 DEF SubTicket, TypeOK, TaskRows
  <2>3. x # y => task'[x] = task[x]
    BY <1>7 DEF SubTicket, TypeOK
  <2> QED
    BY <1>1, <1>7, <2>2, <2>3 DEF Planned
<1>8. ASSUME NEW r \in Requests, CommitPromote(r)
      PROVE  Present(task[x].dept)'
  <2>1. request[r].task \in Tasks /\ Planned(request[r].task)
    BY <1>8, RequestTyped DEF CommitPromote, Referring, RefersToRows
  <2> QED
    BY <1>7, <1>8, <2>1 DEF CommitPromote, Promoted
<1>9. ASSUME NEW y \in Tasks, AssignTeam(y)
      PROVE  Present(task[x].dept)'
  BY <1>7, <1>9 DEF AssignTeam, Promoted
<1>10. ASSUME NEW r \in Requests, NEW n \in Numbers, BeginDelete(r, n)
       PROVE  Present(task[x].dept)'
  <2>1. Planned(x)
    BY <1>10 DEF BeginDelete, Planned
  <2>2. task'[x].dept = task[x].dept
    BY <1>10, <2>1 DEF BeginDelete, Planned, TypeOK, TaskRows
  <2> QED
    BY <1>1, <2>1, <2>2
<1>11. ASSUME NEW r \in Requests, CommitClose(r)
       PROVE  Present(task[x].dept)'
  <2>1. Planned(x)
    BY <1>11, ClosingSees DEF CommitClose, Planned
  <2>2. task'[x].dept = task[x].dept
    BY <1>11, <2>1 DEF CommitClose, Planned, TypeOK, TaskRows
  <2> QED
    BY <1>1, <2>1, <2>2
<1>12. CASE UNCHANGED task
  BY <1>1, <1>12 DEF Planned
<1> QED
  BY <1>3, <1>4, <1>5, <1>6, <1>8, <1>9, <1>10, <1>11, <1>12
     DEF Next, Routing, Planning, Closing, SubmitForTriage, ResubmitChild, TriageMulti,
         ClaimItTicket, HandoverItTicket, BeginTransfer, BeginCreate, BeginAssign,
         BeginPromote, CloseChild, CommitDelete, BeginClose, CheckChildren, LockToClose,
         BeginConfirm, CommitConfirm, GiveUp, Remember, vars

\* How a step changes the request whose it is.
LEMMA ReferringStep == TypeOK /\ Placed /\ Referring /\ [Next]_vars => Referring'
<1> SUFFICES ASSUME TypeOK, Placed, Referring, [Next]_vars, NEW s \in Requests
             PROVE  RefersToRows(s)'
  BY DEF Referring
<1>0. Kept /\ TypeOK'
  BY KeptStep, TypeStep
<1>1. request'[s] = request[s] => RefersToRows(s)'
  BY <1>0, RequestTyped DEF Kept, RefersToRows, Referring, Present, Planned
<1>2. request'[s] = Idle => RefersToRows(s)'
  BY DEF RefersToRows, Idle
<1>3. ASSUME NEW r \in Requests, Done(r) PROVE RefersToRows(s)'
  BY <1>1, <1>2, <1>3 DEF Done, TypeOK
<1>4. ASSUME NEW r \in Requests, NEW what, Remember(r, what)
      PROVE  /\ s # r => RefersToRows(s)'
             /\ request'[r] = what
             /\ UNCHANGED <<dept, task, child>>
  BY <1>1, <1>4 DEF Remember, TypeOK
<1>5. ASSUME NEW r \in Requests, NEW d \in Departments, NEW kind \in Kinds,
             BeginTransfer(r, d, kind)
      PROVE  RefersToRows(s)'
  <2>1. PICK v \in ViewsTaken :
            Remember(r, [step |-> "transferring", dept |-> d, kind |-> kind, seen |-> v])
    BY <1>5 DEF BeginTransfer
  <2>2. Present(d)
    BY <1>5 DEF BeginTransfer, KindKept, Now, Present
  <2>3. request'[r] = [step |-> "transferring", dept |-> d, kind |-> kind, seen |-> v]
    BY <1>4, <2>1
  <2>4. dept' = dept /\ task' = task
    BY <1>4, <2>1
  <2>5. RefersToRows(r)'
    BY <2>2, <2>3, <2>4, ViewsTrue, ViewsOfDepartmentsTrue DEF RefersToRows, Present, Planned
  <2> QED
    BY <1>4, <2>1, <2>5
<1>6. ASSUME NEW r \in Requests, NEW d \in Departments, BeginCreate(r, d)
      PROVE  RefersToRows(s)'
  <2>1. PICK v \in ViewsTaken :
            Remember(r, [step |-> "creating", dept |-> d, kind |-> dept[d].kind, seen |-> v])
    BY <1>6 DEF BeginCreate
  <2>2. request'[r] = [step |-> "creating", dept |-> d, kind |-> dept[d].kind, seen |-> v]
    BY <1>4, <2>1
  <2>3. dept' = dept
    BY <1>4, <2>1
  <2>4. RefersToRows(r)'
    BY <1>6, <2>2, <2>3 DEF BeginCreate, RefersToRows, Present
  <2> QED
    BY <1>4, <2>1, <2>4
<1>7. ASSUME NEW r \in Requests, NEW x \in Tasks, BeginAssign(r, x) \/ BeginPromote(r, x)
      PROVE  RefersToRows(s)'
  <2>1. PICK v \in ViewsTaken, step \in {"assigning", "promoting"} :
            Remember(r, [step |-> step, task |-> x, kind |-> dept[task[x].dept].kind, seen |-> v])
    BY <1>7 DEF BeginAssign, BeginPromote
  <2>2. request'[r] = [step |-> step, task |-> x, kind |-> dept[task[x].dept].kind, seen |-> v]
    BY <1>4, <2>1
  <2>3. task' = task
    BY <1>4, <2>1
  <2>4. RefersToRows(r)'
    BY <1>7, <2>2, <2>3 DEF BeginAssign, BeginPromote, RefersToRows, Planned
  <2> QED
    BY <1>4, <2>1, <2>4
<1>8. ASSUME NEW r \in Requests, NEW n \in Numbers, BeginDelete(r, n)
      PROVE  RefersToRows(s)'
  <2>1. request' = [request EXCEPT ![r] = [step |-> "deleting", child |-> n]]
    BY <1>8 DEF BeginDelete
  <2>2. child' = child /\ child[n] # Absent
    BY <1>8, RowsByStatus DEF BeginDelete
  <2>3. s = r => RefersToRows(s)'
    BY <2>1, <2>2 DEF RefersToRows, TypeOK
  <2> QED
    BY <1>1, <2>1, <2>3 DEF TypeOK
<1>9. ASSUME NEW r \in Requests, BeginClose(r) \/ BeginConfirm(r)
      PROVE  RefersToRows(s)'
  <2>1. PICK step \in {"closing", "confirming"} : Remember(r, [step |-> step])
    BY <1>9 DEF BeginClose, BeginConfirm
  <2>2. request'[r] = [step |-> step]
    BY <1>4, <2>1
  <2>3. RefersToRows(r)'
    BY <2>2 DEF RefersToRows
  <2> QED
    BY <1>4, <2>1, <2>3
<1>11. ASSUME NEW r \in Requests, CheckChildren(r)
       PROVE  RefersToRows(s)'
  <2>1. PICK v \in ViewsTaken : request' = [request EXCEPT ![r] = [step |-> "finishing", seen |-> v]]
    BY <1>11 DEF CheckChildren
  <2>2. dept' = dept /\ task' = task
    BY <1>11 DEF CheckChildren
  <2>3. s = r => RefersToRows(s)'
    BY <2>1, <2>2, ViewsTrue, ViewsOfDepartmentsTrue DEF RefersToRows, Present, Planned, TypeOK
  <2> QED
    BY <1>1, <2>1, <2>3 DEF TypeOK
<1>12. ASSUME NEW r \in Requests, LockToClose(r)
       PROVE  RefersToRows(s)'
  <2>1. request' = [request EXCEPT ![r] = [step |-> "completing", seen |-> Seen(request[r])]]
    BY <1>12 DEF LockToClose
  <2>2. dept' = dept /\ task' = task
    BY <1>12 DEF LockToClose
  <2>3. /\ \A x \in Tasks : Seen(request[r]).task[x] # Absent => Planned(x)
        /\ \A d \in Departments : Seen(request[r]).dept[d] # Absent => Present(d)
    BY <1>12 DEF LockToClose, Seen, Now, Planned, Present, Referring, RefersToRows
  <2>4. s = r => RefersToRows(s)'
    BY <2>1, <2>2, <2>3 DEF RefersToRows, Present, Planned, TypeOK
  <2> QED
    BY <1>1, <2>1, <2>4 DEF TypeOK
<1>10. CASE UNCHANGED request
  BY <1>1, <1>10
<1> QED
  BY <1>3, <1>5, <1>6, <1>7, <1>8, <1>9, <1>10, <1>11, <1>12
     DEF Next, Routing, Planning, Closing, SubmitForTriage, ResubmitChild, TriageMulti,
         RouteToIt, ClaimItTicket, HandoverItTicket, CommitTransfer, CommitCreate,
         CommitAssign, CommitPromote, AssignTeam, CloseChild, CommitDelete, CommitClose,
         CommitConfirm, GiveUp, vars

Typed == TypeOK /\ Placed /\ Referring

LEMMA TypedAlways == Spec => []Typed
<1>1. Init => Typed
  BY PlanAssumption
     DEF Init, Typed, TypeOK, Placed, Referring, RefersToRows, TicketRows, TicketStatuses,
         RequestStates, Idle, Planned
<1>2. Typed /\ [Next]_vars => Typed'
  BY TypeStep, PlacedStep, ReferringStep DEF Typed
<1> QED
  BY <1>1, <1>2, PTL DEF Spec

\* Whatever requests do between what they read and what they write, every row
\* stays one that the code may write: none refers to a department or a task
\* that is gone.
THEOREM TypeCorrect == Spec => []TypeOK
<1>1. Typed => TypeOK
  BY DEF Typed
<1> QED
  BY <1>1, TypedAlways, PTL

-----------------------------------------------------------------------------
(* Reading under the locks.                                                *)

LEMMA ReadLateStep ==
    ASSUME "earlyViews" \notin Allowed, TypeOK, ReadLate, [Next]_vars
    PROVE  ReadLate'
<1> SUFFICES ASSUME NEW s \in Requests,
                    request'[s].step \in {"creating", "transferring", "assigning", "promoting"}
             PROVE  request'[s].seen = Late
  BY DEF ReadLate
<1>1. request'[s] = request[s] => request'[s].seen = Late
  BY DEF ReadLate
<1>2. request'[s] # Idle
  BY DEF Idle
<1>3. ASSUME NEW r \in Requests, Done(r) PROVE request'[s].seen = Late
  BY <1>1, <1>2, <1>3 DEF Done, TypeOK
<1>4. ViewsTaken = {Late}
  BY DEF ViewsTaken
<1>5. ASSUME NEW r \in Requests, NEW d \in Departments, NEW kind \in Kinds,
             BeginTransfer(r, d, kind)
      PROVE  request'[s].seen = Late
  BY <1>1, <1>4, <1>5 DEF BeginTransfer, Remember, TypeOK
<1>6. ASSUME NEW r \in Requests, NEW d \in Departments, BeginCreate(r, d)
      PROVE  request'[s].seen = Late
  BY <1>1, <1>4, <1>6 DEF BeginCreate, Remember, TypeOK
<1>7. ASSUME NEW r \in Requests, NEW x \in Tasks, BeginAssign(r, x) \/ BeginPromote(r, x)
      PROVE  request'[s].seen = Late
  BY <1>1, <1>4, <1>7 DEF BeginAssign, BeginPromote, Remember, TypeOK
<1>8. ASSUME NEW r \in Requests, NEW n \in Numbers, BeginDelete(r, n)
      PROVE  request'[s].seen = Late
  BY <1>1, <1>8 DEF BeginDelete, TypeOK
<1>9. ASSUME NEW r \in Requests,
             BeginClose(r) \/ CheckChildren(r) \/ LockToClose(r) \/ BeginConfirm(r)
      PROVE  request'[s].seen = Late
  BY <1>1, <1>9 DEF BeginClose, CheckChildren, LockToClose, BeginConfirm, Remember, TypeOK
<1>10. CASE UNCHANGED request
  BY <1>1, <1>10
<1> QED
  BY <1>3, <1>5, <1>6, <1>7, <1>8, <1>9, <1>10
     DEF Next, Routing, Planning, Closing, SubmitForTriage, ResubmitChild, TriageMulti,
         RouteToIt, ClaimItTicket, HandoverItTicket, CommitTransfer, CommitCreate,
         CommitAssign, CommitPromote, AssignTeam, CloseChild, CommitDelete, CommitClose,
         CommitConfirm, GiveUp, vars

\* What a request checks under the locks is how things are.
LEMMA SeenIsNow ==
    ASSUME ReadLate, NEW r \in Requests,
           request[r].step \in {"creating", "transferring", "assigning", "promoting"}
    PROVE  Seen(request[r]) = Now
  BY DEF ReadLate, Seen

\* The steps that make a sub-ticket make a new one, of the task's department.
NewSubTicket(x, n) ==
    /\ Planned(x)
    /\ task[x].child = None
    /\ n = ticket.counter + 1
    /\ SubTicket(x, dept[task[x].dept].kind, n)

LEMMA SubTicketsAreNew ==
    ASSUME Typed, ReadLate
    PROVE  /\ \A r \in Requests : CommitPromote(r) =>
                  \E x \in Tasks, n \in Numbers : NewSubTicket(x, n)
           /\ \A x \in Tasks : AssignTeam(x) => \E n \in Numbers : NewSubTicket(x, n)
<1>1. ASSUME NEW r \in Requests, CommitPromote(r)
      PROVE  \E x \in Tasks, n \in Numbers : NewSubTicket(x, n)
  <2> DEFINE x == request[r].task
             n == ticket.counter + 1
  <2>1. x \in Tasks /\ Planned(x)
    BY <1>1, RequestTyped DEF CommitPromote, Typed, Referring, RefersToRows
  <2>2. Seen(request[r]) = Now
    BY <1>1, SeenIsNow DEF CommitPromote
  <2>3. task[x].child = None /\ dept[task[x].dept].kind = request[r].kind
    BY <1>1, <2>2 DEF CommitPromote, Now, KindKept
  <2>4. SubTicket(x, request[r].kind, n)
    BY <1>1, <2>2 DEF CommitPromote, Promoted, Now
  <2>5. n \in Numbers
    BY <2>4 DEF SubTicket
  <2> QED
    BY <2>1, <2>3, <2>4, <2>5 DEF NewSubTicket
<1>2. ASSUME NEW x \in Tasks, AssignTeam(x)
      PROVE  \E n \in Numbers : NewSubTicket(x, n)
  <2>1. SubTicket(x, dept[task[x].dept].kind, ticket.counter + 1)
    BY <1>2 DEF AssignTeam, Promoted, Now
  <2>2. ticket.counter + 1 \in Numbers
    BY <2>1 DEF SubTicket
  <2> QED
    BY <1>2, <2>1, <2>2 DEF AssignTeam, NewSubTicket
<1> QED
  BY <1>1, <1>2

\* A step makes a sub-ticket, changes the status of one, or leaves them alone.
LEMMA ChildrenChange ==
    ASSUME Typed, ReadLate, [Next]_vars
    PROVE  \/ \E x \in Tasks, n \in Numbers : NewSubTicket(x, n)
           \/ /\ ticket'.counter = ticket.counter
              /\ \/ child' = child
                 \/ \E n \in Numbers :
                        /\ child[n].status \in {"open", "closed"}
                        /\ \/ child' = [child EXCEPT ![n].status = "open"]
                           \/ child' = [child EXCEPT ![n].status = "closed"]
                 \/ \E n \in Numbers :
                        /\ \E r \in Requests : request[r].step = "deleting" /\ request[r].child = n
                        /\ child' = [child EXCEPT ![n].status = "deleted"]
<1>1. ASSUME NEW n \in Numbers, ResubmitChild(n) \/ CloseChild(n)
      PROVE  /\ ticket' = ticket
             /\ child[n].status \in {"open", "closed"}
             /\ \/ child' = [child EXCEPT ![n].status = "open"]
                \/ child' = [child EXCEPT ![n].status = "closed"]
  BY <1>1 DEF ResubmitChild, CloseChild
<1>2. ASSUME NEW r \in Requests, CommitDelete(r)
      PROVE  /\ ticket' = ticket
             /\ request[r].child \in Numbers
             /\ request[r].step = "deleting"
             /\ child' = [child EXCEPT ![request[r].child].status = "deleted"]
  BY <1>2, RequestTyped DEF CommitDelete, Typed
<1>3. ASSUME NEW kinds \in SUBSET Kinds, NEW first \in kinds, TriageMulti(kinds, first)
      PROVE  ticket'.counter = ticket.counter
  BY <1>3 DEF TriageMulti, Typed, TypeOK, TicketRows
<1>4. ASSUME NEW r \in Requests, CommitTransfer(r) \/ CommitClose(r) \/ CommitConfirm(r)
      PROVE  ticket'.counter = ticket.counter
  BY <1>4 DEF CommitTransfer, CommitClose, CommitConfirm, Typed, TypeOK, TicketRows
<1>5. SubmitForTriage \/ RouteToIt => ticket'.counter = ticket.counter
  BY DEF SubmitForTriage, RouteToIt, Typed, TypeOK, TicketRows
<1> QED
  BY <1>1, <1>2, <1>3, <1>4, <1>5, SubTicketsAreNew
     DEF Next, Routing, Planning, Closing, SubmitForTriage, TriageMulti, RouteToIt,
         ClaimItTicket, HandoverItTicket, BeginTransfer, CommitTransfer, BeginCreate,
         CommitCreate, BeginAssign, CommitAssign, BeginPromote, BeginDelete, BeginClose,
         CheckChildren, LockToClose, CommitClose, BeginConfirm, CommitConfirm, GiveUp,
         Remember, vars

LEMMA CountedStep ==
    ASSUME Typed, ReadLate, Counted, [Next]_vars, TypeOK'
    PROVE  Counted'
<1>0. ticket.counter \in 0..MaxChildren /\ Numbers \subseteq Nat
  BY PlanAssumption DEF Typed, TypeOK, TicketRows, Numbers
<1>1. ASSUME NEW x \in Tasks, NEW n \in Numbers, NewSubTicket(x, n)
      PROVE  Counted'
  <2>1. ticket'.counter = n /\ n = ticket.counter + 1
    BY <1>1 DEF NewSubTicket, SubTicket, Typed, TypeOK, TicketRows
  <2>2. \A m \in Numbers \ {n} : child'[m] = child[m]
    BY <1>1 DEF NewSubTicket, SubTicket, Typed, TypeOK
  <2> QED
    BY <1>0, <2>1, <2>2 DEF Counted
<1>2. ASSUME NEW n \in Numbers, NEW status, child' = [child EXCEPT ![n].status = status],
             child[n] # Absent, ticket'.counter = ticket.counter
      PROVE  Counted'
  <2>1. \A m \in Numbers \ {n} : child'[m] = child[m]
    BY <1>2 DEF Typed, TypeOK
  <2> QED
    BY <1>2, <2>1 DEF Counted
<1>3. child' = child /\ ticket'.counter = ticket.counter => Counted'
  BY DEF Counted
<1>4. \A n \in Numbers : child[n].status \in {"open", "closed"} => child[n] # Absent
  BY RowsByStatus DEF Typed
<1>5. \A r \in Requests : request[r].step = "deleting" => child[request[r].child] # Absent
  BY DEF Typed, Referring, RefersToRows
<1> QED
  BY <1>1, <1>2, <1>3, <1>4, <1>5, ChildrenChange

Numbered == Typed /\ ReadLate /\ Counted

LEMMA NumberedAlways ==
    ASSUME "earlyViews" \notin Allowed
    PROVE  Spec => []Numbered
<1>1. Init => ReadLate /\ Counted
  BY DEF Init, ReadLate, Counted, Idle
<1>2. Typed /\ Typed' /\ ReadLate /\ Counted /\ [Next]_vars => ReadLate' /\ Counted'
  BY ReadLateStep, CountedStep DEF Typed
<1> QED
  BY <1>1, <1>2, TypedAlways, PTL DEF Spec, Numbered

\* The number of a sub-ticket is given once, however many requests promote
\* tasks and delete sub-tickets at a time, as long as the counter is read under
\* the lock of the main ticket.
THEOREM NumbersAreUsedOnce ==
    ASSUME "earlyViews" \notin Allowed
    PROVE  Spec => NumbersNotReused
<1> DEFINE Used(n) == child[n] # Absent =>
               /\ child'[n] # Absent
               /\ child'[n].source = child[n].source
               /\ child[n].status = "deleted" => child'[n] = child[n]
<1>1. Numbered /\ [Next]_vars => \A n \in Numbers : Used(n)
  <2> SUFFICES ASSUME Numbered, [Next]_vars, NEW m \in Numbers, child[m] # Absent
               PROVE  /\ child'[m].source = child[m].source
                      /\ child[m].status = "deleted" => child'[m] = child[m]
    BY KeptStep DEF Numbered, Typed, Kept
  <2>1. child[m] \in SubTickets
    BY DEF Numbered, Typed, TypeOK
  <2>2. ASSUME NEW x \in Tasks, NEW n \in Numbers, NewSubTicket(x, n)
        PROVE  child'[m] = child[m]
    <3>1. m # n
      <4>1. m <= ticket.counter
        BY DEF Numbered, Counted
      <4> QED
        BY <2>2, <4>1, PlanAssumption
           DEF NewSubTicket, Numbered, Typed, TypeOK, TicketRows, Numbers
    <3> QED
      BY <2>2, <3>1 DEF NewSubTicket, SubTicket, Numbered, Typed, TypeOK
  <2>3. ASSUME NEW n \in Numbers, NEW status, child' = [child EXCEPT ![n].status = status]
        PROVE  /\ m # n => child'[m] = child[m]
               /\ m = n => child'[m] = [child[m] EXCEPT !.status = status]
    BY <2>3 DEF Numbered, Typed, TypeOK
  <2>4. ASSUME NEW status \in {"open", "closed", "deleted"},
               child'[m] = [child[m] EXCEPT !.status = status]
        PROVE  /\ child'[m].source = child[m].source
               /\ child[m].status = status => child'[m] = child[m]
    BY <2>1, <2>4 DEF SubTickets
  <2> QED
    BY <2>2, <2>3, <2>4, ChildrenChange DEF Numbered
<1> QED
  BY <1>1, NumberedAlways, PTL DEF Spec, NumbersNotReused

-----------------------------------------------------------------------------
(* Tasks and their sub-tickets.                                            *)

\* Sub-tickets that are made take nobody's number.
LEMMA NewNumber ==
    ASSUME Numbered, NEW x \in Tasks, NEW n \in Numbers, NewSubTicket(x, n)
    PROVE  child[n] = Absent
<1>1. ticket.counter \in Nat
  BY PlanAssumption DEF Numbered, Typed, TypeOK, TicketRows
<1> QED
  BY <1>1 DEF Numbered, Counted, NewSubTicket

\* What a step makes of the task that it promotes, and of all others,
LEMMA PromotedTask ==
    ASSUME Typed, NEW x \in Tasks, NEW n \in Numbers, NewSubTicket(x, n)
    PROVE  /\ task'[x].child = n
           /\ task'[x].status = "promoted"
           /\ task'[x].dept = task[x].dept
           /\ task'[x].staff = task[x].staff
           /\ \A y \in Tasks \ {x} : task'[y] = task[y]
<1>1. task[x] \in TaskRows
  BY DEF NewSubTicket, Planned, Typed, TypeOK
<1>2. SubTicket(x, dept[task[x].dept].kind, n)
  BY DEF NewSubTicket
<1>3. /\ task'[x] = [[task[x] EXCEPT !.status = "promoted"] EXCEPT !.child = n]
      /\ \A y \in Tasks \ {x} : task'[y] = task[y]
  BY <1>2 DEF SubTicket, Typed, TypeOK
<1> QED
  BY <1>1, <1>3 DEF TaskRows

\* and of the sub-tickets.
LEMMA PromotedChild ==
    ASSUME Typed, NEW x \in Tasks, NEW n \in Numbers, NewSubTicket(x, n)
    PROVE  /\ child'[n].status = "open"
           /\ child'[n].kind = dept[task[x].dept].kind
           /\ child'[n].source = x
           /\ \A m \in Numbers \ {n} : child'[m] = child[m]
<1>1. SubTicket(x, dept[task[x].dept].kind, n)
  BY DEF NewSubTicket
<1>2. /\ child'[n] = [status |-> "open", kind |-> dept[task[x].dept].kind, source |-> x]
      /\ \A m \in Numbers \ {n} : child'[m] = child[m]
  BY <1>1 DEF SubTicket, Typed, TypeOK
<1> QED
  BY <1>2

\* Tasks that are moved to another department have no sub-ticket, and nobody
\* works on them.
LEMMA MovedTasks ==
    ASSUME Typed, ReadLate, RouteToIt \/ \E r \in Requests : CommitTransfer(r)
    PROVE  /\ child' = child
           /\ \A x \in Tasks : Planned(x)' =>
                  /\ Planned(x)
                  /\ task'[x].dept = task[x].dept
                  /\ \/ /\ dept'[task[x].dept] = dept[task[x].dept]
                        /\ task'[x] = task[x]
                     \/ /\ ~Begun(Now, x)
                        /\ task'[x].child = None
                        /\ task'[x].status = "pending_assignment"
                        /\ task'[x].staff = "nobody"
<1>1. ASSUME NEW xs, task' = Unstaffed(xs), \A x \in Tasks : x \in xs => Planned(x) /\ ~Begun(Now, x),
             NEW x \in Tasks, Planned(x)'
      PROVE  /\ Planned(x)
             /\ task'[x].dept = task[x].dept
             /\ x \notin xs => task'[x] = task[x]
             /\ x \in xs => /\ ~Begun(Now, x)
                            /\ task'[x].child = None
                            /\ task'[x].status = "pending_assignment"
                            /\ task'[x].staff = "nobody"
  <2>1. CASE x \in xs
    <3>1. task[x] \in TaskRows
      BY <1>1, <2>1 DEF Planned, Typed, TypeOK
    <3>2. task'[x] = [[task[x] EXCEPT !.staff = "nobody"] EXCEPT !.status = "pending_assignment"]
      BY <1>1, <2>1 DEF Unstaffed
    <3>3. task[x].child = None
      BY <1>1, <2>1 DEF Begun, Now
    <3> QED
      BY <1>1, <2>1, <3>1, <3>2, <3>3 DEF TaskRows
  <2>2. CASE x \notin xs
    BY <1>1, <2>2 DEF Unstaffed, Planned
  <2> QED
    BY <2>1, <2>2
<1>2. CASE RouteToIt
  <2> DEFINE xs == {x \in Tasks : Planned(x)}
  <2>1. /\ task' = Unstaffed(xs)
        /\ child' = child
        /\ \A x \in Tasks : x \in xs => Planned(x) /\ ~Begun(Now, x)
    BY <1>2 DEF RouteToIt
  <2>2. \A x \in Tasks : Planned(x) => x \in xs
    OBVIOUS
  <2> HIDE DEF xs
  <2> QED
    BY <1>1, <2>1, <2>2
<1>3. ASSUME NEW r \in Requests, CommitTransfer(r)
      PROVE  /\ child' = child
             /\ \A x \in Tasks : Planned(x)' =>
                    /\ Planned(x)
                    /\ task'[x].dept = task[x].dept
                    /\ \/ /\ dept'[task[x].dept] = dept[task[x].dept]
                          /\ task'[x] = task[x]
                       \/ /\ ~Begun(Now, x)
                          /\ task'[x].child = None
                          /\ task'[x].status = "pending_assignment"
                          /\ task'[x].staff = "nobody"
  <2> DEFINE d == request[r].dept
             xs == TasksOf(Now, d)
  <2>1. Seen(request[r]) = Now
    BY <1>3, SeenIsNow DEF CommitTransfer
  <2>2. task' = Unstaffed(xs) /\ child' = child
    BY <1>3, <2>1 DEF CommitTransfer
  <2>3. \A x \in Tasks : x \in xs => Planned(x) /\ ~Begun(Now, x)
    BY <1>3, <2>1 DEF CommitTransfer, TasksOf, Now, Planned
  <2>4. \A x \in Tasks : Planned(x) /\ x \notin xs => task[x].dept \in Departments \ {d}
    BY DEF TasksOf, Now, Planned, Typed, TypeOK, TaskRows
  <2>5. \A e \in Departments \ {d} : dept'[e] = dept[e]
    BY <1>3 DEF CommitTransfer, Typed, TypeOK
  <2> HIDE DEF xs, d
  <2> QED
    BY <1>1, <2>2, <2>3, <2>4, <2>5
<1> QED
  BY <1>2, <1>3

\* How a task is assigned, and how it is created.
LEMMA AssignedTask ==
    ASSUME Typed, ReadLate, NEW r \in Requests, CommitAssign(r)
    PROVE  LET x == request[r].task IN
           /\ x \in Tasks
           /\ Planned(x)
           /\ task[x].child = None
           /\ task'[x].child = None
           /\ task'[x].status = "assigned"
           /\ task'[x].dept = task[x].dept
           /\ task'[x].staff = Staff(dept[task[x].dept].kind)
           /\ \A y \in Tasks \ {x} : task'[y] = task[y]
<1> DEFINE x == request[r].task
<1>1. x \in Tasks /\ Planned(x)
  BY RequestTyped DEF CommitAssign, Typed, Referring, RefersToRows
<1>2. Seen(request[r]) = Now
  BY SeenIsNow DEF CommitAssign
<1>3. task[x].child = None /\ dept[task[x].dept].kind = request[r].kind
  BY <1>2 DEF CommitAssign, Now, KindKept
<1>4. task[x] \in TaskRows
  BY <1>1 DEF Planned, Typed, TypeOK
<1>5. task'[x] = [[task[x] EXCEPT !.staff = Staff(request[r].kind)] EXCEPT !.status = "assigned"]
  BY <1>1 DEF CommitAssign, Typed, TypeOK
<1>6. /\ task'[x].child = None
      /\ task'[x].status = "assigned"
      /\ task'[x].dept = task[x].dept
      /\ task'[x].staff = Staff(request[r].kind)
  BY <1>3, <1>4, <1>5 DEF TaskRows
<1>7. \A y \in Tasks \ {x} : task'[y] = task[y]
  BY DEF CommitAssign, Typed, TypeOK
<1> QED
  BY <1>1, <1>3, <1>6, <1>7

LEMMA CreatedTask ==
    ASSUME Typed, NEW r \in Requests, NEW x \in Tasks, CommitCreate(r, x)
    PROVE  /\ ~Planned(x)
           /\ task'[x].dept = request[r].dept
           /\ task'[x].child = None
           /\ task'[x].status \in {"assigned", "pending_assignment"}
           /\ task'[x].staff = IF request[r].kind = "it" THEN "it" ELSE "nobody"
           /\ \A y \in Tasks \ {x} : task'[y] = task[y]
           /\ child' = child
<1>1. task'[x] = NewTask(request[r].dept, request[r].kind = "it")
  BY DEF CommitCreate, Typed, TypeOK
<1>2. task'[x] = [dept |-> request[r].dept, child |-> None,
                  status |-> IF request[r].kind = "it" THEN "assigned" ELSE "pending_assignment",
                  staff |-> IF request[r].kind = "it" THEN "it" ELSE "nobody"]
  BY <1>1 DEF NewTask
<1>3. /\ ~Planned(x)
      /\ \A y \in Tasks \ {x} : task'[y] = task[y]
      /\ child' = child
  BY DEF CommitCreate, Typed, TypeOK
<1> QED
  BY <1>2, <1>3

\* A task loses its sub-ticket when that is deleted, and is completed with it.
LEMMA UnlinkedTask ==
    ASSUME Typed, NEW r \in Requests, NEW n \in Numbers, BeginDelete(r, n),
           NEW x \in Tasks, Planned(x)'
    PROVE  /\ Planned(x)
           /\ task'[x].dept = task[x].dept
           /\ task'[x].staff = task[x].staff
           /\ task[x].child # n => task'[x] = task[x]
           /\ task[x].child = n => task'[x].child = None /\ task'[x].status = "assigned"
<1>1. Planned(x)
  BY DEF BeginDelete, Planned
<1>2. task[x] \in TaskRows
  BY <1>1 DEF Planned, Typed, TypeOK
<1>3. /\ task[x].child # n => task'[x] = task[x]
      /\ task[x].child = n =>
             task'[x] = [[task[x] EXCEPT !.child = None] EXCEPT !.status = "assigned"]
  BY <1>1 DEF BeginDelete
<1> QED
  BY <1>1, <1>2, <1>3 DEF TaskRows

LEMMA ClosedTask ==
    ASSUME Typed, NEW r \in Requests, CommitClose(r), NEW x \in Tasks, Planned(x)'
    PROVE  /\ Planned(x)
           /\ task'[x].dept = task[x].dept
           /\ task'[x].staff = task[x].staff
           /\ task'[x].child = task[x].child
           /\ task'[x].status \in {task[x].status, "completed"}
<1>1. Planned(x)
  BY ClosingSees DEF CommitClose, Planned, Typed
<1>2. task[x] \in TaskRows
  BY <1>1 DEF Planned, Typed, TypeOK
<1>3. task'[x] \in {task[x], [task[x] EXCEPT !.status = "completed"]}
  BY DEF CommitClose
<1> QED
  BY <1>1, <1>2, <1>3 DEF TaskRows

LEMMA TasksLinkedStep ==
    ASSUME Numbered, TasksLinked, Unlinked, [Next]_vars
    PROVE  TasksLinked'
<1> SUFFICES ASSUME NEW x \in Tasks, Planned(x)'
             PROVE  /\ (task[x].status = "promoted" => task[x].child # None)'
                    /\ (task[x].child # None =>
                            /\ task[x].status \in {"promoted", "completed"}
                            /\ child[task[x].child].status \in {"open", "closed"}
                            /\ child[task[x].child].source = x)'
  BY DEF TasksLinked, TaskLinked
<1> Typed /\ ReadLate
  BY DEF Numbered
<1>0. Planned(x) => /\ task[x].child \in Numbers \cup {None}
                    /\ task[x].status = "promoted" => task[x].child # None
                    /\ task[x].child # None =>
                           /\ task[x].status \in {"promoted", "completed"}
                           /\ child[task[x].child].status \in {"open", "closed"}
                           /\ child[task[x].child].source = x
  BY DEF TasksLinked, TaskLinked, Planned, Typed, TypeOK, TaskRows
<1> DEFINE Goal == /\ task'[x].status = "promoted" => task'[x].child # None
                   /\ task'[x].child # None =>
                          /\ task'[x].status \in {"promoted", "completed"}
                          /\ child'[task'[x].child].status \in {"open", "closed"}
                          /\ child'[task'[x].child].source = x
<1>1. task'[x] = task[x] /\ child' = child => Goal
  BY <1>0 DEF Planned
<1>2. ASSUME RouteToIt \/ \E r \in Requests : CommitTransfer(r) PROVE Goal
  BY <1>1, <1>2, MovedTasks
<1>3. ASSUME NEW r \in Requests, NEW y \in Tasks, CommitCreate(r, y) PROVE Goal
  BY <1>1, <1>3, CreatedTask
<1>4. ASSUME NEW r \in Requests, CommitAssign(r) PROVE Goal
  BY <1>1, <1>4, AssignedTask DEF CommitAssign
<1>5. ASSUME NEW y \in Tasks, NEW n \in Numbers, NewSubTicket(y, n) PROVE Goal
  <2>1. n # None /\ child[n] = Absent
    BY <1>5, NoneNoNumber, NewNumber
  <2>2. /\ task'[y].child = n
        /\ task'[y].status = "promoted"
        /\ child'[n].status = "open"
        /\ child'[n].source = y
        /\ \A z \in Tasks \ {y} : task'[z] = task[z]
        /\ \A m \in Numbers \ {n} : child'[m] = child[m]
    BY <1>5, PromotedTask, PromotedChild
  <2>3. CASE x = y
    BY <2>1, <2>2, <2>3
  <2>4. CASE x # y
    <3>1. task'[x] = task[x] /\ Planned(x)
      BY <2>2, <2>4 DEF Planned
    <3>2. task[x].child # n
      BY <1>0, <2>1, <3>1 DEF Absent
    <3> QED
      BY <1>0, <2>2, <3>1, <3>2
  <2> QED
    BY <2>3, <2>4
<1>6. ASSUME NEW r \in Requests, CommitPromote(r) PROVE Goal
  BY <1>5, <1>6, SubTicketsAreNew
<1>7. ASSUME NEW y \in Tasks, AssignTeam(y) PROVE Goal
  BY <1>5, <1>7, SubTicketsAreNew
<1>8. ASSUME NEW n \in Numbers, NEW status \in {"open", "closed"}, task' = task,
             child[n].status \in {"open", "closed"}, child' = [child EXCEPT ![n].status = status]
      PROVE  Goal
  <2>1. Planned(x)
    BY <1>8 DEF Planned
  <2>2. child[n] \in SubTickets
    BY <1>8 DEF Typed, TypeOK, Absent
  <2>3. child'[n].status = status /\ child'[n].source = child[n].source
    BY <1>8, <2>2 DEF Typed, TypeOK, SubTickets
  <2>4. \A m \in Numbers \ {n} : child'[m] = child[m]
    BY <1>8 DEF Typed, TypeOK
  <2> QED
    BY <1>0, <1>8, <2>1, <2>3, <2>4
<1>9. ASSUME NEW n \in Numbers, ResubmitChild(n) \/ CloseChild(n) PROVE Goal
  BY <1>8, <1>9 DEF ResubmitChild, CloseChild
<1>10. ASSUME NEW r \in Requests, NEW n \in Numbers, BeginDelete(r, n) PROVE Goal
  BY <1>1, <1>10, UnlinkedTask DEF BeginDelete
<1>11. ASSUME NEW r \in Requests, CommitDelete(r) PROVE Goal
  <2>1. Planned(x) /\ task' = task
    BY <1>11 DEF CommitDelete, Planned
  <2>2. task[x].child # request[r].child
    BY <1>11, <2>1 DEF CommitDelete, Unlinked
  <2>3. \A m \in Numbers \ {request[r].child} : child'[m] = child[m]
    BY <1>11 DEF CommitDelete, Typed, TypeOK
  <2> QED
    BY <1>0, <2>1, <2>2, <2>3
<1>12. ASSUME NEW r \in Requests, CommitClose(r) PROVE Goal
  <2>1. child' = child
    BY <1>12 DEF CommitClose
  <2> QED
    BY <1>0, <1>12, <2>1, ClosedTask
<1>13. task' = task /\ child' = child => Goal
  BY <1>1
<1> HIDE DEF Goal
<1>14. Goal
  BY <1>2, <1>3, <1>4, <1>9, <1>10, <1>11, <1>12, <1>13, <1>6, <1>7
     DEF Next, Routing, Planning, Closing, SubmitForTriage, TriageMulti, ClaimItTicket,
         HandoverItTicket, BeginTransfer, BeginCreate, BeginAssign, BeginPromote,
         BeginClose, CheckChildren, LockToClose, BeginConfirm, CommitConfirm, GiveUp,
         Remember, vars
<1> QED
  BY <1>14 DEF Goal

\* A task that has a sub-ticket has had it, or has just been promoted.
LEMMA TasksChange ==
    ASSUME Typed, ReadLate, [Next]_vars,
           NEW x \in Tasks, Planned(x)', task'[x].child # None
    PROVE  \/ Planned(x) /\ task'[x].child = task[x].child /\ task'[x].dept = task[x].dept
           \/ \E n \in Numbers : NewSubTicket(x, n) /\ task'[x].child = n
<1> DEFINE Same == Planned(x) /\ task'[x].child = task[x].child /\ task'[x].dept = task[x].dept
           New == \E n \in Numbers : NewSubTicket(x, n) /\ task'[x].child = n
<1>1. task'[x] = task[x] => Same
  BY DEF Planned
<1>2. ASSUME RouteToIt \/ \E r \in Requests : CommitTransfer(r) PROVE Same
  BY <1>1, <1>2, MovedTasks
<1>3. ASSUME NEW r \in Requests, NEW y \in Tasks, CommitCreate(r, y) PROVE Same
  BY <1>1, <1>3, CreatedTask
<1>4. ASSUME NEW r \in Requests, CommitAssign(r) PROVE Same
  BY <1>1, <1>4, AssignedTask
<1>5. ASSUME NEW y \in Tasks, NEW n \in Numbers, NewSubTicket(y, n) PROVE Same \/ New
  <2>1. task'[y].child = n /\ \A z \in Tasks \ {y} : task'[z] = task[z]
    BY <1>5, PromotedTask
  <2>2. x = y => New
    BY <1>5, <2>1
  <2>3. x # y => Same
    BY <1>1, <2>1
  <2> QED
    BY <2>2, <2>3
<1>6. ASSUME NEW r \in Requests, CommitPromote(r) PROVE Same \/ New
  BY <1>5, <1>6, SubTicketsAreNew
<1>7. ASSUME NEW y \in Tasks, AssignTeam(y) PROVE Same \/ New
  BY <1>5, <1>7, SubTicketsAreNew
<1>8. ASSUME NEW r \in Requests, NEW n \in Numbers, BeginDelete(r, n) PROVE Same
  BY <1>1, <1>8, UnlinkedTask
<1>9. ASSUME NEW r \in Requests, CommitClose(r) PROVE Same
  BY <1>9, ClosedTask
<1>10. task' = task => Same
  BY <1>1
<1> HIDE DEF Same, New
<1>11. Same \/ New
  BY <1>2, <1>3, <1>4, <1>6, <1>7, <1>8, <1>9, <1>10
     DEF Next, Routing, Planning, Closing, SubmitForTriage, ResubmitChild, TriageMulti,
         ClaimItTicket, HandoverItTicket, BeginTransfer, BeginCreate, BeginAssign,
         BeginPromote, CloseChild, CommitDelete, BeginClose, CheckChildren, LockToClose,
         BeginConfirm, CommitConfirm, GiveUp, Remember, vars
<1> QED
  BY <1>11 DEF Same, New

\* Deletions begin and end one at a time.
LEMMA DeletionsChange ==
    ASSUME Typed, [Next]_vars, NEW s \in Requests
    PROVE  /\ request'[s].step = "deleting" =>
                  \/ request'[s] = request[s]
                  \/ \E n \in Numbers : BeginDelete(s, n) /\ request'[s].child = n
           /\ request[s].step = "deleting" =>
                  request'[s] = request[s] \/ CommitDelete(s) \/ GiveUp(s)
<1> DEFINE New == \E n \in Numbers : BeginDelete(s, n) /\ request'[s].child = n
<1>1. Idle.step # "deleting"
  BY DEF Idle
<1>2. ASSUME NEW r \in Requests, Done(r) PROVE request'[s] = request[s] \/ (s = r /\ request'[s] = Idle)
  BY <1>2 DEF Done, Typed, TypeOK
<1>3. ASSUME NEW r \in Requests, NEW what, Remember(r, what), what.step # "deleting"
      PROVE  /\ request'[s].step = "deleting" => request'[s] = request[s]
             /\ request[s].step = "deleting" => request'[s] = request[s]
  BY <1>1, <1>3 DEF Remember, Typed, TypeOK
<1>4. ASSUME NEW r \in Requests,
             \/ \E d \in Departments, kind \in Kinds : BeginTransfer(r, d, kind)
             \/ \E d \in Departments : BeginCreate(r, d)
             \/ \E x \in Tasks : BeginAssign(r, x) \/ BeginPromote(r, x)
             \/ BeginClose(r) \/ BeginConfirm(r)
      PROVE  /\ request'[s].step = "deleting" => request'[s] = request[s]
             /\ request[s].step = "deleting" => request'[s] = request[s]
  BY <1>3, <1>4 DEF BeginTransfer, BeginCreate, BeginAssign, BeginPromote, BeginClose, BeginConfirm
<1>5. ASSUME NEW r \in Requests, CheckChildren(r) \/ LockToClose(r)
      PROVE  /\ request'[s].step = "deleting" => request'[s] = request[s]
             /\ request[s].step = "deleting" => request'[s] = request[s]
  BY <1>5 DEF CheckChildren, LockToClose, Typed, TypeOK
<1>6. ASSUME NEW r \in Requests, NEW n \in Numbers, BeginDelete(r, n)
      PROVE  /\ request'[s] = request[s] \/ New
             /\ request[s].step = "deleting" => request'[s] = request[s]
  <2>1. s # r => request'[s] = request[s]
    BY <1>6 DEF BeginDelete, Typed, TypeOK
  <2>2. s = r => request'[s] = [step |-> "deleting", child |-> n] /\ request[s] = Idle
    BY <1>6 DEF BeginDelete, Typed, TypeOK
  <2> QED
    BY <1>1, <1>6, <2>1, <2>2
<1>7. ASSUME NEW r \in Requests,
             \/ CommitTransfer(r) \/ CommitAssign(r) \/ CommitPromote(r)
             \/ CommitClose(r) \/ CommitConfirm(r)
             \/ \E x \in Tasks : CommitCreate(r, x)
      PROVE  Done(r) /\ request[r].step # "deleting"
  BY <1>7 DEF CommitTransfer, CommitAssign, CommitPromote, CommitClose, CommitConfirm, CommitCreate
<1>8. ASSUME NEW r \in Requests, CommitDelete(r) \/ GiveUp(r)
      PROVE  Done(r)
  BY <1>8 DEF CommitDelete, GiveUp
<1> HIDE DEF New
<1>9. /\ request'[s].step = "deleting" => request'[s] = request[s] \/ New
      /\ request[s].step = "deleting" =>
             request'[s] = request[s] \/ CommitDelete(s) \/ GiveUp(s)
  <2>1. CASE Routing
    BY <1>1, <1>2, <1>4, <1>7, <2>1
       DEF Routing, SubmitForTriage, ResubmitChild, TriageMulti, RouteToIt, ClaimItTicket,
           HandoverItTicket
  <2>2. CASE Planning
    BY <1>1, <1>2, <1>4, <1>7, <2>2 DEF Planning, AssignTeam
  <2>3. CASE Closing
    BY <1>1, <1>2, <1>4, <1>5, <1>6, <1>7, <1>8, <2>3 DEF Closing, CloseChild
  <2>4. CASE UNCHANGED vars
    BY <2>4 DEF vars
  <2> QED
    BY <2>1, <2>2, <2>3, <2>4 DEF Next
<1> QED
  BY <1>9 DEF New

LEMMA UnlinkedStep ==
    ASSUME Numbered, Unlinked, [Next]_vars, Typed'
    PROVE  Unlinked'
<1> SUFFICES ASSUME NEW s \in Requests, request'[s].step = "deleting",
                    NEW x \in Tasks, Planned(x)', task'[x].child = request'[s].child
             PROVE  FALSE
  BY DEF Unlinked
<1> Typed /\ ReadLate
  BY DEF Numbered
<1>1. request'[s].child \in Numbers
  <2>1. request'[s] \in RequestStates
    BY DEF Typed, TypeOK
  <2> QED
    BY <2>1 DEF RequestStates, Idle
<1>2. task'[x].child # None
  BY <1>1, NoneNoNumber
<1>3. CASE request'[s] = request[s]
  <2>1. child[request[s].child] # Absent
    BY <1>3 DEF Typed, Referring, RefersToRows
  <2>2. ASSUME NEW n \in Numbers, NewSubTicket(x, n) PROVE task'[x].child # request[s].child
    <3>1. child[n] = Absent
      BY <2>2, NewNumber
    <3>2. task'[x].child = n
      BY <2>2, PromotedTask
    <3> QED
      BY <2>1, <3>1, <3>2
  <2>3. Planned(x) => task[x].child # request[s].child
    BY <1>3 DEF Unlinked
  <2> QED
    BY <1>2, <1>3, <2>2, <2>3, TasksChange
<1>4. ASSUME NEW n \in Numbers, BeginDelete(s, n), request'[s].child = n PROVE FALSE
  BY <1>2, <1>4, UnlinkedTask
<1> QED
  BY <1>3, <1>4, DeletionsChange

\* Only its deletion takes a sub-ticket from its task.
LEMMA LinkKept ==
    ASSUME Typed, ReadLate, [Next]_vars,
           NEW x \in Tasks, Planned(x), NEW n \in Numbers, task[x].child = n
    PROVE  task'[x].child = n \/ \E r \in Requests : BeginDelete(r, n)
<1> DEFINE Goal == task'[x].child = n \/ \E r \in Requests : BeginDelete(r, n)
<1>0. Planned(x)' /\ n # None
  BY KeptStep, NoneNoNumber DEF Kept, Typed
<1>1. task'[x] = task[x] => Goal
  OBVIOUS
<1>2. ASSUME RouteToIt \/ \E r \in Requests : CommitTransfer(r) PROVE Goal
  <2>1. Begun(Now, x)
    BY <1>0 DEF Begun, Now
  <2> QED
    BY <1>0, <1>1, <1>2, <2>1, MovedTasks
<1>3. ASSUME NEW r \in Requests, NEW y \in Tasks, CommitCreate(r, y) PROVE Goal
  BY <1>1, <1>3, CreatedTask
<1>4. ASSUME NEW r \in Requests, CommitAssign(r) PROVE Goal
  BY <1>0, <1>1, <1>4, AssignedTask
<1>5. ASSUME NEW y \in Tasks, NEW m \in Numbers, NewSubTicket(y, m) PROVE Goal
  <2>1. x # y
    BY <1>0, <1>5 DEF NewSubTicket
  <2> QED
    BY <1>1, <1>5, <2>1, PromotedTask
<1>6. ASSUME NEW r \in Requests, CommitPromote(r) PROVE Goal
  BY <1>5, <1>6, SubTicketsAreNew
<1>7. ASSUME NEW y \in Tasks, AssignTeam(y) PROVE Goal
  BY <1>5, <1>7, SubTicketsAreNew
<1>8. ASSUME NEW r \in Requests, NEW m \in Numbers, BeginDelete(r, m) PROVE Goal
  <2>1. task[x].child # m => task'[x] = task[x]
    BY <1>0, <1>8, UnlinkedTask
  <2> QED
    BY <1>1, <1>8, <2>1
<1>9. ASSUME NEW r \in Requests, CommitClose(r) PROVE Goal
  BY <1>0, <1>9, ClosedTask
<1>10. task' = task => Goal
  BY <1>1
<1> HIDE DEF Goal
<1>11. Goal
  BY <1>2, <1>3, <1>4, <1>6, <1>7, <1>8, <1>9, <1>10
     DEF Next, Routing, Planning, Closing, SubmitForTriage, ResubmitChild, TriageMulti,
         ClaimItTicket, HandoverItTicket, BeginTransfer, BeginCreate, BeginAssign,
         BeginPromote, CloseChild, CommitDelete, BeginClose, CheckChildren, LockToClose,
         BeginConfirm, CommitConfirm, GiveUp, Remember, vars
<1> QED
  BY <1>11 DEF Goal

\* A sub-ticket that is there is new, or was there for the same task.
LEMMA AliveChange ==
    ASSUME Numbered, [Next]_vars, NEW n \in Numbers, child'[n].status \in {"open", "closed"}
    PROVE  \/ \E x \in Tasks : NewSubTicket(x, n)
           \/ n \in Alive /\ child'[n].source = child[n].source
<1> Typed /\ ReadLate
  BY DEF Numbered
<1>1. child'[n] = child[n] => n \in Alive /\ child'[n].source = child[n].source
  BY DEF Alive
<1>2. ASSUME NEW x \in Tasks, NEW m \in Numbers, NewSubTicket(x, m), m # n
      PROVE  child'[n] = child[n]
  BY <1>2, PromotedChild
<1>3. ASSUME NEW m \in Numbers, NEW status, child' = [child EXCEPT ![m].status = status]
      PROVE  /\ m # n => child'[n] = child[n]
             /\ m = n => child'[n] = [child[n] EXCEPT !.status = status]
  BY <1>3 DEF Typed, TypeOK
<1>4. ASSUME child[n].status \in {"open", "closed"}, NEW status,
             child'[n] = [child[n] EXCEPT !.status = status]
      PROVE  n \in Alive /\ child'[n].source = child[n].source
  <2>1. child[n] \in SubTickets
    BY <1>4, RowsByStatus DEF Typed, TypeOK
  <2> QED
    BY <1>4, <2>1 DEF Alive, SubTickets
<1>5. ASSUME child' = [child EXCEPT ![n].status = "deleted"], child[n] # Absent PROVE FALSE
  <2>1. child[n] \in SubTickets
    BY <1>5 DEF Typed, TypeOK
  <2>2. child'[n].status = "deleted"
    BY <1>5, <2>1 DEF Typed, TypeOK, SubTickets
  <2> QED
    BY <2>2
<1>6. \A r \in Requests : request[r].step = "deleting" => child[request[r].child] # Absent
  BY DEF Typed, Referring, RefersToRows
<1>7. ASSUME NEW m \in Numbers, NEW status, child' = [child EXCEPT ![m].status = status],
             m = n => child[n].status \in {"open", "closed"}
      PROVE  n \in Alive /\ child'[n].source = child[n].source
  BY <1>1, <1>3, <1>4, <1>7
<1>8. ASSUME NEW r \in Requests, request[r].step = "deleting",
             NEW m \in Numbers, request[r].child = m,
             child' = [child EXCEPT ![m].status = "deleted"]
      PROVE  n \in Alive /\ child'[n].source = child[n].source
  BY <1>5, <1>6, <1>7, <1>8
<1>9. ASSUME NEW x \in Tasks, NEW m \in Numbers, NewSubTicket(x, m)
      PROVE  \/ \E y \in Tasks : NewSubTicket(y, n)
             \/ n \in Alive /\ child'[n].source = child[n].source
  BY <1>1, <1>2, <1>9
<1> QED
  BY <1>1, <1>7, <1>8, <1>9, ChildrenChange

LEMMA ChildrenLinkedStep ==
    ASSUME "crashes" \notin Allowed, Numbered, ChildrenLinked, [Next]_vars, Typed'
    PROVE  ChildrenLinked'
<1> SUFFICES ASSUME NEW n \in Numbers, child'[n].status \in {"open", "closed"}
             PROVE  \/ Planned(child[n].source)' /\ task'[child'[n].source].child = n
                    \/ Deleting(n)'
  BY DEF ChildrenLinked, Alive
<1> Typed /\ ReadLate
  BY DEF Numbered
<1>0. Kept
  BY KeptStep DEF Typed
<1>1. ASSUME NEW x \in Tasks, NewSubTicket(x, n)
      PROVE  Planned(child[n].source)' /\ task'[child'[n].source].child = n
  <2>1. child'[n].source = x /\ task'[x].child = n
    BY <1>1, PromotedTask, PromotedChild
  <2>2. Planned(x)'
    BY <1>0, <1>1 DEF Kept, NewSubTicket
  <2> QED
    BY <2>1, <2>2 DEF Planned
<1>2. ASSUME NEW s \in Requests, request[s].step = "deleting", request[s].child = n
      PROVE  Deleting(n)'
  <2>1. ~GiveUp(s)
    BY <1>2 DEF GiveUp
  <2>2. ~CommitDelete(s)
    <3>1. child[n] \in SubTickets
      BY <1>2 DEF Typed, Referring, RefersToRows, TypeOK
    <3>2. CommitDelete(s) => child'[n].status = "deleted"
      BY <1>2, <3>1 DEF CommitDelete, Typed, TypeOK, SubTickets
    <3> QED
      BY <3>2
  <2> QED
    BY <1>2, <2>1, <2>2, DeletionsChange DEF Deleting
<1>3. ASSUME n \in Alive, child'[n].source = child[n].source,
             Planned(child[n].source), task[child[n].source].child = n
      PROVE  \/ Planned(child[n].source)' /\ task'[child'[n].source].child = n
             \/ Deleting(n)'
  <2> DEFINE x == child[n].source
  <2>1. x \in Tasks
    BY <1>3, RowsByStatus DEF Alive, Typed, TypeOK, SubTickets
  <2>2. Planned(x)'
    BY <1>0, <1>3, <2>1 DEF Kept
  <2>3. ASSUME NEW r \in Requests, BeginDelete(r, n) PROVE Deleting(n)'
    <3>1. request'[r] = [step |-> "deleting", child |-> n]
      BY <2>3 DEF BeginDelete, Typed, TypeOK
    <3> QED
      BY <3>1 DEF Deleting
  <2>4. task'[x].child = n \/ Deleting(n)'
    BY <1>3, <2>1, <2>3, LinkKept
  <2> QED
    BY <1>3, <2>2, <2>4 DEF Planned
<1> QED
  BY <1>1, <1>2, <1>3, AliveChange DEF ChildrenLinked, Deleting

Linked == Numbered /\ TasksLinked /\ Unlinked

LEMMA LinkedAlways ==
    ASSUME "earlyViews" \notin Allowed
    PROVE  Spec => []Linked
<1>1. Init => TasksLinked /\ Unlinked
  BY DEF Init, TasksLinked, TaskLinked, Unlinked, Planned, Idle
<1>2. Numbered /\ Numbered' /\ TasksLinked /\ Unlinked /\ [Next]_vars => TasksLinked' /\ Unlinked'
  BY TasksLinkedStep, UnlinkedStep DEF Numbered
<1> QED
  BY <1>1, <1>2, NumberedAlways, PTL DEF Spec, Linked

\* However requests promote, delete, transfer and close at a time, a task and
\* its sub-ticket point at each other, and no sub-ticket is left without its
\* task but one that is being deleted.  Closing writes to tasks that a deletion
\* has taken from their sub-tickets since it read them, but links none of them.
THEOREM TasksAndChildrenStayLinked ==
    ASSUME "earlyViews" \notin Allowed, "crashes" \notin Allowed
    PROVE  Spec => []TaskAndChildLinked
<1>1. Init => ChildrenLinked
  BY DEF Init, ChildrenLinked, Alive, Absent
<1>2. Linked /\ Linked' /\ ChildrenLinked /\ [Next]_vars => ChildrenLinked'
  BY ChildrenLinkedStep DEF Linked, Numbered
<1>3. Linked /\ ChildrenLinked => TaskAndChildLinked
  BY DEF Linked, TasksLinked, TaskLinked, ChildrenLinked, Deleting, TaskAndChildLinked
<1> QED
  BY <1>1, <1>2, <1>3, LinkedAlways, PTL DEF Spec

-----------------------------------------------------------------------------
(* Tasks and their departments.                                            *)

\* A task whose department changes its kind is one that nobody works on.
LEMMA KindsChange ==
    ASSUME Typed, ReadLate, [Next]_vars, NEW x \in Tasks, Planned(x)
    PROVE  \/ dept'[task[x].dept].kind = dept[task[x].dept].kind
           \/ task'[x].staff = "nobody" /\ task'[x].child = None
<1> DEFINE d == task[x].dept
           Goal == \/ dept'[d].kind = dept[d].kind
                   \/ task'[x].staff = "nobody" /\ task'[x].child = None
<1>0. Planned(x)' /\ d \in Departments /\ Present(d) /\ dept[d] \in DepartmentRows
  BY KeptStep DEF Kept, Typed, Placed, Planned, Present, TypeOK, TaskRows
<1>1. dept'[d] = dept[d] => Goal
  OBVIOUS
<1>2. ASSUME NEW e, dept' = [dept EXCEPT ![e].status = "active"] PROVE Goal
  <2>1. e # d => dept'[d] = dept[d]
    BY <1>0, <1>2 DEF Typed, TypeOK
  <2>2. e = d => dept'[d] = [dept[d] EXCEPT !.status = "active"]
    BY <1>0, <1>2 DEF Typed, TypeOK
  <2> QED
    BY <1>0, <2>1, <2>2 DEF DepartmentRows
<1>3. ASSUME NEW kinds \in SUBSET Kinds, NEW first \in kinds, TriageMulti(kinds, first) PROVE FALSE
  BY <1>0, <1>3 DEF TriageMulti, Routed
<1>4. ASSUME RouteToIt \/ \E r \in Requests : CommitTransfer(r) PROVE Goal
  BY <1>0, <1>1, <1>4, MovedTasks
<1>5. ASSUME NEW e \in Departments, NEW claimed \in BOOLEAN,
             ClaimItTicket(e) \/ HandoverItTicket(e, claimed)
      PROVE  Goal
  <2>1. e # d => dept'[d] = dept[d]
    BY <1>0, <1>5 DEF ClaimItTicket, HandoverItTicket, Typed, TypeOK
  <2>2. e = d => \/ dept'[d] = [[dept[d] EXCEPT !.claimed = TRUE] EXCEPT !.status = "active"]
                 \/ dept'[d] = [dept[d] EXCEPT !.claimed = claimed]
    BY <1>0, <1>5 DEF ClaimItTicket, HandoverItTicket, Typed, TypeOK
  <2> QED
    BY <1>0, <2>1, <2>2 DEF DepartmentRows
<1>6. ASSUME NEW r \in Requests, CommitClose(r) PROVE Goal
  <2>1. dept'[d] = dept[d] \/ dept'[d] = [dept[d] EXCEPT !.status = "completed"]
    BY <1>0, <1>6 DEF CommitClose, Completed
  <2> QED
    BY <1>0, <2>1 DEF DepartmentRows
<1>7. dept' = dept => Goal
  BY <1>1
<1>8. ASSUME NEW r \in Requests, NEW y \in Tasks, CommitCreate(r, y) PROVE Goal
  BY <1>2, <1>7, <1>8 DEF CommitCreate
<1>9. ASSUME NEW r \in Requests, CommitAssign(r) PROVE Goal
  BY <1>2, <1>9 DEF CommitAssign
<1>10. ASSUME NEW y \in Tasks, AssignTeam(y) PROVE Goal
  BY <1>2, <1>10 DEF AssignTeam
<1> HIDE DEF Goal
<1>11. Goal
  BY <1>3, <1>4, <1>5, <1>6, <1>7, <1>8, <1>9, <1>10
     DEF Next, Routing, Planning, Closing, SubmitForTriage, ResubmitChild, BeginTransfer,
         BeginCreate, BeginAssign, BeginPromote, CommitPromote, CloseChild, BeginDelete,
         CommitDelete, BeginClose, CheckChildren, LockToClose, BeginConfirm, CommitConfirm,
         GiveUp, Remember, vars
<1> QED
  BY <1>11 DEF Goal

LEMMA ChildKindStep ==
    ASSUME Linked, Linked', ChildInItsDepartment, [Next]_vars
    PROVE  ChildInItsDepartment'
<1> SUFFICES ASSUME NEW x \in Tasks, Planned(x)', task'[x].child # None
             PROVE  child'[task'[x].child].kind = dept'[task'[x].dept].kind
  BY DEF ChildInItsDepartment
<1> Typed /\ ReadLate /\ Numbered
  BY DEF Linked, Numbered
<1>1. CASE Planned(x) /\ task'[x].child = task[x].child /\ task'[x].dept = task[x].dept
  <2> DEFINE m == task[x].child
  <2>1. m \in Numbers /\ child[m] \in SubTickets
    <3>1. m \in Numbers
      BY <1>1 DEF Planned, Typed, TypeOK, TaskRows
    <3>2. child[m].status \in {"open", "closed"}
      BY <1>1 DEF Linked, TasksLinked, TaskLinked
    <3> QED
      BY <3>1, <3>2, RowsByStatus DEF Typed, TypeOK
  <2>2. child'[m].kind = child[m].kind
    <3>1. ASSUME NEW y \in Tasks, NEW n \in Numbers, NewSubTicket(y, n)
          PROVE  child'[m] = child[m]
      <4>1. m # n
        BY <2>1, <3>1, NewNumber, RowsDiffer
      <4> QED
        BY <2>1, <3>1, <4>1, PromotedChild
    <3>2. ASSUME NEW n \in Numbers, NEW status, child' = [child EXCEPT ![n].status = status]
          PROVE  child'[m].kind = child[m].kind
      <4>1. child'[m] = child[m] \/ child'[m] = [child[m] EXCEPT !.status = status]
        BY <2>1, <3>2 DEF Typed, TypeOK
      <4> QED
        BY <2>1, <4>1 DEF SubTickets
    <3> QED
      BY <3>1, <3>2, ChildrenChange
  <2>3. dept'[task[x].dept].kind = dept[task[x].dept].kind
    BY <1>1, KindsChange
  <2> QED
    BY <1>1, <2>2, <2>3 DEF ChildInItsDepartment
<1>2. ASSUME NEW n \in Numbers, NewSubTicket(x, n), task'[x].child = n
      PROVE  child'[task'[x].child].kind = dept'[task'[x].dept].kind
  <2>1. task'[x].dept = task[x].dept /\ Planned(x)
    BY <1>2, PromotedTask DEF NewSubTicket
  <2>2. child'[n].kind = dept[task[x].dept].kind
    BY <1>2, PromotedChild
  <2>3. dept'[task[x].dept].kind = dept[task[x].dept].kind
    BY <2>1, KindsChange
  <2> QED
    BY <1>2, <2>1, <2>2, <2>3
<1> QED
  BY <1>1, <1>2, TasksChange

\* A sub-ticket is of the kind of the department its task belongs to, also when
\* the ticket is given to other departments while tasks are being promoted.
THEOREM ChildrenStayInTheirDepartment ==
    ASSUME "earlyViews" \notin Allowed
    PROVE  Spec => []ChildInItsDepartment
<1>1. Init => ChildInItsDepartment
  BY DEF Init, ChildInItsDepartment, Planned
<1>2. Linked /\ Linked' /\ ChildInItsDepartment /\ [Next]_vars => ChildInItsDepartment'
  BY ChildKindStep
<1> QED
  BY <1>1, <1>2, LinkedAlways, PTL DEF Spec

\* A task gets staff when it is created or assigned, and else keeps what it has.
LEMMA StaffChange ==
    ASSUME Typed, ReadLate, [Next]_vars,
           NEW x \in Tasks, Planned(x)', task'[x].staff # "nobody"
    PROVE  \/ Planned(x) /\ task'[x].staff = task[x].staff /\ task'[x].dept = task[x].dept
           \/ \E r \in Requests : CommitCreate(r, x)
           \/ \E r \in Requests : CommitAssign(r) /\ request[r].task = x
<1> DEFINE Same == Planned(x) /\ task'[x].staff = task[x].staff /\ task'[x].dept = task[x].dept
           Given == \/ \E r \in Requests : CommitCreate(r, x)
                    \/ \E r \in Requests : CommitAssign(r) /\ request[r].task = x
<1>1. task'[x] = task[x] => Same
  BY DEF Planned
<1>2. ASSUME RouteToIt \/ \E r \in Requests : CommitTransfer(r) PROVE Same
  BY <1>1, <1>2, MovedTasks
<1>3. ASSUME NEW r \in Requests, NEW y \in Tasks, CommitCreate(r, y) PROVE Same \/ Given
  BY <1>1, <1>3, CreatedTask
<1>4. ASSUME NEW r \in Requests, CommitAssign(r) PROVE Same \/ Given
  BY <1>1, <1>4, AssignedTask
<1>5. ASSUME NEW y \in Tasks, NEW n \in Numbers, NewSubTicket(y, n) PROVE Same
  <2>1. /\ task'[y].staff = task[y].staff
        /\ task'[y].dept = task[y].dept
        /\ \A z \in Tasks \ {y} : task'[z] = task[z]
    BY <1>5, PromotedTask
  <2> QED
    BY <1>1, <1>5, <2>1 DEF NewSubTicket
<1>6. ASSUME NEW r \in Requests, CommitPromote(r) PROVE Same
  BY <1>5, <1>6, SubTicketsAreNew
<1>7. ASSUME NEW y \in Tasks, AssignTeam(y) PROVE Same
  BY <1>5, <1>7, SubTicketsAreNew
<1>8. ASSUME NEW r \in Requests, NEW n \in Numbers, BeginDelete(r, n) PROVE Same
  BY <1>8, UnlinkedTask
<1>9. ASSUME NEW r \in Requests, CommitClose(r) PROVE Same
  BY <1>9, ClosedTask
<1>10. task' = task => Same
  BY <1>1
<1> HIDE DEF Same, Given
<1>11. Same \/ Given
  BY <1>2, <1>3, <1>4, <1>6, <1>7, <1>8, <1>9, <1>10
     DEF Next, Routing, Planning, Closing, SubmitForTriage, ResubmitChild, TriageMulti,
         ClaimItTicket, HandoverItTicket, BeginTransfer, BeginCreate, BeginAssign,
         BeginPromote, CloseChild, CommitDelete, BeginClose, CheckChildren, LockToClose,
         BeginConfirm, CommitConfirm, GiveUp, Remember, vars
<1> QED
  BY <1>11 DEF Same, Given

LEMMA StaffStep ==
    ASSUME Typed, ReadLate, [Next]_vars, StaffMatchesDepartment,
           NEW x \in Tasks, Planned(x)', task'[x].staff # "nobody"
    PROVE  task'[x].staff = Staff(dept'[task'[x].dept].kind)
<1>1. CASE Planned(x) /\ task'[x].staff = task[x].staff /\ task'[x].dept = task[x].dept
  BY <1>1, KindsChange DEF StaffMatchesDepartment
<1>2. ASSUME NEW r \in Requests, CommitCreate(r, x)
      PROVE  task'[x].staff = Staff(dept'[task'[x].dept].kind)
  <2> DEFINE d == request[r].dept
  <2>1. request[r].kind = "it" /\ task'[x].staff = "it" /\ task'[x].dept = d
    BY <1>2, CreatedTask
  <2>2. Seen(request[r]) = Now
    BY <1>2, SeenIsNow DEF CommitCreate
  <2>3. dept[d].kind = "it"
    BY <1>2, <2>1, <2>2 DEF CommitCreate, KindKept, Now
  <2>4. d \in Departments /\ dept[d] \in DepartmentRows
    BY <1>2, RequestTyped, DepartmentTyped DEF CommitCreate, Typed, Referring, RefersToRows
  <2>5. dept'[d] = [dept[d] EXCEPT !.status = "active"]
    BY <1>2, <2>1, <2>4 DEF CommitCreate, Typed, TypeOK
  <2>6. dept'[d].kind = "it"
    BY <2>3, <2>4, <2>5 DEF DepartmentRows
  <2> QED
    BY <2>1, <2>6 DEF Staff
<1>3. ASSUME NEW r \in Requests, CommitAssign(r), request[r].task = x
      PROVE  task'[x].staff = Staff(dept'[task'[x].dept].kind)
  BY <1>3, AssignedTask, KindsChange
<1> QED
  BY <1>1, <1>2, <1>3, StaffChange

LEMMA ClaimStep ==
    ASSUME Typed, Typed', [Next]_vars, StaffMatchesDepartment,
           NEW d \in Departments, Present(d)', dept'[d].claimed
    PROVE  dept'[d].kind = "it"
<1> DEFINE New == [kind |-> "it", claimed |-> FALSE, status |-> "planning"]
<1>0. Present(d) => dept[d] \in DepartmentRows /\ (dept[d].claimed => dept[d].kind = "it")
  BY DEF StaffMatchesDepartment, Routed, Present, Typed, TypeOK
<1>1. dept'[d] = dept[d] => dept'[d].kind = "it"
  BY <1>0 DEF Present
<1>2. ASSUME NEW status, Present(d), dept'[d] = [dept[d] EXCEPT !.status = status]
      PROVE  dept'[d].kind = "it"
  BY <1>0, <1>2 DEF DepartmentRows
<1>3. ASSUME NEW kind, NEW e, dept' = [dept EXCEPT ![e] =
                 [kind |-> kind, claimed |-> FALSE, status |-> "planning"]]
      PROVE  dept'[d].kind = "it"
  BY <1>1, <1>3 DEF Typed, TypeOK
<1>4. ASSUME NEW e, dept' = [dept EXCEPT ![e].status = "active"], e = d => Present(d)
      PROVE  dept'[d].kind = "it"
  BY <1>1, <1>2, <1>4 DEF Typed, TypeOK
<1>5. ASSUME NEW kinds \in SUBSET Kinds, NEW first \in kinds, TriageMulti(kinds, first)
      PROVE  dept'[d].kind = "it"
  <2>1. PICK named \in [Departments -> kinds \cup {"none"}] :
            dept' = [e \in Departments |->
                IF named[e] = "none" THEN Absent
                ELSE [kind |-> named[e], claimed |-> FALSE, status |-> "planning"]]
    BY <1>5 DEF TriageMulti
  <2>2. dept'[d] # Absent
    BY DEF Present
  <2> QED
    BY <2>1, <2>2
<1>6. RouteToIt => dept'[d].kind = "it"
  BY <1>3 DEF RouteToIt
<1>7. ASSUME NEW r \in Requests, CommitTransfer(r) PROVE dept'[d].kind = "it"
  BY <1>3, <1>7 DEF CommitTransfer
<1>8. ASSUME NEW e \in Departments, NEW claimed \in BOOLEAN,
             ClaimItTicket(e) \/ HandoverItTicket(e, claimed)
      PROVE  dept'[d].kind = "it"
  <2>1. e # d => dept'[d] = dept[d]
    BY <1>8 DEF ClaimItTicket, HandoverItTicket, Typed, TypeOK
  <2>2. CASE e = d
    <3>1. dept[d] \in DepartmentRows /\ dept[d].kind = "it"
      BY <1>8, <2>2 DEF ClaimItTicket, HandoverItTicket, KindKept, Now, Typed, TypeOK
    <3>2. \/ dept'[d] = [[dept[d] EXCEPT !.claimed = TRUE] EXCEPT !.status = "active"]
          \/ dept'[d] = [dept[d] EXCEPT !.claimed = claimed]
      BY <1>8, <2>2 DEF ClaimItTicket, HandoverItTicket, Typed, TypeOK
    <3> QED
      BY <3>1, <3>2 DEF DepartmentRows
  <2> QED
    BY <1>1, <2>1, <2>2
<1>9. ASSUME NEW r \in Requests, NEW x \in Tasks, CommitCreate(r, x) PROVE dept'[d].kind = "it"
  <2>1. Present(request[r].dept)
    BY <1>9 DEF CommitCreate, Typed, Referring, RefersToRows
  <2> QED
    BY <1>1, <1>4, <1>9, <2>1 DEF CommitCreate
<1>10. ASSUME NEW r \in Requests, CommitAssign(r) PROVE dept'[d].kind = "it"
  <2>1. Present(task[request[r].task].dept)
    BY <1>10, RequestTyped DEF CommitAssign, Typed, Placed, Referring, RefersToRows
  <2> QED
    BY <1>4, <1>10, <2>1 DEF CommitAssign
<1>11. ASSUME NEW x \in Tasks, AssignTeam(x) PROVE dept'[d].kind = "it"
  <2>1. Present(task[x].dept)
    BY <1>11 DEF AssignTeam, Typed, Placed
  <2> QED
    BY <1>4, <1>11, <2>1 DEF AssignTeam
<1>12. ASSUME NEW r \in Requests, CommitClose(r) PROVE dept'[d].kind = "it"
  <2>1. \/ dept'[d] = dept[d]
        \/ Present(d) /\ dept'[d] = [dept[d] EXCEPT !.status = "completed"]
    BY <1>12, ClosingSees DEF CommitClose, Completed, Typed
  <2> QED
    BY <1>1, <1>2, <2>1
<1>13. dept' = dept => dept'[d].kind = "it"
  BY <1>1
<1> QED
  BY <1>5, <1>6, <1>7, <1>8, <1>9, <1>10, <1>11, <1>12, <1>13
     DEF Next, Routing, Planning, Closing, SubmitForTriage, ResubmitChild, BeginTransfer,
         BeginCreate, BeginAssign, BeginPromote, CommitPromote, CloseChild, BeginDelete,
         CommitDelete, BeginClose, CheckChildren, LockToClose, BeginConfirm, CommitConfirm,
         GiveUp, Remember, vars

\* IT work stays with the IT team and other work with technicians, and only IT
\* departments are claimed, although the kind of a department may change
\* between the two checks of every request that gives a task to somebody.
THEOREM StaffFitsTheDepartment ==
    ASSUME "earlyViews" \notin Allowed
    PROVE  Spec => []StaffMatchesDepartment
<1>1. Init => StaffMatchesDepartment
  BY DEF Init, StaffMatchesDepartment, Routed, Present, Planned
<1>2. Numbered /\ Numbered' /\ StaffMatchesDepartment /\ [Next]_vars => StaffMatchesDepartment'
  BY StaffStep, ClaimStep DEF Numbered, StaffMatchesDepartment, Routed
<1> QED
  BY <1>1, <1>2, NumberedAlways, PTL DEF Spec
=============================================================================
