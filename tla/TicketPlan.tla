------------------------------ MODULE TicketPlan ------------------------------
(***************************************************************************)
(* The plan of one main ticket: the departments it was routed to, the      *)
(* tasks each of them plans, and the sub-tickets the tasks are promoted    *)
(* to, until the main ticket is closed.                                    *)
(*                                                                         *)
(* Most operations read the ticket, the department and the task, check     *)
(* them, and only then open a transaction that locks the rows in the order *)
(* ticket, department, task and checks again.  They are a Begin, which     *)
(* keeps what it read in the request, and a Commit.  What the second check *)
(* leaves out is what an interleaving can exploit, and what it sees depends *)
(* on when the database takes the read view of the transaction.  Closing   *)
(* the main ticket checks nothing again: it locks the ticket, reads the    *)
(* plan and writes what it has read.  Deleting a sub-ticket does not wait  *)
(* for that lock.                                                          *)
(***************************************************************************)
EXTENDS Integers, FiniteSets

CONSTANTS
    Departments,  \* rows of ticket_departments that may exist
    Tasks,        \* rows of ticket_tasks that may exist
    Requests,     \* connections
    Kinds,        \* the departments of the organisation
    MaxChildren,  \* bound on the sub-tickets ever made
    Allowed       \* which of Practices happen

Practices == {"resubmission", "deletion", "crashes", "rerouting", "earlyViews"}

ASSUME PlanAssumption ==
    /\ "it" \in Kinds
    /\ MaxChildren \in Nat
    /\ Allowed \subseteq Practices

VARIABLES
    ticket,  \* the main ticket: status, responsible kind, sub-ticket counter
    dept,    \* dept[d]: a department of the plan, or Absent
    task,    \* task[x]: a task of the plan, or Absent
    child,   \* child[n]: the sub-ticket with sequence number n, or Absent
    request  \* request[r]: what a request has read, or Idle

vars == <<ticket, dept, task, child, request>>

Absent == [status |-> "absent"]
Idle == [step |-> "idle"]
Late == [taken |-> "late"] \* a read view taken under the lock of the ticket

Numbers == 1..MaxChildren
None == 0 \* no sub-ticket

TicketStatuses == {"pending_triage", "department_planning", "closed", "requester_confirmed"}
Closed == {"closed", "requester_confirmed"} \* CLOSED_PARENT_STATUSES

TicketRows ==
    [status : TicketStatuses, kind : Kinds \cup {"unrouted"}, counter : 0..MaxChildren]
DepartmentRows ==
    [kind : Kinds, claimed : BOOLEAN, status : {"planning", "active", "completed"}]
TaskRows ==
    [dept : Departments, staff : {"nobody", "it", "technician"},
     status : {"pending_assignment", "assigned", "promoted", "completed"},
     child : Numbers \cup {None}]
SubTickets ==
    [status : {"open", "closed", "deleted"}, kind : Kinds, source : Tasks]
Plans ==
    [ticket : TicketRows, dept : [Departments -> DepartmentRows \cup {Absent}],
     task : [Tasks -> TaskRows \cup {Absent}]]
RequestStates ==
    {Idle}
    \cup [step : {"creating", "transferring"}, dept : Departments, kind : Kinds,
          seen : Plans \cup {Late}]
    \cup [step : {"assigning", "promoting"}, task : Tasks, kind : Kinds,
          seen : Plans \cup {Late}]
    \cup [step : {"closing", "confirming"}]
    \cup [step : {"finishing"}, seen : Plans \cup {Late}]
    \cup [step : {"completing"}, seen : Plans]
    \cup [step : {"deleting"}, child : Numbers]

TypeOK ==
    /\ ticket \in TicketRows
    /\ dept \in [Departments -> DepartmentRows \cup {Absent}]
    /\ task \in [Tasks -> TaskRows \cup {Absent}]
    /\ child \in [Numbers -> SubTickets \cup {Absent}]
    /\ request \in [Requests -> RequestStates]

Init ==
    /\ ticket = [status |-> "pending_triage", kind |-> "unrouted", counter |-> 0]
    /\ dept = [d \in Departments |-> Absent]
    /\ task = [x \in Tasks |-> Absent]
    /\ child = [n \in Numbers |-> Absent]
    /\ request = [r \in Requests |-> Idle]

-----------------------------------------------------------------------------
Present(d) == dept[d] # Absent
Planned(x) == task[x] # Absent
Alive == {n \in Numbers : child[n].status \in {"open", "closed"}}
Routed == {d \in Departments : Present(d)}
TasksOf(plan, d) == {x \in Tasks : plan.task[x] # Absent /\ plan.task[x].dept = d}

\* MySQL takes the read view of a transaction at its first SELECT without a
\* lock, which is under the lock of the ticket; TiDB takes it at BEGIN.
Now == [ticket |-> ticket, dept |-> dept, task |-> task]
ViewsTaken == {Late} \cup IF "earlyViews" \in Allowed THEN {Now} ELSE {}
Seen(q) == IF q.seen = Late THEN Now ELSE q.seen

\* No transaction holds the lock of the ticket: that of every other one than
\* closing is one step here.
TicketFree == \A r \in Requests : request[r].step # "completing"

\* assertDepartmentPlanEditable
Editable(plan) == plan.ticket.status \notin Closed

\* The department a request read is still of the kind it read.
KindKept(plan, d, kind) == plan.dept[d] # Absent /\ plan.dept[d].kind = kind

\* A task with a sub-ticket has begun: its department keeps it.
Begun(plan, x) ==
    plan.task[x].child # None \/ plan.task[x].status \in {"promoted", "completed"}

\* Tasks go back to be assigned anew.
Unstaffed(xs) ==
    [x \in Tasks |-> IF x \in xs
                     THEN [task[x] EXCEPT !.staff = "nobody", !.status = "pending_assignment"]
                     ELSE task[x]]

Remember(r, what) ==
    /\ request[r] = Idle
    /\ request' = [request EXCEPT ![r] = what]
    /\ UNCHANGED <<ticket, dept, task, child>>

Done(r) == request' = [request EXCEPT ![r] = Idle]

-----------------------------------------------------------------------------
(* Routing.                                                                *)

\* Any role outside the IT team sends a ticket of any status back to triage.
SubmitForTriage ==
    /\ TicketFree
    /\ ticket' = [ticket EXCEPT !.status = "pending_triage"]
    /\ UNCHANGED <<dept, task, child, request>>

\* triageMulti: the first department named is responsible for the ticket.
TriageMulti(kinds, first) ==
    /\ TicketFree
    /\ ticket.status = "pending_triage"
    /\ Routed = {}
    /\ \E named \in [Departments -> kinds \cup {"none"}] :
           /\ \A k \in kinds : \E d \in Departments : named[d] = k
           /\ \A d, e \in Departments : named[d] = named[e] /\ d # e => named[d] = "none"
           /\ dept' = [d \in Departments |->
                  IF named[d] = "none" THEN Absent
                  ELSE [kind |-> named[d], claimed |-> FALSE, status |-> "planning"]]
    /\ ticket' = [ticket EXCEPT !.status = "department_planning", !.kind = first]
    /\ UNCHANGED <<task, child, request>>

\* routeGeneralTicketToIt
RouteToIt ==
    /\ TicketFree
    /\ ticket.status \in {"pending_triage", "department_planning"}
    /\ ticket.kind # "it"
    /\ Cardinality(Routed) <= 1
    /\ \A x \in Tasks : Planned(x) => ~Begun(Now, x)
    /\ \E d \in Departments :
           /\ Routed \subseteq {d}
           /\ dept' = [dept EXCEPT ![d] =
                  [kind |-> "it", claimed |-> FALSE, status |-> "planning"]]
    /\ task' = Unstaffed({x \in Tasks : Planned(x)})
    /\ ticket' = [ticket EXCEPT !.status = "department_planning", !.kind = "it"]
    /\ UNCHANGED <<child, request>>

ClaimItTicket(d) ==
    /\ TicketFree
    /\ Editable(Now)
    /\ KindKept(Now, d, "it")
    /\ ~dept[d].claimed
    /\ dept' = [dept EXCEPT ![d].claimed = TRUE, ![d].status = "active"]
    /\ UNCHANGED <<ticket, task, child, request>>

\* handoverItTicket, to somebody or to nobody
HandoverItTicket(d, claimed) ==
    /\ TicketFree
    /\ Editable(Now)
    /\ KindKept(Now, d, "it")
    /\ dept' = [dept EXCEPT ![d].claimed = claimed]
    /\ UNCHANGED <<ticket, task, child, request>>

\* transferItTicket: the IT manager gives the ticket to another department.
BeginTransfer(r, d, kind) ==
    /\ ticket.status = "department_planning"
    /\ ticket.kind = "it"
    /\ KindKept(Now, d, "it")
    /\ kind # "it"
    /\ \A e \in Routed \ {d} : dept[e].kind # kind
    /\ \A x \in TasksOf(Now, d) : ~Begun(Now, x)
    /\ \E v \in ViewsTaken :
           Remember(r, [step |-> "transferring", dept |-> d, kind |-> kind, seen |-> v])

\* [A plausible bug: the tasks are not looked at again under the locks.]
CommitTransferBlindly(r) ==
    LET q == request[r] IN
    /\ TicketFree
    /\ q.step = "transferring"
    /\ task' = Unstaffed({x \in TasksOf(Now, q.dept) : task[x].child = None})
    /\ dept' = [dept EXCEPT ![q.dept] =
           [kind |-> q.kind, claimed |-> FALSE, status |-> "planning"]]
    /\ ticket' = [ticket EXCEPT !.status = "department_planning", !.kind = q.kind]
    /\ Done(r)
    /\ UNCHANGED child

\* Only the tasks are checked again, not the ticket and not the department;
\* a ticket has one row per kind of department.
CommitTransfer(r) ==
    LET q == request[r]
        plan == Seen(q)
    IN
    /\ TicketFree
    /\ q.step = "transferring"
    /\ \A x \in TasksOf(plan, q.dept) : ~Begun(plan, x)
    /\ \A e \in Routed \ {q.dept} : dept[e].kind # q.kind
    /\ task' = Unstaffed(TasksOf(plan, q.dept))
    /\ dept' = [dept EXCEPT ![q.dept] =
           [kind |-> q.kind, claimed |-> FALSE, status |-> "planning"]]
    /\ ticket' = [ticket EXCEPT !.status = "department_planning", !.kind = q.kind]
    /\ Done(r)
    /\ UNCHANGED child

-----------------------------------------------------------------------------
(* Tasks.                                                                  *)

\* createDepartmentTask
BeginCreate(r, d) ==
    /\ Editable(Now)
    /\ Present(d)
    /\ dept[d].kind = "it" => dept[d].claimed
    /\ \E v \in ViewsTaken :
           Remember(r, [step |-> "creating", dept |-> d, kind |-> dept[d].kind, seen |-> v])

NewTask(d, it) ==
    [dept |-> d, child |-> None,
     status |-> IF it THEN "assigned" ELSE "pending_assignment",
     staff |-> IF it THEN "it" ELSE "nobody"]

CommitCreate(r, x) ==
    LET q == request[r]
        plan == Seen(q)
        it == q.kind = "it"
    IN  /\ TicketFree
        /\ q.step = "creating"
        /\ ~Planned(x)
        /\ Editable(plan)
        /\ KindKept(plan, q.dept, q.kind)
        /\ it => plan.dept[q.dept].claimed
        /\ task' = [task EXCEPT ![x] = NewTask(q.dept, it)]
        /\ dept' = IF it THEN [dept EXCEPT ![q.dept].status = "active"] ELSE dept
        /\ Done(r)
        /\ UNCHANGED <<ticket, child>>

\* assignDepartmentTask; whom the task may be given to follows from the kind
\* of the department as it was read first.
BeginAssign(r, x) ==
    /\ Editable(Now)
    /\ Planned(x)
    /\ task[x].child = None
    /\ \E v \in ViewsTaken :
           Remember(r, [step |-> "assigning", task |-> x, kind |-> dept[task[x].dept].kind,
                        seen |-> v])

Staff(kind) == IF kind = "it" THEN "it" ELSE "technician"

\* [A plausible bug: the kind of the department is not checked again.]
CommitAssignAnyKind(r) ==
    LET q == request[r]
        d == task[q.task].dept
        plan == Seen(q)
    IN  /\ TicketFree
        /\ q.step = "assigning"
        /\ Editable(plan)
        /\ plan.task[q.task].child = None
        /\ task' = [task EXCEPT ![q.task].staff = Staff(q.kind), ![q.task].status = "assigned"]
        /\ dept' = [dept EXCEPT ![d].status = "active"]
        /\ Done(r)
        /\ UNCHANGED <<ticket, child>>

CommitAssign(r) ==
    LET q == request[r]
        d == task[q.task].dept
        plan == Seen(q)
    IN  /\ TicketFree
        /\ q.step = "assigning"
        /\ Editable(plan)
        /\ KindKept(plan, d, q.kind)
        /\ plan.task[q.task].child = None
        /\ task' = [task EXCEPT ![q.task].staff = Staff(q.kind), ![q.task].status = "assigned"]
        /\ dept' = [dept EXCEPT ![d].status = "active"]
        /\ Done(r)
        /\ UNCHANGED <<ticket, child>>

-----------------------------------------------------------------------------
(* Sub-tickets.                                                            *)

\* promoteDepartmentTask
BeginPromote(r, x) ==
    /\ Editable(Now)
    /\ Planned(x)
    /\ task[x].child = None
    /\ \E v \in ViewsTaken :
           Remember(r, [step |-> "promoting", task |-> x, kind |-> dept[task[x].dept].kind,
                        seen |-> v])

\* A task has one sub-ticket at most (uq_tickets_source_task), and a number is
\* used by one at a time (uq_tickets_parent_sub_sequence).
SubTicket(x, kind, n) ==
    /\ n \in Numbers
    /\ \A m \in Alive : m # n /\ child[m].source # x
    /\ ticket' = [ticket EXCEPT !.counter = n]
    /\ child' = [child EXCEPT ![n] =
           [status |-> "open", kind |-> kind, source |-> x]]
    /\ task' = [task EXCEPT ![x].status = "promoted", ![x].child = n]

\* [A plausible bug: the next number is counted from the sub-tickets there are.]
PromotedByCount(plan, x, kind) == SubTicket(x, kind, Cardinality(Alive) + 1)

\* allocateNextSubTicketSequence: numbers of deleted sub-tickets stay used.
Promoted(plan, x, kind) == SubTicket(x, kind, plan.ticket.counter + 1)

\* A task that was promoted meanwhile keeps its sub-ticket (GiveUp).
CommitPromote(r) ==
    LET q == request[r]
        plan == Seen(q)
    IN
    /\ TicketFree
    /\ q.step = "promoting"
    /\ Editable(plan)
    /\ KindKept(plan, plan.task[q.task].dept, q.kind)
    /\ plan.task[q.task].child = None
    /\ plan.task[q.task].staff # "nobody"
    /\ Promoted(plan, q.task, q.kind)
    /\ Done(r)
    /\ UNCHANGED dept

\* A whole maintenance team takes an unassigned task, in one transaction.
AssignTeam(x) ==
    LET d == task[x].dept IN
    /\ TicketFree
    /\ Planned(x)
    /\ Editable(Now)
    /\ dept[d].kind # "it"
    /\ task[x].child = None
    /\ task[x].status = "pending_assignment"
    /\ task[x].staff = "nobody"
    /\ Promoted(Now, x, dept[d].kind)
    /\ dept' = [dept EXCEPT ![d].status = "active"]
    /\ UNCHANGED request

\* The work on a sub-ticket ends and it is closed,
CloseChild(n) ==
    /\ child[n].status = "open"
    /\ child' = [child EXCEPT ![n].status = "closed"]
    /\ UNCHANGED <<ticket, dept, task, request>>

\* and submitForTriage takes it back from there, too.
ResubmitChild(n) ==
    /\ child[n].status = "closed"
    /\ child' = [child EXCEPT ![n].status = "open"]
    /\ UNCHANGED <<ticket, dept, task, request>>

\* [A plausible bug: the task is not unlinked.]
BeginDeleteAlone(r, n) ==
    /\ child[n].status \in {"open", "closed"}
    /\ request[r] = Idle
    /\ request' = [request EXCEPT ![r] = [step |-> "deleting", child |-> n]]
    /\ UNCHANGED <<ticket, dept, task, child>>

\* deleteTicket is a sequence of statements, not a transaction: the first one
\* unlinks the task, the last one removes the row.
BeginDelete(r, n) ==
    /\ child[n].status \in {"open", "closed"}
    /\ request[r] = Idle
    /\ request' = [request EXCEPT ![r] = [step |-> "deleting", child |-> n]]
    /\ task' = [x \in Tasks |->
           IF Planned(x) /\ task[x].child = n
           THEN [task[x] EXCEPT !.child = None, !.status = "assigned"] ELSE task[x]]
    /\ UNCHANGED <<ticket, dept, child>>

CommitDelete(r) ==
    /\ request[r].step = "deleting"
    /\ child' = [child EXCEPT ![request[r].child].status = "deleted"]
    /\ Done(r)
    /\ UNCHANGED <<ticket, dept, task>>

-----------------------------------------------------------------------------
(* Closing the main ticket.                                                *)

\* closeParentTicket reads the tasks,
BeginClose(r) ==
    /\ Editable(Now)
    /\ \A x \in Tasks : Planned(x) => task[x].child # None
    /\ Remember(r, [step |-> "closing"])

\* then the sub-tickets,
CheckChildren(r) ==
    /\ request[r].step = "closing"
    /\ Alive # {}
    /\ \A n \in Alive : child[n].status = "closed"
    /\ \E v \in ViewsTaken :
           request' = [request EXCEPT ![r] = [step |-> "finishing", seen |-> v]]
    /\ UNCHANGED <<ticket, dept, task, child>>

\* opens a transaction that locks the ticket and reads the plan,
LockToClose(r) ==
    /\ TicketFree
    /\ request[r].step = "finishing"
    /\ request' = [request EXCEPT ![r] = [step |-> "completing", seen |-> Seen(request[r])]]
    /\ UNCHANGED <<ticket, dept, task, child>>

\* The departments of the plan it has read are completed.
Completed(plan) ==
    [d \in Departments |-> IF plan.dept[d] = Absent THEN dept[d]
                           ELSE [dept[d] EXCEPT !.status = "completed"]]

\* [A plausible bug: the status of a sub-ticket is given to its task.]
CommitCloseAlike(r) ==
    LET plan == request[r].seen IN
    /\ request[r].step = "completing"
    /\ ticket' = [ticket EXCEPT !.status = "closed"]
    /\ dept' = Completed(plan)
    /\ task' = [x \in Tasks |->
           IF plan.task[x].status = "promoted" THEN [task[x] EXCEPT !.status = "closed"]
           ELSE task[x]]
    /\ Done(r)
    /\ UNCHANGED child

\* and completes by their ids the tasks it has read as promoted.
CommitClose(r) ==
    LET plan == request[r].seen IN
    /\ request[r].step = "completing"
    /\ ticket' = [ticket EXCEPT !.status = "closed"]
    /\ dept' = Completed(plan)
    /\ task' = [x \in Tasks |->
           IF plan.task[x].status = "promoted" THEN [task[x] EXCEPT !.status = "completed"]
           ELSE task[x]]
    /\ Done(r)
    /\ UNCHANGED child

\* confirmCompletion by whoever reported the ticket
BeginConfirm(r) ==
    /\ ticket.status = "closed"
    /\ Remember(r, [step |-> "confirming"])

CommitConfirm(r) ==
    /\ TicketFree
    /\ request[r].step = "confirming"
    /\ ticket' = [ticket EXCEPT !.status = "requester_confirmed"]
    /\ Done(r)
    /\ UNCHANGED <<dept, task, child>>

\* A request is refused or rolled back; a deletion ends early only when the
\* server dies.
GiveUp(r) ==
    /\ request[r] # Idle
    /\ request[r].step = "deleting" => "crashes" \in Allowed
    /\ Done(r)
    /\ UNCHANGED <<ticket, dept, task, child>>

-----------------------------------------------------------------------------
Routing ==
    \/ "resubmission" \in Allowed
       /\ (SubmitForTriage \/ \E n \in Numbers : ResubmitChild(n))
    \/ \E kinds \in SUBSET Kinds : \E first \in kinds : TriageMulti(kinds, first)
    \/ "rerouting" \in Allowed /\ RouteToIt
    \/ \E d \in Departments :
           ClaimItTicket(d) \/ \E claimed \in BOOLEAN : HandoverItTicket(d, claimed)
    \/ \E r \in Requests, d \in Departments, kind \in Kinds : BeginTransfer(r, d, kind)
    \/ \E r \in Requests : CommitTransfer(r)

Planning ==
    \/ \E r \in Requests, d \in Departments : BeginCreate(r, d)
    \/ \E r \in Requests, x \in Tasks : CommitCreate(r, x) \/ BeginAssign(r, x) \/ BeginPromote(r, x)
    \/ \E r \in Requests : CommitAssign(r) \/ CommitPromote(r)
    \/ \E x \in Tasks : AssignTeam(x)

Closing ==
    \/ \E n \in Numbers : CloseChild(n)
    \/ "deletion" \in Allowed /\ \E r \in Requests, n \in Numbers : BeginDelete(r, n)
    \/ \E r \in Requests :
           CommitDelete(r) \/ BeginClose(r) \/ CheckChildren(r) \/ LockToClose(r)
           \/ CommitClose(r) \/ BeginConfirm(r) \/ CommitConfirm(r) \/ GiveUp(r)

Next == Routing \/ Planning \/ Closing

Spec == Init /\ [][Next]_vars

-----------------------------------------------------------------------------
(* Properties.                                                             *)

\* IT tasks are given to the IT team and others to technicians, and only IT
\* departments are claimed, although a ticket may change its department while
\* a task is being created or assigned.
StaffMatchesDepartment ==
    /\ \A x \in Tasks : Planned(x) /\ task[x].staff # "nobody" =>
           task[x].staff = Staff(dept[task[x].dept].kind)
    /\ \A d \in Routed : dept[d].claimed => dept[d].kind = "it"

\* A sub-ticket is worked on by the department its task belongs to: once there
\* is one, nothing moves the task to another department.
ChildInItsDepartment ==
    \A x \in Tasks : Planned(x) /\ task[x].child # None =>
        child[task[x].child].kind = dept[task[x].dept].kind

\* A sub-ticket and its task point at each other, and every sub-ticket is that
\* of a task, except while it is being deleted: a task that two requests
\* promote gets one sub-ticket, and closing does not undo what a deletion does.
TaskAndChildLinked ==
    /\ \A x \in Tasks : Planned(x) =>
           /\ task[x].status = "promoted" => task[x].child # None
           /\ task[x].child # None => /\ task[x].status \in {"promoted", "completed"}
                                      /\ child[task[x].child].status \in {"open", "closed"}
                                      /\ child[task[x].child].source = x
    /\ \A n \in Alive : \/ task[child[n].source].child = n
                        \/ \E r \in Requests : request[r].step = "deleting" /\ request[r].child = n

\* A task without a sub-ticket is not completed: when its sub-ticket is deleted
\* it goes back to be distributed (deletes.ts:57).
FinishedTaskHasChild ==
    \A x \in Tasks : task[x].status = "completed" => task[x].child # None

\* The number of a sub-ticket stands for one sub-ticket for good, also after
\* it was deleted (_core/db/tickets.ts:838).
NumbersNotReused ==
    [][\A n \in Numbers : child[n] # Absent => /\ child'[n] # Absent
                                               /\ child'[n].source = child[n].source
                                               /\ child[n].status = "deleted" => child'[n] = child[n]]_vars

\* Nothing is open below a closed ticket: "a closed parent and an open child"
\* is what the checks under the locks are there to prevent
\* (tickets.workflow.ts:423-432).
ClosedParentHasNoOpenWork ==
    ticket.status \in Closed =>
        /\ \A x \in Tasks : Planned(x) => task[x].status = "completed"
        /\ \A n \in Numbers : child[n].status # "open"

\* The plan of a closed ticket is frozen for every role
\* (tickets.workflow.ts:423-436).
ClosedPlanIsFrozen ==
    [][ticket.status \in Closed => UNCHANGED <<dept, task>>]_vars
=============================================================================
