-------------------------- MODULE SettlementReview --------------------------
(***************************************************************************)
(* The review of the settlement of one saved count: a draft is prepared,   *)
(* submitted, returned or approved; its reviewer may ask for lines to be   *)
(* counted again; approving it posts the settlement.  The older direct way *)
(* to post a settlement is still there for administrators.                 *)
(*                                                                         *)
(* Every operation is a transaction that locks the row of the count first, *)
(* so each takes effect in one step.  What is not one step is a request:   *)
(* it names the version of the draft its sender has last seen, which may   *)
(* be an old one by the time it gets the lock, and it may be sent again    *)
(* when its answer is lost.  Where the read view of a transaction dates    *)
(* from its BEGIN, even the facts of the count it reads are those of the   *)
(* time it was sent; rows read FOR UPDATE are always the current ones.     *)
(***************************************************************************)
EXTENDS Integers, Sequences, FiniteSets

CONSTANTS
    Warehouse, Senior, Admin, \* the actors, by role
    Lines,          \* the lines of the count
    MaxVariance,    \* lines differ from the snapshot by 0..MaxVariance
    Costs,          \* average costs the stock rows of the count may have
    Openings,       \* whether the count is an opening balance or periodic
    Requests,       \* requests that may be under way at the same time
    EarlyViews,     \* whether a read view may date from BEGIN
    MaxVersion,     \* MaxVersion[o]: bound on the version of the draft
    MaxRevision     \* bound on the corrections of the count

ASSUME ReviewAssumption ==
    /\ MaxVariance \in Nat
    /\ Openings \subseteq BOOLEAN
    /\ EarlyViews \subseteq BOOLEAN
    /\ MaxVersion \in [BOOLEAN -> Nat]
    /\ MaxRevision \in Nat

Preparers == Warehouse \cup Admin \* canPrepareSettlementDraft
Reviewers == Senior \cup Admin    \* canReviewSettlementDraft
Actors == Preparers \cup Reviewers

VARIABLES
    opening,      \* TRUE: an opening balance; FALSE: a periodic count
    variance,     \* variance[n]: diffQuantity of line n
    revision,     \* how often lines have been counted again (countedAt)
    cost,         \* the average cost the stock rows have now
    draft,        \* the settlement draft of the count, or NoDraft
    contributors, \* who created, edited, submitted or corrected, by the events
    corrections,  \* the correction requests, in order
    settlements,  \* the settlements posted for the count, in order
    request       \* request[r]: the request under way, or NoRequest

vars == <<opening, variance, revision, cost, draft, contributors, corrections,
          settlements, request>>

facts == <<opening, variance, revision, cost>>

Statuses == {"draft", "pending_review", "returned", "applied", "no_adjustment"}
Kinds == {"create", "edit", "submit", "return", "approve", "requestCorrection",
          "correct", "post"}

NoDraft == [status |-> "none", version |-> 0]
SnapshotCost == "snapshot"
NoFacts == [revision |-> -1]
NoRequest == [kind |-> "none"]
NoView == [revision |-> -2]
Nobody == "nobody"

\* What the source() of the review reads of the count, and what its
\* fingerprint tells apart.  A periodic count is valued at the costs of its
\* snapshot, an opening balance at those of now.
Facts ==
    [variance |-> variance, revision |-> revision,
     cost |-> IF opening THEN cost ELSE SnapshotCost]

\* [A plausible bug: reviewers may save what preparers save.]
AuthorizedAlike(kind) == IF kind = "post" THEN Admin ELSE Actors

Authorized(kind) ==
    CASE kind \in {"create", "edit", "submit", "correct"}          -> Preparers
      [] kind \in {"return", "approve", "requestCorrection"}       -> Reviewers
      [] kind = "post"                                             -> Admin

\* What a reader of the count may find; a draft, a correction, a settlement
\* and a request.
Views ==
    [variance : [Lines -> 0..MaxVariance], revision : Nat,
     cost : Costs \cup {SnapshotCost}]
Drafts ==
    [status : Statuses, version : Nat \ {0},
     preparedBy : Preparers, submittedBy : Preparers \cup {Nobody},
     submitted : Views \cup {NoFacts}, approvedBy : Reviewers \cup {Nobody}]
Corrections ==
    [status : {"pending", "corrected"}, lines : SUBSET Lines \ {{}}, source : Views]
Settlements == [by : Reviewers, reviewed : BOOLEAN, facts : Views]
Sent ==
    {q \in [kind : Kinds, actor : Actors, expected : Nat, view : Views \cup {NoView}] :
        q.actor \in Authorized(q.kind)}

TypeOK ==
    /\ opening \in Openings
    /\ variance \in [Lines -> 0..MaxVariance]
    /\ revision \in Nat
    /\ cost \in Costs
    /\ draft \in Drafts \cup {NoDraft}
    /\ contributors \subseteq Preparers
    /\ corrections \in Seq(Corrections)
    /\ settlements \in Seq(Settlements)
    /\ request \in [Requests -> Sent \cup {NoRequest}]

Init ==
    /\ opening \in Openings
    /\ variance \in [Lines -> 0..MaxVariance]
    /\ revision = 0
    /\ cost \in Costs
    /\ draft = NoDraft
    /\ contributors = {}
    /\ corrections = <<>>
    /\ settlements = <<>>
    /\ request = [r \in Requests |-> NoRequest]

-----------------------------------------------------------------------------
(* What the operations look at.                                            *)

\* [A plausible bug: the settlements are not looked at.]
PostedIgnored == FALSE

Posted == settlements # <<>>

Pending == {n \in 1..Len(corrections) : corrections[n].status = "pending"}
Editable == draft.status \in {"draft", "returned"}

\* The facts the plain SELECTs of request r show.
Seen(r) == IF request[r].view = NoView THEN Facts ELSE request[r].view

\* [A plausible bug: the cost is read like the rest.]
SeenAsEverReviewed(r) == Seen(r)

\* Approving an opening balance reads the costs FOR UPDATE.
SeenWhenApproving(r) ==
    IF opening THEN [Seen(r) EXCEPT !.cost = cost] ELSE Seen(r)

Discrepant(f) == {n \in Lines : f.variance[n] # 0}

\* ownership(): administrators may change anybody's draft.
Owns(r) == request[r].actor \in Admin \cup {draft.preparedBy}

\* version(): the draft is the one the sender has seen.
Expects(r) == draft # NoDraft /\ request[r].expected = draft.version

Handles(r, kind) == request[r].kind = kind
Answer(r) == request' = [request EXCEPT ![r] = NoRequest]
Contributes(r) == contributors' = contributors \cup {request[r].actor}

-----------------------------------------------------------------------------
(* The requests.                                                           *)

\* A request is sent, by somebody who has seen this or the last version of
\* the draft - one older still can only be refused - and its transaction
\* begins.
Send(r) ==
    /\ request[r] = NoRequest
    /\ \E kind \in Kinds, early \in EarlyViews :
        \E actor \in Authorized(kind) :
        \E seen \in IF kind \in {"create", "post", "correct"} THEN {0}
                    ELSE 1..draft.version \ 1..(draft.version - 2) :
            request' = [request EXCEPT ![r] =
                [kind |-> kind, actor |-> actor, expected |-> seen,
                 view |-> IF early THEN Facts ELSE NoView]]
    /\ UNCHANGED <<facts, draft, contributors, corrections, settlements>>

\* The request is refused, its transaction fails, or the server dies.
Refuse(r) ==
    /\ request[r] # NoRequest
    /\ Answer(r)
    /\ UNCHANGED <<facts, draft, contributors, corrections, settlements>>

\* saveDraft of a new draft; there is one draft per count.
Create(r) ==
    /\ Handles(r, "create")
    /\ ~Posted
    /\ draft = NoDraft
    /\ draft' = [status |-> "draft", version |-> 1,
                 preparedBy |-> request[r].actor, submittedBy |-> Nobody,
                 submitted |-> NoFacts, approvedBy |-> Nobody]
    /\ Contributes(r)
    /\ Answer(r)
    /\ UNCHANGED <<facts, corrections, settlements>>

\* saveDraft of an existing draft.
Edit(r) ==
    /\ Handles(r, "edit")
    /\ Expects(r)
    /\ Owns(r)
    /\ Editable
    /\ Pending = {}
    /\ ~Posted
    /\ draft.version < MaxVersion[opening]
    /\ draft' = [draft EXCEPT !.version = @ + 1]
    /\ Contributes(r)
    /\ Answer(r)
    /\ UNCHANGED <<facts, corrections, settlements>>

\* The draft is submitted with the fingerprint of the count.
Submitted(r) ==
    [draft EXCEPT !.status = "pending_review", !.version = @ + 1,
                  !.submittedBy = request[r].actor,
                  !.submitted = Seen(r)]

\* [A plausible bug: a correction that is under way is overlooked.]
SubmitRegardless(r) ==
    /\ Handles(r, "submit")
    /\ Expects(r)
    /\ Owns(r)
    /\ Editable
    /\ ~Posted
    /\ draft.version < MaxVersion[opening]
    /\ draft' = Submitted(r)
    /\ Contributes(r)
    /\ Answer(r)
    /\ UNCHANGED <<facts, corrections, settlements>>

\* submitDraft
Submit(r) ==
    /\ Handles(r, "submit")
    /\ Expects(r)
    /\ Owns(r)
    /\ Editable
    /\ Pending = {}
    /\ ~Posted
    /\ draft.version < MaxVersion[opening]
    /\ draft' = Submitted(r)
    /\ Contributes(r)
    /\ Answer(r)
    /\ UNCHANGED <<facts, corrections, settlements>>

\* returnDraft
Return(r) ==
    /\ Handles(r, "return")
    /\ Expects(r)
    /\ draft.status = "pending_review"
    /\ ~Posted
    /\ draft.version < MaxVersion[opening]
    /\ draft' = [draft EXCEPT !.status = "returned", !.version = @ + 1]
    /\ Answer(r)
    /\ UNCHANGED <<facts, contributors, corrections, settlements>>

-----------------------------------------------------------------------------
(* Approval.                                                               *)

\* [A plausible bug: only the last submitter is kept from approving.]
NotTheSubmitter(r) == request[r].actor # draft.submittedBy

\* Nobody approves what he has prepared, submitted, edited or counted again.
Impartial(r) ==
    request[r].actor \notin {draft.preparedBy, draft.submittedBy} \cup contributors

\* The count is the one that has been submitted.
Unchanged(r) == draft.submitted = SeenWhenApproving(r)

Approvable(r) ==
    /\ Handles(r, "approve")
    /\ Expects(r)
    /\ draft.status = "pending_review"
    /\ Impartial(r)
    /\ ~Posted
    /\ Pending = {}
    /\ Unchanged(r)
    /\ draft.version < MaxVersion[opening]

Approved(r, status) ==
    [draft EXCEPT !.status = status, !.version = @ + 1,
                  !.approvedBy = request[r].actor]

\* The settlement the writer posts: the lines as it reads them, an opening
\* balance at the cost it has locked.
Posting(r, reviewed) ==
    [by |-> request[r].actor, reviewed |-> reviewed,
     facts |-> [Seen(r) EXCEPT !.cost = Facts.cost]]

\* approveDraft, posting the settlement in the same transaction.
Approve(r) ==
    /\ Approvable(r)
    /\ Discrepant(Seen(r)) # {}
    /\ settlements' = Append(settlements, Posting(r, TRUE))
    /\ draft' = Approved(r, "applied")
    /\ Answer(r)
    /\ UNCHANGED <<facts, contributors, corrections>>

\* approveDraft of a count that found no difference.
ApproveNoAdjustment(r) ==
    /\ Approvable(r)
    /\ Discrepant(Seen(r)) = {}
    /\ draft' = Approved(r, "no_adjustment")
    /\ Answer(r)
    /\ UNCHANGED <<facts, contributors, corrections, settlements>>

\* approveDraft again, because its answer was lost: the first result is told
\* to whoever obtained it, and nothing is posted.
ApproveAgain(r) ==
    /\ Handles(r, "approve")
    /\ draft.status \in {"applied", "no_adjustment"}
    /\ draft.approvedBy = request[r].actor
    /\ request[r].expected = draft.version - 1
    /\ Answer(r)
    /\ UNCHANGED <<facts, draft, contributors, corrections, settlements>>

\* [A plausible bug: a draft in preparation does not count as a review.]
PostBesideReview(r) ==
    /\ Handles(r, "post")
    /\ ~Posted
    /\ draft.status # "pending_review"
    /\ Discrepant(Seen(r)) # {}
    /\ settlements' = Append(settlements, Posting(r, FALSE))
    /\ Answer(r)
    /\ UNCHANGED <<facts, draft, contributors, corrections>>

\* applySettlement called directly: refused once a review has been prepared.
Post(r) ==
    /\ Handles(r, "post")
    /\ ~Posted
    /\ draft.status \in {"none", "applied"}
    /\ Discrepant(Seen(r)) # {}
    /\ settlements' = Append(settlements, Posting(r, FALSE))
    /\ Answer(r)
    /\ UNCHANGED <<facts, draft, contributors, corrections>>

-----------------------------------------------------------------------------
(* Counting again.                                                         *)

\* requestCountCorrection: the reviewer names lines, and the draft returns.
RequestCorrection(r, lines) ==
    /\ Handles(r, "requestCorrection")
    /\ Expects(r)
    /\ draft.status = "pending_review"
    /\ ~Posted
    /\ Pending = {}
    /\ draft.version < MaxVersion[opening]
    /\ corrections' = Append(corrections,
            [status |-> "pending", lines |-> lines, source |-> Seen(r)])
    /\ draft' = [draft EXCEPT !.status = "returned", !.version = @ + 1]
    /\ Answer(r)
    /\ UNCHANGED <<facts, contributors, settlements>>

\* saveCountCorrection: exactly the lines named get new figures, provided
\* that the count is the one the reviewer saw.
Correct(r, n, figures) ==
    /\ Handles(r, "correct")
    /\ draft.status = "returned"
    /\ Owns(r)
    /\ ~Posted
    /\ Pending = {n}
    /\ DOMAIN figures = corrections[n].lines
    /\ corrections[n].source = Seen(r)
    /\ draft.version < MaxVersion[opening] /\ revision < MaxRevision
    /\ variance' = [k \in Lines |-> IF k \in DOMAIN figures THEN figures[k]
                                    ELSE variance[k]]
    /\ revision' = revision + 1
    /\ corrections' = [corrections EXCEPT ![n].status = "corrected"]
    /\ draft' = [draft EXCEPT !.version = @ + 1]
    /\ Contributes(r)
    /\ Answer(r)
    /\ UNCHANGED <<opening, cost, settlements>>

\* Receipts and other openings change the average costs meanwhile.
ChangeCost(c) ==
    /\ cost' = c
    /\ UNCHANGED <<opening, variance, revision, draft, contributors, corrections,
                   settlements, request>>

-----------------------------------------------------------------------------
Next ==
    \/ \E r \in Requests :
        \/ Send(r)
        \/ Refuse(r)
        \/ Create(r)
        \/ Edit(r)
        \/ Submit(r)
        \/ Return(r)
        \/ Approve(r)
        \/ ApproveNoAdjustment(r)
        \/ ApproveAgain(r)
        \/ Post(r)
        \/ \E lines \in SUBSET Lines \ {{}} : RequestCorrection(r, lines)
        \/ \E n \in Pending :
            \E figures \in [corrections[n].lines -> 0..MaxVariance] :
                Correct(r, n, figures)
    \/ \E c \in Costs : ChangeCost(c)

Spec == Init /\ [][Next]_vars

-----------------------------------------------------------------------------
(* What the review promises.                                               *)

\* The differences of a count are posted once, whichever way, however often
\* the requests are sent and whatever they overtake.
SettledAtMostOnce == Len(settlements) <= 1

\* Four eyes: whoever approves has neither prepared, edited nor submitted the
\* draft, nor saved a correction of its count, in any round - administrators,
\* who may do everything, included.  Who counted at first is not asked.
FourEyes ==
    draft # NoDraft /\ draft.approvedBy # Nobody =>
        draft.approvedBy \notin {draft.preparedBy, draft.submittedBy} \cup contributors

\* Once a review has been prepared, nothing is posted but by approving it.
ReviewNotBypassed ==
    [][draft # NoDraft /\ settlements' # settlements =>
        draft'.status = "applied" /\ settlements'[Len(settlements')].reviewed]_vars

\* What is posted is what was submitted: the same lines and figures, at the
\* same cost, although counts are corrected and costs change in between and
\* the approving transaction may have begun before they did.
PostsWhatWasSubmitted ==
    \A n \in 1..Len(settlements) :
        settlements[n].reviewed => settlements[n].facts = draft.submitted

\* A correction under way can be completed: the draft is in the hands of its
\* preparer, and the count is still the one the reviewer saw.  Otherwise the
\* count could be neither corrected nor submitted nor approved nor posted.
CorrectionCanBeSaved ==
    \A n \in Pending :
        /\ Pending = {n}
        /\ draft.status = "returned"
        /\ corrections[n].source = Facts

\* A periodic count is valued at the costs of its snapshot, and there the
\* promise holds.
PeriodicCorrectionCanBeSaved == ~opening => CorrectionCanBeSaved

=============================================================================
