----------------------- MODULE SettlementReviewProofs -----------------------
(***************************************************************************)
(* The promises of SettlementReview for every number of actors, lines,     *)
(* costs and requests and every bound.                                     *)
(*                                                                         *)
(* The argument turns on the version of the draft.  What a request has     *)
(* read may be old, but the figures of a periodic count are only ever      *)
(* changed together with the version (saveCountCorrection), so a request   *)
(* that names the present version has read the present count (Fresh).      *)
(* What an approval posts is settled by two more facts: nothing changes a  *)
(* draft once a settlement is posted, and the approved status and the      *)
(* posted settlement come in the same step (Settled).                      *)
(***************************************************************************)
EXTENDS SettlementReview, SequenceTheorems, TLAPS

-----------------------------------------------------------------------------
(* Types.                                                                  *)

\* What a request has read of the count is a view of the count.
LEMMA SeenIsView ==
    ASSUME TypeOK, NEW r \in Requests, request[r] # NoRequest
    PROVE  /\ Facts \in Views
           /\ Seen(r) \in Views
           /\ request[r] \in Sent
<1>1. Facts \in Views
  BY DEF TypeOK, Facts, Views
<1>2. request[r] \in Sent
  BY DEF TypeOK
<1> QED
  BY <1>1, <1>2 DEF Seen, Sent

\* A request of a kind is one of somebody who may send it.
LEMMA SenderAuthorized ==
    ASSUME TypeOK, NEW r \in Requests, NEW kind \in Kinds, Handles(r, kind)
    PROVE  /\ request[r] # NoRequest
           /\ request[r].actor \in Authorized(kind)
           /\ request[r].expected \in Nat
<1>1. request[r] # NoRequest
  BY DEF Handles, NoRequest, Kinds
<1> QED
  BY <1>1 DEF Handles, TypeOK, Sent

\* Answering a request leaves the others as they were.
LEMMA AnswerTyped ==
    ASSUME TypeOK, NEW r \in Requests, Answer(r)
    PROVE  request' \in [Requests -> Sent \cup {NoRequest}]
BY DEF Answer, TypeOK

\* A settlement is typed.
LEMMA PostingTyped ==
    ASSUME TypeOK, NEW r \in Requests, NEW reviewed \in BOOLEAN,
           request[r] # NoRequest, request[r].actor \in Reviewers
    PROVE  Append(settlements, Posting(r, reviewed)) \in Seq(Settlements)
<1>1. Seen(r) \in Views /\ Facts \in Views
  BY SeenIsView
<1>2. [Seen(r) EXCEPT !.cost = Facts.cost] \in Views
  BY <1>1 DEF Views
<1>3. Posting(r, reviewed) \in Settlements
  BY <1>2 DEF Posting, Settlements
<1> QED
  BY <1>3 DEF TypeOK

-----------------------------------------------------------------------------
(* What becomes of the draft.                                              *)

\* The version is a number, and goes up.
LEMMA NextVersion ==
    ASSUME NEW d \in Drafts
    PROVE  /\ d.version + 1 \in Nat \ {0}
           /\ d.version + 1 > d.version
BY DEF Drafts

\* The draft of a request that names its version.
LEMMA ExpectedDraft ==
    ASSUME TypeOK, NEW r \in Requests, Expects(r)
    PROVE  draft \in Drafts
BY DEF Expects, TypeOK

\* saveDraft of an existing draft.
LEMMA EditedDraft ==
    ASSUME TypeOK, NEW r \in Requests, Edit(r)
    PROVE  /\ draft \in Drafts /\ draft' \in Drafts
           /\ draft'.version > draft.version
           /\ draft'.status = draft.status
           /\ draft'.approvedBy = draft.approvedBy
<1>1. draft \in Drafts
  BY ExpectedDraft DEF Edit
<1>2. PICK v \in Nat \ {0} : v = draft.version + 1 /\ v > draft.version
  BY <1>1, NextVersion
<1>3. draft' = [draft EXCEPT !.version = v]
  BY <1>2 DEF Edit
<1>4. /\ draft' \in Drafts
      /\ draft'.version = v
      /\ draft'.status = draft.status
      /\ draft'.approvedBy = draft.approvedBy
  BY <1>1, <1>2, <1>3, Zenon DEF Drafts
<1> QED
  BY <1>1, <1>2, <1>4

\* submitDraft
LEMMA SubmittedDraft ==
    ASSUME TypeOK, NEW r \in Requests, Submit(r)
    PROVE  /\ draft \in Drafts /\ draft' \in Drafts
           /\ draft'.version > draft.version
           /\ draft'.status = "pending_review"
           /\ draft'.approvedBy = draft.approvedBy
<1>1. request[r].actor \in Preparers /\ Seen(r) \in Views
  BY SenderAuthorized, SeenIsView DEF Submit, Authorized, Kinds
<1>2. draft \in Drafts
  BY ExpectedDraft DEF Submit
<1>3. PICK v \in Nat \ {0} : v = draft.version + 1 /\ v > draft.version
  BY <1>2, NextVersion
<1>4. draft' = [draft EXCEPT !.status = "pending_review", !.version = v,
                             !.submittedBy = request[r].actor, !.submitted = Seen(r)]
  BY <1>3 DEF Submit, Submitted
<1>5. /\ draft' \in Drafts
      /\ draft'.version = v
      /\ draft'.status = "pending_review"
      /\ draft'.approvedBy = draft.approvedBy
  BY <1>1, <1>2, <1>3, <1>4, Zenon DEF Drafts, Statuses
<1> QED
  BY <1>2, <1>3, <1>5

\* returnDraft and requestCountCorrection
LEMMA ReturnedDraft ==
    ASSUME TypeOK, NEW r \in Requests, Expects(r),
           draft' = [draft EXCEPT !.status = "returned", !.version = @ + 1]
    PROVE  /\ draft \in Drafts /\ draft' \in Drafts
           /\ draft'.version > draft.version
           /\ draft'.status = "returned"
           /\ draft'.approvedBy = draft.approvedBy
<1>1. draft \in Drafts
  BY ExpectedDraft
<1>2. PICK v \in Nat \ {0} : v = draft.version + 1 /\ v > draft.version
  BY <1>1, NextVersion
<1>3. draft' = [draft EXCEPT !.status = "returned", !.version = v]
  BY <1>2
<1>4. /\ draft' \in Drafts
      /\ draft'.version = v
      /\ draft'.status = "returned"
      /\ draft'.approvedBy = draft.approvedBy
  BY <1>1, <1>2, <1>3, Zenon DEF Drafts, Statuses
<1> QED
  BY <1>1, <1>2, <1>4

\* approveDraft, with and without a settlement
LEMMA ApprovedDraft ==
    ASSUME TypeOK, NEW r \in Requests, NEW s \in Statuses, Approvable(r),
           draft' = Approved(r, s)
    PROVE  /\ draft \in Drafts /\ draft' \in Drafts
           /\ draft'.version > draft.version
           /\ draft'.status = s
           /\ draft'.preparedBy = draft.preparedBy
           /\ draft'.submittedBy = draft.submittedBy
           /\ draft'.submitted = draft.submitted
           /\ draft'.approvedBy = request[r].actor
<1>1. request[r].actor \in Reviewers
  BY SenderAuthorized DEF Approvable, Authorized, Kinds
<1>2. draft \in Drafts
  BY ExpectedDraft DEF Approvable
<1>3. PICK v \in Nat \ {0} : v = draft.version + 1 /\ v > draft.version
  BY <1>2, NextVersion
<1>4. draft' = [draft EXCEPT !.status = s, !.version = v,
                             !.approvedBy = request[r].actor]
  BY <1>3 DEF Approved
<1>5. /\ draft' \in Drafts
      /\ draft'.version = v
      /\ draft'.status = s
      /\ draft'.preparedBy = draft.preparedBy
      /\ draft'.submittedBy = draft.submittedBy
      /\ draft'.submitted = draft.submitted
      /\ draft'.approvedBy = request[r].actor
  BY <1>1, <1>2, <1>3, <1>4, Zenon DEF Drafts
<1> QED
  BY <1>2, <1>3, <1>5

\* saveCountCorrection
LEMMA CorrectedDraft ==
    ASSUME TypeOK, NEW r \in Requests, NEW n, NEW figures, Correct(r, n, figures)
    PROVE  /\ draft \in Drafts /\ draft' \in Drafts
           /\ draft'.version > draft.version
           /\ draft'.status = "returned"
           /\ draft'.approvedBy = draft.approvedBy
<1>1. draft \in Drafts /\ draft.status = "returned"
  BY DEF Correct, TypeOK, NoDraft
<1>2. PICK v \in Nat \ {0} : v = draft.version + 1 /\ v > draft.version
  BY <1>1, NextVersion
<1>3. draft' = [draft EXCEPT !.version = v]
  BY <1>2 DEF Correct
<1>4. /\ draft' \in Drafts
      /\ draft'.version = v
      /\ draft'.status = draft.status
      /\ draft'.approvedBy = draft.approvedBy
  BY <1>1, <1>2, <1>3, Zenon DEF Drafts
<1> QED
  BY <1>1, <1>2, <1>4

-----------------------------------------------------------------------------
\* Every step keeps the types.
LEMMA TypeStep ==
    ASSUME TypeOK, [Next]_vars
    PROVE  TypeOK'
<1> USE ReviewAssumption DEF facts
<1>1. ASSUME NEW r \in Requests, Send(r)
      PROVE  TypeOK'
  <2>1. PICK kind \in Kinds, early \in EarlyViews : \E actor \in Authorized(kind) :
          \E seen \in IF kind \in {"create", "post", "correct"} THEN {0}
                      ELSE 1..draft.version \ 1..(draft.version - 2) :
            request' = [request EXCEPT ![r] =
                [kind |-> kind, actor |-> actor, expected |-> seen,
                 view |-> IF early THEN Facts ELSE NoView]]
    BY <1>1 DEF Send
  <2>2. PICK actor \in Authorized(kind) :
          \E seen \in IF kind \in {"create", "post", "correct"} THEN {0}
                      ELSE 1..draft.version \ 1..(draft.version - 2) :
            request' = [request EXCEPT ![r] =
                [kind |-> kind, actor |-> actor, expected |-> seen,
                 view |-> IF early THEN Facts ELSE NoView]]
    BY <2>1
  <2>3. PICK seen \in IF kind \in {"create", "post", "correct"} THEN {0}
                      ELSE 1..draft.version \ 1..(draft.version - 2) :
          request' = [request EXCEPT ![r] =
                [kind |-> kind, actor |-> actor, expected |-> seen,
                 view |-> IF early THEN Facts ELSE NoView]]
    BY <2>2
  <2>4. Facts \in Views
    BY DEF TypeOK, Facts, Views
  <2>5. actor \in Actors
    BY DEF Authorized, Actors, Preparers, Reviewers, Kinds
  <2>6. seen \in Nat
    BY DEF TypeOK, Drafts, NoDraft
  <2>7. [kind |-> kind, actor |-> actor, expected |-> seen,
         view |-> IF early THEN Facts ELSE NoView] \in Sent
    BY <2>4, <2>5, <2>6 DEF Sent
  <2> QED
    BY <1>1, <2>3, <2>7 DEF Send, TypeOK
<1>2. ASSUME NEW r \in Requests, Refuse(r)
      PROVE  TypeOK'
  BY <1>2, AnswerTyped DEF Refuse, TypeOK
<1>3. ASSUME NEW r \in Requests, Create(r)
      PROVE  TypeOK'
  <2>1. request[r].actor \in Preparers
    BY <1>3, SenderAuthorized DEF Create, Authorized, Kinds
  <2>2. draft' \in Drafts
    BY <1>3, <2>1 DEF Create, Drafts, Statuses
  <2> QED
    BY <1>3, <2>1, <2>2, AnswerTyped DEF Create, Contributes, TypeOK
<1>4. ASSUME NEW r \in Requests, Edit(r)
      PROVE  TypeOK'
  <2>1. request[r].actor \in Preparers
    BY <1>4, SenderAuthorized DEF Edit, Authorized, Kinds
  <2>2. draft' \in Drafts
    BY <1>4, EditedDraft
  <2> QED
    BY <1>4, <2>1, <2>2, AnswerTyped DEF Edit, Contributes, TypeOK
<1>5. ASSUME NEW r \in Requests, Submit(r)
      PROVE  TypeOK'
  <2>1. request[r].actor \in Preparers /\ request[r] # NoRequest
    BY <1>5, SenderAuthorized DEF Submit, Authorized, Kinds
  <2>2. draft' \in Drafts
    BY <1>5, SubmittedDraft
  <2> QED
    BY <1>5, <2>1, <2>2, AnswerTyped DEF Submit, Contributes, TypeOK
<1>6. ASSUME NEW r \in Requests, Return(r)
      PROVE  TypeOK'
  <2>1. draft' \in Drafts
    BY <1>6, ReturnedDraft DEF Return
  <2> QED
    BY <1>6, <2>1, AnswerTyped DEF Return, TypeOK
<1>7. ASSUME NEW r \in Requests, Approve(r)
      PROVE  TypeOK'
  <2>1. request[r].actor \in Reviewers /\ request[r] # NoRequest
    BY <1>7, SenderAuthorized DEF Approve, Approvable, Authorized, Kinds
  <2>2. draft' \in Drafts
    BY <1>7, ApprovedDraft DEF Approve, Statuses
  <2>3. settlements' \in Seq(Settlements)
    BY <1>7, <2>1, PostingTyped DEF Approve
  <2> QED
    BY <1>7, <2>2, <2>3, AnswerTyped DEF Approve, TypeOK
<1>8. ASSUME NEW r \in Requests, ApproveNoAdjustment(r)
      PROVE  TypeOK'
  <2>2. draft' \in Drafts
    BY <1>8, ApprovedDraft DEF ApproveNoAdjustment, Statuses
  <2> QED
    BY <1>8, <2>2, AnswerTyped DEF ApproveNoAdjustment, TypeOK
<1>9. ASSUME NEW r \in Requests, ApproveAgain(r)
      PROVE  TypeOK'
  BY <1>9, AnswerTyped DEF ApproveAgain, TypeOK
<1>10. ASSUME NEW r \in Requests, Post(r)
       PROVE  TypeOK'
  <2>1. request[r].actor \in Reviewers /\ request[r] # NoRequest
    BY <1>10, SenderAuthorized DEF Post, Authorized, Kinds, Reviewers
  <2>2. settlements' \in Seq(Settlements)
    BY <1>10, <2>1, PostingTyped DEF Post
  <2> QED
    BY <1>10, <2>2, AnswerTyped DEF Post, TypeOK
<1>11. ASSUME NEW r \in Requests, NEW lines \in SUBSET Lines \ {{}},
              RequestCorrection(r, lines)
       PROVE  TypeOK'
  <2>1. request[r] # NoRequest
    BY <1>11, SenderAuthorized DEF RequestCorrection, Kinds
  <2>2. draft' \in Drafts
    BY <1>11, ReturnedDraft DEF RequestCorrection
  <2>3. [status |-> "pending", lines |-> lines, source |-> Seen(r)] \in Corrections
    BY <2>1, SeenIsView DEF Corrections
  <2>4. corrections' \in Seq(Corrections)
    BY <1>11, <2>3 DEF RequestCorrection, TypeOK
  <2> QED
    BY <1>11, <2>2, <2>4, AnswerTyped DEF RequestCorrection, TypeOK
<1>12. ASSUME NEW r \in Requests, NEW n \in Pending,
              NEW figures \in [corrections[n].lines -> 0..MaxVariance],
              Correct(r, n, figures)
       PROVE  TypeOK'
  <2>1. request[r].actor \in Preparers
    BY <1>12, SenderAuthorized DEF Correct, Authorized, Kinds
  <2>2. draft' \in Drafts
    BY <1>12, CorrectedDraft
  <2>3. n \in 1..Len(corrections) /\ corrections[n] \in Corrections
    BY DEF Pending, TypeOK
  <2>4. [corrections[n] EXCEPT !.status = "corrected"] \in Corrections
    BY <2>3 DEF Corrections
  <2>5. corrections' \in Seq(Corrections)
    BY <1>12, <2>3, <2>4 DEF Correct, TypeOK
  <2>6. variance' \in [Lines -> 0..MaxVariance] /\ revision' \in Nat
    BY <1>12 DEF Correct, TypeOK
  <2> QED
    BY <1>12, <2>1, <2>2, <2>5, <2>6, AnswerTyped DEF Correct, Contributes, TypeOK
<1>13. ASSUME NEW c \in Costs, ChangeCost(c)
       PROVE  TypeOK'
  BY <1>13 DEF ChangeCost, TypeOK
<1>14. CASE UNCHANGED vars
  BY <1>14 DEF vars, TypeOK
<1> QED
  BY <1>1, <1>2, <1>3, <1>4, <1>5, <1>6, <1>7, <1>8, <1>9, <1>10, <1>11, <1>12,
     <1>13, <1>14 DEF Next

\* From the first state on, every value has its type.
\* [What the fields of the database and the requests may hold.]
THEOREM TypeCorrect == Spec => []TypeOK
<1>1. Init => TypeOK
  BY DEF Init, TypeOK
<1>2. TypeOK /\ [Next]_vars => TypeOK'
  BY TypeStep
<1> QED
  BY <1>1, <1>2, PTL DEF Spec

-----------------------------------------------------------------------------
(* The inductive invariant, in four parts.                                 *)

\* Requests name versions the draft has had, and one that names the present
\* version has read the present count, as long as that is periodic.
Fresh ==
    \A r \in Requests : request[r] # NoRequest =>
        /\ request[r].expected <= draft.version
        /\ ~opening =>
            /\ Seen(r).cost = SnapshotCost
            /\ draft # NoDraft /\ request[r].expected = draft.version => Seen(r) = Facts

\* The approved status and the settlement come together; the settlement is
\* the only one and what was submitted.
Settled ==
    /\ draft.status = "applied" => Posted
    /\ SettledAtMostOnce
    /\ PostsWhatWasSubmitted

\* A draft that is not decided has no approver yet.
Reviewed ==
    /\ draft # NoDraft /\ draft.status \notin {"applied", "no_adjustment"} =>
        draft.approvedBy = Nobody
    /\ FourEyes

\* There is one pending correction at most, its draft is returned, and the
\* count, if periodic, is the one it was requested for.
Correctable ==
    \A n \in Pending :
        /\ Pending = {n}
        /\ draft.status = "returned"
        /\ ~opening => corrections[n].source = Facts

IInv == TypeOK /\ Fresh /\ Settled /\ Reviewed /\ Correctable

-----------------------------------------------------------------------------
(* Freshness.                                                              *)

\* What a step does to the draft: nothing, or a new version of it.
Advances ==
    \/ draft' = draft
    \/ draft' \in Drafts /\ draft'.version > draft.version

\* Answering a request keeps the others fresh, whether the draft stays or
\* gets a new version, as long as the count stays.
LEMMA FreshAnswered ==
    ASSUME TypeOK, Fresh, NEW r \in Requests, Answer(r), UNCHANGED facts,
           Advances
    PROVE  Fresh'
<1> SUFFICES ASSUME NEW q \in Requests, request'[q] # NoRequest
             PROVE  /\ request'[q].expected <= draft'.version
                    /\ ~opening' =>
                        /\ Seen(q)'.cost = SnapshotCost
                        /\ draft' # NoDraft /\ request'[q].expected = draft'.version
                            => Seen(q)' = Facts'
  BY DEF Fresh
<1>1. request'[q] = request[q] /\ request[q] # NoRequest
  BY DEF Answer, TypeOK
<1>2. Facts' = Facts /\ Seen(q)' = Seen(q) /\ opening' = opening
  BY <1>1 DEF Facts, Seen, facts
<1>3. request[q].expected \in Nat /\ draft.version \in Nat
  BY <1>1 DEF TypeOK, Sent, Drafts, NoDraft
<1>4. CASE draft' = draft
  BY <1>1, <1>2, <1>4 DEF Fresh
<1>5. CASE draft' \in Drafts /\ draft'.version > draft.version
  <2>1. draft'.version \in Nat /\ request[q].expected <= draft.version
    BY <1>1, <1>5 DEF Drafts, Fresh
  <2>2. request'[q].expected <= draft'.version /\ request'[q].expected # draft'.version
    BY <1>1, <1>3, <1>5, <2>1
  <2>3. ~opening => Seen(q).cost = SnapshotCost
    BY <1>1 DEF Fresh
  <2> QED
    BY <1>2, <2>2, <2>3
<1> QED
  BY <1>4, <1>5 DEF Advances

\* Every step keeps Fresh.
LEMMA FreshStep ==
    ASSUME TypeOK, Fresh, [Next]_vars
    PROVE  Fresh'
<1>1. ASSUME NEW r \in Requests, Send(r)
      PROVE  Fresh'
  <2>1. PICK kind \in Kinds, early \in EarlyViews : \E actor \in Authorized(kind) :
          \E seen \in IF kind \in {"create", "post", "correct"} THEN {0}
                      ELSE 1..draft.version \ 1..(draft.version - 2) :
            request' = [request EXCEPT ![r] =
                [kind |-> kind, actor |-> actor, expected |-> seen,
                 view |-> IF early THEN Facts ELSE NoView]]
    BY <1>1 DEF Send
  <2>2. PICK actor \in Authorized(kind),
             seen \in IF kind \in {"create", "post", "correct"} THEN {0}
                      ELSE 1..draft.version \ 1..(draft.version - 2) :
            request' = [request EXCEPT ![r] =
                [kind |-> kind, actor |-> actor, expected |-> seen,
                 view |-> IF early THEN Facts ELSE NoView]]
    BY <2>1
  <2>3. draft.version \in Nat
    BY DEF TypeOK, Drafts, NoDraft
  <2>4. seen <= draft.version
    BY <2>3
  <2>5. Facts' = Facts /\ opening' = opening /\ draft' = draft
    BY <1>1 DEF Send, Facts, facts
  <2>6. request'[r].expected = seen /\ Seen(r)' = Facts
    <3>1. request'[r].expected = seen
          /\ request'[r].view = IF early THEN Facts ELSE NoView
      BY <2>2 DEF TypeOK
    <3>2. CASE early
      BY <2>5, <3>1, <3>2 DEF Seen
    <3>3. CASE ~early
      BY <2>5, <3>1, <3>3 DEF Seen
    <3> QED
      BY <3>1, <3>2, <3>3
  <2>7. ~opening => Facts.cost = SnapshotCost
    BY DEF Facts
  <2>8. ASSUME NEW q \in Requests, q # r
        PROVE  request'[q] = request[q] /\ Seen(q)' = Seen(q)
    <3>1. request'[q] = request[q]
      BY <2>2, <2>8 DEF TypeOK
    <3> QED
      BY <3>1, <2>5 DEF Seen
  <2> QED
    BY <2>4, <2>5, <2>6, <2>7, <2>8 DEF Fresh
<1>2. ASSUME NEW r \in Requests, Refuse(r)
      PROVE  Fresh'
  <2>1. Advances
    BY <1>2 DEF Refuse, Advances
  <2> QED
    BY <1>2, <2>1, FreshAnswered DEF Refuse, facts
<1>3. ASSUME NEW r \in Requests, Create(r)
      PROVE  Fresh'
  <2>1. request[r].actor \in Preparers
    BY <1>3, SenderAuthorized DEF Create, Authorized, Kinds
  <2>2. Advances
    BY <1>3, <2>1 DEF Create, Drafts, Statuses, NoDraft, Advances
  <2> QED
    BY <1>3, <2>2, FreshAnswered DEF Create, facts
<1>4. ASSUME NEW r \in Requests, Edit(r)
      PROVE  Fresh'
  <2>1. Advances
    BY <1>4, EditedDraft DEF Advances
  <2> QED
    BY <1>4, <2>1, FreshAnswered DEF Edit, facts
<1>5. ASSUME NEW r \in Requests, Submit(r)
      PROVE  Fresh'
  <2>1. Advances
    BY <1>5, SubmittedDraft DEF Advances
  <2> QED
    BY <1>5, <2>1, FreshAnswered DEF Submit, facts
<1>6. ASSUME NEW r \in Requests, Return(r)
      PROVE  Fresh'
  <2>1. Advances
    BY <1>6, ReturnedDraft DEF Return, Advances
  <2> QED
    BY <1>6, <2>1, FreshAnswered DEF Return, facts
<1>7. ASSUME NEW r \in Requests, Approve(r)
      PROVE  Fresh'
  <2>1. Advances
    BY <1>7, ApprovedDraft DEF Approve, Statuses, Advances
  <2> QED
    BY <1>7, <2>1, FreshAnswered DEF Approve, facts
<1>8. ASSUME NEW r \in Requests, ApproveNoAdjustment(r)
      PROVE  Fresh'
  <2>1. Advances
    BY <1>8, ApprovedDraft DEF ApproveNoAdjustment, Statuses, Advances
  <2> QED
    BY <1>8, <2>1, FreshAnswered DEF ApproveNoAdjustment, facts
<1>9. ASSUME NEW r \in Requests, ApproveAgain(r) \/ Post(r)
      PROVE  Fresh'
  <2>1. Advances
    BY <1>9 DEF ApproveAgain, Post, Advances
  <2> QED
    BY <1>9, <2>1, FreshAnswered DEF ApproveAgain, Post, facts
<1>10. ASSUME NEW r \in Requests, NEW lines \in SUBSET Lines \ {{}},
              RequestCorrection(r, lines)
       PROVE  Fresh'
  <2>1. Advances
    BY <1>10, ReturnedDraft DEF RequestCorrection, Advances
  <2> QED
    BY <1>10, <2>1, FreshAnswered DEF RequestCorrection, facts
<1>11. ASSUME NEW r \in Requests, NEW n \in Pending,
              NEW figures \in [corrections[n].lines -> 0..MaxVariance],
              Correct(r, n, figures)
       PROVE  Fresh'
  <2>1. draft' \in Drafts /\ draft \in Drafts /\ draft'.version > draft.version
    BY <1>11, CorrectedDraft
  <2> SUFFICES ASSUME NEW q \in Requests, request'[q] # NoRequest
               PROVE  /\ request'[q].expected <= draft'.version
                      /\ request'[q].expected # draft'.version
                      /\ ~opening' => Seen(q)'.cost = SnapshotCost
    BY DEF Fresh
  <2>2. request'[q] = request[q] /\ request[q] # NoRequest
    BY <1>11 DEF Correct, Answer, TypeOK
  <2>3. request[q].expected \in Nat /\ draft.version \in Nat /\ draft'.version \in Nat
        /\ request[q].expected <= draft.version
    BY <2>1, <2>2 DEF TypeOK, Sent, Drafts, Fresh
  <2>4. ~opening' => Facts'.cost = SnapshotCost
    BY DEF Facts
  <2>5. ~opening /\ request[q].view # NoView => request[q].view.cost = SnapshotCost
    BY <2>2 DEF Fresh, Seen
  <2>6. ~opening' => Seen(q)'.cost = SnapshotCost
    BY <1>11, <2>2, <2>4, <2>5 DEF Seen, Correct
  <2>7. /\ request'[q].expected <= draft'.version
        /\ request'[q].expected # draft'.version
    BY <2>1, <2>2, <2>3
  <2> QED
    BY <2>6, <2>7
<1>12. ASSUME NEW c \in Costs, ChangeCost(c)
       PROVE  Fresh'
  <2>1. ~opening => Facts' = Facts
    BY <1>12 DEF ChangeCost, Facts
  <2>2. opening' = opening /\ request' = request /\ draft' = draft
    BY <1>12 DEF ChangeCost
  <2>3. ~opening => \A q \in Requests : Seen(q)' = Seen(q)
    BY <2>1, <2>2 DEF Seen
  <2> QED
    BY <2>1, <2>2, <2>3 DEF Fresh
<1>13. CASE UNCHANGED vars
  BY <1>13 DEF vars, Fresh, Seen, Facts
<1> QED
  BY <1>1, <1>2, <1>3, <1>4, <1>5, <1>6, <1>7, <1>8, <1>9, <1>10, <1>11, <1>12,
     <1>13 DEF Next

-----------------------------------------------------------------------------
(* The settlement.                                                         *)

\* Where no settlement is posted, and none is added, nothing can be wrong
\* with it as long as the draft does not claim one.
LEMMA StillUnposted ==
    ASSUME ~Posted, settlements' = settlements, draft'.status # "applied"
    PROVE  Settled'
<1>1. settlements = <<>> /\ settlements' = <<>>
  BY DEF Posted
<1> QED
  BY <1>1 DEF Settled, Posted, SettledAtMostOnce, PostsWhatWasSubmitted

\* Where neither changes.
LEMMA SettlementKept ==
    ASSUME Settled, settlements' = settlements, draft' = draft
    PROVE  Settled'
BY DEF Settled, Posted, SettledAtMostOnce, PostsWhatWasSubmitted

\* Every step keeps Settled.
LEMMA SettledStep ==
    ASSUME TypeOK, Fresh, Settled, [Next]_vars
    PROVE  Settled'
<1>1. ASSUME NEW r \in Requests, Send(r) \/ Refuse(r) \/ ApproveAgain(r)
      PROVE  Settled'
  BY <1>1, SettlementKept DEF Send, Refuse, ApproveAgain
<1>2. ASSUME NEW r \in Requests, Create(r)
      PROVE  Settled'
  BY <1>2, StillUnposted DEF Create
<1>3. ASSUME NEW r \in Requests, Edit(r)
      PROVE  Settled'
  BY <1>3, EditedDraft, StillUnposted DEF Edit, Editable
<1>4. ASSUME NEW r \in Requests, Submit(r)
      PROVE  Settled'
  BY <1>4, SubmittedDraft, StillUnposted DEF Submit
<1>5. ASSUME NEW r \in Requests, Return(r)
      PROVE  Settled'
  BY <1>5, ReturnedDraft, StillUnposted DEF Return
<1>6. ASSUME NEW r \in Requests, Approve(r)
      PROVE  Settled'
  <2>1. settlements = <<>> /\ request[r] # NoRequest
    BY <1>6, SenderAuthorized DEF Approve, Approvable, Posted, Kinds
  <2>2. settlements' = <<Posting(r, TRUE)>>
    BY <1>6, <2>1 DEF Approve
  <2>3. Len(settlements') = 1 /\ settlements'[1] = Posting(r, TRUE)
    BY <2>2
  <2>4. draft'.submitted = draft.submitted
    BY <1>6, ApprovedDraft DEF Approve, Statuses
  <2>5. draft.submitted = SeenWhenApproving(r)
    BY <1>6 DEF Approve, Approvable, Unchanged
  <2>6. Posting(r, TRUE).facts = SeenWhenApproving(r)
    <3>1. Posting(r, TRUE).facts = [Seen(r) EXCEPT !.cost = Facts.cost]
      BY DEF Posting
    <3>2. CASE opening
      BY <3>1, <3>2 DEF SeenWhenApproving, Facts
    <3>3. CASE ~opening
      <4>1. Seen(r).cost = SnapshotCost /\ Facts.cost = SnapshotCost
        BY <2>1, <3>3 DEF Fresh, Facts
      <4>2. Seen(r) \in Views
        BY <2>1, SeenIsView
      <4>3. [Seen(r) EXCEPT !.cost = Seen(r).cost] = Seen(r)
        BY <4>2, Zenon DEF Views
      <4> QED
        BY <3>1, <3>3, <4>1, <4>3 DEF SeenWhenApproving
    <3> QED
      BY <3>2, <3>3
  <2>7. Posted' /\ SettledAtMostOnce'
    BY <2>2, <2>3 DEF Posted, SettledAtMostOnce
  <2>8. ASSUME NEW n \in 1..Len(settlements')
        PROVE  settlements'[n].facts = draft'.submitted
    <3>1. n = 1
      BY <2>3, <2>8
    <3> QED
      BY <2>3, <2>4, <2>5, <2>6, <3>1
  <2> QED
    BY <2>7, <2>8 DEF Settled, PostsWhatWasSubmitted
<1>7. ASSUME NEW r \in Requests, ApproveNoAdjustment(r)
      PROVE  Settled'
  <2>1. draft'.status = "no_adjustment"
    BY <1>7, ApprovedDraft DEF ApproveNoAdjustment, Statuses
  <2> QED
    BY <1>7, <2>1, StillUnposted DEF ApproveNoAdjustment, Approvable
<1>8. ASSUME NEW r \in Requests, Post(r)
      PROVE  Settled'
  <2>1. settlements = <<>>
    BY <1>8 DEF Post, Posted
  <2>2. settlements' = <<Posting(r, FALSE)>>
    BY <1>8, <2>1 DEF Post
  <2>3. Len(settlements') = 1 /\ settlements'[1] = Posting(r, FALSE)
    BY <2>2
  <2>4. Posting(r, FALSE).reviewed = FALSE
    BY DEF Posting
  <2>5. Posted' /\ SettledAtMostOnce'
    BY <2>2, <2>3 DEF Posted, SettledAtMostOnce
  <2>6. ASSUME NEW n \in 1..Len(settlements')
        PROVE  ~settlements'[n].reviewed
    <3>1. n = 1
      BY <2>3, <2>6
    <3> QED
      BY <2>3, <2>4, <3>1
  <2> QED
    BY <2>5, <2>6 DEF Settled, PostsWhatWasSubmitted
<1>9. ASSUME NEW r \in Requests, NEW lines \in SUBSET Lines \ {{}},
             RequestCorrection(r, lines)
      PROVE  Settled'
  BY <1>9, ReturnedDraft, StillUnposted DEF RequestCorrection
<1>10. ASSUME NEW r \in Requests, NEW n \in Pending,
              NEW figures \in [corrections[n].lines -> 0..MaxVariance],
              Correct(r, n, figures)
       PROVE  Settled'
  BY <1>10, CorrectedDraft, StillUnposted DEF Correct
<1>11. ASSUME NEW c \in Costs, ChangeCost(c)
       PROVE  Settled'
  BY <1>11, SettlementKept DEF ChangeCost
<1>12. CASE UNCHANGED vars
  BY <1>12, SettlementKept DEF vars
<1> QED
  BY <1>1, <1>2, <1>3, <1>4, <1>5, <1>6, <1>7, <1>8, <1>9, <1>10, <1>11, <1>12 DEF Next

-----------------------------------------------------------------------------
(* Four eyes.                                                              *)

\* Contributions are only made to a draft that is not decided afterwards.
LEMMA StillUndecided ==
    ASSUME TypeOK, Reviewed, draft \in Drafts, draft' \in Drafts,
           draft.status \notin {"applied", "no_adjustment"},
           draft'.approvedBy = draft.approvedBy
    PROVE  Reviewed'
<1>1. draft # NoDraft
  BY DEF Drafts, NoDraft, Statuses
<1>2. draft'.approvedBy = Nobody
  BY <1>1 DEF Reviewed
<1> QED
  BY <1>2 DEF Reviewed, FourEyes

\* Every step keeps Reviewed.
LEMMA ReviewedStep ==
    ASSUME TypeOK, Reviewed, [Next]_vars
    PROVE  Reviewed'
<1>1. ASSUME draft' = draft, contributors' = contributors
      PROVE  Reviewed'
  BY <1>1 DEF Reviewed, FourEyes
<1>2. ASSUME NEW r \in Requests, Send(r) \/ Refuse(r) \/ ApproveAgain(r) \/ Post(r)
      PROVE  Reviewed'
  BY <1>1, <1>2 DEF Send, Refuse, ApproveAgain, Post
<1>3. ASSUME NEW r \in Requests, Create(r)
      PROVE  Reviewed'
  BY <1>3 DEF Create, Reviewed, FourEyes
<1>4. ASSUME NEW r \in Requests, Edit(r)
      PROVE  Reviewed'
  BY <1>4, EditedDraft, StillUndecided DEF Edit, Editable
<1>5. ASSUME NEW r \in Requests, Submit(r)
      PROVE  Reviewed'
  BY <1>5, SubmittedDraft, StillUndecided DEF Submit, Editable
<1>6. ASSUME NEW r \in Requests, Return(r)
      PROVE  Reviewed'
  BY <1>6, ReturnedDraft, StillUndecided DEF Return
<1>7. ASSUME NEW r \in Requests, NEW s \in {"applied", "no_adjustment"},
             Approvable(r), draft' = Approved(r, s), contributors' = contributors
      PROVE  Reviewed'
  <2>1. /\ draft'.status = s
        /\ draft'.preparedBy = draft.preparedBy
        /\ draft'.submittedBy = draft.submittedBy
        /\ draft'.approvedBy = request[r].actor
    BY <1>7, ApprovedDraft DEF Statuses
  <2>2. request[r].actor \notin {draft.preparedBy, draft.submittedBy} \cup contributors
    BY <1>7 DEF Approvable, Impartial
  <2> QED
    BY <1>7, <2>1, <2>2 DEF Reviewed, FourEyes
<1>8. ASSUME NEW r \in Requests, Approve(r) \/ ApproveNoAdjustment(r)
      PROVE  Reviewed'
  BY <1>7, <1>8 DEF Approve, ApproveNoAdjustment
<1>9. ASSUME NEW r \in Requests, NEW lines \in SUBSET Lines \ {{}},
             RequestCorrection(r, lines)
      PROVE  Reviewed'
  BY <1>9, ReturnedDraft, StillUndecided DEF RequestCorrection
<1>10. ASSUME NEW r \in Requests, NEW n \in Pending,
              NEW figures \in [corrections[n].lines -> 0..MaxVariance],
              Correct(r, n, figures)
       PROVE  Reviewed'
  BY <1>10, CorrectedDraft, StillUndecided DEF Correct
<1>11. ASSUME NEW c \in Costs, ChangeCost(c)
       PROVE  Reviewed'
  BY <1>1, <1>11 DEF ChangeCost
<1>12. CASE UNCHANGED vars
  BY <1>1, <1>12 DEF vars
<1> QED
  BY <1>2, <1>3, <1>4, <1>5, <1>6, <1>8, <1>9, <1>10, <1>11, <1>12 DEF Next

-----------------------------------------------------------------------------
(* Corrections.                                                            *)

\* Where no correction is pending, and none is added.
LEMMA NonePending ==
    ASSUME Pending = {}, corrections' = corrections
    PROVE  Correctable'
BY DEF Pending, Correctable

\* Where draft and corrections stay, and a periodic count does.
LEMMA CorrectionsKept ==
    ASSUME Correctable, draft' = draft, corrections' = corrections,
           opening' = opening, ~opening => Facts' = Facts
    PROVE  Correctable'
<1>1. Pending' = Pending
  BY DEF Pending
<1> QED
  BY <1>1 DEF Correctable

\* A correction under way has its draft returned.
LEMMA NotReturnedNonePending ==
    ASSUME Correctable, draft.status # "returned"
    PROVE  Pending = {}
BY DEF Correctable

\* Every step keeps Correctable.
LEMMA CorrectableStep ==
    ASSUME TypeOK, Fresh, Correctable, [Next]_vars
    PROVE  Correctable'
<1>1. ASSUME NEW r \in Requests, Send(r) \/ Refuse(r) \/ ApproveAgain(r) \/ Post(r)
      PROVE  Correctable'
  <2>1. UNCHANGED <<facts, draft, corrections>>
    BY <1>1 DEF Send, Refuse, ApproveAgain, Post
  <2>2. opening' = opening /\ Facts' = Facts
    BY <2>1 DEF facts, Facts
  <2> QED
    BY <2>1, <2>2, CorrectionsKept
<1>2. ASSUME NEW r \in Requests, Create(r)
      PROVE  Correctable'
  BY <1>2, NotReturnedNonePending, NonePending DEF Create, NoDraft
<1>3. ASSUME NEW r \in Requests,
             Edit(r) \/ Submit(r) \/ Approve(r) \/ ApproveNoAdjustment(r)
      PROVE  Correctable'
  BY <1>3, NonePending DEF Edit, Submit, Approve, ApproveNoAdjustment, Approvable
<1>4. ASSUME NEW r \in Requests, Return(r)
      PROVE  Correctable'
  BY <1>4, NotReturnedNonePending, NonePending DEF Return
<1>5. ASSUME NEW r \in Requests, NEW lines \in SUBSET Lines \ {{}},
             RequestCorrection(r, lines)
      PROVE  Correctable'
  <2> DEFINE asked == [status |-> "pending", lines |-> lines, source |-> Seen(r)]
             last == Len(corrections) + 1
  <2>1. request[r] # NoRequest
    BY <1>5, SenderAuthorized DEF RequestCorrection, Kinds
  <2>2. draft'.status = "returned"
    BY <1>5, ReturnedDraft DEF RequestCorrection
  <2>3. corrections' = Append(corrections, asked) /\ corrections \in Seq(Corrections)
    BY <1>5 DEF RequestCorrection, TypeOK
  <2>4. Len(corrections) \in Nat
    BY <2>3
  <2> HIDE DEF asked
  <2>5. /\ Len(corrections') = last
        /\ corrections'[last] = asked
        /\ \A k \in 1..Len(corrections) : corrections'[k] = corrections[k]
    BY <2>3, <2>4
  <2>6. \A k \in 1..Len(corrections) : corrections[k].status # "pending"
    BY <1>5 DEF RequestCorrection, Pending
  <2>7. ASSUME NEW k \in Pending'
        PROVE  k = last
    <3>1. k \in 1..last /\ corrections'[k].status = "pending"
      BY <2>5, <2>7 DEF Pending
    <3>2. k \notin 1..Len(corrections)
      BY <2>5, <2>6, <3>1
    <3> QED
      BY <2>4, <3>1, <3>2
  <2>8. ~opening' => asked.source = Facts'
    <3>1. opening' = opening /\ Facts' = Facts
      BY <1>5 DEF RequestCorrection, Facts, facts
    <3>2. ~opening => Seen(r) = Facts
      BY <1>5, <2>1 DEF RequestCorrection, Expects, Fresh
    <3> QED
      BY <3>1, <3>2 DEF asked
  <2> QED
    BY <2>2, <2>5, <2>7, <2>8 DEF Correctable
<1>6. ASSUME NEW r \in Requests, NEW n \in Pending,
             NEW figures \in [corrections[n].lines -> 0..MaxVariance],
             Correct(r, n, figures)
      PROVE  Correctable'
  <2>1. Pending = {n} /\ corrections \in Seq(Corrections) /\ n \in 1..Len(corrections)
    BY <1>6 DEF Correct, TypeOK, Pending
  <2>2. corrections[n] \in Corrections
    BY <2>1
  <2>3. [corrections[n] EXCEPT !.status = "corrected"].status = "corrected"
    BY <2>2, Zenon DEF Corrections
  <2>4. corrections' = [corrections EXCEPT ![n] = [corrections[n] EXCEPT !.status = "corrected"]]
    BY <1>6 DEF Correct
  <2>5. Len(corrections') = Len(corrections)
    BY <2>1, <2>2, <2>4
  <2>6. corrections'[n].status = "corrected"
    BY <2>1, <2>3, <2>4
  <2>7. \A k \in 1..Len(corrections) : k # n => corrections'[k] = corrections[k]
    BY <2>1, <2>4
  <2>8. Pending' = {}
    BY <2>1, <2>5, <2>6, <2>7 DEF Pending
  <2> QED
    BY <2>8 DEF Correctable
<1>7. ASSUME NEW c \in Costs, ChangeCost(c)
      PROVE  Correctable'
  <2>1. /\ opening' = opening
        /\ ~opening => Facts' = Facts
        /\ draft' = draft /\ corrections' = corrections
    BY <1>7 DEF ChangeCost, Facts
  <2> QED
    BY <2>1, CorrectionsKept
<1>8. CASE UNCHANGED vars
  <2>1. /\ opening' = opening /\ Facts' = Facts
        /\ draft' = draft /\ corrections' = corrections
    BY <1>8 DEF vars, Facts
  <2> QED
    BY <2>1, CorrectionsKept
<1> QED
  BY <1>1, <1>2, <1>3, <1>4, <1>5, <1>6, <1>7, <1>8 DEF Next

-----------------------------------------------------------------------------
(* The promises.                                                           *)

\* The invariant holds in every state.
LEMMA Invariance == Spec => []IInv
<1>1. Init => IInv
  <2> SUFFICES ASSUME Init
               PROVE  IInv
    OBVIOUS
  <2>1. TypeOK
    BY DEF Init, TypeOK
  <2>2. Pending = {}
    BY DEF Init, Pending
  <2>3. Fresh /\ Reviewed /\ Correctable
    BY <2>2 DEF Init, Fresh, Reviewed, FourEyes, Correctable, NoRequest
  <2>4. Settled
    BY DEF Init, Settled, SettledAtMostOnce, PostsWhatWasSubmitted, NoDraft
  <2> QED
    BY <2>1, <2>3, <2>4 DEF IInv
<1>2. IInv /\ [Next]_vars => IInv'
  BY TypeStep, FreshStep, SettledStep, ReviewedStep, CorrectableStep DEF IInv
<1> QED
  BY <1>1, <1>2, PTL DEF Spec

\* However many actors send whatever requests in whatever order, and however
\* old what they have read, the differences of a count are posted once.
\* [approveDraft, applySettlement]
THEOREM PostedOnce == Spec => []SettledAtMostOnce
<1>1. IInv => SettledAtMostOnce
  BY DEF IInv, Settled
<1> QED
  BY <1>1, Invariance, PTL

\* Nobody ever approves a draft he has prepared, edited, submitted or corrected.
\* [approveDraft: preparer, submitter and contributors are refused]
THEOREM ImpartialApproval == Spec => []FourEyes
<1>1. IInv => FourEyes
  BY DEF IInv, Reviewed
<1> QED
  BY <1>1, Invariance, PTL

\* What an approval posts has the lines, figures and costs that were
\* submitted, whenever the approving transaction began.
\* [approveDraft: the fingerprint, read with the costs locked]
THEOREM PostingFaithful == Spec => []PostsWhatWasSubmitted
<1>1. IInv => PostsWhatWasSubmitted
  BY DEF IInv, Settled
<1> QED
  BY <1>1, Invariance, PTL

\* A correction of a periodic count can be saved as long as it is pending.
\* [requestCountCorrection, saveCountCorrection: the source fingerprint]
THEOREM CorrectionPossible == Spec => []PeriodicCorrectionCanBeSaved
<1>1. IInv => PeriodicCorrectionCanBeSaved
  BY DEF IInv, Correctable, PeriodicCorrectionCanBeSaved, CorrectionCanBeSaved
<1> QED
  BY <1>1, Invariance, PTL

\* Once a review has been prepared, a settlement is only posted by approving.
\* [applySettlement: refused once there is a draft]
THEOREM NothingBesideReview == Spec => ReviewNotBypassed
<1>1. IInv /\ [Next]_vars =>
        [draft # NoDraft /\ settlements' # settlements =>
            draft'.status = "applied" /\ settlements'[Len(settlements')].reviewed]_vars
  <2> SUFFICES ASSUME IInv, [Next]_vars, draft # NoDraft, settlements' # settlements
               PROVE  draft'.status = "applied" /\ settlements'[Len(settlements')].reviewed
    OBVIOUS
  <2>1. TypeOK /\ Settled
    BY DEF IInv
  <2>2. ASSUME NEW r \in Requests, Approve(r)
        PROVE  draft'.status = "applied" /\ settlements'[Len(settlements')].reviewed
    <3>1. draft'.status = "applied"
      BY <2>1, <2>2, ApprovedDraft DEF Approve, Statuses
    <3>2. settlements = <<>>
      BY <2>2 DEF Approve, Approvable, Posted
    <3>3. settlements' = <<Posting(r, TRUE)>>
      BY <2>2, <3>2 DEF Approve
    <3>4. settlements'[Len(settlements')] = Posting(r, TRUE)
      BY <3>3
    <3> QED
      BY <3>1, <3>4 DEF Posting
  <2>3. ASSUME NEW r \in Requests
        PROVE  ~Post(r)
    <3>1. draft \in Drafts /\ "none" \notin Statuses
      BY <2>1 DEF TypeOK, Statuses
    <3>2. Post(r) => draft.status = "applied" /\ ~Posted
      BY <3>1 DEF Post, Drafts
    <3> QED
      BY <2>1, <3>2 DEF Settled
  <2>4. \E r \in Requests : Approve(r) \/ Post(r)
    BY DEF Next, Send, Refuse, Create, Edit, Submit, Return, ApproveNoAdjustment,
           ApproveAgain, RequestCorrection, Correct, ChangeCost, vars
  <2> QED
    BY <2>2, <2>3, <2>4
<1> QED
  BY <1>1, Invariance, PTL DEF Spec, ReviewNotBypassed
=============================================================================
