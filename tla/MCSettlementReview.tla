------------------------- MODULE MCSettlementReview -------------------------
(* SettlementReview with two requests under way at a time.                 *)
EXTENDS SettlementReview, TLC

Interchangeable == Permutations(Requests) \cup Permutations(Costs)

\* Create, submit, return for correction, correct, submit and approve a
\* periodic count; an opening balance only up to its second submission.
Versions == (FALSE :> 6) @@ (TRUE :> 5)
=============================================================================
