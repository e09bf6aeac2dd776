---------------------------- MODULE MCTicketPlan ----------------------------
(* TicketPlan on small instances.                                          *)
EXTENDS TicketPlan, TLC

Interchangeable ==
    Permutations(Departments) \cup Permutations(Tasks) \cup Permutations(Requests)
=============================================================================
