------------------------------ MODULE MCPmTask ------------------------------
(* PmTask with two connections that close, issue or link.                  *)
EXTENDS PmTask, TLC

Interchangeable ==
    Permutations(Technicians) \cup Permutations(Items)
    \cup Permutations(Tickets) \cup Permutations(Requests)
=============================================================================
