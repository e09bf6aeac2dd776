------------------------- MODULE MCPurchaseExecution -------------------------
(* PurchaseExecution undisturbed, one request at a time; with two requests *)
(* and disturbances; and with the endpoints that no page uses.             *)
EXTENDS PurchaseExecution, TLC

OneAtATime == {Load(1, FALSE, FALSE)}
TwoAtATime == {Load(2, TRUE, FALSE)}
RetiredToo == {Load(1, FALSE, TRUE)}
AllLoads == OneAtATime \cup TwoAtATime \cup RetiredToo

Interchangeable == Permutations(Items) \cup Permutations(Requests)
=============================================================================
