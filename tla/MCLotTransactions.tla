-------------------------- MODULE MCLotTransactions --------------------------
(* LotTransactions on two or three database connections, under the loads   *)
(* its questions are about.                                                *)
EXTENDS LotTransactions, TLC

Connections == Permutations(Procs)

\* Whatever a late read view shows an early one shows as well, when its
\* transaction begins at the right moment: {TRUE} leaves nothing out.

\* One lot in two stock rows.
Postings ==
    Load({"issue", "transfer", "receipt", "settle"},
         {1}, {1, 2}, {}, {TRUE}, 2)

\* Two lots in one stock row.
SharedStock ==
    Load({"dispose", "receipt", "openingBalance", "settle"},
         {1, 2}, {1}, {}, {TRUE}, 2)

\* Maintenance teams return what has been delivered to them while it moves.
TeamReturns ==
    Load({"receipt", "issue", "transfer", "teamReturn"},
         {1}, {1, 2}, {1}, {TRUE}, 2)

\* Deliveries that complete a purchase item lock all lots and balances.
PurchaseIssues ==
    Load({"receipt", "purchaseIssue", "transfer", "supplierReturn"},
         {1}, {1, 2}, {}, {TRUE}, 2)

\* Three requests on the rows of one lot.
ThreeRequests == Load({"receipt", "issue", "settle"}, {1}, {1}, {}, {TRUE}, 3)

AllPostings == {Postings, SharedStock, TeamReturns, PurchaseIssues, ThreeRequests}

\* Recipients return parts of one delivery; the view is taken late.
RecipientReturns ==
    Load({"receipt", "issue", "recipientReturn"}, {1}, {1}, {1}, {FALSE}, 2)

\* So do maintenance teams; views from BEGIN do not matter to their returns.
PartialTeamReturns ==
    Load({"receipt", "issue", "teamReturn"}, {1}, {1}, {1}, {TRUE}, 2)

AllReturns == {RecipientReturns, PartialTeamReturns}

\* A recipient's return next to a transfer of the same lot.
ReturnRace ==
    {Load({"receipt", "issue", "transfer", "recipientReturn"},
          {1}, {1, 2}, {1}, {FALSE}, 2)}

\* Two invoice drafts for one item.
DraftRace == {Load({"draftReceipt"}, {1, 2}, {1}, {}, {TRUE}, 2)}

\* Two returns of one delivery on a database that takes the view at BEGIN.
EarlyReturns ==
    {Load({"receipt", "issue", "recipientReturn"}, {1}, {1}, {1}, {TRUE}, 2)}

\* A transfer into a stock row that receives goods.
Valuation == {Load({"receipt", "transfer"}, {1, 2}, {1, 2}, {}, {FALSE}, 2)}
=============================================================================
