# A TLA+ model of the maintenance management system

The program is a maintenance management system (CMMS): tickets and preventive
maintenance, the purchase of materials, and the warehouses the materials come
into and go out of. An Express server offers tRPC procedures to a web client and
keeps everything in a MySQL compatible database ("TiDB / MySQL",
`src/docs/ARCHITECTURE.md:67,133`) through Drizzle and a pool of ten connections
(`src/server/_core/db/client.ts`). What is concurrent meets in the database, with
one exception: translations wait in the memory of the server, in a queue, in
timers and in a cache.

Three facts about the code decide how it is modelled.

- **Two ways of writing.** The warehouse code posts in transactions with row
  locks. The purchase and ticket code runs single statements on the pool, each
  committed on its own: read and check a row, then write it unconditionally.
- **The isolation level is the default.** `withTransaction` (client.ts 102-106)
  and `db.transaction` ask for none, so a transaction is REPEATABLE READ: a plain
  `SELECT` answers from a read view, also after a `SELECT ... FOR UPDATE` of the
  same row. Only the confirmation of a team's return asks for READ COMMITTED
  (`src/server/pmv2/materials/team-issue-handoff-service.ts:1284`).
- **MySQL and TiDB take the read view at different moments**: MySQL at the first
  plain `SELECT`, TiDB at `BEGIN`. Several operations are right under the first
  rule only. Each run says which rule it assumes.

## 1. Inventory

*State* names tables (`src/drizzle/schema.ts`); *hard* says what a test would
hardly reach; *right when* says what makes the part correct.

### Modelled, wholly or in part

**Lot ledger** (`_core/inventory-lots.ts`). State: `inventory.quantity` per item and
warehouse, `inventory_lots.remainingQuantity` per lot,
`inventory_lot_balances.quantity` per lot and stock row; the same goods three
times. Operations: create, consume, transfer, return, adjust. Hard: two postings
that each see enough for themselves; figures computed from reads that are older
than the locks. Right when the three figures agree and none is negative
(`src/docs/CMMS_PHASE5_STEP4_1_INVENTORY_INTEGRITY_RULES_CLOSURE_2026-08-23.md`).

**Warehouse postings** (`_core/db/warehouse-returns.ts`, `warehouse-receipts.ts`,
`warehouses.ts`, `invoice-drafts.ts`, `routers/inventory/receipts.v2.router.ts`,
`pmv2/materials/team-issue-handoff-service.ts`). The ledger plus documents of
delivery and return. Operations: delivery, disposal, return to the supplier,
transfer, receipt, receipt of an invoice draft, opening balance, settlement,
recipient's return, team's return. They call the lot ledger inside their
transaction. Hard: different lock orders, circles of waiting transactions, partial
failure between statements, stale read views, the same goods returned twice. Right
when every transaction that commits is one whole posting.

**Inventory counts** (`_core/db/invoice-drafts.ts`,
`routers/inventory/inventoryCount.router.ts`). State: `inventory_count_operations`,
`..._snapshots`, `..._lines`. Operations: open, scan, record, complete, delete,
settle. They freeze lots: every movement asks `assertLotsMovable` first. Hard:
opening is many autocommitted statements; the guard reads without a lock; counts
overlap. Right when counted lots stand still, a settlement makes the books say
what is on the shelf, and a saved count is final.

**Settlement review** (`services/inventory/settlement-review.ts`). State:
`inventory_settlement_drafts`, events, correction requests, settlements.
Operations: save, submit, return, approve, request and save a correction, post
directly. It settles through the count. Hard: stale versions, lost answers, four
eyes over several rounds, fingerprints that move. Right when a settlement is
posted once, is what was submitted, and is approved by somebody who had no part in
the draft or its corrections (whoever counted at first may approve).

**Purchase orders** (`routers/purchase/purchase-orders.router.ts`,
`_core/db/purchase.ts`). State: `purchase_orders.status`,
`purchase_order_items.status`. Operations: review, price, approve, buy, cancel,
resubmit, give up, confirm arrival and delivery, close; receipts
(`receipts.v2.router.ts`) and deliveries (`warehouse-returns.ts`) write to the
items, too. Hard: six operations recompute the order's status with six rules;
items are overwritten by requests that checked them long ago. Right when no
stage is skipped, goods come in and go out once, and the order summarises its
items. Only the execution of an approved order is modelled.

**Receipts from invoices** (`routers/inventory/invoiceDraft.router.ts`,
`_core/db/invoice-drafts.ts`, `services/inventory/purchaseReceiptEligibility.ts`).
State: `warehouse_receipts`, `warehouse_receipt_items`, OCR jobs. The eligibility
check and the posting are modelled; the life of a draft is not yet. Hard:
approving a draft checks outside the transaction that posts.

**Tickets** (`routers/tickets/tickets.workflow.ts`, `tickets.closure.ts`,
`it-team.router.ts`, `routers/maintenance-teams/assignment.repository.ts`,
`_core/db/tickets.ts`, `deletes.ts`). State: `tickets`, `ticket_departments`,
`ticket_tasks`. Operations on a main ticket: triage to one or several departments,
claim, hand over, transfer, plan and assign tasks, promote a task to a sub-ticket or
give it to a team, close, confirm, delete a sub-ticket. Hard: what is checked before
the transaction is checked again in it only in part, and by nobody when the ticket is
closed; closing completes the tasks it has read, and a deletion unlinks them without
the ticket's lock. Right when a sub-ticket belongs to its task and the task's
department, and nothing is open below a closed ticket. The work on a sub-ticket, the
older workflow and approvals are not modelled.

**Preventive maintenance** (`pmv2/technician/execution-service.ts`,
`pmv2/tickets/`, `pmv2/materials/`, `pmv2/scheduler/repository.ts`). State:
`pmv2_tasks`, `pmv2_task_items`, visits, item actions, ticket links, deliveries.
Operations: start, resume, submit a result, end a visit; open and close the ticket
of an item; decide about material, issue it, take it, link a delivery. They use
tickets and warehouse postings. Hard: the status of the task is computed from its
items by writers that see different states of them; delivery and link are two
transactions. Right when the task is completed exactly with its items, and
material is issued and linked once. Only one task is modelled, not which are due.

**Translation queue** (`services/translation/translationEngine.ts`). State:
`entity_translations`, `translation_jobs`; queue, timers and cache in memory.
Operations: queue, translate, save, fail, retry, recover, override, read. Hard: a
result overtakes an edit or an approval; a restart forgets what waits in memory; the
handling of a failure may fail. Right when the newest text is the one translated,
approved text stays, and no job that the record waits for is stuck.

**Database**: tables, pool, transactions, row locks, read views, deadlock
detection. External; modelled in `LotTransactions` as its documentation and the
way the code relies on it say.

### Not modelled yet

| Part | State and operations | Hard | Right when |
|---|---|---|---|
| Document numbers | counter tables; numbers from the highest id | two transactions see the same maximum; lot numbers end at 99999 a year | numbers are unique |
| Purchase review and pricing, packages | item and batch statuses, two approvals | batches are written item by item | nothing is bought that was not approved by both |
| Pricing bundles | `delegate_pricing_bundles`, reservation by unique columns, revision | lock order of actor, item, bundle; limit of 20 | an item is in one bundle, a sent bundle does not change |
| Execution of tickets, older workflow | about twenty statuses, paths A, B and C, approvals, team work | `updateTicket` is unconditional after a check | transitions of the workflow only, work is done by one team |
| Due tasks, requests for material to other warehouses | programs, `pmv2_material_requests` | scheduler beside manual runs, handoffs in both directions | a task is due once, materials are accounted for |
| External maintenance | jobs, follow-up, pricing | writes the order's items of path C, too | a repaired asset comes back once |
| Issue batches, book issues | several deliveries in one transaction, checks outside it | views older than the second line | all lines or none |
| Operational issues, supplier return follow-up | replacement plans and purchases | links between three life cycles | a replaced item is not bought twice |
| Catalog | candidates, identities, consolidation of stock rows | rows merged while they are posted to | quantities survive consolidation |
| Caches | entries with an expiry, invalidated by pattern | a value computed before a write is cached after it | stale for no longer than the expiry |
| Second factor | backup codes | one code used twice at once | a code works once |
| Reconciliation, opening balance files | pure functions over a period, an Excel import | bounds and rounding | report equals ledger |

### Outside the scope

Notifications and background reminders (nothing depends on them), assets, sites,
users and reports (create, read, update, delete), authorization tables (no state;
the roles that decide a transition are in the modules), documents, uploads, AI
and the scanner helper (rendering and external services), construction projects
and ideas (records with a status), the web client (the server enforces every
rule) and `rateLimiter.ts`, which says of itself that nothing uses it.

`PROJECT.json` lists all of them with their sources, and the hazards of the code,
each at its line with the properties that watch it or the reason why none does.

## 2. Plan

Written, in this order: `LotLedger`, `LotTransactions`, `InventoryCount`,
`SettlementReview`, `PurchaseExecution`, the proofs of the first, fourth and fifth,
`PmTask`, `TicketPlan`, `TranslationQueue`, and the proofs of all of them, the
refinement of `LotLedger` by `LotTransactions` last. To come, most important first:

1. `ReceiptDraftApproval`: the life of an invoice draft up to its posting, with
   retries; promises what `PurchaseExecution` assumes of receipts.
2. Its proofs and those of the modules below, as they come: each brings its
   inductive invariant as a conjunction of named parts.
3. `CountSettlement`: `InventoryCount` and `SettlementReview` over the same lines,
   so that corrections and movements meet; a read view from `BEGIN` in the count.
4. `PurchaseApproval`: review, pricing in batches, the two approvals, and its
   hand-over to `PurchaseExecution`; then `PricingBundles`.
5. `TicketWorkflow`: the work on a ticket below `TicketPlan`, with the orders that
   belong to it; then external maintenance and the work of teams.
6. `DocumentNumbers`: both numbering schemes against "numbers are unique".
7. Scheduler and material requests around `PmTask`.
8. Reconciliation and FIFO planning as functions against reference definitions.

Worth stating next: that a count in the discipline of section 4 implements an
abstract "the books become the shelf", of which `DisciplineReconciles` is the last
step.

## 3. Modules and code

| Module | What it is | Code |
|---|---|---|
| `LotLedger` | abstract: one posting at a time on the three figures | the promise of `inventory-lots.ts` |
| `LotTransactions` | the eleven postings, statement by statement, with locks and read views; implements `LotLedger` | the functions named in `PROJECT.json` |
| `InventoryCount` | counts beside movements | `invoice-drafts.ts` 700-2300, `inventory-lots.ts` 374-400 |
| `SettlementReview` | drafts, corrections, approvals, direct posting | `settlement-review.ts` |
| `PurchaseExecution` | items and order of an approved purchase | `purchase-orders.router.ts`, receipts and deliveries |
| `PmTask` | one maintenance task: items, visits, tickets, material | `pmv2/technician`, `pmv2/tickets`, `pmv2/materials` |
| `TicketPlan` | departments, tasks and sub-tickets of a main ticket | `tickets.workflow.ts`, `tickets.closure.ts`, `it-team.router.ts` |
| `TranslationQueue` | jobs, worker, record and cache of one field | `translationEngine.ts` |
| `LotLedgerProofs`, `LotTransactionsProofs`, `InventoryCountProofs`, `SettlementReviewProofs`, `PurchaseExecutionProofs`, `PmTaskProofs`, `TicketPlanProofs`, `TranslationQueueProofs` | theorems (section 5) | |
| `MC*` | instances for TLC: loads, symmetry, bounds by kind; `ledger` and `translations` need none | |

How the composition works: `LotTransactions` instantiates `LotLedger` with its
committed rows (`Ledger`) and promises that every commit is one of its postings
(`PostsToTheLedger`); `LotTransactionsProofs` proves that and carries the theorems of
the ledger over to the database (`CommittedFiguresAgree`). `InventoryCount` uses a
movement as one step and `SettlementReview` a count as its figures; they are not
joined yet. `PmTask` uses a delivery as one step of `LotTransactions` and a ticket as
open or closed.

**LotTransactions.** An operation is a sequence of statements (`Program`), read
off the code in order: `Lock` is `SELECT ... FOR UPDATE`, `Add` an `UPDATE` with a
condition, `Put` a plain `SELECT` followed by an `UPDATE` to an absolute figure,
and so on. `Execute` runs one statement; `db` is what is committed, `own` what the
transaction has written, `view` its read view, `held` its locks. What may still be
returned under a document is a row of its own without a bound from below:
that it stays above zero is `ReturnedWithinDelivered`, not a type. Statements that
do not touch the ledger are left out, but `Abort` may strike at any point. All
reads that follow one another without a write are one step.

Locks are taken in the order of the code. A lot is locked before its balances
wherever goods leave it or move, by the check of its specification
(`purchase-specification-guards.ts:29`) or by the transfer
(`inventory-lots.ts:565`). A delivery that completes a purchase item
(`purchaseIssue`) first locks the lots and balances of the item
(`CompletionCheck`). A transaction posts one line: receipts,
settlements, opening balances, disposals and batches post their lines one after
the other, in the order of entry, and so hold rows of other lines. What that
changes for the figures is modelled (a line after the first begins with an old view),
who then waits for whom is not. The project claims nothing of the absence of circles,
and the code gives no ground for it: two receipts of goods A, B and B, A, or
two opposite transfers, wait for each other, the database rolls one back
(`RollBackVictim`), and nothing tries it again.

**InventoryCount.** `balance` is the book, `shelf` the truth, which no code reads
except through `Record`. `warehouse` never changes: it says which practices the
code allows are followed there, which counts are opened, and how many goods there
are, so that one run looks at several warehouses. The `Discipline...` properties
speak of the one whose staff refrain from all of them; each practice but the
returns, which no guard stops either, has a configuration of its own that shows
what happens otherwise.

**SettlementReview.** Every operation locks the count row first and is one step;
`request` is what was sent, with the version and, for a view from `BEGIN`, the
facts its sender's transaction sees. Requests are sent by whoever the router
admits; everything else is a guard of the operation.

**PurchaseExecution.** `request` is where each request is in its sequence of
statements: check, write the item, read all items, write the order. Each summary
rule is an operator of its own (`AfterPurchase`, ...), as it is in the code.
`bought`, `receipts`, `drafted` and `deliveries` are history: the confirmations,
receipts and delivery documents the database keeps. `load` says whether requests
overlap, whether the server may die and administrators interfere, and whether
the endpoints that no page of the client calls any more are used.

**PmTask.** What a technician submits locks the row of the task first and is one
step. Closing a ticket, issuing and linking are a `Begin`, which keeps the items as
the transaction sees them (`seen`), and a `Commit`, which computes the task's
status from that; `Held` is the lock on an item in between. A technician who
takes material goes through `TakeCard`, `PostDelivery`, `AskLink`, `BeginLink`,
`CommitLink`; `FailLink` writes the marker that keeps the delivery from being
repeated, and `Crash` does not. "cancelled" is no status of a task here because
nothing writes it. Quantities are units, a delivery is one unit.

**TicketPlan.** Each request reads and checks (`Begin...`), then locks, checks again
and writes (`Commit...`); what the second check leaves out is what interleaving can
exploit. `seen` is `Late` when the transaction reads current rows under its locks,
as MySQL does, or the rows at `BEGIN`, as TiDB does ("earlyViews"). A unique index
that refuses an insert is a guard (`SubTicket`, `CommitTransfer`), and the refusal
is `GiveUp`. Closing the ticket is four steps: it reads the tasks (`BeginClose`) and
the sub-tickets (`CheckChildren`), locks the ticket and takes its view of the plan
(`LockToClose`), and completes by their ids the tasks it has seen promoted
(`CommitClose`). A deletion (`BeginDelete`, `CommitDelete`) does not wait for that
lock; everything that does has `TicketFree` as a guard.

**TranslationQueue.** Nothing is a transaction: a step is one statement and what
follows it in memory. The translation of a text is the text itself, so a stale
result differs from the present one; `Manual` is text written by hand. Any
statement may fail: an edit is then saved but not, or only half, queued (`Lose`), a
save goes on to the handling of failures (`FailSave`), and a failure elsewhere, in
that handling (`failTranslatedJob`) too, leaves the worker with job and record as
they are (`BreakOff`). `Crash` may come at any time and any number of times. `isName`
says whether the field is one of those that are translated while a reader waits.

## 4. What is checked

Every run that holds explores its whole state space. `Spec` has no fairness unless said.

| Run | Shows | Instance |
|---|---|---|
| `ledger` | any mixture of postings keeps the three figures agreeing | 2 lots, 2 stock rows, quantities 1-2, at most 4 |
| `lot_postings` | statement by statement every commit is one posting of `LotLedger`, loses no update, goes nowhere below zero, whoever waits, is rolled back or dies | 3 connections, five loads, views from `BEGIN` |
| `lot_returns` | parts of one delivery returned at once by recipients, or by teams, never add up to more than was delivered | 2 connections; views at first `SELECT`, for teams from `BEGIN` |
| `counts` | with nothing under way at the opening, one count at a time, no scans and no returns, counted lots stand still, settlements go through and reconcile; with all that, one line per lot, and saved counts are final | 2 lots, 2 counts, 2 clerks, a quiet and a busy warehouse |
| `review` | one settlement, of what was submitted, approved by nobody who had a part in the draft or its corrections, never beside a review; corrections of periodic counts can be saved | 3 actors, 2 requests, 2 costs |
| `purchase` | no item comes into stock twice, no stage is skipped; one request at a time, the order says what became of its items | 2 items, 2 requests |
| `pm_task` | no task is completed before its items, no work without a visit, links stay within the need, work resumes with all its material, the task's status follows its items except where the writer's view was old | 2 items, 2 technicians, 2 requests, needs 1-2 |
| `ticket_plan` | staff and sub-tickets fit the department of their task, task and sub-ticket point at each other, also when a deletion comes in the middle of a closing, numbers are not reused | 2 departments, 2 tasks, 2 requests, 3 kinds of department |
| `translations` | the present text is the one translated, no job undoes an approval, no job that the record waits for is stuck | 1 editor, 1 reader, 3 jobs, 2 tries, any failures and restarts, fairness |

Three runs end in a counterexample, each against a sentence of the repository
(quoted in `PROJECT.json`):

- `lot_return_race`: a recipient's return that waited for a transfer writes back
  the figures of its read view; the lot no longer equals its balances.
- `pm_task_race`: a ticket is closed while a technician completes the last other
  item; the task stays in progress with all its items completed.
- `ticket_close_race`: a task is planned between the checks of the closing and its
  transaction, and stays under a closed ticket.

Further configurations show what happens outside the assumptions of the runs, or
what no run states. Run with `tlc -config X.cfg M`, each ends in a counterexample.

| Configuration | Property | What happens |
|---|---|---|
| `LotDraftReceiptRace` | `StockMatchesLots` | of two invoice drafts approved at once the first is lost from the stock row, not from the lots. The page is withdrawn, the endpoint is served |
| `LotOverReturn` | `ReturnedWithinDelivered` | with a view from `BEGIN`, two recipients return the same goods |
| `LotStaleValuation` | `WeighsCurrentQuantity` | a transfer weighs the average with a quantity that has changed |
| `CountInFlight` | `StableReference` | a movement that passed the guard before a count was opened is posted after its snapshot |
| `CountByScan` | `SettlementReconciles` | a lot scanned after it moved is settled to a figure that is not on the shelf |
| `CountOverlap` | `FrozenLotsCanBeReleased` | two counts find the same difference; the second freezes the lot for good |
| `CountFinality` | `SavedCountIsFinal` | lines are inserted after the count is saved, by the request that still opens it |
| `CountBreakOff` | `FullCountCoversStock` | the server dies while opening; the count is saved without all lots |
| `ReviewDeadEnd` | `CorrectionCanBeSaved` | the average cost changes while an opening balance is being corrected; nothing can be done with that count any more |
| `PurchaseUndecided` | `UndecidedKeepsPartial` | the order becomes "purchased" with an undecided item, against `purchase-orders.router.ts:1343-1344` |
| `PurchaseFinality` | `CancelledIsFinal` | a late request revives an item that was given up |
| `PurchaseDeliveredTwice` | `DeliveredOnce` | a late confirmation of arrival sets a delivered item back, and it is delivered again |
| `PurchaseRetired` | `ReceivedOnce` | through the withdrawn draft approval an item is received again |
| `PmLateItem` | `CompletedTaskMeansCompletedItems` | the scheduler adds an item to a completed task; nobody can begin it |
| `PmHandedOut` | `HandedOutWithinNeed` | two self-issues of one need overlap; the second delivery cannot be linked and its goods are out |
| `TicketEarlyView` | `ChildInItsDepartment` | with views from `BEGIN` a transfer does not see the promotion it waited for, against `tickets.workflow.ts:784-785` |
| `TicketCrash` | `TaskAndChildLinked` | the server dies while a sub-ticket is deleted: it lives on without its task |
| `TicketDeleteRace` | `FinishedTaskHasChild` | a closing completes a task that a deletion has unlinked since it was read: a completed task without a sub-ticket, against `deletes.ts:57` |
| `TicketFrozen` | `ClosedPlanIsFrozen` | a transfer that passed its first check changes the plan of a closed ticket |
| `TranslationApproved` | `ApprovedIsKept` | an edit that looked at the record before it was approved makes it pending |
| `TranslationLabel` | `NoStaleLabel` | a reader fills the cache with what he read before the edit, against `translationEngine.ts:489-492` |
| `TranslationStuck` | `PendingIsSettled` | between completing the job and writing the record a statement fails, and so does the handling of that, or the server dies; no recovery or retry looks at such a record |
| `TranslationNames` | `NameIsCurrent` | a name translated for a reader is stored over that of a later edit |
| `TranslationTwoEdits` | `TranslationIsCurrent` | of two edits that queue at once the earlier may come last |

### Bounds, and why they are enough

- **Lots.** A race needs two transactions and one shared row; a transfer needs two
  stock rows; a sum that goes wrong needs a second summand. One load gives three
  connections the rows of one lot, so that a figure may change twice between a read
  and its use. Quantity 1 against a stock of at most 2 makes "enough for one of us"
  happen; in `lot_returns` quantities up to 2 make partial returns happen.
  Loads separate questions: all eleven kinds on all rows together would only
  interleave postings that share nothing. A view from `BEGIN` leaves nothing out:
  what a late view shows an early one shows, too, when its transaction happens to
  begin at that moment.
- **Counts.** The quiet warehouse holds up to 2 of a lot, the busy one 1. Two lots,
  so that one moves while the other is counted; two counts, so that one is opened
  over another; a shelf of at most 2, so that differences of both signs occur.
  `MaxLines` 2 lets a second line appear, which
  `OneLinePerLot` then excludes.
- **Review.** Version 6 is reached by create, submit, return for correction,
  correct, submit, approve; opening balances stop at 5, which still lets a
  correction be saved and submitted and a whole review without one be approved.
  One line suffices: lines are compared as a whole. Two costs make a
  fingerprint differ and agree again.
- **Purchase.** Two items make every summary tell "all" from "some"; two requests
  overtake each other. `MaxPostings` 2 lets a second posting happen, which
  `StockedOnce` must exclude. `receipts` has no bound: it stays at one.
- **Maintenance.** Two items tell "all" from "some", and the second is what an old
  view misses. Two tickets let an item have a reopened and a new one. A need of 2
  is met by two deliveries of 1; `MaxDeliveries` 2 lets both requests post one.
- **Tickets.** Two departments and three kinds: a transfer goes to a kind that is
  there (refused) or is not. Two tasks and two numbers let a task be promoted
  again after a deletion, or another one while a number is gone.
- **Translations.** Three jobs are the one before and two edits, one of them back
  to the former text; a second try is the last. Restarts and failing statements are
  not bounded. One editor, since two break `TranslationIsCurrent`.

Deadlock checking is off where the system may really stop: overlapping
settlements can freeze a lot for good (`counts`), a reviewed count, a closed
purchase, a completed task or a confirmed ticket is at its end, all texts are
translated, or the bound of the model is reached.

### Fairness

Only `translations` needs it. `WF(WorkerStep)`: the worker of a running server takes
its next step or fails at it (`FailSave`, `BreakOff` are steps of the worker), and the
external service answers or fails (a request gives up after a minute,
`translationEngine.ts:798-800`). `WF(Timer)`: a `setTimeout` fires. `WF(Recover)`:
recovery runs at the start and every 30 minutes (`_core/index.ts:1226-1248`).

That a statement succeeds is not promised by any of this. `AwaitedJobEnds` supposes
instead, in its own words (`Undisturbed`), that from some time on no statement fails
where no failure is handled, the server stays up, and nobody retries failed jobs by
hand; before that, anything may happen any number of times. What it promises is the
job: completed, failed for good, or no longer waited for. It does not promise the
record, which may stay pending after its job has been completed (`TranslationStuck`).
Nothing is assumed of edits and readers.

## 5. What is proved

TLAPS checks every proof, for every value of the constants, from the named
assumptions of the modules (`LedgerAssumption`, `TransactionsAssumption`,
`CountAssumption`, `ReviewAssumption`, `ExecutionAssumption`, `PmAssumption`,
`PlanAssumption`, `QueueAssumption`: numbers are naturals, sets are sets of what they
are meant to hold, items and requests are finitely many). Every safety and action
property of a run that passes is a theorem. Where a theorem has a hypothesis, it is
one about what happens, not about sizes; the table shows it beside the
configuration in which the property fails without it.

| Theorem | Hypothesis | Without it |
|---|---|---|
| `NoUpdateIsLost`, `PostingsImplementTheLedger`, `CommittedFiguresAgree` | `OnlyCareful`: no receipt of an invoice draft, no recipient's return | `LotDraftReceiptRace`, `LotReturnRace` |
| `ReturnsStayWithinDelivery` | `OnlyLateViews`: a recipient's return takes its view at its first `SELECT` | `LotOverReturn` |
| `EachLotIsCountedOnce`, `SavingIsFinal` | nobody works on a count that is still being opened | `CountFinality` |
| `CompletionIsEarned` | the scheduler adds no item to a task under way | `PmLateItem` |
| `NumbersAreUsedOnce`, `TasksAndChildrenStayLinked`, `ChildrenStayInTheirDepartment`, `StaffFitsTheDepartment` | rows are read under their locks | `TicketEarlyView` |
| `TasksAndChildrenStayLinked` | also: a deletion is carried to its end | `TicketCrash` |
| `CompletedIsCurrent` | one edit at a time (`OneEditor`) | `TranslationTwoEdits` |
| `OrderSummarisesItems` | an order has items: the router takes none without (`purchase-orders.router.ts:1548`) | |

Properties that speak of one warehouse or load among several say so themselves:
the `Discipline...` ones of a warehouse without the practices of section 3,
`OrderReflectsItems` of requests that come one at a time from the client's pages,
`StockedOnce` of those pages only (`PurchaseRetired`), `ProjectionFollowsItems` of a
writer whose view was not old (`pm_task_race`).

**LotLedgerProofs.** `TypeCorrect`, `StockAgreement`, `LotAgreement`. "The sum of the
balances" over any number of lots would be a recursive definition, about which
nothing can be proved here by induction. `SumsTo` therefore states a sum by its
partial sums, and the one lemma that carries the argument (`AddToSummand`) says
that changing a summand changes the partial sums from there on. The invariants
are inductive then, together with the types.

**LotTransactionsProofs.** `TypeCorrect`, `NoUpdateIsLost`,
`PostingsImplementTheLedger`, `CommittedFiguresAgree`, `ReturnsStayWithinDelivery`, in
steps that build on each other. What an operation does is data (`Programs`), so each
argument has two halves: lemmas about every one of the eleven programs, and one
induction over statements that does not look at the programs any more.

- *Types.* `Typing` adds to `TypeOK` that what a transaction has written and what its
  view shows are within the same bounds as what is committed (`AllSound`), and that a
  view shows every row the request will look at (`Views`). So no figure is negative
  even where it was written back from an old view.
- *No lost update.* `Locking`: a request holds exactly the rows its statements so far
  have locked, and no row is held twice. `Posting`: what a request has written of a
  row is the committed figure and what its one statement on that row adds. The lock
  keeps the committed figure in place. Of each program remain `Posts` (every row it
  should change is added to once, by the right amount, and no other) and `PutsItsOwn`
  (a figure from a plain `SELECT` is written back only where the transaction wrote the
  row before, and then sees its own figure). The receipt of a draft and the
  recipient's return fail `PutsItsOwn`.
- *The refinement.* `Creating`: a lot is inserted once, by one request. Then a commit
  that adds what was asked is the posting of `LotLedger` of that kind, and every other
  step, rollbacks and crashes included, is a stutter.
- *The figures agree.* `Laws` instantiates `LotLedgerProofs` with the committed rows;
  its theorems and the refinement give the two integrity rules of the database.
- *Returns.* `Returning`: what a return has seen to be left under its document stays
  there until it takes it, because its view is taken after the row was locked.

**InventoryCountProofs.** `TypeCorrect`, `EachLotIsCountedOnce`, `SavingIsFinal`,
`ReferenceIsStable`, `SettlementGoesThrough`, `BooksBecomeTheShelf`. The types hold
whatever the warehouse permits. `Orderly`: a count that is being opened is in
progress, and the lots its request has still to come to have no line; so a lot gets
one line, and nobody is left to write to a saved count. The last three are about
the warehouse with discipline: one count at a time has anything to do with the
books (`Alone`), nothing moves while it is opened (`Still`), nothing that has passed
the guard belongs to a lot it holds (`Clear`), and so a held lot lies and is booked
as it was at the opening (`Sound`). `Clear` is what makes guard and posting of a
movement, two steps, as good as one.

**SettlementReviewProofs.** `TypeCorrect`, `PostedOnce`, `ImpartialApproval`,
`PostingFaithful`, `CorrectionPossible`, `NothingBesideReview`. What a request has
read may be old, so nothing follows from a guard alone. The invariant has four
parts. `Fresh`: of a periodic count, a request that names the present version has
read the present count, because figures change only together with the version.
`Settled`: a posted settlement and its draft belong together and are left alone
afterwards. `Reviewed`: an approved draft has an approver who took no part in it.
`Correctable`: a pending correction is the only one, in a returned draft, of the
count as it is. `IInv` is their conjunction with the types.

**PurchaseExecutionProofs.** `TypeCorrect`, `ReceivedIntoStockOnce`,
`StagesInOrder`, `OrderSummarisesItems`. Items are overwritten by requests that
checked them earlier, so the invariant must speak of pending writes as well.
`Staged`: who is about to declare an item arrived has seen it bought, who is about
to hand it out has seen it in stock, and neither is ever undone. `Single`: a receipt
holds the locks of its items from its check to its commit, so no two name the same
item and none names a received one. For the order, `Reflected` says where the one
request under way may be: it has just checked its item, has written it and not yet
summarised, has summarised and not yet written the order, or holds a view of the
items as they are; in each case the order will fit its items when it is done
(`Fitting`), and it fits them when nothing is under way (`Fits`). That each of the
operations, with its own summary rule, leaves the order fitting is one lemma
(`OperationFits`).

**PmTaskProofs.** `TypeCorrect`, `WorkIsVisited`, `CompletionIsEarned`,
`ProjectionIsKept`, `LinksStayWithinNeed`, `ReadyIsSupplied`. A request commits long
after it has read, so the argument is about what stays true meanwhile. What it
refers to does not vanish (`Referring`). Work that has begun is never unbegun
(`Begun`), so a view shows a task under way, and what was completed in it still is
(`Viewed`); with no late items, what was missing in it is missing still
(`ViewedMissing`), and a status "completed" computed from a view is right however old
that is. For material, one request at a time holds the row of an item
(`OneHolder`) and what it found lacking still is (`Exact`); the lemma `ItemMoves` says
what any step may do to an item, so that each later argument has few cases.

**TicketPlanProofs.** `TypeCorrect`, for whatever is allowed to happen: a request
commits long after it has read, so the types need `Placed` and `Referring`, that
nothing once planned vanishes from under it. The other four are about transactions
that read current rows under their locks (`"earlyViews" \notin Allowed`; `ReadLate`
turns that into an invariant of the requests, `SeenIsNow` into what their second check
is worth; a closing under way keeps the plan it has read). `NumbersAreUsedOnce` rests
on `Counted`: numbers above the counter are free. `TasksAndChildrenStayLinked` adds
`TasksLinked` and `Unlinked` (what is being deleted has left its task) and needs that
a deletion is carried to its end, for which `"crashes" \notin Allowed`;
`TicketCrash.cfg` shows why. It says that a promoted task has its sub-ticket, and not
that a completed one does: a closing completes what it has read as promoted although a
deletion has unlinked it since (`TicketDeleteRace`). That such a task is at least
never linked to what is gone, nor a sub-ticket left behind, is what the theorem
establishes. `ChildrenStayInTheirDepartment` and `StaffFitsTheDepartment` follow from
one lemma on every step: a department changes its kind only over tasks that nobody
works on and that have no sub-ticket (`KindsChange`).

**TranslationQueueProofs.** `TypeCorrect`, `JobsLeaveApproved`, `CompletedIsCurrent`.
The types rest on two facts no single step shows: whatever waits, works or is half
done refers to a job that is there, and a job that may still be tried has a try
left (`Typing`, in parts for the record, the jobs, the edits, the worker and what
waits). A job respects an approval because the statement that writes the record
also looks at it. The completed translation is the present one (`Current`): it is
that of the job the record names (`ByItsJob`), which is for the present text unless
an edit is about to see to it (`Promised`, `EditIsLast`), whatever older jobs do,
whatever fails and wherever the server restarts; a lost edit, of which the program
knows nothing any more, is not promised anything.

**Only model-checked**: no safety property of a passing run, and beyond the
hypotheses above only what the configurations show. With views from `BEGIN` the types
of `TicketPlan` are proved and nothing else.

**Out of the prover's reach**, hence TLC's alone: `AwaitedJobEnds` (liveness under
fairness) and whatever would need induction over data or a recursive operator. No
module declares one.

## 6. What is abstracted

- **Data.** Quantities are small integers, fractions of units are not modelled.
  Costs appear as the quantity they are weighed with (`LotTransactions`) or as a
  value that differs (`SettlementReview`). Numbers, names, files, wording and
  notifications are left out.
- **Lots only.** The variants of postings and counts for items without lots are
  left out; lots are enabled.
- **One line per transaction** in `LotTransactions` (section 3): what several lines of
  one transaction lock of one another is left out, and no claim is made of circles.
- **InventoryCount** reads current rows under the lock of the count, as MySQL
  does. On TiDB a scan may miss the line of another; this is listed as a hazard.
  A movement is one unit of one lot.
- **SettlementReview** posts the figures it reads; that they become balances is
  the subject of `InventoryCount`. A request sends the present or the last version:
  an older one can only be refused.
- **PurchaseExecution** begins when an order is approved. Orders of a ticket,
  replacements for supplier returns, returned items in `needs_item_revision`,
  external maintenance as a writer of items, and deliveries of several items in
  one batch are left out. "approved" stands for "funded", "cancelled" for
  "rejected". The rest of the order is read by a receipt or delivery from the
  view its transaction took when it locked its items.
- **PmTask** leaves out the quantities of other warehouses and requests to them,
  replacements, what was used of the material, and the return of the rest, which
  `LotTransactions` has. `task` and visits are those of one task; a ticket other
  than its own never matters to it.
- **TicketPlan** leaves out the deletion of a main ticket, tickets of the older
  workflow, the roles (whoever may send a request does) and what happens on a
  sub-ticket between its making and its closing. Create, assign, promote and
  transfer have early views; the other transactions read current rows.
- **TranslationQueue** has one server process, one field and language of a table
  without translated columns of its own, and a record that exists from the start.
  The queue is a set: its order is that of the memory of one process, and any order
  is allowed here. Versions, batches and the search for texts that were never
  queued are left out.
