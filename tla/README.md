# A verification development for the retail SaaS

The repository is a multi-tenant retail system: a NestJS backend
(`apps/backend`) over PostgreSQL through Prisma, a Next.js frontend, and shared
packages. Nearly all of its logic is in the backend's services. Its hard part is
not the arithmetic of any one request but what requests do to each other: every
HTTP request, gateway callback and scheduled job runs concurrently with the
others, in any number of server instances, and they meet in the database at its
default isolation level, READ COMMITTED. The modules here model services at the
grain of their SQL statements, and the point of sale, which must go on selling
without a connection, at the grain of its fetches. TLC checks them on small
instances, and TLAPS proves the properties of the main ones for every instance.

## 1. Inventory

### The parts

| Part | State it keeps | Operations | Modules |
|---|---|---|---|
| Inventory ledger (`database/inventory.utils.ts`) | `ProductStock`, `InventoryMovement` | `applyInventoryMovement`, over a document's lines | `Inventory`, `StockLedger` |
| Warehouse transfers | `WarehouseTransfer`, its items | `create`, `send`, `receive` | `WarehouseTransfers` |
| Stock takes | `StockTakeSession`, its count lines | `create`, `updateCounts`, `updateStatus`, `post` | `StockTakes` |
| Automatic posting (`accounting/posting.utils.ts`) | `PostingEvent`, `Voucher`, `VoucherSequence` | `autoPostFromRules`, `voidAutoPostedVoucher`, retry of an exception, switching a rule | `Posting` |
| Customer credit accounts | `Customer.due_balance`, `CustomerCreditTransaction` | record, correct, delete a payment | `CustomerPayments` |
| Sales | `Sale`, `SaleItem`, `ProductSerial`, `Customer.total_spent` | `create`, `update` | `Sales` |
| Sales returns, sales orders, warranty claims | their documents, deposits, the serial's status | create, edit, remove, deliver, claim | `SalesReturns`, `SalesOrders`, `WarrantyClaims` |
| Loyalty points, storefront | `Customer.loyalty_points`, `LoyaltyTransaction` | earn, redeem, adjust; points of a sale; `placeOrder` | `Loyalty` |
| Purchases, purchase orders and returns | their documents and numbers | receive, create, return, correct, remove | `Purchasing` |
| Manufacturing | a job's status | `startJob`, `completeJob`, `cancelJob` | `Production` |
| Suppliers | `due_balance`, payments and their numbers | record, correct, delete a payment | `SupplierPayments` |
| Loans | a loan's terms and status, its payments | lend, edit, delete, repay, take a repayment back | `Loans` |
| Fund transfers | the transfer, its vouchers, a sequence | `initiate`, `receive` | `FundTransfers` |
| Cashier sessions | the session, its cash | `openSession`, `closeSession`, `addCashTransaction` | `Tills` |
| Referrals | commissions, payments | earn, `recordPayment` | `Commissions` |
| Manual and recurring vouchers | vouchers, templates and their dates | create (serializable, retried), edit, delete, post what is due | `JournalVouchers` |
| Fixed assets | accumulated depreciation, entries | `runDepreciation` | `JournalVouchers` |
| Leave | a leave's status, the days used | review, cancel | `Leaves` |
| CRM campaigns | status, recipients, counts | send and dispatch, reschedule, remove | `Campaigns` |
| Subscription billing | `TenantSubscription`, `BillingEvent` | checkout, callbacks and IPN, manual webhook and confirmation, cancel, refund, reminders, dunning | `Billing` |
| SMS credits | `Tenant.sms_credits`, `SmsTransaction` | `sendSms`/`consume`, `confirmPurchase`/`grantCredits` | `SmsCredits` |
| Point of sale without a connection (frontend) | the queue in IndexedDB, the POSTs on their way | checkout, `syncNow`, the service worker's `syncPendingSales` | `OfflineSales` |
| Authentication, team, tenants, reports, catalogue, quotations, expenses, the rest of the frontend | see `PROJECT.json` | | not modelled, with the reason there |

### How they interact

Services call each other inside one `prisma.$transaction`: a transfer, a
stock take, a sale or a purchase calls `applyInventoryMovement` once per line and
`autoPostFromRules` once per document; a payment calls `voidAutoPostedVoucher` and
`autoPostFromRules`. So documents of unlike services meet in three places: the
stock row of a shelf, the voucher sequence, and the customer's totals. Billing,
SMS credits, cashier sessions, leave, depreciation and campaigns use no transaction
at all: each statement is committed when it returns. Billing is also driven from
outside, by the payment gateway's redirects and IPN, and by daily jobs that every
instance runs. The point of sale talks to the server from two programs, the page
and the service worker, which share a queue and know nothing of each other.

### What is hard, and what makes each part correct

- *Inventory ledger.* Requests race for the last units and lock rows in the order
  of their lines, so they deadlock. Correct: never below zero; the movement
  history explains the stock; a document is booked whole or not at all; every
  request ends.
- *Documents that move stock.* Orders, purchases, jobs, transfers, sales and their
  returns read a status or a quantity, then write. Correct: what a document has
  moved is what it now says, once, whatever was corrected, refused or rolled back.
- *Stock takes.* The expected quantities are frozen when the session is created
  and the shop keeps trading. Correct: adjustments lose no concurrent sale; stock
  is adjusted by exactly the variances, once, with a voucher worth them.
- *Posting.* A number is read by one statement and the sequence incremented by the
  next. Correct: exactly one voucher of the right amount per posted document.
- *Balances* (customers, suppliers, loans, spending, points, days of leave,
  depreciation) are kept beside the rows that explain them, often written as
  absolute values computed from an earlier read. Correct: they are explained.
- *Billing.* Notices are duplicated, reordered and repeated; handlers die between
  statements; jobs run in several instances. Correct: no activation without a
  payment, no paid notice lost, one effect per payment, one reminder a day, nobody
  past due for ever, nobody who paid dunned.
- *SMS credits.* Sends race for the last credits and die half-way. Correct: never
  overdrawn, nothing sent unpaid, a ledger that explains the balance.
- *Scheduled work* (recurring vouchers, campaigns). A run may die between its
  statements and be repeated. Correct: each date once, each customer once.
- *Offline sales.* Connections, pages and answers are lost at any moment. Correct:
  what the cashier was told is kept, nothing is sold twice, and what was saved
  arrives.

The hazards, each at its line, are in `PROJECT.json`.

## 2. Plan

Done, in this order: the database (`ReadCommitted`), the ledger and its proofs,
transfers, stock takes, posting with payments, billing, SMS credits; then requests
of many services over the same rows (`Requests`): the desk (`SalesDesk`), the back
office (`BackOffice`), and the tenant that has both (`Tenant`); then the point of
sale (`OfflineSales`).

Then the theorems (section 5): the ledger and the refinement of `StockLedger`,
transfers, stock takes, payments with posting, billing, offline sales; then those
of the tenant, of all its services at once, one property after the other.

Next: `CountsAgree` and `SpendingIsExplained`, by the means that proved the others
(section 5, *Model-checked only*). And the parts that remain: expenses and salary
payments (a payment with a voucher, as `CustomerPayments`), bank reconciliation, the
circuit breaker.

## 3. The modules

### ReadCommitted: the database

External to the repository: PostgreSQL and Prisma as the services meet them. A
transaction reads what is committed plus what it wrote (`Sees`); a write takes the
row's lock and waits for it (`WriteRow`, `WriteRows`, `Autocommit`); `CommitTx`
publishes everything, `RollbackTx` nothing; `OnCycle` is what the deadlock
detector sees. A row is a value, a request is a process with a program counter,
and a step is one SQL statement that can wait or be overtaken. Statements that
touch only rows the request has locked, or rows it has just created, are joined to
the statement before them, since nobody can come in between.

### Inventory and StockLedger

`Inventory` is `applyInventoryMovement` in a loop. `doc[t]` is the request's list
of lines and `next[t]` the one it is about to apply. A row holds the stock and the
movements written for it: both are written under the stock row's lock.

| Action | Code |
|---|---|
| `Begin` | the service opens its transaction |
| `MoveIn` | delta > 0: `upsert` with `increment`, then the movement |
| `MoveOut` | delta < 0: `updateMany ... quantity >= n`, then the movement |
| `RefuseZero`, `Insufficient` | the two exceptions; they roll the document back |
| `Commit` | the callback returns |
| `DeadlockVictim`, `Timeout` | what the database and the network do |

`StockLedger` is what this promises: a document is applied in one step or
rejected, and stock stays non-negative. `ImplementsLedger` is the refinement:
stock is the committed quantity, and a request is open until it ends.

### WarehouseTransfers

One transfer; `create`, `send` and `receive` requests about it. Rows: its status,
the source stock and the units received of each product, and its voucher. The units
received stand for the destination's movements and for the item's
`quantity_received`, both written by `receive` under the same lock. `seen[t]` is
what the first statement of `receive` read and later statements compare with.
`ReadForSend` and `ReadForReceive` are the status checks. A create as SENT deducts
without posting, as the code does.

### StockTakes

One session, and the shop beside it: `shelf` is what is physically there, `Sell`
and `Deliver` move shelf and books, `Lose` only the shelf. `todo[t]` is the set of
lines a request has still to write: a client sends its counts in any order, and a
post takes the lines in the order the session is read in (`IsNext`). `ReadStock` and
`InsertSession` are the two statements of `create`; `ReadForStatus` and
`UpdateStatus` the two of `updateStatus`; counting and posting are transactions.
`updateStatus` is asked for any status its DTO accepts, POSTED included.

### Posting and CustomerPayments

`Posting` has the steps of `autoPostFromRules` (`TakeEvent`, `SkipPosting`,
`ReadNumber`, `IncrementSequence`, `InsertVoucher`, `NumberTaken`) and of
`voidAutoPostedVoucher` (`FindPosted`, `DeletePosted`, `DeletedMeanwhile`), the
retry endpoint, and the switching of the rule. Prisma's `upsert` with an empty
update only selects, so reading the number and incrementing the sequence are two
steps. `CustomerPayments` composes it with the three operations on payments, which
enter it at `post` and `void` and leave it at `commit` and `voided`.
The early return of `autoPostFromRules` for an event that is already posted is
kept in `TakeEvent`, but no behaviour of `CustomerPayments` takes it: a new payment
has a new id, and a correction voids the event, whatever its status, before it
posts again.

### Requests: the shape of the other services

Most services differ in their rows and their checks, not in how a request runs.
`Requests` has what they share: `task[t]` is the operation of request `t`, the
document it is about and its arguments; `read[t]` what its later statements use of
what it has read, which is where stale state lives; and one operator per kind of
statement:

| Operator | Code |
|---|---|
| `Reads`, `ReadsToPost` | a `find…` outside or inside a transaction, without a lock |
| `Writes` | an `update`, `create`, `delete…` inside `prisma.$transaction` |
| `CommitsTo`, `Ends` | the last statement of a transaction and its commit |
| `Stores` | a statement outside a transaction |
| `Throws` | an exception: roll back what there is |
| `Abort` | a timeout, a deadlock's victim, the death of the process; at any statement |
| `Posts` | the steps of `Posting` |

`Requests` defines `:>` and `@@` itself, as `TLC` does, because the provers do not see
that module.

A stock row keeps the units each document has moved; `OnHand` sums them, `StockLeft`
and `Shortage` are the outcomes of `applyInventoryMovement`, whose own
interleavings are `Inventory`'s subject. A request that the code refuses before it
has written anything is no step, except where the refusal comes after a step.

`resolveWarehouseId` picks the warehouse. `ShelfOf[d]`, the `Shop` of a request, is the
shelf of the request that makes `d`: a sale's `dto.warehouseId` or its store's default
for sales, the default warehouse of the store a return is made in (`dto.storeId`,
kept as the return's store, so that its removal finds it again). Neither keeps a
warehouse, and an edit resolves it anew: of a sale without `dto.warehouseId`
(`sales.service.ts:394`), of a return from the store of its *sale*
(`sales-returns.service.ts:213`). That is `ShelfOnEdit[d]`, the `EditShop`, any shelf
at all. Orders, purchases and jobs find one warehouse at every step.

### The desk: Loyalty, Sales, SalesReturns, SalesOrders, WarrantyClaims, SalesDesk

| Module | What it keeps apart |
|---|---|
| `Loyalty` | `redeemPoints` and `adjustPoints` check before their transaction and decrement unconditionally in it; a sale previews its points in one statement and books them in another; `placeOrder` checks points and takes none |
| `Sales` | `create`: preview, items and stock, serial number (found, then updated or inserted under a unique index), totals, posting. `update`: the old items go back and the new ones leave, by what was read before; items that were returned cannot be deleted |
| `SalesReturns` | what may still be returned is summed from an unlocked read; each line of a request is compared alone, so two lines of one item may exceed it |
| `SalesOrders` | any status may follow any other; stock leaves on DELIVERED; an edit deletes the lines its snapshot has and adds its own; deposits are totalled on an earlier read |
| `WarrantyClaims` | a claim opens a SOLD serial again |

`SalesDesk` states what they promise together. `StockFollowsDocuments` sums what a
document has moved over all shelves (`MovedInAll`), because an edit may move stock on
another shelf than the one it left; `OnItsShelves` says that there are at most these two.

### The back office: BackOffice and its parts

| Module | What it keeps apart |
|---|---|
| `Purchasing` | an order's status is read before the transaction that receives it; documents are numbered by counting, under a unique index; a return corrected or removed moves its units back |
| `Production` | a job's status is read, then components leave and the product arrives |
| `Loans` | a payment is compared with what was repaid by an earlier read; taking it back and reopening the loan are two statements |
| `SupplierPayments` | the balance is written as computed from an earlier read; the number is the greatest among payments of its direction, plus one |
| `FundTransfers` | each end makes a voucher from a sequence it reads and then increments; the receipt reads the transfer in its transaction, without a lock |
| `Tills` | a user's and a counter's open session are looked for in two statements before the third opens one |
| `Commissions` | commissions to pay are found by one statement and marked by another |
| `JournalVouchers` | `createVoucher` sees the sequence as of its start and starts again, three times in all, if it was changed (`Conflict`); a recurring voucher's date advances after its voucher is committed. `runDepreciation` reads all assets first; each gets an entry, then its total, in two statements; a second entry of a month is refused by the unique index |
| `Leaves` | the days used and the status are two statements |
| `Campaigns` | the status is read, set to SENDING, recipients added, and the dispatch goes on after the answer; a recipient is FAILED also if only the record of the message failed |

`BackOffice` states what they promise together; `Tenant` lets any requests of desk
and back office run at once, with posting. After its specification `Tenant` has the
inductive invariants of the tenant's theorems, one group of definitions per service,
which `Tenant_proofs` and any instance of the model can use.

### Billing

One tenant's subscription. A step is a statement, since nothing is in a
transaction. A callback is `Receive` (the duplicate check), `Apply`
(`applySubscriptionChange`) and `Record` (the event); a refund is `Refund`,
`RecordRefund` and `Downgrade`; the reminder job is `Remind`, `RecordReminder` or
`ReminderExists`, and `EmailReminder`; dunning is `FindOverdue` and `Dun`. Time is
kept as the days left of the period and passes only while nothing runs.
`activations` and `byHand` are history. The validation call to the gateway sits
between `Receive` and `Apply`, where any other request may come.

### SmsCredits

`consume` is `Decrement` or `Refuse`, `ReadBalance`, `RecordUsage`, followed by
`Send`; `confirmPurchase` is `Increment`, `RecordPurchase`, `Complete`; `Die` may
end any of them between two statements.

### OfflineSales

`checkout[k]` is what the cashier was told of a confirmation, `queue` the sales in
IndexedDB, `wire[s]` a POST: sent, recorded or refused by the server, or idle.
`ConfirmOffline`, `ConfirmOnline`, `Answered` and `Unanswered` are the branches of
`handleConfirmCheckout`; `SyncNow`, `NoticeOnline` and `BackgroundSync` start the
two jobs, `Send`, `Reply` and `NoReply` are one round of their loops. `Connect`
toggles the connection, `Reload` loses the page, and either may come at any
statement. `Record` and `Refuse` are the server, whose validation pipe refuses a
body with a field the DTO does not declare (`Valid`): the bodies are kept as their
sets of field names, since that decides it.

### The history variable `overlapped`

Some guarantees of the code hold only while its requests do not overlap, because a
status or a balance is read without a lock. `overlapped` (not a part of the code)
remembers which ones did. In the first modules it becomes true when a second request
starts before the first has ended, and those properties are stated under
`~overlapped`. In `Requests` it is the set of pairs of requests that ran at the same
time, and `Apart(S)` says that no two of them were about the documents of `S`: a
document is then promised its correctness however many requests about *other*
documents interleave with its own, which is the stronger and the more useful
statement. This separates, in one run, what the code guarantees in every
interleaving from what it guarantees to a document that is left alone. Every such
property was seen to fail without its condition.

## 4. The runs

| Run | Shows |
|---|---|
| `inventory` | in every interleaving of three documents: shape, `LedgerExplainsStock`, `NeverOversold`, `HistoryIsAppendOnly`, the refinement `ImplementsLedger`, and `EveryRequestEnds` |
| `transfers` | always: `DeductionsAreWhole`, `ReceivedIsComplete`; unless requests overlapped: `DeductedOnceUnlessRaced`, `ReceivedAtMostSent` |
| `stock_takes` | always: `BooksExplainShelves`; unless requests overlapped: `PostedAsCounted` |
| `payments` | always: `VouchersMatchPayments`; unless requests overlapped: `DueIsExplained` |
| `desk` | of three shelves and two stores, always: `SerialsAreSoldOnce`; unless requests that take points overlapped: `PointsAreCovered`; of a document left alone: `StockFollowsDocuments`, `ReturnedAtMostSold`, `SpendingIsExplained`, `OrderIsOneEdit`, `StockLeavesOnDelivery` |
| `back_office` | of a document left alone: `GoodsFollowDocuments`, `LoansAreRepaid`, `SupplierDueIsExplained`, `FundsArriveOnce`, `SessionsAreKeptApart`, `CommissionsArePaidOnce`, `DuesArePostedOnce`, `CountsAgree` (leave, depreciation, campaigns) |
| `billing` | always: `ActivePlanWasPaid`, `RemindedOnceADay`; undisturbed: `ActivatedOnce`, `DunningSparesThePaid` |
| `billing_live` | `PaymentsAreApplied`, `PastDueEnds`, with a crash |
| `sms_credits` | `SentWasPaid`, always; `LedgerExplainsBalance` unless a request died |
| `offline_sales` | `NothingToldIsLost`, `SoldOnce`, `SyncEnds`, over lost connections, pages and answers |
| `offline_sync` | *violated*: a sale saved offline never reaches the server |
| `billing_cancel` | *violated*: a subscription cancelled at its period's end never ends |

The type invariant is checked in the `inventory` run, and proved; the shapes of the
other modules' rows are exercised by every property that reads them.

### Where the program and its words differ

The two violated runs check what a message of the program says; the quotations are
in `PROJECT.json` under `findings`. Of `offline_sync` the field `createdAt` is the
sole cause: with a pipe that strips unknown fields instead of refusing them
(`ValidStrippingOthers`) the sale arrives, and then `SoldOnce` fails, because two
jobs post one queue without a key: the mutant of `SoldOnce` is that repair alone.

Other differences met while modelling, which no run is kept for:

- two `send` requests of one transfer deduct its stock twice (both pass the status
  check; what holds is `DeductedOnceUnlessRaced`);
- a posting refused for its voucher number rolls back its event with everything
  else, so nothing failed is left to retry, where
  `docs/prd/epic-31-automated-accounting-integration-posting-rules.md:25` wants failed
  posting events identified and recovered (`Posting.NumberTaken`);
- an abandoned checkout sets a running plan's status to that of the failed payment,
  against `docs/architecture/external-apis.md:17` (`Billing.Apply`);
- a supplier payment turned to the other direction keeps its number but is no longer
  counted, so the next payment of the old direction is refused for it;
- periods are never closed: `is_locked` is written and read by nothing but its own
  list, although `docs/user-manual/shop-owner-guide.md:541` speaks of closed periods;
- an edit of a sale or a return moves stock in the warehouse its store then has by
  default, not in the one it was made from: units sold from one warehouse come back to
  another, and those of a return made in a second store leave the first
  (`sales.service.ts:25` and `394`; `sales-returns.service.ts:26`, `213`, `330`). What
  holds is the sum over shelves, which is what `StockFollowsDocuments` says; that each
  shelf by itself agrees with its documents is false in the `desk` run;
- a half-open circuit breaker lets through every call that comes before its trial
  ends; its comment says a single one.

### Bounds, and why they are enough

- *Requests.* Three for the ledger, transfers, payments, desk and back office: two
  that race and a third that observes, undoes or completes. Two for stock takes,
  where the shop is a third actor, and for depreciation and campaigns, which have
  many statements each. Two handlers and two job instances for billing, four
  requests for SMS credits. In transfers and stock takes a request slot is reused,
  so sequences of requests are not bounded; elsewhere a request runs once, and
  `Workload` takes every choice of three tasks of one concern (with sales, where
  they share the voucher sequence). Requests of unlike concerns meet only in
  stock rows, the voucher sequence and the customer, each of which some workload has.
- *Data.* Two rows for the ledger (needed for opposite lock orders and for a failure
  between lines). Stock of one to four units, and one point, so that it runs out. The
  desk has three shelves: two warehouses of the sales' store, of which edits find the
  first, and that of a second store, which two of three returns are made in; each
  document is made for one or another.
  Transfers open with enough stock to be sent twice, and receipts cover part, all
  and too much. Two months and two assets, of either method, whose last charge is
  cut at the residual value; two customers of a campaign.
- *Numbers.* `MaxNumber`, `MaxFunds`, `MaxDocuments` bound vouchers and documents;
  three requests do not reach further. `Attempts = 3` is the code's: with three
  requests a third conflict cannot happen, so the failure after it is not reached.
- *Dates.* `Today = 1`: a recurring voucher is due once; a user may post it before.
- *Stock takes.* `Threshold = 0`, so that one unit needs a review; `MaxLost` and
  `MaxDelivered` are 1, which gives variances of both signs. `MaxAdjusted` keeps
  posts from starting on stock already adjusted upwards: racing requests can
  repost a session for ever, and each time adds units.
- *Billing.* A period of two days and a grace of one give days before, at and after
  both ends; dates beyond the last comparison are one date (`LongAgo`).
  `MaxNotices = 2` gives each payment its redirect and its IPN, or a repetition.
- *Offline sales.* Two confirmations, so that a queue has two sales and a second
  comes while the first is sent. The server's sales of one confirmation are counted
  to two.
- *Symmetry* is declared for interchangeable requests, in runs without liveness; in
  desk and back office each set of tasks is taken in one order instead.

### Fairness

`Inventory`: weak fairness of each running request's steps. Node resumes a request
when its statement returns, and PostgreSQL always breaks a deadlock; clients need
not make requests and nothing needs to time out. `Billing`: weak fairness of the
statements of a handler that was entered, of the daily jobs (the cron decorators)
and of the passing of days; strong fairness of receiving the notices of a payment,
since the gateway repeats an IPN and instances come back. Paying, asking, settling
and dying are never forced. `OfflineSales`: weak fairness of a job's rounds, since a
browser settles every fetch; that is all `SyncEnds` needs. `ConnectedSpec` adds, for
the violated run, every kindness of the network: the connection comes back, the page
notices, the jobs start and their POSTs reach the server. The property each depends
on is refuted when the action in question is broken (a mutant of `DeadlockVictim`,
`Receive`, `Overdue`, `NoReply`).

### Mutants

Each property of each passing run has a variant of one definition of the model,
written beside it with a plausible defect (a dropped guard, a stale read, a missing
reversal), which the run refutes.

## 5. The proofs

Each component with theorems has them in a module of its own, `<component>_proofs`,
over the lemmas of `ReadCommitted_proofs` where it uses the database. A theorem is
for any values of the constants that satisfy the assumptions of its modules, and
needs no others.

| Theorem | States |
|---|---|
| `Inventory_proofs!TypeCorrect` | `Spec => []TypeOK` |
| `Inventory_proofs!NoOverselling` | `Spec => []NeverOversold` |
| `Inventory_proofs!LedgerIsComplete` | `Spec => []LedgerExplainsStock` |
| `Inventory_proofs!HistoryIsKept` | `Spec => HistoryIsAppendOnly` |
| `Inventory_proofs!DocumentsMoveWhole` | `Spec => ImplementsLedger`, the refinement |
| `WarehouseTransfers_proofs!DeductionsStayWhole` | `Spec => []DeductionsAreWhole` |
| `WarehouseTransfers_proofs!ReceivedMeansComplete` | `Spec => []ReceivedIsComplete` |
| `WarehouseTransfers_proofs!OneDeduction` | `Spec => []DeductedOnceUnlessRaced` |
| `WarehouseTransfers_proofs!NothingIsCreated` | `Spec => []ReceivedAtMostSent` |
| `StockTakes_proofs!BooksAreExplained` | `Spec => []BooksExplainShelves` |
| `StockTakes_proofs!SessionIsPostedAsCounted` | `Spec => []PostedAsCounted` |
| `CustomerPayments_proofs!VouchersAgree` | `Spec => []VouchersMatchPayments` |
| `CustomerPayments_proofs!DuesAreExplained` | `Spec => []DueIsExplained` |
| `Billing_proofs!ActiveIsPaid` | `Spec => []ActivePlanWasPaid` |
| `Billing_proofs!OneReminderADay` | `Spec => []RemindedOnceADay` |
| `Billing_proofs!NoDoubleActivation` | `Spec => []ActivatedOnce` |
| `Billing_proofs!DunningIsFair` | `Spec => DunningSparesThePaid` |
| `Tenant_proofs!SessionsAreKeptApartHolds` | `Spec => []SessionsAreKeptApart` |
| `Tenant_proofs!CommissionsArePaidOnceHolds` | `Spec => []CommissionsArePaidOnce` |
| `Tenant_proofs!FundsArriveOnceHolds` | `Spec => []FundsArriveOnce` |
| `Tenant_proofs!SerialsAreSoldOnceHolds` | `Spec => []SerialsAreSoldOnce` |
| `Tenant_proofs!StockFollowsDocumentsHolds` | `Spec => []StockFollowsDocuments` |
| `Tenant_proofs!GoodsFollowDocumentsHolds` | `Spec => []GoodsFollowDocuments` |
| `Tenant_proofs!StockLeavesOnDeliveryHolds` | `Spec => StockLeavesOnDelivery` |
| `Tenant_proofs!SupplierDueIsExplainedHolds` | `Spec => []SupplierDueIsExplained` |
| `Tenant_proofs!PointsAreCoveredHolds` | `Spec => []PointsAreCovered` |
| `Tenant_proofs!OrderIsOneEditHolds` | `Spec => []OrderIsOneEdit` |
| `Tenant_proofs!LoansAreRepaidHolds` | `Spec => []LoansAreRepaid` |
| `Tenant_proofs!DuesArePostedOnceHolds` | `Spec => []DuesArePostedOnce` |
| `OfflineSales_proofs!NothingIsLost` | `Spec => []NothingToldIsLost` |
| `OfflineSales_proofs!NoDoubleSale` | `Spec => []SoldOnce` |

Of the ledger, transfers, stock takes, payments, billing and offline sales these are
all the safety properties their runs check; of the desk and the back office, all but
three (*Model-checked only*). In `Tenant_proofs`, `Spec` is that of `Tenant`: any
number of requests of any of its sixteen services at once, over any documents.

### What is assumed

Only what the modules declare, and the code justifies:

- `NoTx`, `NoCheckout`, `NoSerial`: not a request, not a confirmation, not a serial
  number; confirmations are not the two jobs (`CheckoutAssumption`). The models' names,
  no more.
- The rows are those of the tables (`RowAssumption`).
- Opening stock and sequences' limits are natural; the units of a line positive; a
  document has a product once in a transfer, as `@@unique` on its items requires,
  and each product once in a session (`OrderAssumption`).
- A transfer has an item, and finitely many (`ProductAssumption`; the DTO requires
  one); payments and products are finitely many, since sums range over them.
- A tenant's workload is one the program can be asked for: each operation is about a
  document of its kind (`RequestAssumption`, `PaymentAssumption`, `LoanAssumption`), a
  document is of one kind and has a shelf to be made for and, if it is a sale or a
  return, one for its edits (`KindAssumption`, `DocumentAssumption`),
  and a new document, which gets an id of its own, is created by one request
  (`WorkloadAssumption`). Units and amounts are integers (`QuantityAssumption`);
  sums range over finite sets (`FiniteAssumption`).
- The two shelves of a document are any two, equal or not, but they are constants: the
  warehouse settings and the default warehouse of a store do not change between the
  requests about one document. If they did, a removed return, a corrected purchase
  return or a second edit would move stock on a further shelf.
- What is lent or repaid is more than nothing (`@Min(0.01)` in `loans.dto.ts`). The
  total of a sale and the points asked for are not negative (`PointsAssumption`);
  here the DTO only asks for a number (`sale.dto.ts:17`), and it is the client that
  does not send another.
- A recurring voucher is the subject of its own operations only
  (`RecurringAssumption`). The code also lets a user edit or delete by hand a voucher
  it has posted (`accounting.service.ts:785` and `855` protect only those of another
  module); the dates then say that it was posted, and a count of vouchers does not.
- `Len(Order) \in Nat`: the products are a sequence, which the module does not say
  otherwise.

### The database

`ReadCommitted_proofs` says what initialising, writing, committing and rolling back
do to `DbTypeOK`, for any set of values per row, and to what each request sees
(`WriteRowSeen`, `CommitSeen`, `RollbackSeen`): nobody else's pending rows change,
and a row one holds the lock of stays as committed. A service's typing then reduces
to the values it writes.

*Sums.* The balances are sums over rows, defined by recursion over a set
(`MapThenSumSet`). The library's induction theorems take an operator, which the
provers here cannot instantiate; that every nonempty set of subsets of a finite set
has a smallest member is first-order, and serves instead: two sums that differ would
differ at a smallest subset (`AddsAgree`), and a sum that does not exist is missing
at one (`AddsExists`). `TotalChanges` is what the modules need: a column that
differs in one row has a sum that differs by as much.

### The inductive invariants

None of the properties is inductive by itself. What a commit publishes is what was
pending, so they must hold of what every open transaction *will* commit; and that
stays so, while others commit, only because of a lock. Each component's invariant
`IInv` says this in its own terms, beside the types of its rows and requests.

- **Inventory**: `TypeOK /\ DbTypeOK(Books) /\ PendingContinues`. `Books` restricts
  every row, committed or pending, to values whose movements account for their
  quantity and are never negative; a pending value extends the history committed on
  its row. For the refinement `HalfWay` adds that a transaction reads the committed
  quantity plus the lines it has applied, although others commit between: at its
  commit, the difference is the document's net (`NetIsTotal`).
- **Transfers**: per request, what is left of its lines and what it has taken
  (`SourceOK`: a deducted row holds its lock and its pending value is the committed
  one less what is sent); the status it will write follows from the one it holds or
  has read (`StatusOK`); receipts only add (`ReceivedOK`). A transfer is RECEIVED
  correctly even when receipts race because the refreshed read sees at least what
  is committed, and no row goes down.
- **Stock takes**: a pending adjustment keeps the difference of quantity and
  adjustments (`StockKept`), which is all that the books owe the shelf. The rest is
  the sum: every step of post or shop changes both sides by the same.
- **Payments**: seen with the eyes of the request that will commit it, a payment has
  its event, its voucher and no other (`ViewOK`); an event found by a deletion or a
  retry is gone, or still has the voucher it had, because an event gets its voucher
  in the transaction that creates it or never (`FoundOK`); a payment not on the books
  yet is that of one request (`FreshOK`). `RowsOK` says that a request touches its
  own document's rows and no other's voucher, although all share one sequence and
  can read the same number: the unique index refuses the second.
- **Billing**: `CallIsServed` ties a handler's statement to its request,
  `MailingIsRecorded` the reminder that is mailed to the record only one worker can
  have inserted, `ActivatesOnce` an activation to the event that will refuse its
  repetition.
- **Offline sales**: a POST on the wire is awaited (`WireIsAwaited`) and an answer
  "recorded" is about a sale the server has; `UnsentIsUnsold` says that a
  confirmation whose POST is not answered has sold nothing. `NothingToldIsLost` does
  not rest on the server's refusals; `SoldOnce` rests on nothing else (`QueuedIsInvalid`).

- **The tenant**: one invariant per theme over a common `Base`, below.

The properties under `~overlapped` need a second invariant over the first (`AloneOK`,
`AloneInv`, `OneAtATime`): one request runs at a time, so what it has read is still
committed, and what it has written so far follows from that. In `CustomerPayments`
it says this of the balance and of the payment corrected (`AccountOK`); in
`StockTakes` that no stock is adjusted while a request is served, and that the one
that posts has adjusted the lines it has done by their variances and not the others
(`Adjusting`) - while `Sell` and `Deliver`, which are never alone, change quantities
and no adjustment.

### The tenant: sixteen services at once

A tenant's next-state relation has over a hundred actions, and each property is
about a few of them. So a service is answered for once by what it may do to the
others (`Foot`): its statements write its own tables and lead to its own program
counters (`IsService` lists them), change nothing another request has read or
written, and respect its locks (`Frame`). Sixteen lemmas, one per service, prove
this of its statements, and `PostsFoot` and `AbortFoot` of posting and of requests
that are cut short; together they give the invariant `Base` (the shape of the state,
locks, and that a request runs its own operation's statements) and `ServeFootprint`,
which says that every step is one of these. A property's invariant is then carried
over by an *Elsewhere* lemma, for whatever does not write its tables (`Owned`), and by
an *Own* lemma, one step per statement of the services that do.
"Left alone" is `Apart`: `ApartBefore` says that documents apart after a step were
apart before it, and `Meets` that the request that steps has not met another about
its document while both are on their way.

- `TillInv`: what has been checked of other sessions holds as a session is opened
  (`Checked`). `CommissionInv`: what was read to be paid is EARNED until it is PAID.
  `FundInv`: what a transfer has in hand is its own voucher, by a number nobody else
  has committed or can commit.
- `SerialInv`: who has registered a number holds its row, so that no second sale can
  have; a claim is the only way back.
- `StockInv` carries three theorems. A request owns its document's rows and, in the
  row of a shelf it has locked, its document's place: everyone else's is as committed
  (`OwnRows`). Then what is committed of a document agrees with what it has moved
  (`Settled`), what a request has read of it is still so until it writes (`AsFound`),
  and what it has written agrees with what it will have moved (`AsWritten`). Of a sale
  or a return `AddUp` says so: its places on all shelves add up, and are zero on the
  shelves that are not its own. A statement changes one place, so the sum changes by
  that (`AddUpMore`, from `TotalChanges`), and the shelf is one of its own because only
  an edit's statements use `EditShop` (`ShopsOfItsOwn`).
  `LeavesOnDelivery` is the action property, from the same invariant.
- `SupplierInv`: the balance a request is about to write is the committed one with
  its own payment replaced by the new one (`DueWith`); with the sum over payments,
  that is the property after the write.
- `PointsInv`: requests that take no points can only raise them (`NewPoints`), so what
  one that does take them has read still covers them, unless two such met.
- `LinesInv`: what an edit has found, and then deleted, are all the lines there are.
- `LoanInv`: what is repaid fits, and closes the loan if and only if it is the rest
  (`Fits`, `Closes`); a loan to be opened again has less repaid than lent.
- `DatesInv`: the date a request has read is the next one, its voucher is committed
  before the date moves, and no other request's voucher is one of a recurring one
  (`NumbersHeld`), although all take numbers from one sequence.

Each `IInv` and `AloneInv` was checked by TLC on the instance of its run before it was
proved. The proofs have one lemma per action or kind of action, and one step per
conjunct it can disturb.

### What the proofs found

The conditions of `ProviderStatus` in `Billing` overlapped, so that its CASE said
which status a notice gets only as TLC reads it, in order; they are now exclusive,
as the code's `if` and its return make them. The order of counts in `StockTakes` was
that of the products; the code takes the client's. `Net` of `StockLedger` was
recursive over the lines; as a sum over them the refinement can be proved.

### Model-checked only

- Liveness (`EveryRequestEnds`, `PaymentsAreApplied`, `PastDueEnds`, `SyncEnds`), and
  the two violated properties: fairness is out of the prover's reach.
- `SentWasPaid` and `LedgerExplainsBalance` of SMS credits: `Entered` folds over a
  sequence, which is induction over data. A sum over its positions would do, with
  the lemmas on sums.
- `ReturnedAtMostSold` of the desk: each line of a return is compared alone, so that
  it is false for a workload whose returns name one item on two lines. The run's
  requests do not; a theorem would have to assume it of every request.
- `SpendingIsExplained` (desk) and `CountsAgree` (back office): a sum over all sales
  and orders at once, and three unlike counts (leave, depreciation, campaigns), which
  need invariants over rows the twelve theorems do not look at.

## 6. What is abstracted, and what is not modelled

- Money and quantities are small integers; at the desk, in purchasing and in stock
  takes a unit is worth one. A sale, a return and an order have one item.
- There is one customer at the desk, one supplier, one employee, and one tenant
  everywhere: rows of different tenants never meet.
- A voucher is its source and its amount; its lines, which sum to it, are left out.
  All vouchers of the desk and the back office take numbers of one sequence, where
  the program has one per type and they meet less often; fund transfers have theirs.
- Requests that are refused before writing leave no trace, and are not steps.
- In transfers and stock takes a collision of a document number (count + 1, unique)
  is one of the failures `Abort` stands for; `Purchasing` and `SupplierPayments`
  model it. Locks that foreign keys take are left out: they delay writers, and
  order nothing the properties see.
- In all modules but `Posting` the posting rule is taken to exist and be active.
  Validation when a rule is saved keeps its accounts usable, so the failure of an
  invalid account is not reached.
- A customer's payment and payout differ in sign only, and only payments are
  modelled. A sale on credit does not touch `due_balance`, although the shop owner's
  guide says it does; it is therefore no step of `CustomerPayments`.
- An edit of a sale that changes its customer, or only its payments, is left out;
  so are price, discount and tax rules, which decide amounts and no order of steps.
- Recurring *journals* (`postRecurringJournal`) post and advance as recurring
  vouchers do, without a job and a deletion.
- An asset's charge is rounded to whole units as the code rounds to cents. Customers
  of a campaign and assets are taken in any order, as a query without ORDER BY may
  give them. The credits an SMS campaign uses are `SmsCredits`' subject.
- The find and the update of a billing event in `recordBillingEvent` are one step.
  The manual webhook has its default status. Changes of plan by administrators,
  referral earnings and e-mails other than reminders are left out of `Billing`.
- A quantity lost between opening and counting a session is a loss like any other;
  units *sold* in between are deducted once by the sale and again by the post. The
  model has this behaviour, and no property forbids it.
- Not modelled: expenses, salary payments and quotations (rows with a voucher, or
  none); discount codes, whose limit and count no server step joins; catalogue,
  settings, counters, delivery, leads and tasks (independent rows); bank
  reconciliation, budgets and the chart of accounts; reports and statements (queries);
  invitations, team, authentication, API keys; job records and the circuit breaker;
  notifications and e-mail; the rest of the frontend, and scripts. `PROJECT.json`
  gives the reason for each.
