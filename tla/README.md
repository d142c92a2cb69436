# HAS ERP: specifications

`src/` is an ERP: a NestJS API over PostgreSQL (`src/apps/api`) and a Next.js web client
(`src/apps/web`). The TLA+ modules here model what is hard to get right in it: documents that
several clerks change at once and that move money, stock and vouchers together, books that have
to agree with each other, sign-ins shared by several tabs, and pages that show what was true
when they were fetched. Paths below are relative to `src/apps/api/src` unless they begin with
`src/`.

## 1. How the system works

### Parts, state and operations

| part | state | operations that change it | correct when |
|---|---|---|---|
| Receipts and payments (`accounts/payments.service.ts`) | `PaymentEntry` (status, cheque status, account, voucher), `PaymentAllocation`, the amount paid of `Sale` / `Purchase` | create, post, deposit (clear), bounce, endorse, cancel, remove, edit (with reverse-and-repost) | the amount paid is what entries in force allocate and never beyond the total; each entry is on the books once; a cheque ends one way; the holding accounts match the cheques |
| Vouchers (`accounts/vouchers.service.ts`, `common/services/accounting.service.ts`) | `Voucher`, `VoucherEntry` | create, post, unpost, submit, reject, cancel, update, remove | posted vouchers balance and do not change; what is approved is what was submitted; deleting a leg reverses its source |
| Sales invoices (`sales/sales.service.ts`) | `Sale`, `SaleItem` (delivered, relieved) | create, post, submit, reject, update, cancel, remove | stock leaves once per line; money and stock of an invoice agree with its status |
| Delivery orders (`sales/delivery-orders.service.ts`) | `DeliveryOrder`, its lines (`saleItemId`, `stockRelieved`) | create, update, post, submit, reject, cancel, remove | an order never ships more than was invoiced; its reversal undoes exactly what it did |
| Inventory engine (`common/services/inventory.service.ts`) | `StockMovement`, average cost of an item | recordIn, recordOut, recompute | never negative, balance is the sum of movements, average cost restored by a reversal |
| Purchases, purchase returns, sales returns, transfers (`inventory/*`, `sales/sales-returns.service.ts`) | documents of their own, movements, vouchers | create, post, submit, reject, update, remove, cancel | reversal undoes the posting; returned never exceeds bought or sold |
| Numbering (`common/services/numbering.service.ts`) | a counter per series | next, seed | numbers are unique; `next` holds the counter's row lock until its transaction ends |
| Fiscal period guard (`common/services/fiscal-period.guard.ts`) | `fiscal.locked_until` | assertOpen | nothing in a closed period is posted or changed |
| Payroll, loans (`hr/services/payroll.service.ts`) | runs, lines, loan balances | generate, update, refresh, post, disburse, cancel, remove | one run per month; accrual and payment undone in the right order; the funding account covers it |
| Leaves, attendance (`hr/services/leaves.service.ts`) | requests, attendance rows | request, decide, remove | approved leave and attendance rows agree |
| Investments (`investments/investments.service.ts`) | investment, schedule of installments, vouchers | create, update, receive, pay, skip, reschedule, close, cancel, remove | what is booked is what was received and paid; never more principal paid than received |
| Items, parties, chart of accounts (`administration`, `parties`) | master data, codes, opening balances and opening stock | create, update, delete | unique codes; the opening voucher and movement follow the columns |
| Sessions (`auth/auth.service.ts`, `src/apps/web/src/lib/api.ts`) | `tokenVersion` of the user; tokens of each browser tab | login, refresh, logout, change of password; broadcast between tabs | only the current generation of tokens is accepted, and every tab gets it |
| Quotations (`sales/quotations.service.ts`, the quotation page of the client) | `Quotation` with its lines and the invoice made of it; dialogs and lists of the page | create, update, convert, cancel, remove | one invoice at a time, with what was offered; the page shows what its user wrote |
| Reports (`reports/*`) | none: sums over the vouchers and documents | | trial balance, balance sheet, statements and ageing agree with each other and with the ledger |
| Roles, permissions, features (`auth`, `users`, `features`) | links of roles to permissions, roles of users, switches | edit of a role, edit of a user, switch, start of the server | what a role holds was submitted, whatever edits overlap or are lost |
| Web pages (`src/apps/web/src/app`, `components`) | the lists a page fetched, by key; the permissions of the session | one request per button, with the lists it clears | a page that opens can be read; a button shown works unless the page is out of date; a page shows its own writes |
| Settings, audit log, backup, HTTP layer | single rows, files | | |

Documents call the accounting service, the inventory engine, numbering and the fiscal guard as
plain functions inside their own transaction. There are no queues and no timers between them;
the only shared state is the database.

### Concurrency

Every request is served by its own asynchronous handler, and almost every handler has the same
shape:

1. it reads its document with the plain client and checks status, period, amounts;
2. it opens a transaction (`runInTransaction` in `prisma/prisma.service.ts`, with no isolation
   level given, so PostgreSQL's READ COMMITTED) and writes with what step 1 read;
3. status columns are updated by primary key, without a condition on the old status.

Two things do synchronise. Posting a receipt updates the amount paid with a compare-and-swap
(`payments.service.ts:345-356`), and the counter of delivered goods is a database increment
(`delivery-orders.service.ts:482-490`). Taking a voucher number locks the row of its series to
the end of the transaction, which orders transactions of one series but makes none of them read
again what it checked before. A few operations (correcting a posted receipt, cancelling a
dispatched order) are two transactions, with nothing that resumes the second if the request
stops in between.

So the models have one process per request in progress, with a stage for each of these points,
the row it read kept as `row` (and `seen` for what it read inside the transaction), and one
atomic step for the writes of a transaction. A request may fail at each stage.

## 2. The modules

| module | models | depends on |
|---|---|---|
| `Books` | the rows both desks share, and the operations of the accounting service on vouchers: booking, cancelling, balances, `documentPaymentStatus`, giving allocations back | |
| `Payments` | PaymentsService, every handler that writes; sales returns and the fiscal lock as its environment | `Books` |
| `PartyReports` | what ageing, statement, ledger and dashboard say a customer owes | `Payments` |
| `Settlement` | the abstract specification of what the desk promises the invoices: an entry is applied as a whole, only to what is left, and taken back as a whole | |
| `BackOffice` | the voucher desk on the vouchers of receipts and payments: unpost, post, cancel, delete with its cascade | `Payments` |
| `Vouchers` | VouchersService for vouchers written by hand, with money that is rounded on the way into the database | |
| `Delivery` | invoices and delivery orders on the stock of one item | |
| `Stock` | the inventory engine under purchases, returns of both kinds, transfers and opening stock: movements, running balances, average cost, vouchers | |
| `Attendance` | the attendance sheet, and leaves that write into it | |
| `Payroll` | payroll runs from the sheet, the staff records and loans to the accrual and the payment | `Attendance` |
| `Investments` | an investment with its schedule of installments and its vouchers | |
| `Sessions` | the token generations of the server, the tabs of a browser, `apiFetch` with its retry, and the broadcast between tabs | |
| `Chart` | accounts and sub-heads: codes, openings, opening vouchers, deletion | |
| `Reports` | the financial statements as sums over the vouchers of `Chart` | `Chart` |
| `Quotations` | QuotationsService, the invoice made of a quotation, and the page with its lists, form and requests | |
| `Endpoints` | the permission every handler of every controller asks for | |
| `Services` | whether a service lets a row of a given status through | |
| `DeskPages`, `OfficePages`, `Pages` | the screens of the client: what each fetches, the buttons of a row, what a button sends and which lists that clears; `permissionForPath` | `Services` |
| `Access` | the catalogue of permissions, the baselines of the roles, the guard, edits of roles and users, the start of the server | `Endpoints` |
| `Web` | one user on one page of the client, with other people and the server at work | `Pages`, `Access` |
| `Payments_proofs` | theorems and proofs about `Payments`, `PartyReports`, `BackOffice` and `Settlement` | `BackOffice`, `PartyReports`, `Sums` |
| `Accounting_proofs` | the same about `Vouchers`, `Chart` and `Reports` | `Vouchers`, `Reports`, `Sums` |
| `Delivery_proofs`, `Stock_proofs`, `Payroll_proofs`, `Investments_proofs` | the same about the module of the name | that module, `Sums` |
| `Client_proofs` | the same about `Quotations`, `Web` and `Sessions` | these |
| `Sums` | lemmas about the sum of a function over a finite set | |
| `MCPayments`, `MCBackOffice`, `MCVouchers`, `MCDelivery`, `MCStock`, `MCPayroll`, `MCInvestments`, `MCSessions`, `MCChart`, `MCQuotations`, `MCWeb` | the sets and constants of the instances TLC checks | |

How state and actions correspond to the code:

* **Books / Payments.** `entries[e]` is the row of `PaymentEntry` with its allocations,
  `docs[d]` the columns `grandTotal`, `amountPaid`, the value returned and the payment status of
  an invoice or bill, `vouchers` the table of vouchers in order. Each voucher of the desk has
  one debit and one credit line, so its two accounts and amount stand for the lines. Handler X
  is the pair `XRead` (guards, before the transaction) and `XCommit` (its writes); `Begin` opens
  the transaction, takes the number series (`Busy`) and reads the documents. An edit of a posted
  entry is `EditRead`, `Begin`, `ReverseCommit` and then `RepostRead`, `Begin`, `PostCommit`, as
  in `reverseAndRepost`. Party names, narration, dates, the bank's name and currency are left
  out. The account `pdc` stands for cheques in hand, `issued` for our own cheques not presented
  yet.
* **BackOffice.** `DeskRemove` is `VouchersService.remove`: it finds the posted entry by pointer
  or by number, gives its allocations back, cancels it and the sibling vouchers, and deletes the
  voucher.
* **Vouchers.** Amounts come in with half of the last decimal and are stored in whole units.
  `update` is two steps, because its `deleteMany` sees only the lines stored when it runs.
* **Delivery.** One line per document. `line` is the id of the invoice line (an edit gives it a
  new one), `delivered` and `relieved` are its counters, `relieves` is `stockRelieved` of the
  order. A draft order may be pointed at another invoice (`OrderChangeRead`). Cancelling or
  deleting a dispatched order is `OrderReverse` and then the change of the order, as in the code.
* **Stock.** `movements` is the table in the order of its dates, each row with the balance that
  `recordIn` or `recordOut` stored; `Rebalanced` is `recomputeBalances`, and the average is
  the rounded quotient of what its recomputation sums. A transaction reads the stock and the
  average (`ReadStock`, `SaleRead`; `seen`) in one step and writes what follows from them in
  another, and nothing is locked in between. What it reads is one snapshot, where the code sends
  a query for each figure and READ COMMITTED lets each see a later state; movements stand in the
  order of their commits. `Overlap` says whether a transaction may read while another one is
  open. An opening stands where its date puts it, or keeps its place without one, and a new one
  without a date is the last (`items.service.ts:341-397`). `booked` holds, for each document, the
  amounts of the posted vouchers of its number. Editing a posted purchase is a reversal and a
  second transaction that posts again, and the request may stop in between.
* **Attendance / Payroll.** `attendance` has one mark or none per employee and day; an approved
  paid leave writes the mark "leave", and staff may do so too. A decision or a removal reads the
  leave (`Take`) and writes later by what it read. A line of a run is computed from
  the staff record, the sheet, allowances and loans by the arithmetic of the code. The funding
  account is a balance that other people change.
* **Investments.** The schedule has one row per month for the returns and row 0 for the
  principal; `books[i]` sums the entries of the vouchers that refer to investment `i`: cash,
  expense and the capital accounts.
* **Sessions.** `version` is `tokenVersion`; a refresh token is the version it was signed for,
  an access token the number of the answer that issued it. The cookies (`jar`) are shared by the
  tabs, each tab has copies of both tokens in its own variables (`memory`), and a message
  between tabs is delivered later. A call of a page is `apiFetch` with its one refresh and
  retry. The request, the handler and the answer are steps of their own, and either can be lost.
* **Chart / Reports.** Codes come from a counter per sub-head (`Drawn` is `allocate`: it tries
  numbers until one is free). An opening is a column of the account and, written in a
  transaction of its own, a voucher. Reports are operators over `Chart`'s variables: each sum is
  the query.
* **Quotations.** The page's list (`shown`) is a copy of what was read, taken when the answer
  arrives; a form holds what was read when it was opened. `Refreshed` is what the end of a
  request makes of a list query under way: it is replaced, unless its key has no rows yet. Then it
  goes on and its answer is shown (`missed`). Another page, search or status is another key
  (`TurnPage`).
* **Web.** An address is a screen under one baseline role. The page fetches its list (`reads`) and
  what else it needs, most often the options of selects (`also`); `Invalidated` is `Refreshed` of
  all screens, and `outrun` its `missed`. Other people move a row to another status, change a role or a feature, and the server stops and starts
  (edits under way are lost, and the start completes Super Admin). What a button sends is judged by `Endpoints` and
  `Services` when it arrives.

## 3. The runs

`tlc -config X.cfg MCY` checks a run; `PROJECT.json` lists them with their properties.

| run | instance | shows | distinct states |
|---|---|---|---|
| `payments_serial` | 2 entries, 1 invoice of 2 units, 2 parties, cash receipts and post-dated cheques, one request at a time with failures and period lock, every operation but endorsement | no sequence of legal operations, half-finished corrections included, takes entries, documents, cheques, ledger and party reports apart; refinement of `Settlement` | 1.5 million |
| `payments_race` | 2 overlapping requests: post, clear, endorse, cancel, with returns in between; receipts, payments and cheques both ways | no overpayment and no lost posting on an invoice | 1.8 million |
| `back_office` | 2 receipts, the voucher desk between any two requests of the payment desk | deleting any leg of a receipt reverses it completely, and no pointer dangles | 310 000 |
| `vouchers` | 2 vouchers, one clerk, forms with fractions and one that does not balance, 3 writes each | what is posted balances, though lines and totals are rounded in different ways; a status protects what it should | 24 000 |
| `delivery_serial` | an invoice with up to 2 orders (every operation on it and on one of them), one that they may be pointed at instead, one without orders that is edited, 3 units in stock | stock and counters agree with the documents in force, and no more is shipped than was invoiced | 2.4 million |
| `stock` | 2 warehouses, one document of each kind, 2 quantities and 2 costs, 2 openings at any place, 4 movements, one transaction at a time | movements, balances, average cost and vouchers agree with the documents in force, over edits that stopped half way | 1.8 million |
| `payroll` | 2 employees, 2 runs of one month, 1 day on the sheet, 1 leave request | the ledger owes and pays each run once; no decision on a leave overwrites what was recorded | 2.9 million |
| `investments` | 1 investment of either kind, 2 edits | the ledger owes what the schedule shows as outstanding and charged what it shows as paid | 79 000 |
| `sessions` | 2 tabs, 3 calls, 4 generations of tokens, lost answers | tabs never hold tokens of different sign-ins, a changed password keeps the session that changed it, every call ends, a live session is served | 215 000 |
| `chart` | 3 accounts, 3 sub-heads, one request that saves and one that deletes, 2 vouchers, 1 journal, 2 days | codes are taken once, openings reach the ledger when the answer says so, entries keep their accounts, the statements agree | 470 000 |
| `quotations` | 1 quotation, 2 invoices, one user's page and another user, 4 writes | one invoice at a time, with what was offered; the page shows what its user wrote, unless its first answer was under way | 3.1 million |
| `web` | all screens with every baseline role that differs there, 2 editors, 2 changes | pages that open can be read, buttons shown work unless the page is out of date, a page shows its own writes, unless its first answer was under way, a role ends with what was submitted | 5.6 million |

### Bounds

Amounts are 1 .. `MaxAmount` = 2 units on an invoice of 2, so that part and full payment,
overpayment by one and two entries competing for the rest all happen. `MaxVouchers` = 3 stops
new bookings: enough for post, clear and a second entry, or for post, reversal and repost. It is
tested when a request begins, so a transaction in progress always ends. `MaxEdits` (writes of
one voucher, or of one investment) and `MaxLines` (generations of an invoice line) are an edit,
and an edit of what was edited. `MaxMovements` = 4 lets a purchase, a transfer (two movements)
and a return, or a reversal and a new posting, follow each other; the costs 10 and 31 with
quantities 1 and 2 make an average that has to be rounded. Two openings, one in
each warehouse, with and without a cost, are tried at every place in the table. The third invoice of
`delivery_serial` is the one a draft order is pointed at. `MaxIssued` = 4 is a sign-in, a
refresh, a logout or changed password, and a second sign-in. `MaxSerial` = 3 codes and
`MaxSaves` = 3 saves let a code be freed and asked for again and an opening be set, changed and
taken back. `MaxWrites` = 4 is convert, delete the invoice, edit and convert again. `MaxChanges`
= 2 outside changes make a page stale and change what may be done about it. Two processes are
enough for every race between a check and a write. One invoice is enough where nothing relates
two documents but the entry allocated to them. Symmetry is used only where no property tells the
members apart and none is temporal: requests and entries in `payments_race`, invoices in
`quotations`, editors in `web`.

### What clients ask

The operations clients ask for are constants (`Ops`, `DeskOps`, `Asked`, `Kinds`, `EditColumns`,
`Forms`). A run names those for which its properties are claimed. **The restrictions are real
limits of the result.** Each of these was lifted in the run's configuration, one at a time, and
the named property then fails:

| instance | changed | fails |
|---|---|---|
| `payments_serial` | `Kinds <- PdcIssued`, `EditColumns = {}` | `ClearedOnce`: an issued cheque is cleared twice (`payments.service.ts:431`) |
| | `Ops` with "endorse", or `EditColumns = {"pdc"}` | `HoldingsMatchCheques`: endorsing leaves the account for cheques in hand debited (`:783-824`); a receipt made post-dated moves there and stays |
| | two documents, `Ops = {"post", "quiet return"}` | `AgeingFollowsDocuments`: ageing sets a return off against other invoices (`reports/party-reports.service.ts:123-144`) |
| `payments_race` | `Kinds <- Receipts`, `Ops = {"post"}` | `OnTheBooksOnce`: two postings of one entry book two vouchers (`:233`) |
| | `Ops = {"post", "cancel"}` | `UnpostedLeavesNoTrace`: cancelled on what was read before the posting (`:837`) |
| | `Ops = {"post", "return"}` | `KeepsPromise`: a return after the outstanding amount was read (`:303`) |
| `back_office` | `Overlap = TRUE` | `PaidIsAllocated`: a bounce and a deletion give the same allocation back |
| `vouchers` | two clerks | `StatusIsBinding`, `PostedBalanced` (`vouchers.service.ts:361`) |
| `delivery_serial` | `Interruptions = TRUE` | `StockAccounted`: reversed and not cancelled (`delivery-orders.service.ts:578`) |
| | `NamesLine = {TRUE, FALSE}` | `NeverOverDispatched`: an order line that names no invoice line is not counted (`:485`) |
| | two requests, `Locking = FALSE` | `NeverOverDispatched` with two dispatches (`:386`), `StockAccounted` with a posting and a recall (`:621`) |
| `stock` | `Overlap = TRUE`, two requests | `BalancesAreRunning`, `AverageFollowsHistory`: what was read is old when it is written (`inventory.service.ts:125-153`, `172-181`, `203-228`) |
| | `Undone` with a return | `StockFollowsDocuments`: deleting a posted return moves its stock again in the same direction (`sales-returns.service.ts:369`, `purchase-returns.service.ts:362`) |
| `payroll` | `Staff <- Relinked` | `SettledByAccount`: the payment debits the account the employee has now (`payroll.service.ts:265`) |
| | two months | `LoanWithinAmount`: what a loan has paid is never increased |
| | two requests on shared days | `LeavesIndependent`: removing one leave clears a day the other one needs |
| | two clerks at once | `PaidOnce` (`payroll.service.ts:847`) |
| `investments` | `EditsReceived = TRUE` | `OwedIsOutstanding`: an edit rebuilds the schedule of what was received (`investments.service.ts:188-197`) |
| `sessions` | `Patient = FALSE` | `SessionServes`, `SameGeneration`, `PasswordKeepsSession`: see section 5 |
| `quotations` | `Overlap = TRUE` | `ConvertedOnce`, `InvoiceCarriesOffer` (`quotations.service.ts:216-238`) |

`NamesLine = {TRUE}` is what `src/apps/web/src/app/(app)/sales/delivery-orders/page.tsx:161`
sends. Received cheques without a cheque date stay out of `payments_serial` as well: they are
CLEARED when posted and can be cleared once more, from an account they never entered.

### Properties that no run checks

Besides the listed properties the modules state others. Every module's `TypeOK` (`DeskTypeOK`,
`WebTypeOK`, `AttendanceTypeOK`, `ChartTypeOK`, `SessionsTypeOK`) holds in its runs, and so do,
in the run's own configuration:
`OneOutcome`, `ClearedOnce`, `OnTheBooksOnce`, `PaidWithinTotal` and `AgeingFollowsDocuments` in
`payments_serial`; `PaidIsAllocated` and `OneOutcome` in `back_office`; `StockNeverNegative` in
`delivery_serial`; `TotalsMatchLines`, `NeverOverdrawn`, `SettledByAccount`, `LoanWithinAmount` and
`LeavesIndependent` in `payroll`; `GoneWithoutTrace`, `NeverOverdrawn` and `PaidIsFrozen` in
`investments`; `CookieDecides` in `sessions`. They are weaker than, or implied by, a listed one,
or hold only in the smallest instance, and they are left out to keep the checks short.

Others state what one expects of the code and the code does not have. TLC refutes them in the
run's own configuration; the comment at each says what happens: `HeaderMatchesLines`
(`Vouchers`), `RelievedOnce` (`Delivery`), `UnpostedLeavesNoTrace` in `back_office`,
`OpeningIsReplaced`, `ExpensesReconcile` and `SheetFollowsTrial` (`Chart`, `Reports`),
`StatementFollowsLedger` and `DashboardFollowsLedger` (`PartyReports`), `EditsStartFresh` and
`NeverStuck` (`Quotations`). Section 5 explains them.

### Exceptions inside a property

`RefusedOnlyWhenStale` excepts the buttons in `OfferedInVain`, which lead to a refusal for
everybody: the edit of posted sales returns and purchase returns, the edit of investments that
have paid out, the deletion of one's own account, the deletion of a role that users hold, and the
save of the terms page. `PageOpens` says that the list a screen opens on is granted to everybody
who passes its gate. What a screen fetches beside it is granted as well, except on the 35 screens
in `ReadingElsewhere`, whose selects stay empty for a user without another page's permission; that
the set names these and no others is `ReadsAssumption`, which TLC evaluates. `ShowsOwnWrites` and
`OwnWritesShown` except a list whose first answer was under way when the change was reported.

### Deadlock

It is checked in `web` only. Elsewhere documents are created once per id and end cancelled or
deleted, and bookings stop at the bound, so the instances really stop.

### Fairness and liveness

Only `Sessions` assumes fairness. A call, a refresh and a request that the page has started are
served, and answered or known to be lost (the server answers and the browser reports a failed
fetch: `RequestServed`, `RefreshServed`, `RequestEnds`, `RefreshEnds`), the code of the page
goes on when its promise is settled (`CallStep`), and the event loop delivers broadcasts
(`Deliver`). All of it is weak fairness. What the user does (sign in and out, start a call) and
the expiry of tokens are not fair. `CallEnds` and `SessionServes` are claimed under it. Nothing
else has liveness to claim: the code has no retry and no background worker for documents, and
what a stopped request leaves undone stays undone until a person acts. The refinement of
`Settlement` is one of safety.

## 4. Proofs

`tlapm X.tla` checks the proofs in module X. A theorem holds for every value of the constants
that satisfies the assumptions of the modules (each an ASSUME with a name, evaluated by TLC in a
run) and the hypothesis the theorem states. The hypotheses are the restrictions of section 3: where
one is dropped, TLC has a counterexample in the table there. They are

* `RowsApart`, `VouchersApart`, `FamiliesApart`, `DocumentsApart`, `RunsApart`, `InvestmentsApart`,
  `RequestsApart`: requests that overlap concern different rows. Most handlers check before their
  transaction and write by primary key, so what a request read of its row has to be there still;
  the races of section 3 are two requests on one row. Requests on other rows overlap, interleave
  and fail as they please, and one row may be asked for again and again, one request after the
  other. The hypothesis is about the whole behaviour: `Spec /\ []RowsApart => ...`. Each was tried
  with TLC first, as a constraint on the instance of its module with two requests.
* `ReleasesApart`: a transaction that takes an allocation back is on no document that another
  open one pays or takes back (`back_office` with `Overlap = TRUE` shows why). Postings may compete
  for a document: they compare and swap.
* `SavesApart`: no request writes an account whose opening another one has read and is about to
  book. Deletions, postings, moves and saves of other accounts may overlap it.
* `FreshDocs`, `UntouchedDocs`: no amount was paid (or returned) on a document before the start.
* `NoneOpened`: no account has an opening at the start.
* `ReadsHold`: what a transaction read of the stock still holds when it writes. Nothing in the
  code ensures it; `stock` with `Overlap = TRUE` shows what happens otherwise. `ReadsHoldAlone`
  proves it for transactions that do not overlap.
* `WritesAlone`: between the first read of the version by a change of password and its answer no
  other request writes the version. Nothing in the code ensures that either.
* `ChequesWait`, `PlainDesk`, `Orderly`, `LinesNamed`, `Patient`, `EditsReceived = FALSE`, and
  restrictions of the operations asked for: at the theorem below that has them.

An invariant is proved as usual: an inductive strengthening, preserved by each action. Each
strengthening was first checked by TLC as an invariant of the run of its module (of
`payments_serial` with both ways of payment, for `HoldingsHold` and `ReportsTellOneBalance`).

**Receipts and payments** (`Payments_proofs`)

| theorem | hypothesis | states |
|---|---|---|
| `TypeCorrect` | | `TypeOK` |
| `NeverOverCollected` | | `PaidWithinTotal` |
| `NoPostingLost` | `FreshDocs`; no bounce, removal or edit asked for | `CollectedIsBooked` |
| `CleanLedger`, `EntriesMatchVouchers`, `FinalIsFinal` | `RowsApart` | `UnpostedLeavesNoTrace`, `PostedMatchesVoucher`, `FinalStays` |
| `PaidFollowsEntries` | `RowsApart`, `ReleasesApart`, `FreshDocs` | `PaidIsAllocated` |
| `HoldingsHold` | `RowsApart`, `ChequesWait` | `HoldingsMatchCheques` |
| `ReportsTellOneBalance` | `RowsApart`, `ReleasesApart`, `PlainDesk` | `ReportsAgree` |
| `DeskKeepsPromise` | `RowsApart`, `ReleasesApart`, `UntouchedDocs`, no returns | the refinement `KeepsPromise` |
| `DeskTypeCorrect`, `PointersHold`, `DeletionTakesAll`, `NeitherDeskOverCollects` | | `DeskTypeOK`, `NoDanglingPointer`, `DeletionIsComplete`, `PaidWithinTotal`, of both desks together |

* `TypeInv` adds to the types that a row points at no voucher or at one that exists, and that
  what a request carries fits its operation. `PaidInv` adds to the bound on the amount paid the
  same bound on the rows each open transaction has `seen`: a posting writes what it saw plus an
  allocation that it found covered by what it saw. The check inside the transaction keeps the
  bound. The compare-and-swap is there for the other concurrent property, that no posting is
  lost; its invariant `CollectInv` says that the amount paid is the sum of what live postings
  allocate, and that an allocation does not change once its entry exists.
* With requests on different entries, `AllCurrent` says that a request finds its entry as it read
  it and that the guard that let it through still holds. `AllFresh` says the same of the
  documents: one that takes an allocation back finds in its transaction the amounts paid it has
  seen, which needs `ReleasesApart`; a posting need not, as a commit on other figures is refused. `AllConsistent`
  says that the vouchers of an entry that is not posted cancel out in every account, that a posted
  entry points at a live voucher of its own with its amount and party, and that one that can still
  be corrected has that posting and nothing else on the books. `CleanLedger` and
  `EntriesMatchVouchers` are read from it.
  `PaidFollowsEntries` adds `Accounted` (the amount paid is the sum over the entries in force),
  `HoldingsHold` adds `AllHeld` (what the vouchers of an entry leave on the two holding accounts is
  what the entry's cheque status says) and `AllAsked` (what clients asked for is what `ChequesWait`
  allows). `ChequesWait` says that the holding accounts belong to no party, that a cheque is
  post-dated and only a received one deposited, that none is endorsed, and that an edit changes
  neither the account nor whether the cheque is post-dated.
* `ReportsTellOneBalance` is about five columns that are added up apart. `AllOwing` says that what
  the vouchers of an entry leave on the account of a party is minus its amount, or its amount for a
  payment, while it is posted and not bounced, and otherwise nothing; and that an entry is
  allocated to documents of its own party only, which an edit respects. With `Accounted`, swapping
  the sums over documents and entries makes what was collected from a customer what the receipts
  brought (`CollectedIsReceived`), and the ledger says the same (`BalanceIsReceived`).
  `FlagsHold` (a document flagged as paid has nothing left to collect, although the flag was
  computed from what the transaction read) is for the ageing, which leaves such documents out.
  `PlainDesk` says that documents start unpaid and rightly flagged, that no party is an account
  of the house, and that no cheque is endorsed: an endorsement credits the customer again.
* The refinement maps the entries in force to the applied entries of `Settlement` and the
  amounts paid to its own. Each commit is shown to be one of its steps or a stutter;
  `AllocsBounded` (an allocation is never larger than the document) makes the guards of
  `Settlement` follow. Returns are excluded because `Settlement` has no step that changes what
  is left of a document other than an entry.
* The two desks are proved about together without a condition on overlap. `AllPointRight` says
  that a posted entry points at a voucher of its own that was not deleted; it is preserved because
  a voucher is deleted in the transaction that cancels the entries that point at it.

**Vouchers, chart, statements** (`Accounting_proofs`)

| theorem | hypothesis | states |
|---|---|---|
| `OnlyBalancedIsPosted`, `StatusesBind` | `VouchersApart` | `PostedBalanced`, `StatusIsBinding` |
| `CodesNeverReused`, `EntriesKeepAccounts` | | `CodesAreFresh`, `EntriesHaveAccounts` |
| `OpeningsBooked` | `NoneOpened`, `SavesApart` | `BookedWhenTold` |
| `BooksBalance` | | `StatementsAgree` |

* At the voucher desk the invariant is `Served`: a request in progress finds its voucher as it
  read it.
* `CodesInv` is what makes codes unique whatever overlaps: the counter of a sub-head is never
  behind a code under it (`CodesCounted`), no two accounts that exist or existed share a code
  (`CodesApart`), and a code drawn by a request that has not written it yet is held by nobody
  else (`CodesReserved`). `EntriesKeepAccounts` adds that the other side of an opening about
  to be booked is another account (`OtherSideFound`). `OpeningsBooked` adds
  that the amount a request is about to book is still the one on the account (`AmountCurrent`).
* `BooksBalance` is about sums of sums: each entry has both sides on accounts of the chart, so
  the sum over the accounts of the sums over the entries can be swapped, and the sides of each
  entry cancel. That needs `EntriesHaveAccounts`, that every account has a type, and that the
  openings are finitely many (`OpeningsCounted`).

**Delivery and stock** (`Delivery_proofs`, `Stock_proofs`)

| theorem | hypothesis | states |
|---|---|---|
| `StockIsAccounted` | `Orderly`, `FamiliesApart` | `StockAccounted` |
| `DeliveryMatches`, `NoneOverDispatched` | `Orderly`, `FamiliesApart`, `LinesNamed` | `DeliveredMatches`, `NeverOverDispatched` |
| `BalancesStay` | `ReadsHold` | `BalancesAreRunning` |
| `ReadsHoldAlone` | `~Overlap` | `ReadsHold` |
| `ValueBookedOnce` | `DocumentsApart` | `BookedOnce` |
| `StockFollows` | `DocumentsApart`, only purchases are undone | `StockFollowsDocuments` |
| `AverageFollows` | `ReadsHold`, only purchases are undone | `AverageFollowsHistory` |

* `Orderly` is no stop between the two transactions of a recall and no edit of an invoice that
  orders are raised for; `FamiliesApart` is that requests that overlap are about different
  invoices, an order counting with its invoice and with the one it is to be pointed at; `LinesNamed` is that clients name the invoice
  line. What a step writes is of its own family, so that it leaves what another request has read
  (`OtherServed`). `IInv`
  is `RowsOK` (an order points at an invoice that exists and at its present line), `AllServed`
  (a request finds what it read), `Balanced` (stock plus what each document took out is the
  stock at the start) and, when lines are named, `AllSent` (the counter of each invoice is the sum
  of its orders in force and within its quantity).
* `Running` says that the balance of each movement is the sum of the quantities up to it in its
  location, and `TableOK` that there is at most one opening movement, the one of the item's
  columns: a change of it computes the balances of the location it leaves and of the one it enters
  again, and shifts no other. For the documents: `Served` (a request finds its document
  as it read it, or a draft when it is about to post again), `BookedOnce` itself, and
  `DocsFollowed` (the movements of a document sum to what its status says). The reversal of a
  return repeats the movement of the return, which is why only purchases may be undone.
* The invariant of `AverageFollows` adds to `TableOK` that every cost
  is a number or none (`Priced`), that a purchase and a request about one have a price and that
  only purchases are taken out again (`PricesOK`). One movement that brings `q` units to the `b`
  held multiplies the error of the average by `b / (b + q)` and adds its own rounding, at most
  half an amount (`CloseStep`); this takes `b >= 0`, which follows from balances that are right
  and never negative by summing over the locations (`OnHandNotShort`). A new opening computes the
  average again, and leaves one rounding, wherever it stands. `History` is a recursive function, not an operator, and
  the induction along it again collects the good places in a set (`Counting`).

**Payroll, attendance, investments** (`Payroll_proofs`, `Investments_proofs`)

| theorem | hypothesis | states |
|---|---|---|
| `RecordsSurvive` | | `RecordedSurvives` |
| `VouchersFollowRuns`, `OwesWhatIsPosted`, `PaysOnce` | `RunsApart` | `RunsBooked`, `OwedIsPosted`, `PaidOnce` |
| `BooksFollowRows`, `OwesTheRows`, `ChargesTheReturns` | `InvestmentsApart`, `EditsReceived = FALSE` | `DeskOK`, `OwedIsOutstanding`, `ReturnsAreVouched` |

* `RecordsSurvive` needs no invariant: an approval fills only days without a row, and a removal
  takes only rows marked "leave", however old what the request read is.
* `RunsBooked` says for every run what its vouchers have moved, given its status and lines. The
  two properties are its sums over runs and accounts.
* `DeskOK` says for every investment that its books are what its schedule shows, that no row was
  paid before the money came in, and that a request has read what is there.

**The client** (`Client_proofs`)

| theorem | hypothesis | states |
|---|---|---|
| `PagesShowOwnWrites` | | `ShowsOwnWrites` |
| `OneInvoice`, `OfferIsKept` | `RequestsApart` | `ConvertedOnce`, `InvoiceCarriesOffer` |
| `PagesShowOwnRequests`, `ButtonsWork`, `PagesCanRead` | | `OwnWritesShown`, `RefusedOnlyWhenStale`, `PageOpens` |
| `RolesKeepSubmissions` | | `RoleAsSubmitted` |
| `SessionsTyped` | | `SessionsTypeOK` |
| `NewPasswordKeepsUser` | `WritesAlone` | `PasswordKeepsSession` |
| `TabsKeepUp`, `CookieIsTruth` | `Patient` | `SameGeneration`, `CookieDecides` |

* `OwnWrites` says of each list a page holds that it was fetched after the page's last own
  write, or that a fetch is due, unless the change was reported before the first answer to the
  list's key (`missed`). `StillChecked` and `Linked` say that a request past its
  checks finds the quotation as it read it, whatever overlaps it on other quotations, and that
  invoice and quotation point at each other.
* The theorems about pages hold for any number of editors and changes. Their invariant `PagesInv`
  follows a button through its one or two requests: `Calling` says that what has not been served
  was offered on the row it expects, or finds the row where the request before it may have taken
  it; `Current` says that what is shown, or about to be shown, is what the user's last request
  left, unless the button in use has yet to discard the list or the request outran the first
  answer. What they use of the tables of
  pages, endpoints and services (which list a button discards, what it and its request ask for,
  which rows both take) are the five assumptions at the end of `Web`. They are about the complete
  tables, so TLC's evaluation of them in `web` leaves nothing out; `@@` and `:>`, with which the
  tables are written, are unknown to the provers.
* `RoleInv` says where what was submitted for a role is while an edit is between its two
  statements: in an edit that is under way (`Submitted`), or in the role (`Kept`), unless the
  server stopped (`Restored`).
* `SessionInv`: one tab at a time has something underway (`Alone`, from `Patient`); a refresh is
  there for calls that wait for it, and none is while the user's own request is (`AllInOrder`);
  messages come from the active tab only, the last one to each tab carries the token of the cookie, and a
  tab that has taken all of them holds that token or none (`TokensOK`); and a refresh that is
  refused was refused by the cookie's token as well (`RefreshesHonest`).
* `NewPasswordKeepsUser` is about any user, one who does not wait included, with refreshes, calls
  and messages of other tabs in between, as long as none writes the version: a change of password
  then carries the version after the one it found (`PasswordsCurrent`).

**Sums.** Balances are sums over finite sets, and a sum is a fold of the community modules. The
theorems for induction over finite sets take an operator as a parameter, which the provers here
cannot instantiate. `Sums` therefore derives an induction whose "good" sets are collected in a
set (`SubsetInduction`, from the well-foundedness of the subset relation) and proves with it that
the fold exists, is unique and can start at any element, and then what is used everywhere: a
changed, removed or added term, sums of sums, parts, unions.

**Only model-checked**: the liveness properties `CallEnds` and `SessionServes`, which are beyond
this prover, and the properties of section 3 that no run lists.

## 5. Where the code and its documentation or expectations disagree

Reproduced with these modules, by the constants of section 3 or by a stated property that fails:

* **Receipts.** `deposit` refuses DEPOSITED and BOUNCED cheques, so an issued cheque, which
  becomes CLEARED, can be cleared again, and so can an endorsed one (`payments.service.ts:431`).
  Clearing and bouncing that overlap both book (`:429`). Posting one entry twice at once books
  two vouchers (`:233`): the compare-and-swap protects the invoice, not the entry. A
  cancellation that overlaps a posting leaves a cancelled entry with a live voucher (`:837`).
* **Vouchers.** `update` stores lines and totals that are rounded in different ways
  (`vouchers.service.ts:382`). An edit that read a draft rewrites the voucher after it was
  posted (`:361`). Deleting the voucher of a cheque cancels the entry and leaves the cheque in
  hand (`:458`), so it can bounce and book again (`payments.service.ts:586`).
* **Delivery.** An order that took the goods, recalled after its invoice was posted for the
  rest, puts them back while the invoice stays posted (`delivery-orders.service.ts:621`). Recall
  is two commits (`:578`) and does not ask for the fiscal period (`:570-612`). Editing an
  invoice deletes its lines (`sales.service.ts:455`) before the orders are re-pointed, and the
  foreign key has set them to null by then, against the comment at `:443-444`.
* **Returns.** Deleting a posted sales or purchase return moves its stock again in the same
  direction. Two returns together may exceed what was bought.
* **Payroll.** The payment follows the employee's present account, loans are never reduced,
  overlapping payments pay twice, leaves that share a day take it from each other.
* **Investments.** Editing what was received rebuilds its schedule
  (`investments.service.ts:188-197`).
* **Sessions.** The controller takes the refresh token of the body before that of the cookie
  (`auth.controller.ts:141`); the client sends its own copy on the strength of the opposite
  ("the server prefers the cookie", `src/apps/web/src/lib/api.ts:104-112`), so a tab with an old
  copy is refused while the cookie is good. A sign-out that overlaps a refresh of the same user
  reads the same `tokenVersion`, and both write the next one, so the session survives it
  (`auth.service.ts:353-357`, `375-380`). A refresh between the two reads of a change of password
  makes the tokens of its answer old when they arrive (`:448`).
* **Openings.** An opening that is zeroed keeps its voucher, because the save returns before the
  voucher is looked at (`main-accounts.service.ts:85`), against "when the opening balance is
  zeroed the voucher is removed" (`accounting.service.ts:285-287`); a third change of an opening
  may delete the cancelled voucher (`:314`).
* **Reports.** The balance sheet counts openings twice when they have vouchers
  (`accounting-reports.service.ts:431-461`); expenses ignore credits (`:620-622`);
  `accountBalance` drops vouchers without a reference type and counts orphans (`:25-30`). Party
  ageing sets returns off against other invoices, against its comment
  (`party-reports.service.ts:28-32`, `123-144`); the statement counts bounced cheques; the
  dashboard adds documents to the ledger that already holds them
  (`dashboard.service.ts:362-392`).
* **Quotations.** Two conversions at once make two invoices (`quotations.service.ts:216-238`).
  Between the answer to a change and the end of the list query that follows it, the page offers
  the old row for editing, and saving it brings the old lines back (`quotation-page.tsx:196`).
  An invoice that was cancelled cannot be deleted (`sales.service.ts:543`), and its quotation
  stays converted for ever.
* **Pages.** `document-page.tsx:351` offers the edit of posted returns, which the services
  refuse (`sales-returns.service.ts:306`, `purchase-returns.service.ts:301`). One's own account
  (`src/apps/web/src/app/(app)/system/users/page.tsx:165`, `users/users.service.ts:222`) and a
  role that users hold (`system/roles/page.tsx:182`, `roles/roles.service.ts:140`) are offered for
  deletion and never deleted. 35 screens fetch the options of selects behind permissions of other
  pages and show them empty: an Inventory Manager opens purchases without
  `administration.suppliers.view`, so no supplier can be chosen.
* **Lists.** `invalidateQueries` fetches again, but the query client cancels a fetch under way
  only if the key already has rows. An answer that was read before the user's own write is
  therefore shown as fresh when it is the first for its key: on opening a page, after a turn of
  the page and with a new search or status (`quotation-page.tsx:66-69`, `78-81`;
  `use-document-mutations.ts:16-18`; `document-page.tsx:121-123`).
* **Stock.** Two transactions on one item and location read the same last balance or average,
  and the later one writes a movement with a wrong balance, or an average without the other's
  units (`inventory.service.ts:125-153`, `172-181`, `203-228`), against "each movement stores the
  balance it left behind" (`:279`).
* **Roles.** Two edits of one role that overlap leave the union of both; an edit that stops
  between its statements leaves the role empty.

Seen while reading, not reproduced: switching a user on or off sends only the status, and the
update writes e-mail and phone as null (`users.service.ts:180-181`); `seedSequence` updates and never inserts; deleting an
account asks nothing of bank accounts, investors and employees, and deleting a customer by force
leaves orphans; `productLedgerSummary` doubles the closing balance without `from`;
`investors.remove` goes on in a transaction that PostgreSQL has aborted; the quotation page
still prints after a failed submit was corrected; a successful update of an investment does not
close its dialog; details pages (`['payment', id]` and others) and the flat lists of master data
are not cleared by writes elsewhere, nor the list of cheques by payments, nor sales by the
posting of delivery orders; switching off `system.features.manage` locks out the Developer role
(`feature-catalog.ts:77-83`).

## 6. Not modelled

* **Audit log**: written without being awaited, read by no handler.
* **HTTP layer**: validation and error mapping; each request ends in one handler.
* **Backup, restore, reset**: bulk operations on files and tables, run by one person.
* **Pages**: forms, selects, most dialogs, printing, the sidebar and its filter, the security
  and company-features pages. In `Web` a row has the status others give it; `Services` leaves
  out what is refused for amounts, references to a master row, and opening vouchers.
* **Lists of quotations**: rows kept for a key that was left, and queries that fail.
* **Authentication**: captcha, second factor, lock-out, e-mail; creation and removal of roles
  and users.
* **Overlap in `payroll`**: two clerks who decide leaves at once; only `RecordsSurvive` covers them.
* **HR**: leave types and yearly balances, exports, payslips.
* **Master data**: columns that only describe.
* **Stock**: in the run, openings of no units; the theorems cover them.
* **Sales**: the money and cost-of-goods vouchers of an invoice and of a delivery order; several
  items on one document.
* **Reports**: grouping, paging, journal listing, ageing buckets, stock and sales listings.

What could follow: `RowsApart` and its like weakened from rows to the pairs of operations that
conflict on a row.
