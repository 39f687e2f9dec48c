# Apex Ledger in TLA+

Apex Ledger keeps a company's books. It is one code base with two back ends:

* the **desktop program** (`src/src`): an Electron main process over one SQLite
  *company file*, with several windows; the same handlers also run behind the web
  server of `src/src/server`, one company connection per session;
* the **cloud program** (`src/cloud`): an API server over PostgreSQL, many firms and
  companies, triggers and constraints in `src/cloud/database/migrations`.

What can go wrong in such a program is rarely inside one handler. It is in what a
long sequence of legal calls leaves behind, in windows that act on what they saw
some time ago, in two requests meeting at a row, and in requests that are answered,
lost and sent again. That is what these modules are about.

This file says what the system consists of, what is modelled and how the model
corresponds to the code, what each run of TLC shows and within which bounds, what
is proved and along which argument, and what is left out.

## 1. The system: components

Each component with its state, its operations, what is hard about it and what makes
it correct. `PROJECT.json` lists the same components with their sources.

### Desktop

**General journal.** State: `journal_entries` with their lines, status (draft,
posted, void), approval status, an optional reversal date and the entry a mirror
reverses. Operations: create, update, post, create-and-post, correct the date of a
posted entry, retag a line's tax code, approve or reject, void, delete. Everything
else that touches the books (invoices, bills, payroll, filings) goes through these.
Hard: the reversing entry is two entries posted as one; `journalVoid` is recursive
and not always inside a transaction; checks are repeated (differently) in five
handlers. Correct if: what is in the ledger balances; an entry enters once, whole,
after the decisions about it; a mirror never lacks its accrual; locked periods,
filed returns and ticked lines stay as they were.

**Fiscal periods.** State: periods, locked or not. Operations: create, lock, unlock.
Read by every posting handler. Correct if nothing enters or leaves a locked period.

**GST/HST filings.** State: filed returns, each with the entry that clears the tax
accounts and a lock on its period, a row of `fiscal_periods` it refers to. Operations:
file, void. Hard: a filing posts through the journal and locks it at the same time;
voiding deletes the lock before the record. Correct if a filed return keeps its lock and
its entry, no lock is left without one, and no two returns overlap.

**Bank reconciliation.** State: statements of an account (in progress, completed,
abandoned) and the line each cleared entry is ticked on; per window, the lists it
loaded. Operations: start, toggle a line, complete, reopen the last, abandon. Hard:
the page ticks what it was shown, while another window voids, redates or deletes.
Correct if statements chain, and what was signed off stays.

**Customer documents.** State: invoices with their payments, credit notes with their
applications, sales receipts, bank deposits; each with the journal entries it posted.
Operations: create, edit, redate, pay in parts, reverse the last payment, write off and
back, delete (with its payments); apply, refund and take back a credit; bank and free
money. Hard: paid amounts, statuses and dates are kept next to the entries and moved by
other handlers, from other screens, and some handlers are chains of transactions.
Correct if: receivables agree with the ledger; what is paid is backed by payments and
credits; a document and its entry have one date; banked money stays until the deposit
goes; a locked month's figures stay.

**Vendor documents.** State: purchase orders, goods receipts, bills with payments, vendor
credits, the stock they bring in. Operations: order, approve, send, receive in parts,
reverse a receipt, match the vendor's invoice, convert, unmatch; bill, approve, pay,
reverse, delete. Hard: one figure reaches the books by several routes and must do so
once. Correct if: payables and goods received agree with the ledger; an order is billed
once; an approval stays with the figure it was given to.

**Stock.** State: movements, each with what its entry posted. Operations: buy, receive,
sell, write off, correct, redate, take back, reverse. Hard: a sale is costed when it is
posted and again whenever the history is replayed. Correct if the ledger agrees with the
stock report and no cost is lost.

**Recurring templates and invoices**: a due date that moves after the document is
posted, in a statement of its own. **Bulk entry** (quick entry, reclassify, bank
import, receipt inbox): loops over create-and-post.

**Company file**: the open connection, Save As, backups and their retention, the copy
made before an upgrade, migrations on every open; dialogs and copies are awaited.
**Web server**: sign-ins kept in a table and in a map of the process, the company each
has open, who may reach which company, businesses that take their books to a folder of
their own. Hard: a request waits for a copy while its session is ended, its company is
replaced, moved or deleted, or the server stops. Correct if an open company is the one on
disk, an ended session stays ended, nobody reaches what they may not, and no file is
upgraded before a finished copy carries its name. **Staff sessions**: one open row per window.

**Payroll, fixed assets, year end, reports, forms, import/export, screens, licensing,
scanning, mail**: calculations, layout or device input and output; their postings reach
the journal through the operations above.

### Cloud

**Ledger documents.** State: sales invoices and vendor bills with balance and status,
number sequences, journal entries, tax events, idempotency keys. Operations: issue,
pay, void, plain entries and transfers, each one transaction under a key chosen by the
caller. Hard: READ COMMITTED transactions interleave statement by statement; an answer
may be lost after the commit; a transfer locks two account rows that the lines of
other requests lock as well, so requests can come to wait for each other; `now()` is
the time a transaction began, so a key that expires while a request waits is a key
that request still sees. Correct if the subledger agrees with the ledger, numbers have
no gaps, a repeated request is done once, and everyone is answered.

**Seats, invitations and access**: invitations, acceptance, suspension and growth of a
firm's seats, counted by triggers under a lock on the firm. **Subscriptions, email
codes, staff**: provider events applied once; one live code per user, five attempts.
**Products, contacts, bank imports**: optimistic versions and unique hashes.
**Calculations**: tax rounded by the API and checked by the database.

### How they interact

Desktop handlers are called over IPC (or HTTP) from several windows. A handler that
awaits nothing but the synchronous SQLite driver runs to its end before the next
message is handled, so *handlers* interleave and statements do not; the exceptions
are those that await a dialog, a hot backup or the network. What is stale is therefore
in the windows, and what is partial comes from handlers that throw after a write that
no transaction covers. In the cloud every request has its own connection, *statements*
interleave, and the only things requests see of each other before a commit are locks.

## 2. Modules

| module | models | state ↔ code | actions ↔ code |
|---|---|---|---|
| `Journal` | journal, fiscal periods, filings | `entry` = `journal_entries` rows with their lines reduced to the two totals and how they reach the return; `period` = `fiscal_periods`, those of filed returns included; `filing` = `hst_filings`; `threshold` = `company_info.approval_journal_threshold_cents`; `forced` = history of overridden voids | one per handler, named after it |
| `Book` | *abstract*: what a journal promises | entries out, in, withdrawn, gone; their amount; what they undo | enter (alone or with what undoes it), withdraw, forget |
| `JournalBook` | the mapping `Journal` → `Book` | | |
| `JournalProofs` | theorems about `Journal` and the mapping | | |
| `Reconciliation` | bank reconciliation of one account | `line` = entries and their line on the account, with the statement it is ticked on; `recon` = `bank_reconciliations`; `shown` = what each window's last call returned | one per handler, plus the journal handlers a line meets |
| `ReconciliationProofs` | theorems about `Reconciliation` | | |
| `Invoices` | customer invoices, payments, credit notes, sales receipts, deposits | `invoice`, `payments`, `note`, `apps`, `deposit`, `receipt` = the tables of those names; `entry` = the journal entry behind each column that holds one (`Slot`); `closed` = days in a locked period | one per handler; `journalUpdateDate`, the ledger screen's void, ticks and locks as they reach these entries |
| `InvoicesProofs` | theorems about `Invoices` | | |
| `Purchasing` | purchase orders, receipts of goods, bills, payments, vendor credits | the tables of those names; `movements` = stock that came in; `agreed` = history of approvals | one per handler, each one transaction |
| `PurchasingProofs` | theorems about `Purchasing` | | |
| `Stock` | one product's movements and their valuation | `moves` = `inventory_movements` with what each entry posted; `nextId` = `AUTOINCREMENT`; `straight` = history | the stock screen's handlers, and what bills, receipts, invoices and sales receipts do to stock |
| `StockProofs` | theorems about `Stock` | | |
| `WebSessions` | the web server's sign-ins, companies, access and upgrades | `row`, `scope`, `active`, `linked`, `moved` = rows of `web-admin.db`; `sessions` = the map of the process; `disk` = company files and their copies; `upgrades` = requests that wait for a copy | one per route or operation; `FinishUpgrade` after the wait; `Stop`, `Restart` and `Deploy` of the server |
| `WebSessionsProofs` | theorems about `WebSessions` | | |
| `CloudLedger` | invoices, bills, payments, voids, entries, idempotency keys | `document` = `sales_invoices`/`vendor_bills`; `sequence` = `company_document_sequences`; `keyRow` = `idempotency_keys`; `ledger`, `byDay`, `written` = what the posted entries and tax events add up to; `tx` = each request's transaction | one per statement at which requests meet; the writes of a request in the step of its commit |
| `Receivables` | *abstract*: what the cloud ledger promises | documents, their numbers, what is owed and paid, what is voided | issue, pay, void |
| `CloudReceivables` | the mapping `CloudLedger` → `Receivables` | | |
| `CloudLedgerProofs` | theorems about `CloudLedger` and the mapping | | |
| `FiniteSums` | lemmas about sums over finite sets and induction on finite sets and sequences, used by the proofs about money and goods | | |
| `MCJournal`, `MCReconciliation`, `MCInvoices`, `MCPurchasing`, `MCStock`, `MCWebSessions`, `MCCloudLedger` | small instances for TLC | | |

`PROJECT.json` maps each definition to its lines. A definition named `Slip...` is not
part of a model: it is a definition with one plausible mistake in it, kept to show
that some property notices.

### What the models abstract

* **Amounts.** A journal entry's lines are two totals and a tax kind (`none`, `coded`,
  `split` for a line on a tax account, `clearing` for a filing's own entry); a bank
  line is a net amount; a cloud document has a total. Which accounts lines are on is
  left out, except that one account is being reconciled and that a cloud request locks the
  rows of the accounts it posts to.
* **Invoices.** Of an entry: its date, what it does to Accounts Receivable and to
  Undeposited Funds, and whether it touches a bank account. Foreign currency, stock and
  tax are left out. `Init` has invoices an older version wrote as paid, without payments.
* **Purchasing.** One vendor and one product at one cent a unit; an order has one line.
  Dates, tax, currency and the sale of stock are left out, so any receipt or payment may
  be the newest one. The ledger screen voids none of these entries: all are linked.
* **Stock.** One product in whole units. The moving average is rounded as the code rounds
  it, half a cent up.
* **WebSessions.** The people of one firm and one business that may leave it. Seats,
  expiry, downloads, Save As, restore and daily backups are left out, as is what a
  request still does after its session has ended.
* **Atomicity.** In the desktop modules an action is a whole handler. Where
  a handler commits statement by statement and may throw in between, the action keeps
  what is committed: `JournalVoid` called from the journal screen voids the accrual
  even if the mirror's checks then throw. `HstFilingsVoid` changes nothing: its first
  statement is refused by a foreign key and its transaction rolls back;
  `InvoicesDeleteWithPayments` and `InvoicesChangeDate` are chains of transactions, and
  their actions do as much of the chain as the journal allows. `WebSessions` splits a
  request where it waits for a copy.
* **A disabled action is a refusal**: a handler that throws before its first write.
* **Cloud transactions.** `Begin` fixes which expired key row the request will see as
  gone (`now()`). `Reserve` is `insert ... on conflict do nothing`, which waits for
  whoever inserted the key; `TakeNumber` updates the sequence row; `LockDocument` and
  `RefuseDocument` are `select ... for update`, which see what the last holder left;
  `CreateDocument`, `CreatePayment`, `VoidDocument`, `CreateEntry` are the writes and
  the commit. Locks are derived from where requests are (`KeyHolders`,
  `SequenceHolders`, `DocumentHolders`), but for the account rows, which a request collects
  line by line (`LockAccount`): the foreign key of `journal_lines` locks them so that lines
  share them, and `createBankTransfer` selects its two for update. `BreakCircle` is
  PostgreSQL's deadlock check: of requests that wait for each other (`WaitsFor`, `Circle`)
  it fails one. A commit may be answered with a failure
  although it happened. `Fail` is any rollback: a denied access, a locked period, a
  time-out, a stop of the server.
* **The user's row.** `withUser` locks the signed-in user's row first, so requests of
  one user queue up. It is left out; the requests are of different users, which allows
  every interleaving the lock would forbid.
* **Time** is a parameter of an action (the day a date says, the day a void arrives)
  or a step that may happen (`KeyExpires`), never a clock.

## 3. Runs

Every run but `stock` checks for deadlock too; a state where all requests are answered is
closed with `AllAnswered`. `stock` may stop: its ids are used up (`MaxMovements`) and
nothing is left to take out or redate. Passing runs:

| run | question | bounds | states |
|---|---|---|---|
| `journal_locks` | do mirrors keep their accrual, locked periods their entries and ticked lines their posted entry, under posting, voiding with and without the override, redating and deletion? | 3 entries, 2 days, the first a lockable month, balanced lines | 564 189 |
| `journal_approval` | does an entry post only balanced, decided and whole, under any order of saves, approvals and threshold changes? | 2 entries (one and its mirror, or two), balanced and unbalanced lines at the threshold and lines of zero, gated and ungated origins, threshold on or off | 788 002 |
| `journal_filings` | are filed returns backed and sealed, and is the journal a `Book`? | 3 entries, 2 days, three reporting periods of which one overlaps both others, taxed and untaxed lines | 459 902 |
| `statements` | do statements chain, and does what was signed off or ticked stay, with stale windows? | 2 lines, 3 statements, 2 windows, 2 days | 1 040 044 |
| `customer_credit` | do receivables and paid amounts agree, whatever is paid, credited, refunded, written off, taken back or half deleted? | 2 invoices (old ones paid without payment rows among them), 2 credit notes, 2 payments, totals 1 and 2, one day | 183 298 |
| `deposits` | do documents and entries keep one date, does banked money stay, does a locked month keep its figures? | 1 invoice with 2 payments, 1 sales receipt, 1 deposit, 2 days, both lockable | 387 972 |
| `purchasing` | do payables and goods received agree, is an order billed once, does an approval stay with its figure? | 1 order of up to 2 units, 2 receipts, 2 bills, 2 payments, 1 vendor credit, a threshold an order can reach | 458 434 |
| `stock` | do ledger and stock report agree, and is every cost kept? | 3 movements over 2 days, of up to 3 units, costs that divide and costs that round | 140 515 |
| `web_sessions` | is what is open on disk, does an ended session stay ended, is reach respected, does a copy come before an upgrade? | an owner and a member, one company name in two folders, 2 files, 1 request waiting | 485 264 |
| `cloud_documents` | does the subledger agree, is a success real, is a key used once, and are the requests together `Receivables`? | 4 requests, 2 keys, 2 documents, an invoice of two paid in one or two parts or voided | 413 878 |
| `cloud_answers` | which requests can come to wait for each other, and does everyone get an answer? | 3 requests, 2 keys, a supplier's bill, its payment from one of two accounts, a journal on both and a transfer between them | 376 641 |

Why these bounds are enough to be interesting: three entries are an accrual, its
mirror and a third that interferes; two days are one inside and one outside a lock or
a statement; three reporting periods include an overlap of each kind; three
statements let one be abandoned or reopened between two others; two windows are one
that acts and one that is stale; four requests under two keys are a document and three
that race for it, or a request, its retry and its retry after the key expired. Two
invoices and two notes are a credit split over both and two credits on one; two payments
are one that stands and one that is reversed; two bills are an order's and another, or
the order's first and its second; three movements are a purchase, a sale and one that
changes what the sale should have cost, and totals of two and three cents over up to
three units give averages that are exact and averages that are rounded; two files are a
company and what replaces it. One request waits at a time in that instance while
everything else goes on; that two waiting requests do no more harm is what the proofs
about `WebSessions` show, for any `MaxWait`. Ids are
never reused by the code (`AUTOINCREMENT`, UUIDs), which is what caps every run: an
entry, statement or document id is used up. Symmetry is declared over entries, lines,
windows, documents, requests and keys, in runs without liveness properties only;
`cloud_answers` declares none.

**Fairness.** Only `Answered` needs any. `FairSpec` has weak fairness on
`Advance(r)`: once begun, a request that can go on does, because the API server sends
the next statement, PostgreSQL grants row locks in the order they were asked for, and its
deadlock check (`BreakCircle`) fails one of the requests that wait for each other.
No fairness on `Begin` (nobody must ask), `Fail` or `KeyExpires`. Weak fairness is
enough because a waiting request stays enabled from the moment the lock is free until
it or another takes it, requests are finitely many and each takes a lock once. Without
`BreakCircle` two transfers that lock the same two accounts crosswise would wait for good,
and `Answered` would fail.

### Where the code and its words differ

One run checks what a document of the repository says and finds a behaviour that
violates it: `find_void_tax`. An invoice is voided as of another day than today: the
reversal is posted on that day and the tax event on today
(`014_sales_tax_events.sql:39`, against `SALES-INVOICES.md:12`). The others are described
here; the models contain the behaviours, and the properties are stated around them.

*Journal and reconciliation* (`journal.handlers.ts`)

* An approved reversing entry above the threshold can never post: its mirror is born
  `pending` through `journalCreate` and the gate refuses it (138, 147).
* From the journal screen the void of an accrual is committed before the mirror's void
  throws on a locked month or a ticked line (436-439).
* `journalUpdateDate` promises the protections of `journalVoid` (327) and does not look at
  filed returns: an entry leaves a filed return by a date correction.
* No filed return can be voided, although the handler says that this is "the way to correct
  a return" (`hstFilings.handlers.ts:128`), the refusal to file a period again says it
  (70) and so does the refusal to unlock (`fiscalPeriods.handlers.ts:45`): line 136
  deletes the `fiscal_periods` row to which the filing, deleted in line 138, still refers
  (`0062_hst_filing_period_lock.sql:1`, with `foreign_keys = ON` in `connection.ts:76`).
  `HstFilingsVoid` is therefore a step that changes nothing.
* A void entry that a stale window ticked is deleted with its line: the completed
  statement no longer balances (480). The report of a completed statement counts lines
  cleared by later ones (`reconciliationReport.ts:73`).
* `journalUpdate` keeps the approval of an entry whose amount has changed (201; orders and
  bills recompute theirs). The screen says a rejected entry can be saved to resubmit and
  nothing resubmits it. A mirror can be voided alone. Later edits can put the reversal
  before the entry. `journalSetLineTaxCode` retags lines on a filed return, so
  `FiledReturnSealed` speaks of entries *posted* into it or *voided* out of it.
  `journalSetApproval` works on posted entries.

*Customer documents* (`invoices.handlers.ts`, `creditNotes.handlers.ts`)

* The ledger screen's list of linked documents omits write-offs (`journal.handlers.ts`
  382-405): the entry of a write-off can be voided without its invoice. This is why
  `ReceivablesAgree` counts standing write-offs and `ClosedMonthSealed` leaves their
  entries out. `creditNotesApply` ignores what was written off.
* A written-off invoice is offered for deposit at its full total (`undepositedFunds.ts:33`,
  and the list of `invoices.handlers.ts:672` on): Undeposited Funds then falls below what
  waits there.
* `invoicesChangeDate` moves entries one by one; its comment (523) says each refuses
  before anything is written. A ticked payment stops the ones after it. The ledger's date
  correction does not check that a payment follows its invoice.
* `invoicesDeleteWithPayments` may undo and reverse, and then be refused. An invoice
  written off, its payment reversed and received again is left `unpaid` with nothing due.

*Vendor documents and stock*

* Goods are received and orders converted without the order's approval; a sent order can
  be edited above the threshold and stay `sent` while `pending`; deleting its bill sets
  it `sent` whatever its approval. A vendor credit settles bills nobody approved.
* Deleting a bill or reversing a receipt takes out stock already sold, although
  `inventoryValuation.ts:80` says postings that create negative stock are prevented; so
  do back-dated sales, since availability is checked up to a date only.
* A bill's line of three cents for two units keeps two cents a unit: the stock report says
  four, the ledger three (`bills.handlers.ts:324`, `purchaseOrders.handlers.ts:286`;
  `inventoryValuation.ts:10-11` says this must not be). A receipt dated before a sale, or a
  movement in the middle taken out or redated, leaves the cost of later sales as it was.
  This is why `StockAgrees` is about whole cents and histories changed at their end.
* A weekly bill template is refused the second time in a month, as its number is
  `name YYYY-MM`. A recurring invoice is posted before its due date moves, and the list
  of due templates is read before a mail is awaited: two windows, or a stop in between,
  invoice a period twice (`recurringInvoices.handlers.ts:119-132`). The day of a monthly
  template is read off a date already clamped, so the 31st becomes the 28th for good.

*Web server*

* `company:deleteCurrent` removes the Backups folder that all companies of an organisation
  share. Other sessions keep a connection to the unlinked file, which is why
  `OpenIsOnDisk` excepts `erased`.
* A copy made before an upgrade is found again by its name: one cut short by a stop makes
  every later open fail, and one may be of a file that has been replaced since
  (`connection.ts:32-57`).
* `pendingCompany` is cleared before the open is done (`index.ts:134`): a second request
  meanwhile saves a row without a company. A session ended during an open leaves its
  connection open. A move or upload while an open waits may leave a new blank company.

*Cloud*

* `accept_firm_invitation` returns a column named `firm_id` and uses that name in
  `on conflict (firm_id, user_id)`, which PL/pgSQL refuses as ambiguous: no invitation
  can be accepted (`003_seat_invitations.sql:117,140`, again in 017).
* The web client makes a new key for every call, so keys cover repeats of one HTTP
  request only.

## 4. Properties

One type invariant per module, and then:

* `BooksBalance` – what is, or was, in the ledger balances, whatever happened before.
* `MirrorBelongs` – a stored mirror has one accrual, stored, with opposite amounts.
* `LockedPeriodSealed` – while a lock stays: nothing enters, moves in or out, or leaves
  but by the confirmed override; not even as the mirror of an entry dated elsewhere.
* `PostsWhole` – no posting against an open or negative decision, or without its mirror.
* `ReconciledStays` – a ticked line keeps its posted entry, date and amounts.
* `FilingBacked`, `FiledReturnSealed` – a filed return keeps its lock and its own posted
  entry, there is no lock without one, no day is on two, and nothing is posted into it or
  voided out of it.
* `KeepsTheBook` – the journal refines `Book`.
* `StatementsChain`, `SignedOffTicks`, `TickedStays` – statements follow each other from
  balance to balance; completed ones keep their ticks; ticked entries stay.
* `ReceivablesAgree`, `PaidIsBacked` – receivables in the ledger are what invoices owe
  less the credit customers hold; what is paid is payments and applied credit.
* `DatesFollow`, `BankedStays`, `ClosedMonthSealed` – a document and its entry have one
  date; banked money stays until the deposit goes; no document's handler changes what a
  locked month reports.
* `PayablesAgree`, `GoodsAgree`, `BilledOnce`, `ApprovedFigure` – the same for vendors; the
  accrual of goods received is what is received and not invoiced; an order becomes one
  bill; an approval is of the present total.
* `StockAgrees`, `CostsConserved` – the asset account is the stock report, cent for cent; a
  cost is on the shelf or charged once, as of any day of any history.
* `OpenIsOnDisk`, `ForgottenStaysOut`, `NothingBeyondReach`, `UpgradedOnlyWithCopy` – what
  is open is the file on disk; an ended session leaves no row; nobody opens or deletes
  beyond their reach, nor begins to wait to, and who has waited opens what was in reach when
  the wait began or holds to what the session has read since; no upgrade before a finished
  copy carries the file's name.
* `SubledgerAgrees` – balance and status of a document are what the entries add up to.
* `OkMeansDone`, `OncePerKey` – a success is real; a living key writes once.
* `KeepsReceivables` – the cloud ledger refines `Receivables`: numbers without gaps, no
  overpayment, no void of what was paid.
* `CirclesNeedTransfer` – requests that wait for each other in a circle are all at their
  journal lines, and one of them is a bank transfer: keys, numbers and documents close none.
* `Answered` – each request that begins ends: no lock is left behind, and the circles that
  transfers close are broken.

Each was shown to fail under at least one changed definition of the model
(`PROJECT.json`, `mutants`): an unlocked key, a payment not compared with the balance,
a mirror that skips the gate, a lock that goes before its return, and so on.

## 5. Proofs

TLC decides small instances; TLAPS proves the following for **any** sets of entries, days,
periods, thresholds, statements, windows, requests, keys, people, files, documents and
amounts. With them every invariant and every action property a run checks is a theorem,
and so are both refinements.

**Assumed** are the types of the constants (`JournalAssumption` and its like, one per
module) and, where an amount is a sum over rows, that ids are finitely many
(`IdsAreFinite` of `Invoices` and `Purchasing`: they are 64-bit numbers). Null values are
none of the others: `NullIsNoRow` and `NullIsNoSession` say it of records, where TLA+ does
not say it by itself. TLC evaluates each of these in the runs of its module.

**Induction.** The library's induction theorems take a predicate as a parameter, which the
provers cannot instantiate; with a *set* in the predicate's place the same follows from the
well-foundedness of `<` (`InductionOnSubsets` and `InductionOnLengths` of `FiniteSums`).
Recursive definitions are functions here, so what they compute is proved one unfolding at
a time.

`FiniteSums`

* A sum over a finite set is a number, does not depend on the order of the fold, changes by
  one term when one row changes, may be sorted into classes, and may be added up rows
  first or columns first. The ledgers' theorems rest on these.

`JournalProofs`

* `TypeCorrect` – `TypeOK` is inductive.
* `Balance`, `MirrorIntegrity` – from `Inductive == TypeOK /\ BooksBalance /\
  MirrorBelongs`. Neither of the last two is inductive on typed states alone:
  `MirrorBelongs` needs to know that a posted entry's accrual cannot be deleted or
  edited, and the mirror's amounts are those of lines that balance.
* `ImplementsBook` – the lemma `StepEffect` sorts every step into quiet, posting,
  voiding or deleting; each kind is a stutter or one step of `Book`.
* `LockSeals` – the action property, entry by entry and period by period, with the same
  four kinds of step.
* `ReturnSeals`, `PostingIsWhole`, `ReconciledKept` – the lemma `StepKind` says that every
  handler posts (through the gate, with its mirror), voids (each entry by the checks of a
  void) or does neither; each property is shown for the three kinds.
* `FilingsBacked` – the lock of a return is there exactly as long as its record
  (`LocksAlwaysMatch`, which `ReturnSeals` needs too, as the gate looks at locks and not at
  filings). The rest is not inductive: it must be known that the entry of a filing reverses
  nothing, for else voiding another entry could take it along (`FilingHeld`).

`ReconciliationProofs`, from `Chained` and `Signed`

* `StatementsFollow` (and `ReconciliationTyped`) – `StatementsChain` speaks of the greatest
  id before a statement. That there is one does not follow from a set that may be
  infinite; `Lasts` carries it along: a statement is started after all others and only
  the last is abandoned.
* `SignedOffStays`, `TickHolds` – `ShownTicks` says how stale a window can be: what it shows
  as ticked on a statement that counts has been unticked since, or ticked on that
  statement or a later one. As the open one is the last (`OpenIsLast`), an untick can only
  hit its own ticks, although the handler does not look.

`InvoicesProofs`, from `IInv`

* `TypeCorrect`, `DatesAlwaysFollow`, `PaidIsAlwaysBacked` – `IInv` says of each document
  which entries it has, in what state, on which date and with which receivable, and that no
  document means no entry (`InvoicesFollow`, `PaymentsFollow`, ...); and of each paid and
  applied amount which rows it comes from (`PaidFollows`, `AppliedFollows`). It is needed
  because `Max(paid - amount, 0)` gives back what is left only if no payment exceeds what
  was paid, and a date correction moves the right entry only if the links are right.
* `ReceivablesAlwaysAgree` – not about steps at all: in any state of `IInv` the entries can
  be added up kind by kind, and the credit applied by note or by invoice.
* `ClosedMonthIsSealed` – every handler posts, voids or moves only the entries of its own
  document, each by the checks against a locked month; deletions and redatings are
  followed through each step of their chain.
* `BankedIsSafe` – needs little of a state (`Shaped`). Every handler leaves payments,
  deposits and receipts alone, moves dates, takes in what is in no deposit, or frees what
  is in the deposit that goes. `ReceiptEntries` (a receipt that is gone has no entry) keeps
  a date correction from reviving one.

`PurchasingProofs`

* `TypeCorrect` – inductive; that stock stays a sequence when a receipt or a bill takes its
  movements back is an induction over the movements.
* `ApprovalsAreOfTheFigure` – inductive together with the types.
* `GoodsAreBilledOnce`, `PayablesAlwaysAgree`, `GoodsAlwaysAgree` – from one `IInv`. That
  Accounts Payable is what is owed does not say that the entry a step voids is of that
  bill's amount; `EntriesFollow` does, and `StockFollows`, `ReceivedFollows`, `PaidFollows`
  and `AppliedFollows` tie movements and amounts to their rows. Each step then changes a
  term or two of each sum, by the same amount on both sides.

`StockProofs`, from `IInv == TypeOK /\ StraightAgrees`

* `StockAlwaysAgrees` – not inductive: when the last movement is taken out, what is left
  must agree too. `StraightAgrees` says it of *every beginning* of a straight history, and
  a valuation of a beginning does not depend on what comes after.
* `CostsAreAlwaysConserved` – needs the types only: `InboundIsSound` and `OutboundIsSound`
  bound what rounding may do in one movement, and all of them follow by induction.

`WebSessionsProofs`, from `Inv`

* `TypeCorrect`, `OpenOnDisk`, `ForgottenForGood`, `UpgradesAreCopied` – `OpenIsOnDisk` needs
  that a session whose row is gone is gone too (`Ended`), that what needs an upgrade is a
  file, and that before a business moves its folder is unused. A request is followed
  through the steps it is made of (`World`, `Leads`), each of which keeps the invariant.
  What `company:deleteCurrent` removed is excepted from `OpenIsOnDisk`: another session may
  still have it open. `UpgradesAreCopied` is about a finished copy of that name, which may
  be of a file that has been replaced since.
* `ReachIsKept` – needs `Waiting` as well: a saved company is taken up by the first request
  of a session and by no other, so of each session at most one request waits with
  something left to ask, and the session it finds afterwards is the one it began with or
  has been ended. How a request may end is then `Keeps` (it has open what it had or may
  reach, and waits for nothing else) or `Deletes` (what it had and may reach).

`CloudLedgerProofs`

* `CloudTypeCorrect`, `SubledgerHolds` – from `Sound == TypeOK /\ Asked /\ RowsLocked /\
  SubledgerAgrees`. `SubledgerAgrees` is not inductive: a payment commits some steps after
  it looked at the balance. `RowsLocked` says what the lock is for: one request holds a
  document, and what it asked is still allowed. `MoveSound` covers every step that writes
  nothing, `CommitsEnd` and `CommitsLocks` what all commits have in common.
* `SuccessIsReal`, `WrittenOncePerKey` – from `Keyed`: the row of a key names who wrote it
  and what was asked (`Remembered`), one request at a time is past its key and found it
  free or expired (`OneHolder`), and a row a request found expired stays expired as long as
  it is there (`StaleStays`), because whoever replaces it is another request.
* `CirclesOfTransfers` – from `LinesLast`: only a request at its lines holds an account row.
  One that waits for a number or a document waits for requests at theirs, one that waits
  for a key for requests past theirs, so a circle is at its lines throughout
  (`CirclesAtLines`); there, two requests are in each other's way only if one is a transfer.
* `ImplementsReceivables` – from `Sound /\ Numbered`: the numbers taken of a kind are exactly
  those before the next one, and who holds the sequence row holds the next one.

**Only model-checked**: `Answered`, which is liveness under fairness and so, with `ENABLED`,
out of the prover's reach; and that the properties are not about nothing: the runs show
that every action can happen and that a changed definition breaks each property.
`TaxFollowsLedger`, which the code violates, is a run's counterexample.

## 6. Plan

Done: the journal with its periods and filings, reconciliation, customer documents with
deposits, vendor documents, stock, the web server's sessions and files, the cloud ledger;
the abstract specifications of the journal and of the cloud ledger, their refinements, and
the proofs above. What would come next:

1. Seats, invitations and their growth under the firm row's lock, once invitations can be
   accepted.
2. Recurring documents over `Invoices` and `Purchasing`, with the calendar they need.
3. Save As, restore and the daily backups, whose waits `WebSessions` leaves out.
4. Rounding of tax in the API against the database's check, over bounded amounts.

## 7. Not modelled, and why

* Of the journal: the revision log, tags, memos and attachments. The documents that move
  with an entry's date, and that refuse its void, are in `Invoices` and `Purchasing`.
* Of the documents: estimates, several lines, tax, foreign currency and late interest;
  the dates of vendor documents (`billsChangeDate` has the shape of
  `invoicesChangeDate`); fractional quantities and bundles.
* Of the web server: seats and previews, session expiry, downloads, invitations, trials
  and billing; Save As, restore, daily backups and the steps of a migration.
* Of the reconciliation: the layout of the report and credit-normal accounts, which
  negate.
* Of the cloud ledger: access and plan checks (they are `Fail`), the amounts on each
  account of an entry, products, which a request locks while it waits for nothing, and
  the period locks, which the posting trigger reads and no code writes yet.
* Reports, forms, PDF, import and export, screens, device input, mail, licensing:
  read-only or without state the books depend on.
* Seats and invitations: see above, no invitation can be accepted. Subscriptions, email
  codes, products and contacts: single statements under unique constraints.
* Recurring documents: calendar arithmetic around the documents' own handlers. Bulk entry:
  loops over them. Staff sessions: a log nothing reads.
* The desktop program's company file: one connection for all windows; `WebSessions` models
  the server, where each session has its own.

`PROJECT.json` lists the hazards at the line where they bite; those without a property
say why.

## 8. Running it

`tlc -config JournalLocks.cfg MCJournal` (and likewise each `.cfg` with the `MC` module
of its run in `PROJECT.json`); `tlapm JournalProofs.tla` and the other `...Proofs`
modules and `FiniteSums`. Each run ends within five minutes on two workers; the proofs take
from half a minute (`StockProofs`) to five minutes (`PurchasingProofs`).
