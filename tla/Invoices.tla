------------------------------- MODULE Invoices -------------------------------
(***************************************************************************)
(* Customer invoices of the desktop program: payments, credit notes,       *)
(* write-offs, bank deposits and sales receipts, and the journal entries   *)
(* they post, void and redate (src/src/main/ipc/invoices.handlers.ts,      *)
(* creditNotes.handlers.ts, salesReceipts.handlers.ts).  One handler runs  *)
(* at a time; a handler made of several transactions may be refused        *)
(* between two of them and leaves what it did.                             *)
(*                                                                         *)
(* Of an entry the model keeps its date, what it does to Accounts          *)
(* Receivable and to Undeposited Funds, and whether it touches a bank      *)
(* account.  Foreign currency, stock and tax are left out.                 *)
(***************************************************************************)
EXTENDS Integers, Sequences, FiniteSetsExt, Functions

CONSTANTS
    Invoice, Note, Deposit, Receipt,  \* ids of documents
    MaxPayment,                       \* bound on payments stored at a time
    MaxDay,                           \* dates are 1..MaxDay
    Amount,                           \* the totals a document may have
    NoRow                             \* no such row, or a null reference

ASSUME InvoicesAssumption ==
    /\ MaxPayment \in Nat
    /\ MaxDay \in Nat \ {0}
    /\ Amount \subseteq Nat \ {0}
    /\ NoRow \notin Deposit \cup Nat

\* Ids of rows are 64-bit numbers.
ASSUME IdsAreFinite ==
    \A ids \in {Invoice, Note, Deposit, Receipt} : IsFiniteSet(ids)

VARIABLES
    invoice,   \* table invoices
    payments,  \* table invoice_payments
    note,      \* table credit_notes, customer credits only
    apps,      \* table credit_note_applications: per note, in order of id
    deposit,   \* table deposits: the date of each
    receipt,   \* table sales_receipts
    entry,     \* the journal entry of each document and of each step of one
    closed     \* days inside a locked fiscal period

vars == <<invoice, payments, note, apps, deposit, receipt, entry, closed>>

-----------------------------------------------------------------------------
(* Rows *)

Day == 1..MaxDay
Money == {"undeposited", "bank"}
Cents == 1..Max(Amount)   \* what one payment or one application may be

\* "account" is payment_account_id: null until money is known to have come in.
InvoiceRow == [date: Day, total: Amount, paid: Nat, writtenOff: Nat,
               status: {"unpaid", "paid"}, account: Money \cup {"none"},
               deposit: Deposit \cup {NoRow}]
PaymentRow == [id: 1..MaxPayment, invoice: Invoice, date: Day, amount: Nat \ {0},
               account: Money, deposit: Deposit \cup {NoRow}]
NoteRow == [date: Day, total: Amount, applied: Nat,
            status: {"open", "applied", "refunded"}]
ReceiptRow == [date: Day, total: Amount, account: Money,
               deposit: Deposit \cup {NoRow}]
Application == [target: Invoice, amount: Nat \ {0}]

ASSUME NullIsNoRow ==
    NoRow \notin InvoiceRow \cup PaymentRow \cup NoteRow \cup ReceiptRow

\* The columns that hold the id of a journal entry.  "legacy" is the payment of
\* an invoice written before payments had a table of their own.
Slot == ({"invoice", "writeoff", "legacy"} \X Invoice)
        \cup ({"payment"} \X (1..MaxPayment))
        \cup ({"note", "refund"} \X Note)
        \cup ({"deposit"} \X Deposit)
        \cup ({"receipt"} \X Receipt)

EntryRow == [state: {"none", "posted", "void"}, date: Day, ar: Int, uf: Int,
             bank: BOOLEAN, cleared: BOOLEAN]

NoEntry == [state |-> "none", date |-> 1, ar |-> 0, uf |-> 0,
            bank |-> FALSE, cleared |-> FALSE]
Entry(date, ar, uf, bank) == [state |-> "posted", date |-> date, ar |-> ar,
                              uf |-> uf, bank |-> bank, cleared |-> FALSE]

Stored(table) == {x \in DOMAIN table : table[x] # NoRow}
Positive(n) == IF n > 0 THEN n ELSE 0
InUf(account, cents) == IF account = "undeposited" THEN cents ELSE 0

Amounts(rows) == SumFunction([r \in rows |-> r.amount])
AppliedTo(n, i) ==
    SumFunction([k \in DOMAIN apps[n] |->
                    IF apps[n][k].target = i THEN apps[n][k].amount ELSE 0])

-----------------------------------------------------------------------------
(* The journal, as the documents use it *)

IsOpen(date) == date \notin closed

\* journalCreate and journalPost in the caller's transaction.
Post(s, date, ar, uf, bank) ==
    /\ IsOpen(date)
    /\ entry' = [entry EXCEPT ![s] = Entry(date, ar, uf, bank)]

SlipMayVoid(s) == entry[s].state = "posted" /\ ~entry[s].cleared

\* journalVoid as documents call it, without the override.
MayVoid(s) ==
    /\ entry[s].state = "posted"
    /\ IsOpen(entry[s].date)
    /\ ~entry[s].cleared
Without(slots) == [s \in Slot |-> IF s \in slots THEN NoEntry ELSE entry[s]]

MayMove(s, date) ==
    /\ entry[s].state # "none"
    /\ IsOpen(entry[s].date)
    /\ IsOpen(date)
    /\ ~entry[s].cleared

SlipLinkedDocument(s) == s[1] \notin {"writeoff", "payment"}

\* linkedBusinessDocument: the entries the ledger screen may not void itself.
LinkedDocument(s) == s[1] # "writeoff"

-----------------------------------------------------------------------------
(* Invoices *)

Balance(row) == Positive(row.total - row.paid - row.writtenOff)
PaymentsOf(i) == {p \in payments : p.invoice = i}
SettledByCredit(i) == \E n \in Note : AppliedTo(n, i) > 0

\* order by payment_date desc, id desc
NotOlder(q, p) == q.date > p.date \/ (q.date = p.date /\ q.id >= p.id)
Newest(rows) == CHOOSE p \in rows : \A q \in rows : NotOlder(p, q)
AccountAfter(rows) == IF rows = {} THEN "none" ELSE Newest(rows).account

SlipSettled(row, paid) ==
    [row EXCEPT !.paid = paid,
                !.status = IF paid >= row.total THEN "paid"
                           ELSE IF paid > 0 THEN "partial" ELSE "unpaid"]

Settled(row, paid) ==
    [row EXCEPT !.paid = paid,
                !.status = IF paid >= row.total THEN "paid" ELSE "unpaid"]

InvoicesCreate(i, date, total) ==
    /\ invoice[i] = NoRow
    /\ Post(<<"invoice", i>>, date, total, 0, FALSE)
    /\ invoice' = [invoice EXCEPT ![i] =
           [date |-> date, total |-> total, paid |-> 0, writtenOff |-> 0,
            status |-> "unpaid", account |-> "none", deposit |-> NoRow]]
    /\ UNCHANGED <<payments, note, apps, deposit, receipt, closed>>

\* invoiceEditRefusalReason
Editable(i) ==
    /\ invoice[i] # NoRow
    /\ PaymentsOf(i) = {}
    /\ invoice[i].paid = 0
    /\ invoice[i].writtenOff = 0
    /\ ~SettledByCredit(i)

\* The old entry is voided and a new one posted, in one transaction.
InvoicesUpdate(i, date, total) ==
    /\ Editable(i)
    /\ MayVoid(<<"invoice", i>>)
    /\ Post(<<"invoice", i>>, date, total, 0, FALSE)
    /\ invoice' = [invoice EXCEPT ![i].date = date, ![i].total = total,
                                  ![i].status = "unpaid"]
    /\ UNCHANGED <<payments, note, apps, deposit, receipt, closed>>

NextPayment == 1 + Max({p.id : p \in payments} \cup {0})

InvoicesReceivePayment(i, date, amount, account) ==
    /\ invoice[i] # NoRow
    /\ amount \in 1..Balance(invoice[i])
    /\ date >= invoice[i].date
    /\ NextPayment \in 1..MaxPayment
    /\ Post(<<"payment", NextPayment>>, date, 0 - amount,
            InUf(account, amount), account = "bank")
    /\ payments' = payments \cup
           {[id |-> NextPayment, invoice |-> i, date |-> date, amount |-> amount,
             account |-> account, deposit |-> NoRow]}
    /\ invoice' = [invoice EXCEPT ![i] =
           [Settled(@, @.paid + amount) EXCEPT !.account = account]]
    /\ UNCHANGED <<note, apps, deposit, receipt, closed>>

\* The row of an invoice once the payments "gone" of it were reversed.
Reversed(i, row, gone) ==
    IF gone = {} THEN row
    ELSE [Settled(row, Positive(row.paid - Amounts(gone))) EXCEPT
             !.account = AccountAfter(PaymentsOf(i) \ gone)]

PaymentSlots(rows) == {<<"payment", p.id>> : p \in rows}

SlipReverseBanked(i) ==
    /\ PaymentsOf(i) # {}
    /\ LET p == Newest(PaymentsOf(i)) IN
        /\ MayVoid(<<"payment", p.id>>)
        /\ payments' = payments \ {p}
        /\ invoice' = [invoice EXCEPT ![i] = Reversed(i, @, {p})]
        /\ entry' = Without(PaymentSlots({p}))
    /\ UNCHANGED <<note, apps, deposit, receipt, closed>>

InvoicesReverseLastPayment(i) ==
    /\ PaymentsOf(i) # {}
    /\ LET p == Newest(PaymentsOf(i)) IN
        /\ p.deposit = NoRow
        /\ MayVoid(<<"payment", p.id>>)
        /\ payments' = payments \ {p}
        /\ invoice' = [invoice EXCEPT ![i] = Reversed(i, @, {p})]
        /\ entry' = Without(PaymentSlots({p}))
    /\ UNCHANGED <<note, apps, deposit, receipt, closed>>

InvoicesWriteOff(i, date) ==
    /\ invoice[i] # NoRow
    /\ Balance(invoice[i]) > 0
    /\ invoice[i].writtenOff = 0
    /\ date >= invoice[i].date
    /\ Post(<<"writeoff", i>>, date, 0 - Balance(invoice[i]), 0, FALSE)
    /\ invoice' = [invoice EXCEPT ![i].writtenOff = Balance(invoice[i]),
                                  ![i].status = "paid"]
    /\ UNCHANGED <<payments, note, apps, deposit, receipt, closed>>

WrittenBack(row) == [Settled(row, row.paid) EXCEPT !.writtenOff = 0]

InvoicesUndoWriteOff(i) ==
    /\ invoice[i] # NoRow
    /\ invoice[i].writtenOff > 0
    /\ MayVoid(<<"writeoff", i>>)
    /\ invoice' = [invoice EXCEPT ![i] = WrittenBack(@)]
    /\ entry' = Without({<<"writeoff", i>>})
    /\ UNCHANGED <<payments, note, apps, deposit, receipt, closed>>

InvoicesDelete(i) ==
    /\ invoice[i] # NoRow
    /\ invoice[i].writtenOff = 0
    /\ invoice[i].paid = 0
    /\ MayVoid(<<"invoice", i>>)
    /\ invoice' = [invoice EXCEPT ![i] = NoRow]
    /\ entry' = Without({<<"invoice", i>>})
    /\ UNCHANGED <<payments, note, apps, deposit, receipt, closed>>

\* Three kinds of transaction one after the other: the write-off is undone, the
\* payments are reversed newest first, the invoice is deleted.  The first that
\* is refused ends it and what went before stays.
InvoicesDeleteWithPayments(i) ==
    /\ invoice[i] # NoRow
    /\ invoice[i].writtenOff > 0 => MayVoid(<<"writeoff", i>>)
    /\ LET written == {<<"writeoff", i>>}
           back == IF invoice[i].writtenOff > 0 THEN WrittenBack(invoice[i]) ELSE invoice[i]
           banked == \E p \in PaymentsOf(i) : p.deposit # NoRow
           gone == {p \in PaymentsOf(i) :
                       /\ ~banked
                       /\ \A q \in PaymentsOf(i) :
                             NotOlder(q, p) => MayVoid(<<"payment", q.id>>)}
           row == Reversed(i, back, gone)
           deleted == /\ gone = PaymentsOf(i)
                      /\ row.paid = 0
                      /\ MayVoid(<<"invoice", i>>)
       IN /\ invoice' = [invoice EXCEPT ![i] = IF deleted THEN NoRow ELSE row]
          /\ payments' = payments \ gone
          /\ entry' = Without(written \cup PaymentSlots(gone)
                              \cup IF deleted THEN {<<"invoice", i>>} ELSE {})
    /\ UNCHANGED <<note, apps, deposit, receipt, closed>>

-----------------------------------------------------------------------------
(* Dates *)

SlipMoveLinked(moved, date) ==
    /\ entry' = [s \in Slot |-> IF s \in moved THEN [entry[s] EXCEPT !.date = date]
                                ELSE entry[s]]
    /\ invoice' = [i \in Invoice |-> IF <<"invoice", i>> \in moved
                                     THEN [invoice[i] EXCEPT !.date = date]
                                     ELSE invoice[i]]
    /\ UNCHANGED <<payments, note, deposit, receipt>>

\* moveLinkedDocumentDate: the document follows the entry that carries it.
MoveLinked(moved, date) ==
    LET Follow(table, kind) ==
            [x \in DOMAIN table |-> IF <<kind, x>> \in moved
                                    THEN [table[x] EXCEPT !.date = date]
                                    ELSE table[x]]
    IN /\ entry' = [s \in Slot |-> IF s \in moved THEN [entry[s] EXCEPT !.date = date]
                                   ELSE entry[s]]
       /\ invoice' = Follow(invoice, "invoice")
       /\ note' = Follow(note, "note")
       /\ receipt' = Follow(receipt, "receipt")
       /\ payments' = {IF <<"payment", p.id>> \in moved
                       THEN [p EXCEPT !.date = date] ELSE p : p \in payments}
       /\ deposit' = [d \in Deposit |-> IF <<"deposit", d>> \in moved
                                        THEN date ELSE deposit[d]]

\* journalUpdateDate, from the ledger screen.
JournalUpdateDate(s, date) ==
    /\ MayMove(s, date)
    /\ MoveLinked({s}, date)
    /\ UNCHANGED <<apps, closed>>

\* The invoice's entry first, then the payments of the old day in order of id,
\* each a call of its own: a reconciled payment stops those after it.
InvoicesChangeDate(i, date) ==
    /\ invoice[i] # NoRow
    /\ date # invoice[i].date
    /\ LET moving == {p \in PaymentsOf(i) : p.date = invoice[i].date}
           moved == {p \in moving : \A q \in moving :
                        q.id <= p.id => MayMove(<<"payment", q.id>>, date)}
       IN /\ \A p \in PaymentsOf(i) \ moving : p.date >= date
          /\ \A p \in moving : p.deposit = NoRow
          /\ MayMove(<<"invoice", i>>, date)
          /\ MoveLinked({<<"invoice", i>>} \cup PaymentSlots(moved), date)
    /\ UNCHANGED <<apps, closed>>

-----------------------------------------------------------------------------
(* Credit notes *)

Remaining(row) == Positive(row.total - row.applied)

CreditNotesCreate(n, date, total) ==
    /\ note[n] = NoRow
    /\ Post(<<"note", n>>, date, 0 - total, 0, FALSE)
    /\ note' = [note EXCEPT ![n] = [date |-> date, total |-> total, applied |-> 0,
                                    status |-> "open"]]
    /\ UNCHANGED <<invoice, payments, apps, deposit, receipt, closed>>

\* The balance the credit is measured against is read off the total and the paid
\* amount alone.
CreditNotesApply(n, i, amount) ==
    /\ note[n] # NoRow
    /\ invoice[i] # NoRow
    /\ note[n].status # "refunded"
    /\ amount \in 1..Remaining(note[n])
    /\ amount <= invoice[i].total - invoice[i].paid
    /\ apps' = [apps EXCEPT ![n] = Append(@, [target |-> i, amount |-> amount])]
    /\ invoice' = [invoice EXCEPT ![i] = Settled(@, @.paid + amount)]
    /\ note' = [note EXCEPT ![n].applied = @ + amount,
                            ![n].status = IF note[n].applied + amount >= note[n].total
                                          THEN "applied" ELSE "open"]
    /\ UNCHANGED <<payments, deposit, receipt, entry, closed>>

CreditNotesRefund(n, date) ==
    /\ note[n] # NoRow
    /\ note[n].status # "refunded"
    /\ Remaining(note[n]) > 0
    /\ date >= note[n].date
    /\ Post(<<"refund", n>>, date, Remaining(note[n]), 0, TRUE)
    /\ note' = [note EXCEPT ![n].status = "refunded"]
    /\ UNCHANGED <<invoice, payments, apps, deposit, receipt, closed>>

UndoRefund(n) ==
    /\ note[n] # NoRow
    /\ note[n].status = "refunded"
    /\ MayVoid(<<"refund", n>>)
    /\ entry' = Without({<<"refund", n>>})
    /\ note' = [note EXCEPT ![n].status = "open"]
    /\ UNCHANGED <<invoice, payments, apps, deposit, receipt, closed>>

SlipUnapply(n) ==
    /\ note[n] # NoRow
    /\ note[n].status # "refunded"
    /\ apps[n] # <<>>
    /\ LET last == apps[n][1] IN
        /\ invoice' = [invoice EXCEPT ![last.target] =
               Settled(@, Positive(@.paid - last.amount))]
        /\ note' = [note EXCEPT ![n].applied = Positive(@ - last.amount),
                                ![n].status = "open"]
        /\ apps' = [apps EXCEPT ![n] = SubSeq(@, 1, Len(@) - 1)]
    /\ UNCHANGED <<payments, deposit, receipt, entry, closed>>

\* The newest application of the note goes; the invoice owes the amount again.
Unapply(n) ==
    /\ note[n] # NoRow
    /\ note[n].status # "refunded"
    /\ apps[n] # <<>>
    /\ LET last == apps[n][Len(apps[n])] IN
        /\ invoice[last.target] # NoRow
        /\ invoice' = [invoice EXCEPT ![last.target] =
               [Settled(@, Positive(@.paid - last.amount)) EXCEPT
                   !.account = AccountAfter(PaymentsOf(last.target))]]
        /\ note' = [note EXCEPT ![n].applied = Positive(@ - last.amount),
                                ![n].status = "open"]
        /\ apps' = [apps EXCEPT ![n] = SubSeq(@, 1, Len(@) - 1)]
    /\ UNCHANGED <<payments, deposit, receipt, entry, closed>>

CreditNotesUndoSettlement(n) == UndoRefund(n) \/ Unapply(n)

CreditNotesDelete(n) ==
    /\ note[n] # NoRow
    /\ note[n].status = "open"
    /\ note[n].applied = 0
    /\ MayVoid(<<"note", n>>)
    /\ note' = [note EXCEPT ![n] = NoRow]
    /\ entry' = Without({<<"note", n>>})
    /\ UNCHANGED <<invoice, payments, apps, deposit, receipt, closed>>

-----------------------------------------------------------------------------
(* Sales receipts and bank deposits *)

SalesReceiptsCreate(r, date, total, account) ==
    /\ receipt[r] = NoRow
    /\ Post(<<"receipt", r>>, date, 0, InUf(account, total), account = "bank")
    /\ receipt' = [receipt EXCEPT ![r] = [date |-> date, total |-> total,
                                          account |-> account, deposit |-> NoRow]]
    /\ UNCHANGED <<invoice, payments, note, apps, deposit, closed>>

SalesReceiptsChangeDate(r, date) ==
    /\ receipt[r] # NoRow
    /\ receipt[r].deposit = NoRow
    /\ MayMove(<<"receipt", r>>, date)
    /\ MoveLinked({<<"receipt", r>>}, date)
    /\ UNCHANGED <<apps, closed>>

SalesReceiptsDelete(r) ==
    /\ receipt[r] # NoRow
    /\ receipt[r].deposit = NoRow
    /\ MayVoid(<<"receipt", r>>)
    /\ receipt' = [receipt EXCEPT ![r] = NoRow]
    /\ entry' = Without({<<"receipt", r>>})
    /\ UNCHANGED <<invoice, payments, note, apps, deposit, closed>>

\* isAwaitingDeposit, on the invoice's own row: meant for invoices paid before
\* payments had a table, which the list tells by their having no payment.
AwaitingDeposit(i) ==
    /\ invoice[i] # NoRow
    /\ PaymentsOf(i) = {}
    /\ invoice[i].status = "paid"
    /\ invoice[i].deposit = NoRow
    /\ ~SettledByCredit(i)
    /\ invoice[i].account # "bank"
UndepositedPayments == {p \in payments : p.deposit = NoRow /\ p.account = "undeposited"}
UndepositedReceipts ==
    {r \in Stored(receipt) : receipt[r].deposit = NoRow /\ receipt[r].account = "undeposited"}

DepositsCreate(d, date, is, ps, rs) ==
    /\ deposit[d] = NoRow
    /\ <<is, ps, rs>> # <<{}, {}, {}>>
    /\ \A i \in is : AwaitingDeposit(i) /\ invoice[i].date <= date
    /\ \A p \in ps : p.date <= date
    /\ \A r \in rs : receipt[r].date <= date
    /\ LET cents == SumFunction([i \in is |-> invoice[i].total]) + Amounts(ps)
                    + SumFunction([r \in rs |-> receipt[r].total])
       IN Post(<<"deposit", d>>, date, 0, 0 - cents, TRUE)
    /\ deposit' = [deposit EXCEPT ![d] = date]
    /\ invoice' = [i \in Invoice |-> IF i \in is THEN [invoice[i] EXCEPT !.deposit = d]
                                     ELSE invoice[i]]
    /\ payments' = {IF p \in ps THEN [p EXCEPT !.deposit = d] ELSE p : p \in payments}
    /\ receipt' = [r \in Receipt |-> IF r \in rs THEN [receipt[r] EXCEPT !.deposit = d]
                                     ELSE receipt[r]]
    /\ UNCHANGED <<note, apps, closed>>

DepositsDelete(d) ==
    LET Freed(row) == IF row # NoRow /\ row.deposit = d
                      THEN [row EXCEPT !.deposit = NoRow] ELSE row
    IN /\ deposit[d] # NoRow
       /\ MayVoid(<<"deposit", d>>)
       /\ deposit' = [deposit EXCEPT ![d] = NoRow]
       /\ entry' = Without({<<"deposit", d>>})
       /\ invoice' = [i \in Invoice |-> Freed(invoice[i])]
       /\ payments' = {Freed(p) : p \in payments}
       /\ receipt' = [r \in Receipt |-> Freed(receipt[r])]
       /\ UNCHANGED <<note, apps, closed>>

-----------------------------------------------------------------------------
(* The ledger screen, reconciliation and period locks, as far as they reach *)
(* these entries                                                            *)

\* With the override a locked period does not stop it.
JournalVoid(s) ==
    /\ entry[s].state = "posted"
    /\ ~LinkedDocument(s)
    /\ ~entry[s].cleared
    /\ entry' = [entry EXCEPT ![s].state = "void"]
    /\ UNCHANGED <<invoice, payments, note, apps, deposit, receipt, closed>>

BankReconciliationToggleLine(s) ==
    /\ entry[s].state = "posted"
    /\ entry[s].bank
    /\ entry' = [entry EXCEPT ![s].cleared = ~@]
    /\ UNCHANGED <<invoice, payments, note, apps, deposit, receipt, closed>>

FiscalPeriodsLock(day) ==
    /\ closed' = closed \cup {day}
    /\ UNCHANGED <<invoice, payments, note, apps, deposit, receipt, entry>>

FiscalPeriodsUnlock(day) ==
    /\ closed' = closed \ {day}
    /\ UNCHANGED <<invoice, payments, note, apps, deposit, receipt, entry>>

-----------------------------------------------------------------------------

LegacyPaid(total) == [date |-> 1, total |-> total, paid |-> total, writtenOff |-> 0,
                      status |-> "paid", account |-> "none", deposit |-> NoRow]

\* A file an older version wrote may hold invoices paid without a payment row.
Init ==
    \E old \in SUBSET Invoice, total \in Amount :
        /\ invoice = [i \in Invoice |-> IF i \in old THEN LegacyPaid(total) ELSE NoRow]
        /\ payments = {}
        /\ note = [n \in Note |-> NoRow]
        /\ apps = [n \in Note |-> <<>>]
        /\ deposit = [d \in Deposit |-> NoRow]
        /\ receipt = [r \in Receipt |-> NoRow]
        /\ entry = [s \in Slot |->
               CASE s \in {"invoice"} \X old -> Entry(1, total, 0, FALSE)
                 [] s \in {"legacy"} \X old -> Entry(1, 0 - total, total, FALSE)
                 [] OTHER -> NoEntry]
        /\ closed = {}

InvoiceStep(i) ==
    \/ \E date \in Day, total \in Amount :
          InvoicesCreate(i, date, total) \/ InvoicesUpdate(i, date, total)
    \/ \E date \in Day, amount \in Cents, account \in Money :
          InvoicesReceivePayment(i, date, amount, account)
    \/ \E date \in Day : InvoicesWriteOff(i, date) \/ InvoicesChangeDate(i, date)
    \/ InvoicesReverseLastPayment(i)
    \/ InvoicesUndoWriteOff(i)
    \/ InvoicesDelete(i)
    \/ InvoicesDeleteWithPayments(i)

NoteStep(n) ==
    \/ \E date \in Day, total \in Amount : CreditNotesCreate(n, date, total)
    \/ \E i \in Invoice, amount \in Cents : CreditNotesApply(n, i, amount)
    \/ \E date \in Day : CreditNotesRefund(n, date)
    \/ CreditNotesUndoSettlement(n)
    \/ CreditNotesDelete(n)

ReceiptStep(r) ==
    \/ \E date \in Day, total \in Amount, account \in Money :
          SalesReceiptsCreate(r, date, total, account)
    \/ \E date \in Day : SalesReceiptsChangeDate(r, date)
    \/ SalesReceiptsDelete(r)

DepositStep(d) ==
    \/ \E date \in Day, is \in SUBSET Invoice, ps \in SUBSET UndepositedPayments,
          rs \in SUBSET UndepositedReceipts : DepositsCreate(d, date, is, ps, rs)
    \/ DepositsDelete(d)

LedgerStep ==
    \/ \E s \in Slot : JournalVoid(s) \/ BankReconciliationToggleLine(s)
    \/ \E s \in Slot, date \in Day : JournalUpdateDate(s, date)
    \/ \E day \in Day : FiscalPeriodsLock(day) \/ FiscalPeriodsUnlock(day)

Next ==
    \/ \E i \in Invoice : InvoiceStep(i)
    \/ \E n \in Note : NoteStep(n)
    \/ \E r \in Receipt : ReceiptStep(r)
    \/ \E d \in Deposit : DepositStep(d)
    \/ LedgerStep

Spec == Init /\ [][Next]_vars
-----------------------------------------------------------------------------
(* Properties *)

TypeOK ==
    /\ invoice \in [Invoice -> InvoiceRow \cup {NoRow}]
    /\ payments \subseteq PaymentRow
    /\ note \in [Note -> NoteRow \cup {NoRow}]
    /\ apps \in [Note -> Seq(Application)]
    /\ deposit \in [Deposit -> Day \cup {NoRow}]
    /\ receipt \in [Receipt -> ReceiptRow \cup {NoRow}]
    /\ entry \in [Slot -> EntryRow]
    /\ closed \subseteq Day

\* What each entry, invoice and note adds to the sums below; what is not there adds
\* nothing.
Ar == [s \in Slot |-> IF entry[s].state = "posted" THEN entry[s].ar ELSE 0]
StandingWriteOff(i) == IF entry[<<"writeoff", i>>].state = "posted"
                       THEN invoice[i].writtenOff ELSE 0
Owed == [i \in Invoice |-> IF invoice[i] = NoRow THEN 0
                           ELSE invoice[i].total - invoice[i].paid - StandingWriteOff(i)]
Credit == [n \in Note |-> IF note[n] = NoRow THEN 0
                          ELSE IF note[n].status = "refunded" THEN 0
                          ELSE note[n].total - note[n].applied]

\* Accounts Receivable in the ledger is what the invoices still owe less the
\* credit customers still hold, after any order of payments, reversals, credits,
\* refunds, edits and deletions, half-finished ones included.  A write-off counts
\* while its entry stands: that entry alone can be voided without its invoice.
ReceivablesAgree == SumFunction(Ar) = SumFunction(Owed) - SumFunction(Credit)

Legacy(i) == entry[<<"legacy", i>>].state # "none"

\* What an invoice says was paid is the payments and the credit it still has, what
\* a credit note says was applied is its applications, and none of them points to
\* an invoice that is gone.
PaidIsBacked ==
    /\ \A p \in payments : invoice[p.invoice] # NoRow
    /\ \A n \in Note : \A k \in DOMAIN apps[n] : invoice[apps[n][k].target] # NoRow
    /\ \A i \in Stored(invoice) : ~Legacy(i) =>
          invoice[i].paid = Amounts(PaymentsOf(i))
                            + SumFunction([n \in Note |-> AppliedTo(n, i)])
    /\ \A n \in Stored(note) :
          note[n].applied = SumFunction([k \in DOMAIN apps[n] |-> apps[n][k].amount])

CarriedBy(table, kind) ==
    \A x \in Stored(table) : /\ entry[<<kind, x>>].state = "posted"
                             /\ entry[<<kind, x>>].date = table[x].date

\* A stored document has its posted entry and the entry has its date, whichever
\* side a date was corrected from and wherever the correction stopped.
DatesFollow ==
    /\ CarriedBy(invoice, "invoice")
    /\ CarriedBy(note, "note")
    /\ CarriedBy(receipt, "receipt")
    /\ \A p \in payments : /\ entry[<<"payment", p.id>>].state = "posted"
                            /\ entry[<<"payment", p.id>>].date = p.date
    /\ \A d \in Stored(deposit) : /\ entry[<<"deposit", d>>].state = "posted"
                                   /\ entry[<<"deposit", d>>].date = deposit[d]

\* Money that is in a bank deposit stays what it was and where it is until that
\* deposit is deleted: no reversal, deletion or edit takes it from under it.
BankedStays ==
    [][/\ \A p \in payments :
             p.deposit # NoRow /\ deposit'[p.deposit] # NoRow =>
                 \E q \in payments' : /\ q.id = p.id
                                      /\ q.invoice = p.invoice
                                      /\ q.amount = p.amount
                                      /\ q.deposit = p.deposit
       /\ \A r \in Stored(receipt) :
             receipt[r].deposit # NoRow /\ deposit'[receipt[r].deposit] # NoRow =>
                 /\ receipt'[r] # NoRow
                 /\ receipt'[r].deposit = receipt[r].deposit
                 /\ receipt'[r].total = receipt[r].total]_vars

Figures(e) == <<e.state, e.date, e.ar, e.uf>>

\* No handler of a document, however many transactions it has, changes what a
\* locked month reports: entries neither leave it, enter it nor change in it.
\* The write-off's entry is left out, which the ledger screen may force.
ClosedMonthSealed ==
    [][\A s \in Slot : s[1] # "writeoff" =>
          /\ entry[s].state = "posted" /\ entry[s].date \in closed
                => Figures(entry'[s]) = Figures(entry[s])
          /\ entry'[s].state = "posted" /\ entry'[s].date \in closed
                => Figures(entry'[s]) = Figures(entry[s])]_vars

=============================================================================
