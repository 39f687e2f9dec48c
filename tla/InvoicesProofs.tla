----------------------------- MODULE InvoicesProofs -----------------------------
(***************************************************************************)
(* Proofs about Invoices, for any number of invoices, payments, notes,     *)
(* receipts and deposits.                                                  *)
(*                                                                         *)
(* BankedIsSafe needs little of a state (Shaped) and comes first.  The     *)
(* rest comes from IInv: the types, every entry's state, date and          *)
(* receivable as its document says (the *Follows), and the paid and the    *)
(* applied amounts as the payments and applications they come from.  It is *)
(* needed because the properties are not inductive: that two sums agree    *)
(* says nothing of the one entry a reversal takes away, and that a paid    *)
(* amount is the sum of what is left of it holds after Max(paid - amount,  *)
(* 0) only as no payment exceeds the paid amount.                          *)
(*                                                                         *)
(* ReceivablesAgree is then no matter of steps at all.  In every state of  *)
(* IInv the entries are added up kind by kind; an invoice's come to what   *)
(* it owes and what was paid and credited of it, the payments' cancel the  *)
(* paid, and the notes' leave the credit still held, the credit applied    *)
(* being added up by note or by invoice.                                   *)
(***************************************************************************)
EXTENDS Invoices, FiniteSums

PaymentFields == {"id", "invoice", "date", "amount", "account", "deposit"}

Shapes ==
    /\ DOMAIN deposit = Deposit
    /\ \A p \in payments : PaymentFields \subseteq DOMAIN p /\ p.id \in Nat
    /\ receipt \in [Receipt -> ReceiptRow \cup {NoRow}]
    /\ DOMAIN entry = Slot
    /\ \A s \in Slot : "state" \in DOMAIN entry[s]

\* A receipt that is gone has no entry, so no correction of a date touches it.
ReceiptEntries ==
    \A r \in Receipt : receipt[r] = NoRow => entry[<<"receipt", r>>].state = "none"

Shaped == Shapes /\ ReceiptEntries

\* What a step does to entries, as far as receipts go.
EntriesKept(others) ==
    /\ DOMAIN entry' = Slot
    /\ \A s \in Slot : "state" \in DOMAIN entry'[s]
    /\ \A r \in Receipt \ others : entry[<<"receipt", r>>].state = "none"
                                       => entry'[<<"receipt", r>>].state = "none"

PaymentsHold ==
    \A p \in payments : p.deposit # NoRow /\ deposit'[p.deposit] # NoRow =>
        \E q \in payments' : /\ q.id = p.id
                             /\ q.invoice = p.invoice
                             /\ q.amount = p.amount
                             /\ q.deposit = p.deposit

ReceiptsHold ==
    \A r \in Stored(receipt) :
        receipt[r].deposit # NoRow /\ deposit'[receipt[r].deposit] # NoRow =>
            /\ receipt'[r] # NoRow
            /\ receipt'[r].deposit = receipt[r].deposit
            /\ receipt'[r].total = receipt[r].total

Holds == Shaped' /\ PaymentsHold /\ ReceiptsHold

-----------------------------------------------------------------------------
(* The journal *)

\* Every receipt has an entry of its own.
LEMMA ReceiptSlot == \A r \in Receipt : <<"receipt", r>> \in Slot
BY DEF Slot

\* Posting an entry leaves the receipts' entries but the one it posts.
LEMMA PostKeeps ==
    ASSUME Shaped, NEW s, NEW date, NEW ar, NEW uf, NEW bank, NEW others \in SUBSET Receipt,
           Post(s, date, ar, uf, bank), \A r \in Receipt \ others : s # <<"receipt", r>>
    PROVE  EntriesKept(others)
<1>1. entry' = [entry EXCEPT ![s] = Entry(date, ar, uf, bank)]
  BY DEF Post
<1>2. "state" \in DOMAIN Entry(date, ar, uf, bank)
  BY DEF Entry
<1>3. DOMAIN entry' = Slot /\ \A t \in Slot : t # s => entry'[t] = entry[t]
  BY <1>1 DEF Shaped, Shapes
<1>4. s \in Slot => entry'[s] = Entry(date, ar, uf, bank)
  BY <1>1 DEF Shaped, Shapes
<1>5. \A t \in Slot : "state" \in DOMAIN entry'[t]
  BY <1>2, <1>3, <1>4 DEF Shaped, Shapes
<1> QED
  BY <1>3, <1>5, ReceiptSlot DEF EntriesKept

\* Voiding entries makes none.
LEMMA WithoutKeeps ==
    ASSUME Shaped, NEW slots, entry' = Without(slots)
    PROVE  EntriesKept({}) /\ \A s \in slots : s \in Slot => entry'[s].state = "none"
<1>1. \A s \in Slot : entry'[s] = IF s \in slots THEN NoEntry ELSE entry[s]
  BY DEF Without
<1>2. NoEntry.state = "none" /\ "state" \in DOMAIN NoEntry
  BY DEF NoEntry
<1>3. DOMAIN entry' = Slot
  BY DEF Without
<1>4. \A s \in Slot : "state" \in DOMAIN entry'[s]
  BY <1>1, <1>2 DEF Shaped, Shapes
<1> QED
  BY <1>1, <1>2, <1>3, <1>4, ReceiptSlot DEF EntriesKept

\* Entries that stay are kept.
LEMMA SameEntriesKept == ASSUME Shaped, entry' = entry PROVE EntriesKept({})
BY DEF Shaped, Shapes, EntriesKept

\* A step that leaves payments, deposits and receipts alone.
LEMMA AsideHolds ==
    ASSUME Shaped, UNCHANGED <<payments, deposit, receipt>>, EntriesKept({})
    PROVE  Holds
<1>1. Shapes'
  BY DEF Shaped, Shapes, EntriesKept
<1>2. ReceiptEntries'
  BY DEF Shaped, ReceiptEntries, EntriesKept
<1>3. PaymentsHold /\ ReceiptsHold
  BY DEF PaymentsHold, ReceiptsHold, Stored
<1> QED
  BY <1>1, <1>2, <1>3 DEF Holds, Shaped

\* A step that touches payments but none that is in a deposit.
LEMMA PaymentsStepHolds ==
    ASSUME Shaped, UNCHANGED <<deposit, receipt>>, EntriesKept({}),
           \A p \in payments' : PaymentFields \subseteq DOMAIN p /\ p.id \in Nat,
           \A p \in payments : p.deposit # NoRow => p \in payments'
    PROVE  Holds
<1>1. Shapes'
  BY DEF Shaped, Shapes, EntriesKept
<1>2. ReceiptEntries'
  BY DEF Shaped, ReceiptEntries, EntriesKept
<1>3. PaymentsHold /\ ReceiptsHold
  BY DEF PaymentsHold, ReceiptsHold, Stored
<1> QED
  BY <1>1, <1>2, <1>3 DEF Holds, Shaped

\* Moving entries that exist moves dates and nothing else.
LEMMA MoveHolds ==
    ASSUME Shaped, NEW moved, NEW date \in Day, MoveLinked(moved, date),
           \A s \in moved : s \in Slot => entry[s].state # "none"
    PROVE  Holds
<1>1. /\ entry' = [s \in Slot |-> IF s \in moved THEN [entry[s] EXCEPT !.date = date]
                                  ELSE entry[s]]
      /\ receipt' = [r \in DOMAIN receipt |-> IF <<"receipt", r>> \in moved
                                              THEN [receipt[r] EXCEPT !.date = date]
                                              ELSE receipt[r]]
      /\ payments' = {IF <<"payment", p.id>> \in moved
                      THEN [p EXCEPT !.date = date] ELSE p : p \in payments}
      /\ deposit' = [d \in Deposit |-> IF <<"deposit", d>> \in moved THEN date ELSE deposit[d]]
  BY DEF MoveLinked
<1>2. EntriesKept({})
  <2>1. DOMAIN entry' = Slot
    BY <1>1
  <2>2. \A s \in Slot : "state" \in DOMAIN entry'[s] /\ entry'[s].state = entry[s].state
    BY <1>1 DEF Shaped, Shapes
  <2> QED
    BY <2>1, <2>2, ReceiptSlot DEF EntriesKept
<1>3. ASSUME NEW r \in Receipt
      PROVE  /\ receipt'[r] \in ReceiptRow \cup {NoRow}
             /\ receipt[r] # NoRow => /\ receipt'[r] # NoRow
                                      /\ receipt'[r].deposit = receipt[r].deposit
                                      /\ receipt'[r].total = receipt[r].total
             /\ receipt[r] = NoRow => receipt'[r] = NoRow
  <2>1. CASE receipt[r] = NoRow
    <3>1. <<"receipt", r>> \notin moved
      BY <2>1, ReceiptSlot DEF Shaped, ReceiptEntries
    <3> QED
      BY <1>1, <2>1, <3>1 DEF Shaped, Shapes
  <2>2. CASE receipt[r] # NoRow
    <3>1. receipt[r] \in ReceiptRow
      BY <2>2 DEF Shaped, Shapes
    <3>2. /\ [receipt[r] EXCEPT !.date = date] \in ReceiptRow
          /\ [receipt[r] EXCEPT !.date = date].deposit = receipt[r].deposit
          /\ [receipt[r] EXCEPT !.date = date].total = receipt[r].total
      BY <3>1 DEF ReceiptRow
    <3>3. receipt'[r] \in {receipt[r], [receipt[r] EXCEPT !.date = date]}
      BY <1>1 DEF Shaped, Shapes
    <3> QED
      BY <2>2, <3>1, <3>2, <3>3, NullIsNoRow
  <2> QED
    BY <2>1, <2>2
<1>4. receipt' \in [Receipt -> ReceiptRow \cup {NoRow}]
  <2>1. receipt' = [r \in Receipt |-> receipt'[r]]
    BY <1>1 DEF Shaped, Shapes
  <2> QED
    BY <1>3, <2>1
<1>5. \A q \in payments' : PaymentFields \subseteq DOMAIN q /\ q.id \in Nat
  BY <1>1 DEF Shaped, Shapes, PaymentFields
<1>6. Shapes'
  BY <1>1, <1>2, <1>4, <1>5 DEF Shapes, EntriesKept
<1>7. ReceiptEntries'
  BY <1>2, <1>3 DEF Shaped, ReceiptEntries, EntriesKept
<1>8. PaymentsHold
  <2> SUFFICES ASSUME NEW p \in payments
               PROVE  \E q \in payments' : /\ q.id = p.id
                                           /\ q.invoice = p.invoice
                                           /\ q.amount = p.amount
                                           /\ q.deposit = p.deposit
    BY DEF PaymentsHold
  <2>1. {"id", "invoice", "date", "amount", "deposit"} \subseteq DOMAIN p
    BY DEF Shaped, Shapes, PaymentFields
  <2> DEFINE q == IF <<"payment", p.id>> \in moved THEN [p EXCEPT !.date = date] ELSE p
  <2>2. q \in payments'
    BY <1>1
  <2>3. q.id = p.id /\ q.invoice = p.invoice /\ q.amount = p.amount /\ q.deposit = p.deposit
    BY <2>1
  <2> QED
    BY <2>2, <2>3
<1>9. ReceiptsHold
  <2>1. \A r \in Stored(receipt) : r \in Receipt /\ receipt[r] # NoRow
    BY DEF Stored, Shaped, Shapes
  <2> QED
    BY <1>3, <2>1 DEF ReceiptsHold
<1> QED
  BY <1>6, <1>7, <1>8, <1>9 DEF Holds, Shaped

\* No step of a receipt touches one that is in a deposit.
LEMMA SalesReceiptHolds ==
    ASSUME Shaped, NEW r \in Receipt,
           \/ \E date \in Day, total \in Amount, account \in Money :
                 SalesReceiptsCreate(r, date, total, account)
           \/ SalesReceiptsDelete(r)
    PROVE  Holds
<1>1. UNCHANGED <<payments, deposit>>
  BY DEF SalesReceiptsCreate, SalesReceiptsDelete
<1>2. PaymentsHold
  BY <1>1 DEF PaymentsHold
<1>3. ASSUME NEW date \in Day, NEW total \in Amount, NEW account \in Money,
             SalesReceiptsCreate(r, date, total, account)
      PROVE  Shaped' /\ ReceiptsHold
  <2> DEFINE row == [date |-> date, total |-> total, account |-> account, deposit |-> NoRow]
  <2>1. row \in ReceiptRow
    BY DEF ReceiptRow
  <2>2. receipt[r] = NoRow /\ receipt' = [receipt EXCEPT ![r] = row]
    BY <1>3 DEF SalesReceiptsCreate
  <2>3. EntriesKept({r})
    <3>1. Post(<<"receipt", r>>, date, 0, InUf(account, total), account = "bank")
      BY <1>3 DEF SalesReceiptsCreate
    <3>2. \A x \in Receipt \ {r} : <<"receipt", r>> # <<"receipt", x>>
      OBVIOUS
    <3> QED
      BY <3>1, <3>2, PostKeeps
  <2> HIDE DEF row
  <2>4. receipt' \in [Receipt -> ReceiptRow \cup {NoRow}]
    BY <2>1, <2>2 DEF Shaped, Shapes
  <2>5. receipt'[r] # NoRow /\ \A x \in Receipt \ {r} : receipt'[x] = receipt[x]
    BY <2>1, <2>2, NullIsNoRow DEF Shaped, Shapes
  <2>6. Shapes'
    BY <1>1, <2>3, <2>4 DEF Shaped, Shapes, EntriesKept
  <2>7. ReceiptEntries'
    BY <2>3, <2>5 DEF Shaped, ReceiptEntries, EntriesKept
  <2>8. ReceiptsHold
    BY <2>2, <2>5 DEF ReceiptsHold, Stored, Shaped, Shapes
  <2> QED
    BY <2>6, <2>7, <2>8 DEF Shaped
<1>4. ASSUME SalesReceiptsDelete(r)
      PROVE  Shaped' /\ ReceiptsHold
  <2>1. /\ receipt' = [receipt EXCEPT ![r] = NoRow]
        /\ receipt[r].deposit = NoRow
        /\ entry' = Without({<<"receipt", r>>})
    BY <1>4 DEF SalesReceiptsDelete
  <2>2. EntriesKept({}) /\ entry'[<<"receipt", r>>].state = "none"
    BY <2>1, WithoutKeeps, ReceiptSlot
  <2>3. /\ receipt' \in [Receipt -> ReceiptRow \cup {NoRow}]
        /\ \A x \in Receipt \ {r} : receipt'[x] = receipt[x]
    BY <2>1 DEF Shaped, Shapes
  <2>4. Shapes'
    BY <1>1, <2>2, <2>3 DEF Shaped, Shapes, EntriesKept
  <2>5. ReceiptEntries'
    BY <2>2, <2>3 DEF Shaped, ReceiptEntries, EntriesKept
  <2>6. ReceiptsHold
    BY <2>1, <2>3 DEF ReceiptsHold, Stored, Shaped, Shapes
  <2> QED
    BY <2>4, <2>5, <2>6 DEF Shaped
<1> QED
  BY <1>2, <1>3, <1>4 DEF Holds

\* A deposit takes in what is in none.
LEMMA DepositsCreateHolds ==
    ASSUME Shaped, NEW d \in Deposit, NEW date \in Day, NEW is \in SUBSET Invoice,
           NEW ps \in SUBSET UndepositedPayments, NEW rs \in SUBSET UndepositedReceipts,
           DepositsCreate(d, date, is, ps, rs)
    PROVE  Holds
<1>1. /\ deposit' = [deposit EXCEPT ![d] = date]
      /\ payments' = {IF p \in ps THEN [p EXCEPT !.deposit = d] ELSE p : p \in payments}
      /\ receipt' = [r \in Receipt |-> IF r \in rs THEN [receipt[r] EXCEPT !.deposit = d]
                                       ELSE receipt[r]]
  BY DEF DepositsCreate
<1>2. EntriesKept({})
  <2>1. PICK cents : Post(<<"deposit", d>>, date, 0, 0 - cents, TRUE)
    BY DEF DepositsCreate
  <2>2. \A r \in Receipt \ {} : <<"deposit", d>> # <<"receipt", r>>
    OBVIOUS
  <2> QED
    BY <2>1, <2>2, PostKeeps
<1>3. ASSUME NEW r \in Receipt
      PROVE  /\ receipt'[r] \in ReceiptRow \cup {NoRow}
             /\ receipt'[r] = NoRow <=> receipt[r] = NoRow
             /\ r \notin rs => receipt'[r] = receipt[r]
  <2>1. CASE r \in rs
    <3>1. receipt[r] \in ReceiptRow
      BY <2>1 DEF UndepositedReceipts, Stored, Shaped, Shapes
    <3>2. [receipt[r] EXCEPT !.deposit = d] \in ReceiptRow
      BY <3>1 DEF ReceiptRow
    <3> QED
      BY <1>1, <2>1, <3>1, <3>2, NullIsNoRow
  <2>2. CASE r \notin rs
    BY <1>1, <2>2 DEF Shaped, Shapes
  <2> QED
    BY <2>1, <2>2
<1>4. receipt' \in [Receipt -> ReceiptRow \cup {NoRow}]
  <2>1. receipt' = [r \in Receipt |-> receipt'[r]]
    BY <1>1
  <2> QED
    BY <1>3, <2>1
<1>5. \A q \in payments' : PaymentFields \subseteq DOMAIN q /\ q.id \in Nat
  BY <1>1 DEF Shaped, Shapes, PaymentFields
<1>6. Shapes'
  BY <1>1, <1>2, <1>4, <1>5 DEF Shaped, Shapes, EntriesKept
<1>7. ReceiptEntries'
  BY <1>2, <1>3 DEF Shaped, ReceiptEntries, EntriesKept
<1>8. PaymentsHold
  <2>1. \A p \in payments : p.deposit # NoRow => p \notin ps /\ p \in payments'
    BY <1>1 DEF UndepositedPayments
  <2> QED
    BY <2>1 DEF PaymentsHold
<1>9. ReceiptsHold
  <2>1. \A r \in Stored(receipt) : r \in Receipt /\ receipt[r] # NoRow
    BY DEF Stored, Shaped, Shapes
  <2>2. \A r \in rs : receipt[r].deposit = NoRow
    BY DEF UndepositedReceipts
  <2> QED
    BY <1>3, <2>1, <2>2 DEF ReceiptsHold
<1> QED
  BY <1>6, <1>7, <1>8, <1>9 DEF Holds, Shaped

\* Deleting a deposit frees what is in it, and in no other.
LEMMA DepositsDeleteHolds ==
    ASSUME Shaped, NEW d \in Deposit, DepositsDelete(d)
    PROVE  Holds
<1> DEFINE Freed(row) == IF row # NoRow /\ row.deposit = d
                         THEN [row EXCEPT !.deposit = NoRow] ELSE row
<1>1. /\ deposit' = [deposit EXCEPT ![d] = NoRow]
      /\ entry' = Without({<<"deposit", d>>})
      /\ payments' = {Freed(p) : p \in payments}
      /\ receipt' = [r \in Receipt |-> Freed(receipt[r])]
  BY DEF DepositsDelete
<1>2. EntriesKept({}) /\ deposit'[d] = NoRow
  BY <1>1, WithoutKeeps DEF Shaped, Shapes
<1>3. ASSUME NEW r \in Receipt
      PROVE  /\ receipt'[r] \in ReceiptRow \cup {NoRow}
             /\ receipt'[r] = NoRow <=> receipt[r] = NoRow
             /\ receipt[r] # NoRow /\ receipt[r].deposit # d => receipt'[r] = receipt[r]
  <2>1. CASE receipt[r] = NoRow
    BY <1>1, <2>1
  <2>2. CASE receipt[r] # NoRow
    <3>1. receipt[r] \in ReceiptRow
      BY <2>2 DEF Shaped, Shapes
    <3>2. [receipt[r] EXCEPT !.deposit = NoRow] \in ReceiptRow
      BY <3>1 DEF ReceiptRow
    <3> QED
      BY <1>1, <2>2, <3>1, <3>2, NullIsNoRow
  <2> QED
    BY <2>1, <2>2
<1>4. receipt' \in [Receipt -> ReceiptRow \cup {NoRow}]
  <2>1. receipt' = [r \in Receipt |-> receipt'[r]]
    BY <1>1
  <2> QED
    BY <1>3, <2>1
<1>5. \A q \in payments' : PaymentFields \subseteq DOMAIN q /\ q.id \in Nat
  BY <1>1 DEF Shaped, Shapes, PaymentFields
<1>6. Shapes'
  BY <1>1, <1>2, <1>4, <1>5 DEF Shaped, Shapes, EntriesKept
<1>7. ReceiptEntries'
  BY <1>2, <1>3 DEF Shaped, ReceiptEntries, EntriesKept
<1>8. PaymentsHold
  <2>1. \A p \in payments : p.deposit # d => p \in payments'
    BY <1>1
  <2> QED
    BY <1>2, <2>1 DEF PaymentsHold
<1>9. ReceiptsHold
  <2>1. \A r \in Stored(receipt) : r \in Receipt /\ receipt[r] # NoRow
    BY DEF Stored, Shaped, Shapes
  <2> QED
    BY <1>2, <1>3, <2>1 DEF ReceiptsHold
<1> QED
  BY <1>6, <1>7, <1>8, <1>9 DEF Holds, Shaped

-----------------------------------------------------------------------------
(* Invoices and their payments *)

\* A new payment leaves the others.
LEMMA ReceivePaymentHolds ==
    ASSUME Shaped, NEW i \in Invoice, NEW date \in Day, NEW amount, NEW account \in Money,
           InvoicesReceivePayment(i, date, amount, account)
    PROVE  Holds
<1> DEFINE p == [id |-> NextPayment, invoice |-> i, date |-> date, amount |-> amount,
                 account |-> account, deposit |-> NoRow]
<1>1. payments' = payments \cup {p} /\ UNCHANGED <<deposit, receipt>>
  BY DEF InvoicesReceivePayment
<1>2. PaymentFields \subseteq DOMAIN p /\ p.id \in Nat
  <2>1. NextPayment \in 1..MaxPayment
    BY DEF InvoicesReceivePayment
  <2> QED
    BY <2>1, InvoicesAssumption DEF PaymentFields
<1>3. EntriesKept({})
  <2>1. Post(<<"payment", NextPayment>>, date, 0 - amount, InUf(account, amount), account = "bank")
    BY DEF InvoicesReceivePayment
  <2>2. \A r \in Receipt \ {} : <<"payment", NextPayment>> # <<"receipt", r>>
    OBVIOUS
  <2> QED
    BY <2>1, <2>2, PostKeeps
<1> HIDE DEF p
<1> QED
  BY <1>1, <1>2, <1>3, PaymentsStepHolds DEF Shaped, Shapes

\* The payment that is reversed is in no deposit.
LEMMA ReversePaymentHolds ==
    ASSUME Shaped, NEW i \in Invoice, InvoicesReverseLastPayment(i)
    PROVE  Holds
<1> DEFINE p == Newest(PaymentsOf(i))
<1>1. /\ p.deposit = NoRow
      /\ payments' = payments \ {p}
      /\ entry' = Without(PaymentSlots({p}))
      /\ UNCHANGED <<deposit, receipt>>
  BY DEF InvoicesReverseLastPayment
<1> HIDE DEF p
<1>2. EntriesKept({})
  BY <1>1, WithoutKeeps
<1>3. \A q \in payments : q.deposit # NoRow => q \in payments'
  BY <1>1
<1>4. \A q \in payments' : PaymentFields \subseteq DOMAIN q /\ q.id \in Nat
  BY <1>1 DEF Shaped, Shapes
<1> QED
  BY <1>1, <1>2, <1>3, <1>4, PaymentsStepHolds

\* One banked payment of the invoice keeps all of them.
LEMMA DeleteWithPaymentsHolds ==
    ASSUME Shaped, NEW i \in Invoice, InvoicesDeleteWithPayments(i)
    PROVE  Holds
<1> DEFINE banked == \E p \in PaymentsOf(i) : p.deposit # NoRow
           gone == {p \in PaymentsOf(i) :
                       /\ ~banked
                       /\ \A q \in PaymentsOf(i) :
                             NotOlder(q, p) => MayVoid(<<"payment", q.id>>)}
<1>1. payments' = payments \ gone /\ UNCHANGED <<deposit, receipt>>
  BY DEF InvoicesDeleteWithPayments
<1>2. PICK slots : entry' = Without(slots)
  BY DEF InvoicesDeleteWithPayments
<1>3. EntriesKept({})
  BY <1>2, WithoutKeeps
<1>4. \A q \in gone : q.deposit = NoRow
  OBVIOUS
<1> HIDE DEF gone
<1>5. \A q \in payments : q.deposit # NoRow => q \in payments'
  BY <1>1, <1>4
<1>6. \A q \in payments' : PaymentFields \subseteq DOMAIN q /\ q.id \in Nat
  BY <1>1 DEF Shaped, Shapes
<1> QED
  BY <1>1, <1>3, <1>5, <1>6, PaymentsStepHolds

\* No step of an invoice touches what is in a deposit.
LEMMA InvoiceStepHolds ==
    ASSUME Shaped, NEW i \in Invoice, InvoiceStep(i)
    PROVE  Holds
<1>0. \A r \in Receipt \ {} : <<"invoice", i>> # <<"receipt", r>> /\ <<"writeoff", i>> # <<"receipt", r>>
  OBVIOUS
<1>1. ASSUME NEW date \in Day, NEW total \in Amount,
             InvoicesCreate(i, date, total) \/ InvoicesUpdate(i, date, total)
      PROVE  Holds
  <2>1. Post(<<"invoice", i>>, date, total, 0, FALSE) /\ UNCHANGED <<payments, deposit, receipt>>
    BY <1>1 DEF InvoicesCreate, InvoicesUpdate
  <2> QED
    BY <1>0, <2>1, PostKeeps, AsideHolds
<1>2. ASSUME NEW date \in Day, InvoicesWriteOff(i, date) PROVE Holds
  <2>1. Post(<<"writeoff", i>>, date, 0 - Balance(invoice[i]), 0, FALSE)
        /\ UNCHANGED <<payments, deposit, receipt>>
    BY <1>2 DEF InvoicesWriteOff
  <2> QED
    BY <1>0, <2>1, PostKeeps, AsideHolds
<1>3. ASSUME InvoicesUndoWriteOff(i) PROVE Holds
  <2>1. entry' = Without({<<"writeoff", i>>}) /\ UNCHANGED <<payments, deposit, receipt>>
    BY <1>3 DEF InvoicesUndoWriteOff
  <2> QED
    BY <2>1, WithoutKeeps, AsideHolds
<1>4. ASSUME InvoicesDelete(i) PROVE Holds
  <2>1. entry' = Without({<<"invoice", i>>}) /\ UNCHANGED <<payments, deposit, receipt>>
    BY <1>4 DEF InvoicesDelete
  <2> QED
    BY <2>1, WithoutKeeps, AsideHolds
<1>5. ASSUME NEW date \in Day, InvoicesChangeDate(i, date) PROVE Holds
  <2>1. PICK moved \in SUBSET PaymentsOf(i) :
            /\ \A p \in moved : MayMove(<<"payment", p.id>>, date)
            /\ MayMove(<<"invoice", i>>, date)
            /\ MoveLinked({<<"invoice", i>>} \cup PaymentSlots(moved), date)
    <3> DEFINE moving == {p \in PaymentsOf(i) : p.date = invoice[i].date}
               moved == {p \in moving : \A q \in moving :
                            q.id <= p.id => MayMove(<<"payment", q.id>>, date)}
    <3>1. /\ MayMove(<<"invoice", i>>, date)
          /\ MoveLinked({<<"invoice", i>>} \cup PaymentSlots(moved), date)
      BY <1>5 DEF InvoicesChangeDate
    <3>2. \A p \in moved : p.id <= p.id => MayMove(<<"payment", p.id>>, date)
      OBVIOUS
    <3>3. \A p \in moved : p.id \in Nat
      BY DEF PaymentsOf, Shaped, Shapes
    <3>4. moved \in SUBSET PaymentsOf(i)
      OBVIOUS
    <3> HIDE DEF moved
    <3>5. \A p \in moved : p.id <= p.id
      BY <3>3
    <3>6. \A p \in moved : MayMove(<<"payment", p.id>>, date)
      BY <3>2, <3>5, Zenon
    <3> QED
      BY <3>1, <3>4, <3>6
  <2>2. \A s \in {<<"invoice", i>>} \cup PaymentSlots(moved) : entry[s].state # "none"
    BY <2>1 DEF PaymentSlots, MayMove
  <2> QED
    BY <2>1, <2>2, MoveHolds
<1> QED
  BY <1>1, <1>2, <1>3, <1>4, <1>5, ReceivePaymentHolds, ReversePaymentHolds,
     DeleteWithPaymentsHolds DEF InvoiceStep

\* Nor does one of a credit note.
LEMMA NoteStepHolds ==
    ASSUME Shaped, NEW n \in Note, NoteStep(n)
    PROVE  Holds
<1>0. \A r \in Receipt \ {} : <<"note", n>> # <<"receipt", r>> /\ <<"refund", n>> # <<"receipt", r>>
  OBVIOUS
<1>1. ASSUME NEW date \in Day, NEW total \in Amount, CreditNotesCreate(n, date, total) PROVE Holds
  <2>1. Post(<<"note", n>>, date, 0 - total, 0, FALSE) /\ UNCHANGED <<payments, deposit, receipt>>
    BY <1>1 DEF CreditNotesCreate
  <2> QED
    BY <1>0, <2>1, PostKeeps, AsideHolds
<1>2. ASSUME NEW i \in Invoice, NEW amount, CreditNotesApply(n, i, amount) PROVE Holds
  BY <1>2, SameEntriesKept, AsideHolds DEF CreditNotesApply
<1>3. ASSUME NEW date \in Day, CreditNotesRefund(n, date) PROVE Holds
  <2>1. Post(<<"refund", n>>, date, Remaining(note[n]), 0, TRUE)
        /\ UNCHANGED <<payments, deposit, receipt>>
    BY <1>3 DEF CreditNotesRefund
  <2> QED
    BY <1>0, <2>1, PostKeeps, AsideHolds
<1>4. ASSUME UndoRefund(n) PROVE Holds
  <2>1. entry' = Without({<<"refund", n>>}) /\ UNCHANGED <<payments, deposit, receipt>>
    BY <1>4 DEF UndoRefund
  <2> QED
    BY <2>1, WithoutKeeps, AsideHolds
<1>5. ASSUME Unapply(n) PROVE Holds
  BY <1>5, SameEntriesKept, AsideHolds DEF Unapply
<1>6. ASSUME CreditNotesDelete(n) PROVE Holds
  <2>1. entry' = Without({<<"note", n>>}) /\ UNCHANGED <<payments, deposit, receipt>>
    BY <1>6 DEF CreditNotesDelete
  <2> QED
    BY <2>1, WithoutKeeps, AsideHolds
<1> QED
  BY <1>1, <1>2, <1>3, <1>4, <1>5, <1>6 DEF NoteStep, CreditNotesUndoSettlement

\* Nor one of a receipt.
LEMMA ReceiptStepHolds ==
    ASSUME Shaped, NEW r \in Receipt, ReceiptStep(r)
    PROVE  Holds
<1>1. ASSUME NEW date \in Day, SalesReceiptsChangeDate(r, date) PROVE Holds
  <2>1. MoveLinked({<<"receipt", r>>}, date) /\ entry[<<"receipt", r>>].state # "none"
    BY <1>1 DEF SalesReceiptsChangeDate, MayMove
  <2> QED
    BY <2>1, MoveHolds
<1> QED
  BY <1>1, SalesReceiptHolds DEF ReceiptStep

\* Nor one of the ledger screen, which moves dates only.
LEMMA LedgerStepHolds ==
    ASSUME Shaped, LedgerStep
    PROVE  Holds
<1>1. ASSUME NEW s \in Slot, JournalVoid(s) \/ BankReconciliationToggleLine(s) PROVE Holds
  <2>1. entry[s].state = "posted" /\ UNCHANGED <<payments, deposit, receipt>>
    BY <1>1 DEF JournalVoid, BankReconciliationToggleLine
  <2>2. /\ DOMAIN entry' = Slot
        /\ \A t \in Slot : "state" \in DOMAIN entry'[t]
        /\ \A t \in Slot \ {s} : entry'[t] = entry[t]
    BY <1>1 DEF JournalVoid, BankReconciliationToggleLine, Shaped, Shapes
  <2>3. EntriesKept({})
    BY <2>1, <2>2, ReceiptSlot DEF EntriesKept
  <2> QED
    BY <2>1, <2>3, AsideHolds
<1>2. ASSUME NEW s \in Slot, NEW date \in Day, JournalUpdateDate(s, date) PROVE Holds
  <2>1. MoveLinked({s}, date) /\ entry[s].state # "none"
    BY <1>2 DEF JournalUpdateDate, MayMove
  <2> QED
    BY <2>1, MoveHolds
<1>3. ASSUME NEW day \in Day, FiscalPeriodsLock(day) \/ FiscalPeriodsUnlock(day) PROVE Holds
  BY <1>3, SameEntriesKept, AsideHolds DEF FiscalPeriodsLock, FiscalPeriodsUnlock
<1> QED
  BY <1>1, <1>2, <1>3 DEF LedgerStep

-----------------------------------------------------------------------------

\* Nothing is in a deposit at first.
LEMMA ShapedStart == Init => Shaped
<1> SUFFICES ASSUME Init PROVE Shaped
  OBVIOUS
<1>1. PICK old \in SUBSET Invoice, total \in Amount :
          entry = [s \in Slot |->
               CASE s \in {"invoice"} \X old -> Entry(1, total, 0, FALSE)
                 [] s \in {"legacy"} \X old -> Entry(1, 0 - total, total, FALSE)
                 [] OTHER -> NoEntry]
  BY DEF Init
<1>2. payments = {} /\ deposit = [d \in Deposit |-> NoRow] /\ receipt = [r \in Receipt |-> NoRow]
  BY DEF Init
<1>3. \A s \in Slot : entry[s] \in {Entry(1, total, 0, FALSE), Entry(1, 0 - total, total, FALSE), NoEntry}
  BY <1>1
<1>4. DOMAIN entry = Slot /\ \A s \in Slot : "state" \in DOMAIN entry[s]
  BY <1>1, <1>3 DEF Entry, NoEntry
<1>5. ReceiptEntries
  <2> SUFFICES ASSUME NEW r \in Receipt PROVE entry[<<"receipt", r>>].state = "none"
    BY DEF ReceiptEntries
  <2>1. <<"receipt", r>> \notin {"invoice"} \X old /\ <<"receipt", r>> \notin {"legacy"} \X old
    OBVIOUS
  <2>2. entry[<<"receipt", r>>] = NoEntry
    BY <1>1, <2>1, ReceiptSlot
  <2> QED
    BY <2>2 DEF NoEntry
<1> QED
  BY <1>2, <1>4, <1>5 DEF Shaped, Shapes

\* Every step, by the part of Next it is in.
LEMMA StepHolds ==
    ASSUME Shaped, [Next]_vars
    PROVE  Holds
<1>1. CASE UNCHANGED vars
  BY <1>1, SameEntriesKept, AsideHolds DEF vars
<1>2. ASSUME NEW d \in Deposit, DepositStep(d) PROVE Holds
  BY <1>2, DepositsCreateHolds, DepositsDeleteHolds DEF DepositStep
<1> QED
  BY <1>1, <1>2, InvoiceStepHolds, NoteStepHolds, ReceiptStepHolds, LedgerStepHolds DEF Next

\* What is in a bank deposit is neither reversed, deleted nor changed until that
\* deposit is deleted (invoicesReverseLastPayment, invoicesDeleteWithPayments,
\* salesReceiptsDelete, invoicesChangeDate and the ledger screen's corrections).
THEOREM BankedIsSafe == Spec => BankedStays
<1>1. Shaped /\ [Next]_vars => Shaped' /\ PaymentsHold /\ ReceiptsHold
  BY StepHolds DEF Holds
<1>2. Shaped /\ [Next]_vars => Shaped'
  BY <1>1
<1>3. Shaped /\ [Next]_vars =>
        [/\ \A p \in payments :
              p.deposit # NoRow /\ deposit'[p.deposit] # NoRow =>
                  \E q \in payments' : /\ q.id = p.id
                                       /\ q.invoice = p.invoice
                                       /\ q.amount = p.amount
                                       /\ q.deposit = p.deposit
         /\ \A r \in Stored(receipt) :
              receipt[r].deposit # NoRow /\ deposit'[receipt[r].deposit] # NoRow =>
                  /\ receipt'[r] # NoRow
                  /\ receipt'[r].deposit = receipt[r].deposit
                  /\ receipt'[r].total = receipt[r].total]_vars
  BY <1>1 DEF PaymentsHold, ReceiptsHold
<1> QED
  BY <1>2, <1>3, ShapedStart, PTL DEF Spec, BankedStays

-----------------------------------------------------------------------------
(* Types *)

Typed == TypeOK /\ IsFiniteSet(payments)

\* The entries each document has.
LEMMA SlotsAre ==
    /\ \A i \in Invoice : /\ <<"invoice", i>> \in Slot
                          /\ <<"writeoff", i>> \in Slot
                          /\ <<"legacy", i>> \in Slot
    /\ \A k \in 1..MaxPayment : <<"payment", k>> \in Slot
    /\ \A n \in Note : <<"note", n>> \in Slot /\ <<"refund", n>> \in Slot
    /\ \A d \in Deposit : <<"deposit", d>> \in Slot
    /\ \A r \in Receipt : <<"receipt", r>> \in Slot
BY DEF Slot

\* Max(n, 0) is a natural number.
LEMMA PositiveIsNat == ASSUME NEW n \in Int PROVE Positive(n) \in Nat
BY DEF Positive

\* The columns of a payment.
LEMMA PaymentsAre ==
    ASSUME Typed, NEW p \in payments
    PROVE  /\ p \in PaymentRow /\ p.id \in 1..MaxPayment /\ p.invoice \in Invoice
           /\ p.date \in Day /\ p.amount \in Nat \ {0} /\ p.account \in Money
           /\ p.deposit \in Deposit \cup {NoRow}
BY DEF Typed, TypeOK, PaymentRow

\* Rows, dates and deposits are not null.
LEMMA RowsAreSome ==
    /\ \A x \in InvoiceRow \cup NoteRow \cup ReceiptRow : x # NoRow
    /\ \A x \in Day \cup Deposit : x # NoRow
<1>1. \A x \in Day : x \in Nat
  BY DEF Day
<1> QED
  BY <1>1, NullIsNoRow, InvoicesAssumption

\* What payments come to is a number.
LEMMA AmountsTyped ==
    ASSUME Typed, NEW rows \in SUBSET payments
    PROVE  /\ IsFiniteSet(rows)
           /\ DOMAIN [r \in rows |-> r.amount] = rows
           /\ \A r \in rows : [q \in rows |-> q.amount][r] = r.amount
           /\ \A r \in rows : r.amount \in Nat \ {0}
           /\ Amounts(rows) \in Nat
           /\ \A r \in rows : r.amount <= Amounts(rows)
<1>1. IsFiniteSet(rows) /\ \A r \in rows : r.amount \in Nat \ {0}
  BY FS_Subset, PaymentsAre DEF Typed
<1> DEFINE f == [r \in rows |-> r.amount]
<1>2. DOMAIN f = rows /\ \A r \in rows : f[r] = r.amount
  OBVIOUS
<1>3. SumFunction(f) = Amounts(rows)
  BY DEF Amounts
<1> HIDE DEF f
<1>4. SumFunction(f) \in Nat /\ \A r \in rows : f[r] <= SumFunction(f)
  BY <1>1, <1>2, TableBounds
<1> QED
  BY <1>1, <1>2, <1>3, <1>4 DEF f

\* The newest of some payments is one of them.
LEMMA NewestIs ==
    ASSUME Typed, NEW rows \in SUBSET payments, rows # {}
    PROVE  /\ Newest(rows) \in rows
           /\ \A q \in rows : NotOlder(Newest(rows), q)
<1> DEFINE above == {x \in rows \X rows : NotOlder(x[1], x[2])}
<1>1. IsFiniteSet(rows) /\ \A p \in rows : p.date \in Int /\ p.id \in Int
  BY FS_Subset, PaymentsAre, InvoicesAssumption DEF Typed, Day
<1>2. \A x, y \in rows : <<x, y>> \in above <=> NotOlder(x, y)
  OBVIOUS
<1> HIDE DEF above
<1>3. ASSUME NEW x \in rows, NEW y \in rows PROVE <<x, y>> \in above \/ <<y, x>> \in above
  <2>1. NotOlder(x, y) \/ NotOlder(y, x)
    BY <1>1 DEF NotOlder
  <2> QED
    BY <1>2, <2>1
<1>4. ASSUME NEW x \in rows, NEW y \in rows, NEW z \in rows,
             <<x, y>> \in above, <<y, z>> \in above
      PROVE  <<x, z>> \in above
  <2>1. NotOlder(x, y) /\ NotOlder(y, z)
    BY <1>2, <1>4
  <2>2. NotOlder(x, z)
    BY <1>1, <2>1 DEF NotOlder
  <2> QED
    BY <1>2, <2>2
<1>5. \E x \in rows : \A y \in rows : <<x, y>> \in above
  BY <1>1, <1>3, <1>4, GreatestExists
<1>6. \E x \in rows : \A y \in rows : NotOlder(x, y)
  BY <1>2, <1>5
<1> QED
  BY <1>6 DEF Newest

\* The account that is left on an invoice is one an invoice may have.
LEMMA AccountAfterIs ==
    ASSUME Typed, NEW rows \in SUBSET payments
    PROVE  AccountAfter(rows) \in Money \cup {"none"}
BY NewestIs, PaymentsAre DEF AccountAfter

\* The columns an operation leaves alone, and the one it sets.
PaidDown(row, new, paid) ==
    /\ new \in InvoiceRow
    /\ new.date = row.date
    /\ new.total = row.total
    /\ new.writtenOff = row.writtenOff
    /\ new.deposit = row.deposit
    /\ new.paid = paid

\* Setting the paid amount sets the status with it and leaves the other columns.
LEMMA SettledIs ==
    ASSUME NEW row \in InvoiceRow, NEW paid \in Nat, NEW account \in Money \cup {"none"}
    PROVE  /\ PaidDown(row, Settled(row, paid), paid)
           /\ PaidDown(row, [Settled(row, paid) EXCEPT !.account = account], paid)
<1>1. PICK status \in {"unpaid", "paid"} :
          Settled(row, paid) = [row EXCEPT !.paid = paid, !.status = status]
  BY DEF Settled
<1> QED
  BY <1>1 DEF InvoiceRow, PaidDown

\* Reversing payments takes what they came to off the paid amount.
LEMMA ReversedIs ==
    ASSUME Typed, NEW i \in Invoice, NEW row \in InvoiceRow, NEW gone \in SUBSET payments
    PROVE  PaidDown(row, Reversed(i, row, gone), Positive(row.paid - Amounts(gone)))
<1>1. Amounts(gone) \in Nat /\ row.paid \in Nat
  BY AmountsTyped DEF InvoiceRow
<1>2. CASE gone = {}
  <2>1. Amounts(gone) = 0
    <3>1. \A y \in {} : [r \in {} |-> r.amount][y] = 0
      OBVIOUS
    <3>2. DOMAIN [r \in {} |-> r.amount] = {}
      OBVIOUS
    <3>3. SumFunction([r \in {} |-> r.amount]) = 0
      BY <3>1, <3>2, FS_EmptySet, TableZero
    <3> QED
      BY <1>2, <3>3 DEF Amounts
  <2>2. Positive(row.paid - Amounts(gone)) = row.paid
    BY <1>1, <2>1 DEF Positive
  <2> QED
    BY <1>2, <2>2 DEF Reversed, PaidDown
<1>3. CASE gone # {}
  <2>1. Positive(row.paid - Amounts(gone)) \in Nat
    BY <1>1, PositiveIsNat
  <2>2. AccountAfter(PaymentsOf(i) \ gone) \in Money \cup {"none"}
    BY AccountAfterIs DEF PaymentsOf
  <2> QED
    BY <1>3, <2>1, <2>2, SettledIs DEF Reversed
<1> QED
  BY <1>2, <1>3

-----------------------------------------------------------------------------
(* What a step does to the entries *)

\* Entries are still entries, and those outside S are what they were.
Touches(S) ==
    /\ entry' \in [Slot -> EntryRow]
    /\ \A s \in Slot : s \notin S => entry'[s] = entry[s]

\* Posting sets one entry, in an open month.
LEMMA PostTouches ==
    ASSUME Typed, NEW s \in Slot, NEW date \in Day, NEW ar \in Int, NEW uf \in Int,
           NEW bank \in BOOLEAN, Post(s, date, ar, uf, bank)
    PROVE  /\ Touches({s})
           /\ entry'[s].state = "posted" /\ entry'[s].date = date /\ entry'[s].ar = ar
           /\ IsOpen(date)
<1>1. Entry(date, ar, uf, bank) \in EntryRow
  BY DEF Entry, EntryRow
<1>2. entry \in [Slot -> EntryRow] /\ entry' = [entry EXCEPT ![s] = Entry(date, ar, uf, bank)]
  BY DEF Post, Typed, TypeOK
<1>3. entry' \in [Slot -> EntryRow]
  BY <1>1, <1>2
<1>4. entry'[s] = Entry(date, ar, uf, bank) /\ \A t \in Slot : t # s => entry'[t] = entry[t]
  BY <1>2
<1>5. entry'[s].state = "posted" /\ entry'[s].date = date /\ entry'[s].ar = ar
  BY <1>4 DEF Entry
<1> QED
  BY <1>3, <1>4, <1>5 DEF Touches, Post

\* What a refund posts: money out of the bank.
LEMMA PaidOutTouches ==
    ASSUME Typed, NEW s \in Slot, NEW date \in Day, NEW ar \in Int,
           Post(s, date, ar, 0, TRUE)
    PROVE  Touches({s}) /\ entry'[s].state = "posted" /\ entry'[s].ar = ar
<1>1. Entry(date, ar, 0, TRUE) \in EntryRow
  BY DEF Entry, EntryRow
<1>2. entry \in [Slot -> EntryRow] /\ entry' = [entry EXCEPT ![s] = Entry(date, ar, 0, TRUE)]
  BY DEF Post, Typed, TypeOK
<1>3. entry' \in [Slot -> EntryRow]
  BY <1>1, <1>2
<1>4. entry'[s] = Entry(date, ar, 0, TRUE) /\ \A t \in Slot : t # s => entry'[t] = entry[t]
  BY <1>2
<1> QED
  BY <1>3, <1>4 DEF Touches, Entry

\* Voiding empties the entries it is given and no other.
LEMMA WithoutTouches ==
    ASSUME Typed, NEW slots, entry' = Without(slots)
    PROVE  /\ Touches(slots)
           /\ \A s \in slots : s \in Slot => entry'[s].state = "none"
<1>1. NoEntry \in EntryRow /\ NoEntry.state = "none"
  BY InvoicesAssumption DEF NoEntry, EntryRow, Day
<1>2. entry' = [s \in Slot |-> IF s \in slots THEN NoEntry ELSE entry[s]]
  BY DEF Without
<1>3. entry \in [Slot -> EntryRow]
  BY DEF Typed, TypeOK
<1>4. entry' \in [Slot -> EntryRow]
  BY <1>1, <1>2, <1>3
<1>5. \A s \in Slot : entry'[s] = IF s \in slots THEN NoEntry ELSE entry[s]
  BY <1>2
<1> QED
  BY <1>1, <1>4, <1>5 DEF Touches

\* No entry is touched.
LEMMA SameTouches == ASSUME Typed, entry' = entry PROVE Touches({})
BY DEF Touches, Typed, TypeOK

\* What goes through Undeposited Funds is an amount.
LEMMA InUfIsInt == ASSUME NEW account, NEW cents \in Int PROVE InUf(account, cents) \in Int
BY DEF InUf

-----------------------------------------------------------------------------
(* The inductive invariant *)

Carries(s, date, ar) ==
    entry[s].state = "posted" /\ entry[s].date = date /\ entry[s].ar = ar
Empty(s) == entry[s].state = "none"

\* An invoice has its entry and, while it is written off, the write-off's, which
\* the ledger screen may have voided; without the invoice there is none of them.
InvoiceFollows(i) ==
    IF invoice[i] = NoRow
    THEN Empty(<<"invoice", i>>) /\ Empty(<<"writeoff", i>>) /\ Empty(<<"legacy", i>>)
    ELSE /\ Carries(<<"invoice", i>>, invoice[i].date, invoice[i].total)
         /\ IF invoice[i].writtenOff = 0 THEN Empty(<<"writeoff", i>>)
            ELSE /\ ~Empty(<<"writeoff", i>>)
                 /\ entry[<<"writeoff", i>>].ar = 0 - invoice[i].writtenOff
         /\ \/ Empty(<<"legacy", i>>)
            \/ /\ entry[<<"legacy", i>>].state = "posted"
               /\ entry[<<"legacy", i>>].ar = 0 - invoice[i].total
InvoicesFollow == \A i \in Invoice : InvoiceFollows(i)

\* A payment's id is its own, its entry has its day and amount, and an id nobody
\* has is free.
PaymentFollows(p) == Carries(<<"payment", p.id>>, p.date, 0 - p.amount)
PaymentsFollow ==
    /\ \A p, q \in payments : p.id = q.id => p = q
    /\ \A p \in payments : PaymentFollows(p)
    /\ \A k \in 1..MaxPayment : (\A p \in payments : p.id # k) => Empty(<<"payment", k>>)

\* A refund is for what was left of the note, which stays what it is meanwhile.
NoteFollows(n) ==
    IF note[n] = NoRow THEN Empty(<<"note", n>>) /\ Empty(<<"refund", n>>)
    ELSE /\ Carries(<<"note", n>>, note[n].date, 0 - note[n].total)
         /\ IF note[n].status = "refunded"
            THEN /\ entry[<<"refund", n>>].state = "posted"
                 /\ entry[<<"refund", n>>].ar = note[n].total - note[n].applied
            ELSE Empty(<<"refund", n>>)
NotesFollow == \A n \in Note : NoteFollows(n)

DepositFollows(d) ==
    IF deposit[d] = NoRow THEN Empty(<<"deposit", d>>)
    ELSE Carries(<<"deposit", d>>, deposit[d], 0)
DepositsFollow == \A d \in Deposit : DepositFollows(d)

ReceiptFollows(r) ==
    IF receipt[r] = NoRow THEN Empty(<<"receipt", r>>)
    ELSE Carries(<<"receipt", r>>, receipt[r].date, 0)
ReceiptsFollow == \A r \in Receipt : ReceiptFollows(r)

\* What was paid of an invoice: its payments, the credit applied to it, and what a
\* file of an older version says came in without either.
PaidBy(i) == Amounts(PaymentsOf(i))
Credited(i) == SumFunction([n \in Note |-> AppliedTo(n, i)])
Old(i) == IF Empty(<<"legacy", i>>) THEN 0 ELSE 0 - entry[<<"legacy", i>>].ar
PaidOf(i) == IF invoice[i] = NoRow THEN 0 ELSE invoice[i].paid
PaidFollows == \A i \in Invoice : PaidBy(i) + Credited(i) + Old(i) = PaidOf(i)

AllApplied(n) == SumFunction([k \in DOMAIN apps[n] |-> apps[n][k].amount])
AppliedOf(n) == IF note[n] = NoRow THEN 0 ELSE note[n].applied
AppliedFollows == \A n \in Note : AllApplied(n) = AppliedOf(n)

IInv ==
    /\ Typed
    /\ InvoicesFollow
    /\ PaymentsFollow
    /\ NotesFollow
    /\ DepositsFollow
    /\ ReceiptsFollow
    /\ PaidFollows
    /\ AppliedFollows

-----------------------------------------------------------------------------
(* What a step leaves alone *)

\* Payments whose entries are not touched still agree with them.
LEMMA PaymentsAside ==
    ASSUME PaymentsFollow, NEW S, Touches(S), payments' = payments, Typed,
           \A k \in 1..MaxPayment : <<"payment", k>> \notin S
    PROVE  PaymentsFollow'
<1>1. \A k \in 1..MaxPayment : entry'[<<"payment", k>>] = entry[<<"payment", k>>]
  BY SlotsAre DEF Touches
<1>2. \A p \in payments : p.id \in 1..MaxPayment
  BY PaymentsAre
<1> QED
  BY <1>1, <1>2 DEF PaymentsFollow, PaymentFollows, Carries, Empty

\* Credit notes likewise.
LEMMA NotesAside ==
    ASSUME NotesFollow, NEW S, Touches(S), note' = note,
           \A n \in Note : <<"note", n>> \notin S /\ <<"refund", n>> \notin S
    PROVE  NotesFollow'
<1>1. \A n \in Note : /\ entry'[<<"note", n>>] = entry[<<"note", n>>]
                      /\ entry'[<<"refund", n>>] = entry[<<"refund", n>>]
  BY SlotsAre DEF Touches
<1>2. ASSUME NEW n \in Note PROVE NoteFollows(n)'
  <2>1. NoteFollows(n)
    BY DEF NotesFollow
  <2> QED
    BY <1>1, <2>1 DEF NoteFollows, Carries, Empty
<1> QED
  BY <1>2 DEF NotesFollow

\* Deposits likewise.
LEMMA DepositsAside ==
    ASSUME DepositsFollow, NEW S, Touches(S), deposit' = deposit,
           \A d \in Deposit : <<"deposit", d>> \notin S
    PROVE  DepositsFollow'
<1>1. \A d \in Deposit : entry'[<<"deposit", d>>] = entry[<<"deposit", d>>]
  BY SlotsAre DEF Touches
<1>2. ASSUME NEW d \in Deposit PROVE DepositFollows(d)'
  <2>1. DepositFollows(d) /\ entry'[<<"deposit", d>>] = entry[<<"deposit", d>>]
    BY <1>1 DEF DepositsFollow
  <2> QED
    BY <2>1 DEF DepositFollows, Carries, Empty
<1> QED
  BY <1>2 DEF DepositsFollow

\* Receipts likewise, but for those shown to agree with theirs.
LEMMA ReceiptsAside ==
    ASSUME ReceiptsFollow, NEW S, Touches(S), NEW others \in SUBSET Receipt,
           \A r \in Receipt \ others : <<"receipt", r>> \notin S,
           \A r \in Receipt \ others : receipt'[r] = receipt[r],
           \A r \in others : ReceiptFollows(r)'
    PROVE  ReceiptsFollow'
<1>1. \A r \in Receipt \ others : entry'[<<"receipt", r>>] = entry[<<"receipt", r>>]
  BY SlotsAre DEF Touches
<1>2. ASSUME NEW r \in Receipt \ others PROVE ReceiptFollows(r)'
  <2>1. /\ entry'[<<"receipt", r>>] = entry[<<"receipt", r>>]
        /\ receipt'[r] = receipt[r] /\ ReceiptFollows(r)
    BY <1>1 DEF ReceiptsFollow
  <2> QED
    BY <2>1 DEF ReceiptFollows, Carries, Empty
<1> QED
  BY <1>2 DEF ReceiptsFollow

\* Receipts that all stay.
LEMMA ReceiptsSame ==
    ASSUME ReceiptsFollow, NEW S, Touches(S), receipt' = receipt,
           \A r \in Receipt : <<"receipt", r>> \notin S
    PROVE  ReceiptsFollow'
<1>1. \A r \in Receipt : entry'[<<"receipt", r>>] = entry[<<"receipt", r>>]
  BY SlotsAre DEF Touches
<1>2. ASSUME NEW r \in Receipt PROVE ReceiptFollows(r)'
  <2>1. ReceiptFollows(r) /\ entry'[<<"receipt", r>>] = entry[<<"receipt", r>>]
    BY <1>1 DEF ReceiptsFollow
  <2> QED
    BY <2>1 DEF ReceiptFollows, Carries, Empty
<1> QED
  BY <1>2 DEF ReceiptsFollow

\* What an invoice's entries say is the same of two rows.
SameInvoice(old, new) ==
    \/ old = new
    \/ /\ old # NoRow /\ new # NoRow
       /\ new.date = old.date
       /\ new.total = old.total
       /\ new.writtenOff = old.writtenOff

\* An invoice whose date, total and write-off stay still agrees with its entries.
LEMMA InvoiceKept ==
    ASSUME NEW S, Touches(S), NEW i \in Invoice, InvoiceFollows(i),
           <<"invoice", i>> \notin S, <<"writeoff", i>> \notin S, <<"legacy", i>> \notin S,
           SameInvoice(invoice[i], invoice'[i])
    PROVE  InvoiceFollows(i)' /\ Old(i)' = Old(i)
<1>1. /\ entry'[<<"invoice", i>>] = entry[<<"invoice", i>>]
      /\ entry'[<<"writeoff", i>>] = entry[<<"writeoff", i>>]
      /\ entry'[<<"legacy", i>>] = entry[<<"legacy", i>>]
  BY SlotsAre DEF Touches
<1> QED
  BY <1>1 DEF InvoiceFollows, Carries, Empty, SameInvoice, Old

\* A step of one invoice is no step of the others.
LEMMA InvoicesAside ==
    ASSUME InvoicesFollow, NEW S, Touches(S), NEW others \in SUBSET Invoice,
           \A i \in Invoice \ others : /\ <<"invoice", i>> \notin S
                                       /\ <<"writeoff", i>> \notin S
                                       /\ <<"legacy", i>> \notin S
                                       /\ SameInvoice(invoice[i], invoice'[i]),
           \A i \in others : InvoiceFollows(i)'
    PROVE  InvoicesFollow' /\ \A i \in Invoice \ others : Old(i)' = Old(i)
BY InvoiceKept DEF InvoicesFollow

\* Applications that stay leave what was credited.
LEMMA CreditedSame == ASSUME apps' = apps, NEW i PROVE Credited(i)' = Credited(i)
BY DEF Credited, AppliedTo

\* Payments that stay leave what was paid.
LEMMA PaidBySame == ASSUME payments' = payments, NEW i PROVE PaidBy(i)' = PaidBy(i)
BY DEF PaidBy, PaymentsOf

\* Applications and applied amounts that stay still agree.
LEMMA AppliedSame ==
    ASSUME AppliedFollows, apps' = apps, \A n \in Note : AppliedOf(n)' = AppliedOf(n)
    PROVE  AppliedFollows'
BY DEF AppliedFollows, AllApplied

\* Every part is a natural number, and no payment or application exceeds it.
LEMMA AppliedTyped ==
    ASSUME Typed, NEW n \in Note, NEW i
    PROVE  /\ apps[n] \in Seq(Application)
           /\ AppliedTo(n, i) = SumFunction(AmountsFor(apps[n], i))
           /\ AllApplied(n) = SumFunction(AmountsIn(apps[n]))
           /\ AppliedTo(n, i) \in Nat
           /\ AllApplied(n) \in Nat
<1>1. apps[n] \in Seq(Application)
  BY DEF Typed, TypeOK
<1>2. \A x \in Application : x.amount \in Nat
  BY DEF Application
<1>3. /\ AppliedTo(n, i) = SumFunction(AmountsFor(apps[n], i))
      /\ AllApplied(n) = SumFunction(AmountsIn(apps[n]))
  BY DEF AppliedTo, AllApplied, AmountsFor, AmountsIn
<1>4. SumFunction(AmountsFor(apps[n], i)) \in Nat /\ SumFunction(AmountsIn(apps[n])) \in Nat
  BY <1>1, <1>2, AmountsAreNat
<1> QED
  BY <1>1, <1>3, <1>4

\* What was credited to an invoice is a natural number, and no note gave more.
LEMMA CreditedTyped ==
    ASSUME Typed, NEW i
    PROVE  Credited(i) \in Nat /\ \A n \in Note : AppliedTo(n, i) <= Credited(i)
<1> DEFINE f == [n \in Note |-> AppliedTo(n, i)]
<1>1. DOMAIN f = Note /\ \A n \in Note : f[n] = AppliedTo(n, i) /\ f[n] \in Nat
  BY AppliedTyped
<1>2. IsFiniteSet(Note) /\ Credited(i) = SumFunction(f)
  BY IdsAreFinite DEF Credited
<1> HIDE DEF f
<1>3. SumFunction(f) \in Nat /\ \A n \in Note : f[n] <= SumFunction(f)
  BY <1>1, <1>2, TableBounds
<1> QED
  BY <1>1, <1>2, <1>3

\* What was paid of an invoice is a natural number, and no payment is larger.
LEMMA PaidByTyped ==
    ASSUME Typed, NEW i
    PROVE  PaidBy(i) \in Nat /\ \A p \in PaymentsOf(i) : p.amount <= PaidBy(i)
<1>1. PaymentsOf(i) \in SUBSET payments
  BY DEF PaymentsOf
<1> QED
  BY <1>1, AmountsTyped DEF PaidBy

\* An invoice that was there before payments had a table is paid, and it owes
\* nothing.
LEMMA PaidParts ==
    ASSUME IInv, NEW i \in Invoice
    PROVE  /\ PaidBy(i) \in Nat /\ Credited(i) \in Nat /\ Old(i) \in Nat /\ PaidOf(i) \in Nat
           /\ PaidBy(i) + Credited(i) + Old(i) = PaidOf(i)
           /\ Old(i) # 0 <=> ~Empty(<<"legacy", i>>)
           /\ invoice[i] # NoRow => invoice[i] \in InvoiceRow
           /\ Old(i) # 0 => invoice[i] # NoRow /\ invoice[i].total = Old(i)
           /\ PaidOf(i) = 0 => /\ PaidBy(i) = 0 /\ Credited(i) = 0 /\ Old(i) = 0
                              /\ Empty(<<"legacy", i>>)
           /\ invoice[i] = NoRow => PaidOf(i) = 0
<1>1. PaidBy(i) \in Nat /\ Credited(i) \in Nat
  BY CreditedTyped, PaidByTyped DEF IInv
<1>2. invoice[i] \in InvoiceRow \cup {NoRow}
  BY DEF IInv, Typed, TypeOK
<1>3. invoice[i] # NoRow => invoice[i].total \in Nat \ {0} /\ invoice[i].paid \in Nat
  BY <1>2, InvoicesAssumption DEF InvoiceRow
<1>4. InvoiceFollows(i)
  BY DEF IInv, InvoicesFollow
<1>5. /\ Old(i) # 0 => invoice[i] # NoRow /\ invoice[i].total = Old(i)
      /\ Old(i) \in Nat
      /\ Old(i) # 0 <=> ~Empty(<<"legacy", i>>)
  BY <1>3, <1>4 DEF Old, InvoiceFollows, Empty
<1>6. PaidBy(i) + Credited(i) + Old(i) = PaidOf(i)
  BY DEF IInv, PaidFollows
<1>7. PaidOf(i) = 0 => PaidBy(i) = 0 /\ Credited(i) = 0 /\ Old(i) = 0
  BY <1>1, <1>5, <1>6
<1> QED
  BY <1>1, <1>2, <1>3, <1>5, <1>6, <1>7 DEF PaidOf

-----------------------------------------------------------------------------
(* Invoices, their payments and their write-offs *)

\* What a step of an invoice has to show, all it leaves alone being settled.
InvoiceSlots(i) == {<<"invoice", i>>, <<"writeoff", i>>, <<"legacy", i>>}

\* An invoice's entries are no other document's.
LEMMA InvoiceSlotsApart ==
    ASSUME NEW i \in Invoice, NEW S \in SUBSET InvoiceSlots(i)
    PROVE  /\ \A k \in 1..MaxPayment : <<"payment", k>> \notin S
           /\ \A n \in Note : <<"note", n>> \notin S /\ <<"refund", n>> \notin S
           /\ \A d \in Deposit : <<"deposit", d>> \notin S
           /\ \A r \in Receipt : <<"receipt", r>> \notin S
           /\ \A y \in Invoice \ {i} : /\ <<"invoice", y>> \notin S
                                       /\ <<"writeoff", y>> \notin S
                                       /\ <<"legacy", y>> \notin S
BY DEF InvoiceSlots

\* The invariant after a step of one invoice, from what it does to that invoice.
LEMMA InvoiceStepKeeps ==
    ASSUME IInv, NEW i \in Invoice, NEW S, Touches(S),
           \A x \in S : x \in InvoiceSlots(i) \/ \E k \in 1..MaxPayment : x = <<"payment", k>>,
           \A y \in Invoice \ {i} : invoice'[y] = invoice[y],
           UNCHANGED <<note, apps, deposit, receipt>>,
           Typed', PaymentsFollow', InvoiceFollows(i)',
           \A y \in Invoice \ {i} : PaidBy(y)' = PaidBy(y),
           PaidBy(i)' + Credited(i) + Old(i)' = PaidOf(i)'
    PROVE  IInv'
<1>1. /\ \A n \in Note : <<"note", n>> \notin S /\ <<"refund", n>> \notin S
      /\ \A d \in Deposit : <<"deposit", d>> \notin S
      /\ \A r \in Receipt : <<"receipt", r>> \notin S
      /\ \A y \in Invoice \ {i} : /\ <<"invoice", y>> \notin S
                                  /\ <<"writeoff", y>> \notin S
                                  /\ <<"legacy", y>> \notin S
  BY DEF InvoiceSlots
<1>2. NotesFollow' /\ DepositsFollow' /\ ReceiptsFollow'
  BY <1>1, NotesAside, DepositsAside, ReceiptsSame DEF IInv
<1>3. InvoicesFollow' /\ \A y \in Invoice \ {i} : Old(y)' = Old(y)
  <2>1. \A y \in Invoice \ {i} : SameInvoice(invoice[y], invoice'[y])
    BY DEF SameInvoice
  <2>2. \A y \in {i} : InvoiceFollows(y)'
    OBVIOUS
  <2>3. InvoicesFollow
    BY DEF IInv
  <2> QED
    BY <1>1, <2>1, <2>2, <2>3, InvoicesAside
<1>4. PaidFollows'
  <2>1. ASSUME NEW y \in Invoice PROVE PaidBy(y)' + Credited(y)' + Old(y)' = PaidOf(y)'
    <3>1. Credited(y)' = Credited(y)
      BY CreditedSame
    <3>2. CASE y = i
      BY <3>1, <3>2
    <3>3. CASE y # i
      <4>1. PaidBy(y)' = PaidBy(y) /\ Old(y)' = Old(y) /\ PaidOf(y)' = PaidOf(y)
        BY <1>3, <3>3 DEF PaidOf
      <4>2. PaidBy(y) + Credited(y) + Old(y) = PaidOf(y)
        BY DEF IInv, PaidFollows
      <4> QED
        BY <3>1, <4>1, <4>2
    <3> QED
      BY <3>2, <3>3
  <2> QED
    BY <2>1 DEF PaidFollows
<1>5. AppliedFollows'
  <2>1. \A n \in Note : AppliedOf(n)' = AppliedOf(n)
    BY DEF AppliedOf
  <2> QED
    BY <2>1, AppliedSame DEF IInv
<1> QED
  BY <1>2, <1>3, <1>4, <1>5 DEF IInv

\* A step of an invoice alone: no payment is touched.
LEMMA InvoiceAloneKeeps ==
    ASSUME IInv, NEW i \in Invoice, NEW S \in SUBSET InvoiceSlots(i), Touches(S),
           NEW row \in InvoiceRow \cup {NoRow}, invoice' = [invoice EXCEPT ![i] = row],
           UNCHANGED <<payments, note, apps, deposit, receipt, closed>>,
           InvoiceFollows(i)', Old(i)' = Old(i), PaidOf(i)' = PaidOf(i)
    PROVE  IInv'
<1>1. \A k \in 1..MaxPayment : <<"payment", k>> \notin S
  BY InvoiceSlotsApart
<1>2. Typed'
  BY DEF IInv, Typed, TypeOK, Touches
<1>3. PaymentsFollow'
  BY <1>1, PaymentsAside DEF IInv
<1>4. \A y \in Invoice : PaidBy(y)' = PaidBy(y)
  BY PaidBySame
<1>5. \A y \in Invoice \ {i} : invoice'[y] = invoice[y]
  BY DEF IInv, Typed, TypeOK
<1>6. PaidBy(i)' + Credited(i) + Old(i)' = PaidOf(i)'
  BY <1>4, PaidParts
<1>7. \A x \in S : x \in InvoiceSlots(i) \/ \E k \in 1..MaxPayment : x = <<"payment", k>>
  OBVIOUS
<1> QED
  BY <1>2, <1>3, <1>4, <1>5, <1>6, <1>7, InvoiceStepKeeps

\* One invoice, as the invariant has it.
LEMMA InvoiceIs ==
    ASSUME IInv, NEW i \in Invoice
    PROVE  /\ invoice[i] \in InvoiceRow \cup {NoRow}
           /\ InvoiceFollows(i)
           /\ DOMAIN invoice = Invoice
           /\ \A row : invoice' = [invoice EXCEPT ![i] = row] => invoice'[i] = row
BY DEF IInv, Typed, TypeOK, InvoicesFollow

\* Facts about constants that posting needs.
LEMMA PlainEntry == 0 \in Int /\ FALSE \in BOOLEAN /\ TRUE \in BOOLEAN /\ (IInv => Typed)
<1>1. FALSE \in BOOLEAN /\ TRUE \in BOOLEAN
  OBVIOUS
<1>2. 0 \in Int
  OBVIOUS
<1>3. IInv => Typed
  BY DEF IInv
<1> QED
  BY <1>1, <1>2, <1>3

\* A new invoice owes its total, which its entry carries.
LEMMA CreateKeeps ==
    ASSUME IInv, NEW i \in Invoice, NEW date \in Day, NEW total \in Amount,
           InvoicesCreate(i, date, total)
    PROVE  IInv'
<1> DEFINE row == [date |-> date, total |-> total, paid |-> 0, writtenOff |-> 0,
                   status |-> "unpaid", account |-> "none", deposit |-> NoRow]
<1>1. /\ row \in InvoiceRow /\ row.date = date /\ row.total = total
      /\ row.paid = 0 /\ row.writtenOff = 0
  BY DEF InvoiceRow
<1>2. /\ invoice[i] = NoRow /\ invoice' = [invoice EXCEPT ![i] = row]
      /\ Post(<<"invoice", i>>, date, total, 0, FALSE)
      /\ UNCHANGED <<payments, note, apps, deposit, receipt, closed>>
  BY DEF InvoicesCreate
<1> HIDE DEF row
<1>3. total \in Int
  BY InvoicesAssumption
<1>4. /\ Touches({<<"invoice", i>>})
      /\ entry'[<<"invoice", i>>].state = "posted"
      /\ entry'[<<"invoice", i>>].date = date
      /\ entry'[<<"invoice", i>>].ar = total
  BY <1>2, <1>3, PostTouches, SlotsAre, PlainEntry, Zenon
<1>5. /\ entry'[<<"writeoff", i>>] = entry[<<"writeoff", i>>]
      /\ entry'[<<"legacy", i>>] = entry[<<"legacy", i>>]
  BY <1>4, SlotsAre DEF Touches
<1>6. Empty(<<"writeoff", i>>)' /\ Empty(<<"legacy", i>>)' /\ Old(i)' = Old(i)
  BY <1>2, <1>5, InvoiceIs DEF InvoiceFollows, Empty, Old
<1>7. invoice'[i] = row /\ row # NoRow
  BY <1>1, <1>2, InvoiceIs, RowsAreSome
<1>8. InvoiceFollows(i)' /\ PaidOf(i)' = PaidOf(i)
  BY <1>1, <1>2, <1>4, <1>6, <1>7 DEF InvoiceFollows, PaidOf, Carries
<1>9. {<<"invoice", i>>} \in SUBSET InvoiceSlots(i)
  BY DEF InvoiceSlots
<1> QED
  BY <1>1, <1>2, <1>4, <1>6, <1>8, <1>9, InvoiceAloneKeeps

\* An edited invoice has no payment, and the entry that replaces the old carries it.
LEMMA UpdateKeeps ==
    ASSUME IInv, NEW i \in Invoice, NEW date \in Day, NEW total \in Amount,
           InvoicesUpdate(i, date, total)
    PROVE  IInv'
<1> DEFINE row == [invoice[i] EXCEPT !.date = date, !.total = total, !.status = "unpaid"]
<1>0. invoice[i] # NoRow /\ invoice[i].paid = 0 /\ invoice[i].writtenOff = 0
  BY DEF InvoicesUpdate, Editable
<1>1. invoice[i] \in InvoiceRow
  BY <1>0, InvoiceIs
<1>2. /\ row \in InvoiceRow /\ row.date = date /\ row.total = total
      /\ row.paid = 0 /\ row.writtenOff = 0
  BY <1>0, <1>1 DEF InvoiceRow
<1>3. invoice' = [invoice EXCEPT ![i] = row]
  BY <1>1, InvoiceIs DEF InvoicesUpdate, InvoiceRow
<1>4. /\ Post(<<"invoice", i>>, date, total, 0, FALSE)
      /\ UNCHANGED <<payments, note, apps, deposit, receipt, closed>>
  BY DEF InvoicesUpdate
<1> HIDE DEF row
<1>5. total \in Int
  BY InvoicesAssumption
<1>6. /\ Touches({<<"invoice", i>>})
      /\ entry'[<<"invoice", i>>].state = "posted"
      /\ entry'[<<"invoice", i>>].date = date
      /\ entry'[<<"invoice", i>>].ar = total
  BY <1>4, <1>5, PostTouches, SlotsAre, PlainEntry, Zenon
<1>7. /\ entry'[<<"writeoff", i>>] = entry[<<"writeoff", i>>]
      /\ entry'[<<"legacy", i>>] = entry[<<"legacy", i>>]
  BY <1>6, SlotsAre DEF Touches
<1>8. Old(i) = 0
  <2>1. PaidOf(i) = 0
    BY <1>0 DEF PaidOf
  <2> QED
    BY <2>1, PaidParts
<1>9. Empty(<<"writeoff", i>>)' /\ Empty(<<"legacy", i>>)' /\ Old(i)' = Old(i)
  <2>1. Empty(<<"legacy", i>>)
    BY <1>8, PaidParts
  <2>2. Empty(<<"writeoff", i>>)
    BY <1>0, InvoiceIs DEF InvoiceFollows
  <2> QED
    BY <1>7, <2>1, <2>2 DEF Empty, Old
<1>10. invoice'[i] = row /\ row # NoRow
  BY <1>2, <1>3, InvoiceIs, RowsAreSome
<1>11. InvoiceFollows(i)' /\ PaidOf(i)' = PaidOf(i)
  BY <1>0, <1>2, <1>6, <1>9, <1>10 DEF InvoiceFollows, PaidOf, Carries
<1>12. {<<"invoice", i>>} \in SUBSET InvoiceSlots(i)
  BY DEF InvoiceSlots
<1> QED
  BY <1>2, <1>3, <1>4, <1>6, <1>9, <1>11, <1>12, InvoiceAloneKeeps

\* Totals are positive numbers.
LEMMA TotalsAre == \A x \in Amount : x \in Nat \ {0} /\ x \in Int
BY InvoicesAssumption

\* What is open of an invoice is a natural number: what was neither paid nor written off.
LEMMA BalanceTyped ==
    ASSUME NEW row \in InvoiceRow
    PROVE  /\ Balance(row) \in Nat
           /\ Balance(row) > 0 => Balance(row) = row.total - row.paid - row.writtenOff
<1>1. row.total \in Int /\ row.paid \in Int /\ row.writtenOff \in Int
  <2>1. row.total \in Amount /\ row.paid \in Nat /\ row.writtenOff \in Nat
    BY DEF InvoiceRow
  <2> QED
    BY <2>1, TotalsAre
<1>2. row.total - row.paid - row.writtenOff \in Int
  BY <1>1
<1> QED
  BY <1>2 DEF Balance, Positive

\* A write-off has an entry of its amount.
LEMMA WriteOffKeeps ==
    ASSUME IInv, NEW i \in Invoice, NEW date \in Day, InvoicesWriteOff(i, date)
    PROVE  IInv'
<1> DEFINE balance == Balance(invoice[i])
           row == [invoice[i] EXCEPT !.writtenOff = balance, !.status = "paid"]
<1>0. invoice[i] # NoRow /\ balance > 0 /\ invoice[i].writtenOff = 0
  BY DEF InvoicesWriteOff
<1>1. invoice[i] \in InvoiceRow /\ balance \in Nat
  BY <1>0, InvoiceIs, BalanceTyped
<1>2. invoice' = [invoice EXCEPT ![i] = row]
  BY <1>1, InvoiceIs DEF InvoicesWriteOff, InvoiceRow
<1>3. /\ Post(<<"writeoff", i>>, date, 0 - balance, 0, FALSE)
      /\ UNCHANGED <<payments, note, apps, deposit, receipt, closed>>
  BY DEF InvoicesWriteOff
<1> HIDE DEF balance
<1>4. /\ row \in InvoiceRow /\ row.date = invoice[i].date /\ row.total = invoice[i].total
      /\ row.paid = invoice[i].paid /\ row.writtenOff = balance
  BY <1>1 DEF InvoiceRow
<1> HIDE DEF row
<1>5. 0 - balance \in Int
  BY <1>1
<1>6. /\ Touches({<<"writeoff", i>>})
      /\ entry'[<<"writeoff", i>>].state = "posted"
      /\ entry'[<<"writeoff", i>>].ar = 0 - balance
  BY <1>3, <1>5, PostTouches, SlotsAre, PlainEntry, Zenon
<1>7. /\ entry'[<<"invoice", i>>] = entry[<<"invoice", i>>]
      /\ entry'[<<"legacy", i>>] = entry[<<"legacy", i>>]
  BY <1>6, SlotsAre DEF Touches
<1>8. invoice'[i] = row /\ row # NoRow
  BY <1>2, <1>4, InvoiceIs, RowsAreSome
<1>9. InvoiceFollows(i)' /\ PaidOf(i)' = PaidOf(i) /\ Old(i)' = Old(i)
  <2>1. balance # 0
    BY <1>0, <1>1
  <2>2. InvoiceFollows(i)
    BY InvoiceIs
  <2> QED
    BY <1>0, <1>4, <1>6, <1>7, <1>8, <2>1, <2>2 DEF InvoiceFollows, PaidOf, Carries, Empty, Old
<1>10. {<<"writeoff", i>>} \in SUBSET InvoiceSlots(i)
  BY DEF InvoiceSlots
<1> QED
  BY <1>2, <1>3, <1>4, <1>6, <1>9, <1>10, InvoiceAloneKeeps

\* Taking a write-off back leaves the paid amount.
LEMMA WrittenBackIs ==
    ASSUME NEW row \in InvoiceRow
    PROVE  /\ WrittenBack(row) \in InvoiceRow
           /\ WrittenBack(row).date = row.date
           /\ WrittenBack(row).total = row.total
           /\ WrittenBack(row).paid = row.paid
           /\ WrittenBack(row).writtenOff = 0
<1>1. row.paid \in Nat
  BY DEF InvoiceRow
<1> DEFINE mid == Settled(row, row.paid)
<1>2. PICK status \in {"unpaid", "paid"} : mid = [row EXCEPT !.paid = row.paid, !.status = status]
  BY DEF Settled
<1>3. WrittenBack(row) = [mid EXCEPT !.writtenOff = 0]
  BY DEF WrittenBack
<1> HIDE DEF mid
<1>4. /\ mid \in InvoiceRow /\ mid.date = row.date /\ mid.total = row.total
      /\ mid.paid = row.paid
  BY <1>1, <1>2 DEF InvoiceRow
<1> QED
  BY <1>3, <1>4 DEF InvoiceRow

\* A write-off undone goes with its entry.
LEMMA UndoWriteOffKeeps ==
    ASSUME IInv, NEW i \in Invoice, InvoicesUndoWriteOff(i)
    PROVE  IInv'
<1> DEFINE row == WrittenBack(invoice[i])
<1>0. invoice[i] # NoRow
  BY DEF InvoicesUndoWriteOff
<1>1. invoice[i] \in InvoiceRow
  BY <1>0, InvoiceIs
<1>2. /\ invoice' = [invoice EXCEPT ![i] = row]
      /\ entry' = Without({<<"writeoff", i>>})
      /\ UNCHANGED <<payments, note, apps, deposit, receipt, closed>>
  BY InvoiceIs DEF InvoicesUndoWriteOff
<1>3. /\ row \in InvoiceRow /\ row.date = invoice[i].date /\ row.total = invoice[i].total
      /\ row.paid = invoice[i].paid /\ row.writtenOff = 0
  BY <1>1, WrittenBackIs
<1> HIDE DEF row
<1>4. Touches({<<"writeoff", i>>}) /\ Empty(<<"writeoff", i>>)'
  BY <1>2, WithoutTouches, SlotsAre DEF IInv, Empty
<1>5. /\ entry'[<<"invoice", i>>] = entry[<<"invoice", i>>]
      /\ entry'[<<"legacy", i>>] = entry[<<"legacy", i>>]
  BY <1>4, SlotsAre DEF Touches
<1>6. invoice'[i] = row /\ row # NoRow
  BY <1>2, <1>3, InvoiceIs, RowsAreSome
<1>7. InvoiceFollows(i)' /\ PaidOf(i)' = PaidOf(i) /\ Old(i)' = Old(i)
  <2>1. InvoiceFollows(i)
    BY InvoiceIs
  <2> QED
    BY <1>0, <1>3, <1>4, <1>5, <1>6, <2>1 DEF InvoiceFollows, PaidOf, Carries, Empty, Old
<1>8. {<<"writeoff", i>>} \in SUBSET InvoiceSlots(i)
  BY DEF InvoiceSlots
<1> QED
  BY <1>2, <1>3, <1>4, <1>7, <1>8, InvoiceAloneKeeps

\* A deleted invoice had nothing paid or credited of it and leaves no entry.
LEMMA DeleteKeeps ==
    ASSUME IInv, NEW i \in Invoice, InvoicesDelete(i)
    PROVE  IInv'
<1>0. invoice[i] # NoRow /\ invoice[i].paid = 0 /\ invoice[i].writtenOff = 0
  BY DEF InvoicesDelete
<1>1. /\ invoice' = [invoice EXCEPT ![i] = NoRow]
      /\ entry' = Without({<<"invoice", i>>})
      /\ UNCHANGED <<payments, note, apps, deposit, receipt, closed>>
  BY DEF InvoicesDelete
<1>2. Touches({<<"invoice", i>>}) /\ Empty(<<"invoice", i>>)'
  BY <1>1, WithoutTouches, SlotsAre DEF IInv, Empty
<1>3. /\ entry'[<<"writeoff", i>>] = entry[<<"writeoff", i>>]
      /\ entry'[<<"legacy", i>>] = entry[<<"legacy", i>>]
  BY <1>2, SlotsAre DEF Touches
<1>4. PaidOf(i) = 0 /\ Old(i) = 0
  <2>1. PaidOf(i) = 0
    BY <1>0 DEF PaidOf
  <2> QED
    BY <2>1, PaidParts
<1>5. invoice'[i] = NoRow
  BY <1>1, InvoiceIs
<1>6. Empty(<<"writeoff", i>>) /\ Empty(<<"legacy", i>>)
  BY <1>0, <1>4, InvoiceIs, PaidParts DEF InvoiceFollows
<1>7. InvoiceFollows(i)' /\ PaidOf(i)' = PaidOf(i) /\ Old(i)' = Old(i)
  BY <1>2, <1>3, <1>4, <1>5, <1>6 DEF InvoiceFollows, PaidOf, Empty, Old
<1>8. {<<"invoice", i>>} \in SUBSET InvoiceSlots(i)
  BY DEF InvoiceSlots
<1> QED
  BY <1>1, <1>2, <1>7, <1>8, InvoiceAloneKeeps

-----------------------------------------------------------------------------
(* Payments that come and go *)

\* Payments, some of them and the rest.
LEMMA AmountsSplit ==
    ASSUME NEW rows, IsFiniteSet(rows), \A r \in rows : r.amount \in Int,
           NEW part \in SUBSET rows
    PROVE  Amounts(rows) = Amounts(part) + Amounts(rows \ part)
<1> DEFINE f == [r \in rows |-> r.amount]
           g == [r \in part |-> r.amount]
           h == [r \in rows \ part |-> r.amount]
<1>1. /\ IntOn(f, rows) /\ DOMAIN f = rows /\ DOMAIN g = part /\ DOMAIN h = rows \ part
      /\ \A r \in part : f[r] = g[r]
      /\ \A r \in rows \ part : f[r] = h[r]
      /\ IsFiniteSet(part) /\ IsFiniteSet(rows \ part)
  BY FS_Subset DEF IntOn
<1>2. Amounts(rows) = SumFunction(f) /\ Amounts(part) = SumFunction(g) /\ Amounts(rows \ part) = SumFunction(h)
  BY DEF Amounts
<1> HIDE DEF f, g, h
<1>3. SumFunctionOnSet(f, rows) = SumFunctionOnSet(f, part) + SumFunctionOnSet(f, rows \ part)
  BY <1>1, SumSplit
<1>4. /\ SumFunctionOnSet(f, part) = SumFunctionOnSet(g, part)
      /\ SumFunctionOnSet(f, rows \ part) = SumFunctionOnSet(h, rows \ part)
  BY <1>1, SumAgree
<1> QED
  BY <1>1, <1>2, <1>3, <1>4 DEF SumFunction

\* One payment comes to its amount.
LEMMA AmountsOfOne ==
    ASSUME NEW x, x.amount \in Int
    PROVE  Amounts({x}) = x.amount
<1> DEFINE f == [r \in {x} |-> r.amount]
<1>1. DOMAIN f = {x} /\ f[x] = x.amount /\ Amounts({x}) = SumFunction(f)
  BY DEF Amounts
<1>2. IsFiniteSet({x}) /\ x \in {x} /\ \A y \in {x} \ {x} : f[y] = 0
  BY FS_Singleton
<1> HIDE DEF f
<1>3. SumFunctionOnSet(f, {x}) = f[x]
  BY <1>1, <1>2, SumSingle
<1> QED
  BY <1>1, <1>3 DEF SumFunction

\* Payments' entries are the payments'.
LEMMA PaymentSlotsAre ==
    ASSUME Typed, NEW gone \in SUBSET payments
    PROVE  /\ \A p \in gone : <<"payment", p.id>> \in PaymentSlots(gone)
           /\ \A x \in PaymentSlots(gone) :
                 \E k \in 1..MaxPayment : x = <<"payment", k>> /\ \E p \in gone : p.id = k
BY PaymentsAre DEF PaymentSlots

\* Payments of one invoice are taken away.
LEMMA TakenSums ==
    ASSUME IInv, NEW i \in Invoice, NEW gone \in SUBSET PaymentsOf(i),
           payments' = payments \ gone
    PROVE  /\ Amounts(gone) \in Nat
           /\ Amounts(gone) <= PaidBy(i)
           /\ PaidBy(i)' = PaidBy(i) - Amounts(gone)
           /\ \A y \in Invoice \ {i} : PaidBy(y)' = PaidBy(y)
<1>1. Typed /\ gone \in SUBSET payments /\ PaymentsOf(i) \in SUBSET payments
  BY DEF IInv, PaymentsOf
<1>2. /\ IsFiniteSet(PaymentsOf(i)) /\ \A r \in PaymentsOf(i) : r.amount \in Int
      /\ Amounts(gone) \in Nat
      /\ Amounts(PaymentsOf(i) \ gone) \in Nat
  <2>1. IsFiniteSet(PaymentsOf(i)) /\ \A r \in PaymentsOf(i) : r.amount \in Nat
    BY <1>1, AmountsTyped
  <2>2. PaymentsOf(i) \ gone \in SUBSET payments
    BY <1>1
  <2>3. Amounts(gone) \in Nat /\ Amounts(PaymentsOf(i) \ gone) \in Nat
    BY <1>1, <2>2, AmountsTyped
  <2> QED
    BY <2>1, <2>3
<1>3. Amounts(PaymentsOf(i)) = Amounts(gone) + Amounts(PaymentsOf(i) \ gone)
  BY <1>2, AmountsSplit
<1>4. PaymentsOf(i)' = PaymentsOf(i) \ gone
  BY DEF PaymentsOf
<1>5. \A y \in Invoice \ {i} : PaymentsOf(y)' = PaymentsOf(y)
  BY DEF PaymentsOf
<1>6. PaidBy(i)' = Amounts(PaymentsOf(i) \ gone)
  BY <1>4 DEF PaidBy, Amounts
<1>7. \A y \in Invoice \ {i} : PaidBy(y)' = PaidBy(y)
  BY <1>5 DEF PaidBy, Amounts
<1> QED
  BY <1>2, <1>3, <1>6, <1>7 DEF PaidBy

\* Payments that are left after some went with their entries still agree with theirs.
LEMMA TakenFollow ==
    ASSUME IInv, NEW gone \in SUBSET payments, payments' = payments \ gone,
           NEW S, Touches(S),
           \A p \in gone : Empty(<<"payment", p.id>>)',
           \A k \in 1..MaxPayment : <<"payment", k>> \in S => \E p \in gone : p.id = k
    PROVE  PaymentsFollow' /\ IsFiniteSet(payments') /\ payments' \subseteq PaymentRow
<1>1. /\ \A p, q \in payments : p.id = q.id => p = q
      /\ \A p \in payments : p.id \in 1..MaxPayment
      /\ \A p \in payments : PaymentFollows(p)
      /\ \A k \in 1..MaxPayment : (\A p \in payments : p.id # k) => Empty(<<"payment", k>>)
  BY PaymentsAre DEF IInv, PaymentsFollow
<1>2. ASSUME NEW p \in payments' PROVE PaymentFollows(p)'
  <2>1. p \in payments /\ \A q \in gone : q.id # p.id
    BY <1>1
  <2>2. entry'[<<"payment", p.id>>] = entry[<<"payment", p.id>>]
    BY <1>1, <2>1, SlotsAre DEF Touches
  <2> QED
    BY <1>1, <2>1, <2>2 DEF PaymentFollows, Carries
<1>3. ASSUME NEW k \in 1..MaxPayment, \A p \in payments' : p.id # k
      PROVE  Empty(<<"payment", k>>)'
  <2>1. CASE \E p \in gone : p.id = k
    BY <2>1
  <2>2. CASE \A p \in gone : p.id # k
    <3>1. \A p \in payments : p.id # k
      BY <1>3, <2>2
    <3>2. entry'[<<"payment", k>>] = entry[<<"payment", k>>]
      BY <2>2, SlotsAre DEF Touches
    <3> QED
      BY <1>1, <3>1, <3>2 DEF Empty
  <2> QED
    BY <2>1, <2>2
<1>4. IsFiniteSet(payments') /\ payments' \subseteq PaymentRow
  BY FS_Subset DEF IInv, Typed, TypeOK
<1>5. \A p, q \in payments' : p.id = q.id => p = q
  BY <1>1
<1> QED
  BY <1>2, <1>3, <1>4, <1>5 DEF PaymentsFollow

\* The invariant after payments of one invoice were reversed, from what is left of it.
LEMMA TakenKeeps ==
    ASSUME IInv, NEW i \in Invoice, invoice[i] # NoRow,
           NEW gone \in SUBSET PaymentsOf(i), payments' = payments \ gone,
           NEW T \in SUBSET InvoiceSlots(i), Touches(T \cup PaymentSlots(gone)),
           \A p \in gone : Empty(<<"payment", p.id>>)',
           NEW row \in InvoiceRow \cup {NoRow}, invoice' = [invoice EXCEPT ![i] = row],
           UNCHANGED <<note, apps, deposit, receipt, closed>>,
           InvoiceFollows(i)', Old(i)' = Old(i),
           PaidOf(i)' = Positive(invoice[i].paid - Amounts(gone))
    PROVE  IInv'
<1> DEFINE S == T \cup PaymentSlots(gone)
<1>1. Typed /\ gone \in SUBSET payments
  BY DEF IInv, PaymentsOf
<1>2. \A x \in PaymentSlots(gone) :
         \E k \in 1..MaxPayment : x = <<"payment", k>> /\ \E p \in gone : p.id = k
  BY <1>1, PaymentSlotsAre
<1>3. \A x \in S : x \in InvoiceSlots(i) \/ \E k \in 1..MaxPayment : x = <<"payment", k>>
  BY <1>2
<1>4. \A k \in 1..MaxPayment : <<"payment", k>> \in S => \E p \in gone : p.id = k
  <2> SUFFICES ASSUME NEW k \in 1..MaxPayment, <<"payment", k>> \in S
               PROVE  \E p \in gone : p.id = k
    OBVIOUS
  <2>1. <<"payment", k>> \notin T
    BY InvoiceSlotsApart
  <2>2. PICK j \in 1..MaxPayment : <<"payment", k>> = <<"payment", j>> /\ \E p \in gone : p.id = j
    BY <1>2, <2>1
  <2> QED
    BY <2>2
<1> HIDE DEF S
<1>5. Touches(S)
  BY DEF S
<1>6. PaymentsFollow' /\ IsFiniteSet(payments') /\ payments' \subseteq PaymentRow
  BY <1>1, <1>4, <1>5, TakenFollow
<1>7. Typed'
  BY <1>5, <1>6 DEF IInv, Typed, TypeOK, Touches
<1>8. /\ Amounts(gone) \in Nat /\ Amounts(gone) <= PaidBy(i)
      /\ PaidBy(i)' = PaidBy(i) - Amounts(gone)
      /\ \A y \in Invoice \ {i} : PaidBy(y)' = PaidBy(y)
  BY TakenSums
<1>9. /\ PaidBy(i) \in Nat /\ Credited(i) \in Nat /\ Old(i) \in Nat
      /\ PaidBy(i) + Credited(i) + Old(i) = invoice[i].paid
  BY PaidParts DEF PaidOf
<1>10. PaidBy(i)' + Credited(i) + Old(i)' = PaidOf(i)'
  BY <1>8, <1>9 DEF Positive
<1>11. \A y \in Invoice \ {i} : invoice'[y] = invoice[y]
  BY DEF IInv, Typed, TypeOK
<1> QED
  BY <1>3, <1>5, <1>6, <1>7, <1>8, <1>10, <1>11, InvoiceStepKeeps

\* An invoice with payments is there.
LEMMA PaidIsThere ==
    ASSUME IInv, NEW i \in Invoice, NEW p \in PaymentsOf(i)
    PROVE  invoice[i] # NoRow
<1>1. p.amount \in Nat \ {0} /\ p.amount <= PaidBy(i)
  BY PaidByTyped, PaymentsAre DEF IInv, PaymentsOf
<1>2. PaidBy(i) # 0
  BY <1>1
<1>3. PaidOf(i) # 0
  BY <1>2, PaidParts
<1> QED
  BY <1>3 DEF PaidOf

\* The newest payment reversed is taken off the paid amount.
LEMMA ReverseKeeps ==
    ASSUME IInv, NEW i \in Invoice, InvoicesReverseLastPayment(i)
    PROVE  IInv'
<1> DEFINE p == Newest(PaymentsOf(i))
           row == Reversed(i, invoice[i], {p})
<1>1. /\ payments' = payments \ {p}
      /\ invoice' = [invoice EXCEPT ![i] = row]
      /\ entry' = Without(PaymentSlots({p}))
      /\ UNCHANGED <<note, apps, deposit, receipt, closed>>
  BY InvoiceIs DEF InvoicesReverseLastPayment
<1>2. p \in PaymentsOf(i)
  <2>1. PaymentsOf(i) # {} /\ PaymentsOf(i) \in SUBSET payments /\ Typed
    BY DEF InvoicesReverseLastPayment, PaymentsOf, IInv
  <2> QED
    BY <2>1, NewestIs
<1> HIDE DEF p
<1>3. Typed /\ {p} \in SUBSET PaymentsOf(i) /\ {p} \in SUBSET payments /\ invoice[i] # NoRow
  BY <1>2, PaidIsThere DEF IInv, PaymentsOf
<1>4. invoice[i] \in InvoiceRow
  BY <1>3, InvoiceIs
<1>5. PaidDown(invoice[i], row, Positive(invoice[i].paid - Amounts({p})))
  BY <1>3, <1>4, ReversedIs
<1> HIDE DEF row
<1>6. /\ row \in InvoiceRow /\ row.date = invoice[i].date /\ row.total = invoice[i].total
      /\ row.writtenOff = invoice[i].writtenOff
      /\ row.paid = Positive(invoice[i].paid - Amounts({p}))
  BY <1>5 DEF PaidDown
<1>7. Touches(PaymentSlots({p})) /\ \A x \in PaymentSlots({p}) : x \in Slot => entry'[x].state = "none"
  BY <1>1, <1>3, WithoutTouches
<1>8. \A q \in {p} : Empty(<<"payment", q.id>>)'
  BY <1>3, <1>7, PaymentSlotsAre, PaymentsAre, SlotsAre DEF Empty
<1>9. \A x \in PaymentSlots({p}) : x \notin InvoiceSlots(i)
  BY <1>3, PaymentSlotsAre DEF InvoiceSlots
<1>10. invoice'[i] = row /\ row # NoRow
  BY <1>1, <1>6, InvoiceIs, RowsAreSome
<1>11. SameInvoice(invoice[i], invoice'[i])
  BY <1>3, <1>6, <1>10 DEF SameInvoice
<1>12. InvoiceFollows(i)' /\ Old(i)' = Old(i)
  BY <1>7, <1>9, <1>11, InvoiceIs, InvoiceKept DEF InvoiceSlots
<1>13. PaidOf(i)' = Positive(invoice[i].paid - Amounts({p}))
  BY <1>6, <1>10 DEF PaidOf
<1>14. {} \in SUBSET InvoiceSlots(i) /\ Touches({} \cup PaymentSlots({p}))
  <2>1. {} \cup PaymentSlots({p}) = PaymentSlots({p})
    OBVIOUS
  <2> QED
    BY <1>7, <2>1
<1> QED
  BY <1>1, <1>3, <1>6, <1>8, <1>12, <1>13, <1>14, TakenKeeps

\* Wherever the three transactions stop, what is left agrees.
LEMMA DeleteWithPaymentsKeeps ==
    ASSUME IInv, NEW i \in Invoice, InvoicesDeleteWithPayments(i)
    PROVE  IInv'
<1> DEFINE back == IF invoice[i].writtenOff > 0 THEN WrittenBack(invoice[i]) ELSE invoice[i]
           banked == \E p \in PaymentsOf(i) : p.deposit # NoRow
           gone == {p \in PaymentsOf(i) :
                       /\ ~banked
                       /\ \A q \in PaymentsOf(i) :
                             NotOlder(q, p) => MayVoid(<<"payment", q.id>>)}
           row == Reversed(i, back, gone)
           deleted == /\ gone = PaymentsOf(i)
                      /\ row.paid = 0
                      /\ MayVoid(<<"invoice", i>>)
           own == {<<"writeoff", i>>} \cup IF deleted THEN {<<"invoice", i>>} ELSE {}
           new == IF deleted THEN NoRow ELSE row
<1>1. /\ invoice[i] # NoRow
      /\ invoice' = [invoice EXCEPT ![i] = new]
      /\ payments' = payments \ gone
      /\ entry' = Without({<<"writeoff", i>>} \cup PaymentSlots(gone)
                          \cup IF deleted THEN {<<"invoice", i>>} ELSE {})
      /\ UNCHANGED <<note, apps, deposit, receipt, closed>>
  BY DEF InvoicesDeleteWithPayments
<1>2. gone \in SUBSET PaymentsOf(i)
  OBVIOUS
<1>3. deleted => gone = PaymentsOf(i) /\ row.paid = 0
  OBVIOUS
<1>4. own \in SUBSET InvoiceSlots(i) /\ <<"writeoff", i>> \in own
      /\ <<"legacy", i>> \notin own /\ (<<"invoice", i>> \in own <=> deleted)
  BY DEF InvoiceSlots
<1>5. entry' = Without(own \cup PaymentSlots(gone))
  <2>1. {<<"writeoff", i>>} \cup PaymentSlots(gone) \cup (IF deleted THEN {<<"invoice", i>>} ELSE {})
        = own \cup PaymentSlots(gone)
    OBVIOUS
  <2> QED
    BY <1>1, <2>1
<1> HIDE DEF gone, deleted, own, row
<1>6. invoice[i] \in InvoiceRow /\ InvoiceFollows(i) /\ Typed /\ gone \in SUBSET payments
  BY <1>1, <1>2, InvoiceIs DEF IInv, PaymentsOf
<1>7. /\ back \in InvoiceRow /\ back.date = invoice[i].date /\ back.total = invoice[i].total
      /\ back.paid = invoice[i].paid /\ back.writtenOff = 0
  <2>1. invoice[i].writtenOff \in Nat
    BY <1>6 DEF InvoiceRow
  <2>2. CASE invoice[i].writtenOff > 0
    BY <1>6, <2>2, WrittenBackIs
  <2>3. CASE ~(invoice[i].writtenOff > 0)
    BY <1>6, <2>1, <2>3
  <2> QED
    BY <2>2, <2>3
<1> HIDE DEF back
<1>8. PaidDown(back, row, Positive(invoice[i].paid - Amounts(gone)))
  BY <1>6, <1>7, ReversedIs DEF row
<1>9. /\ row \in InvoiceRow /\ row # NoRow /\ row.date = invoice[i].date
      /\ row.total = invoice[i].total /\ row.writtenOff = 0
      /\ row.paid = Positive(invoice[i].paid - Amounts(gone))
  BY <1>7, <1>8, RowsAreSome DEF PaidDown
<1>10. Touches(own \cup PaymentSlots(gone))
  BY <1>5, <1>6, WithoutTouches
<1>11. \A x \in own \cup PaymentSlots(gone) : x \in Slot => entry'[x].state = "none"
  BY <1>5, <1>6, WithoutTouches
<1>12. \A p \in gone : Empty(<<"payment", p.id>>)'
  BY <1>6, <1>11, PaymentSlotsAre, PaymentsAre, SlotsAre DEF Empty
<1>13. Empty(<<"writeoff", i>>)' /\ (deleted => Empty(<<"invoice", i>>)')
  BY <1>4, <1>11, SlotsAre DEF Empty
<1>14. \A x \in PaymentSlots(gone) : x \notin InvoiceSlots(i)
  BY <1>6, PaymentSlotsAre DEF InvoiceSlots
<1>15. /\ entry'[<<"legacy", i>>] = entry[<<"legacy", i>>]
       /\ ~deleted => entry'[<<"invoice", i>>] = entry[<<"invoice", i>>]
  <2>1. <<"legacy", i>> \notin PaymentSlots(gone) /\ <<"invoice", i>> \notin PaymentSlots(gone)
    BY <1>14 DEF InvoiceSlots
  <2> QED
    BY <1>4, <1>10, <2>1, SlotsAre DEF Touches
<1>16. invoice'[i] = new /\ new \in InvoiceRow \cup {NoRow}
  BY <1>1, <1>9, InvoiceIs
<1>17. deleted => Empty(<<"legacy", i>>)
  <2> SUFFICES ASSUME deleted PROVE Empty(<<"legacy", i>>)
    OBVIOUS
  <2>1. PaidBy(i) = Amounts(gone)
    BY <1>3 DEF PaidBy
  <2>2. /\ PaidBy(i) \in Nat /\ Credited(i) \in Nat /\ Old(i) \in Nat
        /\ PaidBy(i) + Credited(i) + Old(i) = invoice[i].paid
        /\ Old(i) # 0 <=> ~Empty(<<"legacy", i>>)
    BY <1>1, PaidParts DEF PaidOf
  <2>3. Positive(invoice[i].paid - Amounts(gone)) = 0
    BY <1>3, <1>9
  <2>4. invoice[i].paid - PaidBy(i) = 0
    BY <2>1, <2>2, <2>3 DEF Positive
  <2>5. Old(i) = 0
    BY <2>2, <2>4
  <2> QED
    BY <2>2, <2>5
<1>18. InvoiceFollows(i)' /\ Old(i)' = Old(i)
  <2>1. Old(i)' = Old(i)
    BY <1>15 DEF Old, Empty
  <2>2. CASE deleted
    BY <1>13, <1>15, <1>16, <1>17, <2>1, <2>2 DEF InvoiceFollows, Empty
  <2>3. CASE ~deleted
    <3>1. invoice'[i] = row
      BY <1>16, <2>3
    <3> QED
      BY <1>1, <1>6, <1>9, <1>13, <1>15, <2>1, <2>3, <3>1 DEF InvoiceFollows, Empty, Carries
  <2> QED
    BY <2>2, <2>3
<1>19. PaidOf(i)' = Positive(invoice[i].paid - Amounts(gone))
  <2>1. CASE deleted
    BY <1>3, <1>9, <1>16, <2>1 DEF PaidOf
  <2>2. CASE ~deleted
    BY <1>9, <1>16, <2>2 DEF PaidOf
  <2> QED
    BY <2>1, <2>2
<1> HIDE DEF new
<1> QED
  BY <1>1, <1>2, <1>4, <1>10, <1>12, <1>16, <1>18, <1>19, TakenKeeps

\* The id of a new payment is no other's.
LEMMA NextPaymentIsNew ==
    ASSUME Typed
    PROVE  \A p \in payments : p.id # NextPayment
<1> DEFINE name == [p \in payments |-> p.id]
           ids == {p.id : p \in payments} \cup {0}
<1>1. ids = {name[p] : p \in payments} \cup {0}
  OBVIOUS
<1>2. IsFiniteSet({name[p] : p \in payments})
  <2> HIDE DEF name
  <2> QED
    BY ImageIsFinite DEF Typed
<1>3. IsFiniteSet(ids)
  <2> DEFINE some == {name[p] : p \in payments}
  <2> HIDE DEF some
  <2>1. IsFiniteSet(some \cup {0})
    BY <1>2, FS_AddElement DEF some
  <2> QED
    BY <1>1, <2>1 DEF some
<1>4. ids \in SUBSET Int /\ ids # {}
  BY PaymentsAre, InvoicesAssumption
<1>5. NextPayment = 1 + Max(ids)
  BY DEF NextPayment
<1>6. \A p \in payments : p.id \in ids
  OBVIOUS
<1> HIDE DEF ids
<1>7. Max(ids) \in ids /\ \A y \in ids : Max(ids) >= y
  BY <1>3, <1>4, MaxIs
<1>8. ASSUME NEW p \in payments PROVE p.id # NextPayment
  <2>1. p.id \in Int /\ Max(ids) \in Int /\ Max(ids) >= p.id
    BY <1>4, <1>6, <1>7
  <2> QED
    BY <1>5, <2>1
<1> QED
  BY <1>8

\* A payment is added to the paid amount and has its entry.
LEMMA ReceivePaymentKeeps ==
    ASSUME IInv, NEW i \in Invoice, NEW date \in Day, NEW amount, NEW account \in Money,
           InvoicesReceivePayment(i, date, amount, account)
    PROVE  IInv'
<1> DEFINE k == NextPayment
           p == [id |-> k, invoice |-> i, date |-> date, amount |-> amount,
                 account |-> account, deposit |-> NoRow]
           row == [Settled(invoice[i], invoice[i].paid + amount) EXCEPT !.account = account]
<1>1. /\ invoice[i] # NoRow /\ amount \in 1..Balance(invoice[i]) /\ k \in 1..MaxPayment
      /\ Post(<<"payment", k>>, date, 0 - amount, InUf(account, amount), account = "bank")
      /\ payments' = payments \cup {p}
      /\ UNCHANGED <<note, apps, deposit, receipt, closed>>
  BY DEF InvoicesReceivePayment
<1>2. invoice' = [invoice EXCEPT ![i] = row]
  BY InvoiceIs DEF InvoicesReceivePayment
<1>3. Typed /\ invoice[i] \in InvoiceRow
  BY <1>1, InvoiceIs DEF IInv
<1>4. amount \in Nat \ {0} /\ 0 - amount \in Int /\ InUf(account, amount) \in Int
      /\ (account = "bank") \in BOOLEAN
  BY <1>1, <1>3, BalanceTyped, InUfIsInt
<1>5. /\ p \in PaymentRow /\ p.id = k /\ p.invoice = i /\ p.date = date /\ p.amount = amount
  BY <1>1, <1>4 DEF PaymentRow
<1>6. invoice[i].paid \in Nat /\ invoice[i].paid + amount \in Nat
      /\ account \in Money \cup {"none"}
  BY <1>3, <1>4 DEF InvoiceRow
<1>7. PaidDown(invoice[i], row, invoice[i].paid + amount)
  BY <1>3, <1>6, SettledIs
<1>8. \A q \in payments : q.id # k
  BY <1>3, NextPaymentIsNew
<1> HIDE DEF k, p, row
<1>9. <<"payment", k>> \in Slot
  BY <1>1, SlotsAre
<1>10. /\ Touches({<<"payment", k>>})
       /\ entry'[<<"payment", k>>].state = "posted"
       /\ entry'[<<"payment", k>>].date = date
       /\ entry'[<<"payment", k>>].ar = 0 - amount
  BY <1>1, <1>3, <1>4, <1>9, PostTouches
<1>11. /\ row \in InvoiceRow /\ row # NoRow
       /\ invoice'[i] = row /\ SameInvoice(invoice[i], invoice'[i])
       /\ PaidOf(i)' = invoice[i].paid + amount
  BY <1>1, <1>2, <1>7, InvoiceIs, RowsAreSome DEF PaidDown, SameInvoice, PaidOf
<1>12. InvoiceFollows(i)' /\ Old(i)' = Old(i)
  <2>1. /\ <<"invoice", i>> \notin {<<"payment", k>>} /\ <<"writeoff", i>> \notin {<<"payment", k>>}
        /\ <<"legacy", i>> \notin {<<"payment", k>>}
    OBVIOUS
  <2> QED
    BY <1>10, <1>11, <2>1, InvoiceIs, InvoiceKept
<1>13. Typed'
  <2>1. IsFiniteSet(payments')
    BY <1>1, <1>3, FS_AddElement DEF Typed
  <2>2. invoice' \in [Invoice -> InvoiceRow \cup {NoRow}]
    BY <1>2, <1>3, <1>11 DEF Typed, TypeOK
  <2> QED
    BY <1>1, <1>3, <1>5, <1>10, <2>1, <2>2 DEF Typed, TypeOK, Touches
<1>14. PaymentsFollow'
  <2>1. /\ \A x, y \in payments : x.id = y.id => x = y
        /\ \A q \in payments : PaymentFollows(q) /\ q.id \in 1..MaxPayment
        /\ \A j \in 1..MaxPayment : (\A q \in payments : q.id # j) => Empty(<<"payment", j>>)
    BY <1>3, PaymentsAre DEF IInv, PaymentsFollow
  <2>2. \A x, y \in payments' : x.id = y.id => x = y
    BY <1>1, <1>5, <1>8, <2>1
  <2>3. \A j \in 1..MaxPayment : j # k =>
           entry'[<<"payment", j>>] = entry[<<"payment", j>>]
    BY <1>10, SlotsAre DEF Touches
  <2>4. ASSUME NEW q \in payments' PROVE PaymentFollows(q)'
    <3>1. CASE q = p
      BY <1>5, <1>10, <3>1 DEF PaymentFollows, Carries
    <3>2. CASE q \in payments
      BY <1>8, <2>1, <2>3, <3>2 DEF PaymentFollows, Carries
    <3> QED
      BY <1>1, <3>1, <3>2
  <2>5. ASSUME NEW j \in 1..MaxPayment, \A q \in payments' : q.id # j
        PROVE  Empty(<<"payment", j>>)'
    <3>1. j # k /\ \A q \in payments : q.id # j
      BY <1>1, <1>5, <2>5
    <3> QED
      BY <2>1, <2>3, <3>1 DEF Empty
  <2> QED
    BY <2>2, <2>4, <2>5 DEF PaymentsFollow
<1>15. \A y \in Invoice \ {i} : PaidBy(y)' = PaidBy(y)
  <2>1. \A y \in Invoice \ {i} : PaymentsOf(y)' = PaymentsOf(y)
    BY <1>1, <1>5 DEF PaymentsOf
  <2> QED
    BY <2>1 DEF PaidBy, Amounts
<1>16. PaidBy(i)' = PaidBy(i) + amount
  <2> DEFINE rows == PaymentsOf(i) \cup {p}
  <2>1. PaymentsOf(i)' = rows
    BY <1>1, <1>5 DEF PaymentsOf
  <2>2. PaidBy(i)' = Amounts(rows)
    BY <2>1 DEF PaidBy, Amounts
  <2>3. p \notin PaymentsOf(i)
    BY <1>5, <1>8 DEF PaymentsOf
  <2>4. /\ IsFiniteSet(PaymentsOf(i)) /\ \A r \in PaymentsOf(i) : r.amount \in Nat
    <3>1. PaymentsOf(i) \in SUBSET payments
      BY DEF PaymentsOf
    <3> QED
      BY <1>3, <3>1, AmountsTyped
  <2>5. /\ IsFiniteSet(rows) /\ \A r \in rows : r.amount \in Int
        /\ {p} \in SUBSET rows /\ rows \ {p} = PaymentsOf(i)
    BY <1>4, <1>5, <2>3, <2>4, FS_AddElement
  <2> HIDE DEF rows
  <2>6. Amounts(rows) = Amounts({p}) + Amounts(rows \ {p})
    BY <2>5, AmountsSplit
  <2>7. Amounts({p}) = amount
    <3>1. p.amount \in Int
      BY <1>4, <1>5
    <3> QED
      BY <1>5, <3>1, AmountsOfOne
  <2>8. PaidBy(i) \in Nat /\ PaidBy(i) = Amounts(PaymentsOf(i))
    BY <1>3, PaidByTyped DEF PaidBy
  <2> QED
    BY <1>4, <2>2, <2>5, <2>6, <2>7, <2>8
<1>17. PaidBy(i)' + Credited(i) + Old(i)' = PaidOf(i)'
  <2>1. /\ PaidBy(i) \in Nat /\ Credited(i) \in Nat /\ Old(i) \in Nat
        /\ PaidBy(i) + Credited(i) + Old(i) = invoice[i].paid
    BY <1>1, PaidParts DEF PaidOf
  <2> QED
    BY <1>4, <1>6, <1>11, <1>12, <1>16, <2>1
<1>18. \A y \in Invoice \ {i} : invoice'[y] = invoice[y]
  BY <1>2, <1>3 DEF Typed, TypeOK
<1>19. \A x \in {<<"payment", k>>} :
          x \in InvoiceSlots(i) \/ \E j \in 1..MaxPayment : x = <<"payment", j>>
  BY <1>1
<1> QED
  BY <1>1, <1>10, <1>12, <1>13, <1>14, <1>15, <1>17, <1>18, <1>19, InvoiceStepKeeps


-----------------------------------------------------------------------------
(* Credit notes *)

\* One credit note, as the invariant has it.
LEMMA NoteIs ==
    ASSUME IInv, NEW n \in Note
    PROVE  /\ note[n] \in NoteRow \cup {NoRow}
           /\ NoteFollows(n)
           /\ DOMAIN note = Note
           /\ \A row : note' = [note EXCEPT ![n] = row] => note'[n] = row
           /\ note[n] \in NoteRow => /\ note[n].total \in Nat \ {0} /\ note[n].applied \in Nat
                                     /\ note[n].date \in Day
<1>1. note[n] \in NoteRow \cup {NoRow}
  BY DEF IInv, Typed, TypeOK
<1>2. note[n] \in NoteRow => /\ note[n].total \in Amount /\ note[n].applied \in Nat
                             /\ note[n].date \in Day
  BY DEF NoteRow
<1>3. /\ NoteFollows(n)
      /\ DOMAIN note = Note
      /\ \A row : note' = [note EXCEPT ![n] = row] => note'[n] = row
  BY DEF IInv, Typed, TypeOK, NotesFollow
<1> QED
  BY <1>1, <1>2, <1>3, TotalsAre

\* No entry of an invoice or a payment is touched, and no invoice.
LEMMA InvoicesSame ==
    ASSUME IInv, NEW S, Touches(S), invoice' = invoice,
           \A i \in Invoice : /\ <<"invoice", i>> \notin S
                              /\ <<"writeoff", i>> \notin S
                              /\ <<"legacy", i>> \notin S
    PROVE  InvoicesFollow' /\ \A i \in Invoice : Old(i)' = Old(i)
<1>1. ASSUME NEW i \in Invoice PROVE InvoiceFollows(i)' /\ Old(i)' = Old(i)
  <2>1. SameInvoice(invoice[i], invoice'[i])
    BY DEF SameInvoice
  <2> QED
    BY <2>1, InvoiceIs, InvoiceKept
<1> QED
  BY <1>1 DEF InvoicesFollow

\* With invoices, payments and applications what they were, so is what was paid.
LEMMA PaidSame ==
    ASSUME IInv, UNCHANGED <<payments, apps>>,
           \A i \in Invoice : PaidOf(i)' = PaidOf(i) /\ Old(i)' = Old(i)
    PROVE  PaidFollows'
<1>1. ASSUME NEW i \in Invoice PROVE PaidBy(i)' + Credited(i)' + Old(i)' = PaidOf(i)'
  <2>1. PaidBy(i)' = PaidBy(i) /\ Credited(i)' = Credited(i)
    BY PaidBySame, CreditedSame
  <2>2. PaidBy(i) + Credited(i) + Old(i) = PaidOf(i)
    BY DEF IInv, PaidFollows
  <2> QED
    BY <2>1, <2>2
<1> QED
  BY <1>1 DEF PaidFollows

NoteSlots(n) == {<<"note", n>>, <<"refund", n>>}

\* A step of a credit note alone: no application of it comes or goes.
LEMMA NoteAloneKeeps ==
    ASSUME IInv, NEW n \in Note, NEW S \in SUBSET NoteSlots(n), Touches(S),
           NEW row \in NoteRow \cup {NoRow}, note' = [note EXCEPT ![n] = row],
           UNCHANGED <<invoice, payments, apps, deposit, receipt, closed>>,
           NoteFollows(n)', AppliedOf(n)' = AppliedOf(n)
    PROVE  IInv'
<1>1. /\ \A k \in 1..MaxPayment : <<"payment", k>> \notin S
      /\ \A d \in Deposit : <<"deposit", d>> \notin S
      /\ \A r \in Receipt : <<"receipt", r>> \notin S
      /\ \A i \in Invoice : /\ <<"invoice", i>> \notin S
                            /\ <<"writeoff", i>> \notin S
                            /\ <<"legacy", i>> \notin S
      /\ \A y \in Note \ {n} : <<"note", y>> \notin S /\ <<"refund", y>> \notin S
  BY DEF NoteSlots
<1>2. Typed'
  BY DEF IInv, Typed, TypeOK, Touches
<1>3. PaymentsFollow' /\ DepositsFollow' /\ ReceiptsFollow'
  BY <1>1, PaymentsAside, DepositsAside, ReceiptsSame DEF IInv
<1>4. InvoicesFollow' /\ \A i \in Invoice : Old(i)' = Old(i)
  BY <1>1, InvoicesSame
<1>5. \A y \in Note \ {n} : note'[y] = note[y]
  BY NoteIs
<1>6. NotesFollow'
  <2>1. ASSUME NEW y \in Note \ {n} PROVE NoteFollows(y)'
    <3>1. /\ entry'[<<"note", y>>] = entry[<<"note", y>>]
          /\ entry'[<<"refund", y>>] = entry[<<"refund", y>>]
      BY <1>1, SlotsAre DEF Touches
    <3>2. NoteFollows(y)
      BY NoteIs
    <3> QED
      BY <1>5, <3>1, <3>2 DEF NoteFollows, Carries, Empty
  <2> QED
    BY <2>1 DEF NotesFollow
<1>7. PaidFollows'
  <2>1. \A i \in Invoice : PaidOf(i)' = PaidOf(i)
    BY DEF PaidOf
  <2> QED
    BY <1>4, <2>1, PaidSame
<1>8. AppliedFollows'
  <2>1. \A y \in Note : AppliedOf(y)' = AppliedOf(y)
    BY <1>5 DEF AppliedOf
  <2> QED
    BY <2>1, AppliedSame DEF IInv
<1> QED
  BY <1>2, <1>3, <1>4, <1>6, <1>7, <1>8 DEF IInv

\* A new credit note has its entry.
LEMMA NoteCreateKeeps ==
    ASSUME IInv, NEW n \in Note, NEW date \in Day, NEW total \in Amount,
           CreditNotesCreate(n, date, total)
    PROVE  IInv'
<1> DEFINE row == [date |-> date, total |-> total, applied |-> 0, status |-> "open"]
<1>1. /\ row \in NoteRow /\ row.date = date /\ row.total = total
      /\ row.applied = 0 /\ row.status = "open"
  BY DEF NoteRow
<1>2. /\ note[n] = NoRow /\ note' = [note EXCEPT ![n] = row]
      /\ Post(<<"note", n>>, date, 0 - total, 0, FALSE)
      /\ UNCHANGED <<invoice, payments, apps, deposit, receipt, closed>>
  BY DEF CreditNotesCreate
<1> HIDE DEF row
<1>3. 0 - total \in Int
  BY TotalsAre
<1>4. /\ Touches({<<"note", n>>})
      /\ entry'[<<"note", n>>].state = "posted"
      /\ entry'[<<"note", n>>].date = date
      /\ entry'[<<"note", n>>].ar = 0 - total
  BY <1>2, <1>3, PostTouches, SlotsAre, PlainEntry, Zenon
<1>5. entry'[<<"refund", n>>] = entry[<<"refund", n>>]
  BY <1>4, SlotsAre DEF Touches
<1>6. note'[n] = row /\ row # NoRow
  BY <1>1, <1>2, NoteIs, RowsAreSome
<1>7. NoteFollows(n)' /\ AppliedOf(n)' = AppliedOf(n)
  <2>1. Empty(<<"refund", n>>)
    BY <1>2, NoteIs DEF NoteFollows
  <2> QED
    BY <1>1, <1>2, <1>4, <1>5, <1>6, <2>1 DEF NoteFollows, AppliedOf, Carries, Empty
<1>8. {<<"note", n>>} \in SUBSET NoteSlots(n)
  BY DEF NoteSlots
<1> QED
  BY <1>1, <1>2, <1>4, <1>7, <1>8, NoteAloneKeeps

\* A refund has an entry of what was left of the note.
LEMMA RefundKeeps ==
    ASSUME IInv, NEW n \in Note, NEW date \in Day, CreditNotesRefund(n, date)
    PROVE  IInv'
<1> DEFINE left == Remaining(note[n])
           row == [note[n] EXCEPT !.status = "refunded"]
<1>0. note[n] # NoRow /\ left > 0
  BY DEF CreditNotesRefund
<1>1. note[n] \in NoteRow /\ note[n].total \in Int /\ note[n].applied \in Int
  BY <1>0, NoteIs
<1>2. left = note[n].total - note[n].applied /\ left \in Int
  BY <1>0, <1>1 DEF Remaining, Positive
<1>3. note' = [note EXCEPT ![n] = row]
  BY <1>1, NoteIs DEF CreditNotesRefund, NoteRow
<1>4. /\ Post(<<"refund", n>>, date, left, 0, TRUE)
      /\ UNCHANGED <<invoice, payments, apps, deposit, receipt, closed>>
  BY DEF CreditNotesRefund
<1> HIDE DEF left
<1>5. /\ row \in NoteRow /\ row.date = note[n].date /\ row.total = note[n].total
      /\ row.applied = note[n].applied /\ row.status = "refunded"
  BY <1>1 DEF NoteRow
<1> HIDE DEF row
<1>6. /\ Touches({<<"refund", n>>})
      /\ entry'[<<"refund", n>>].state = "posted"
      /\ entry'[<<"refund", n>>].ar = left
  <2> DEFINE slot == <<"refund", n>>
  <2>1. slot \in Slot /\ Typed
    BY SlotsAre, PlainEntry
  <2>2. Post(slot, date, left, 0, TRUE)
    BY <1>4
  <2> HIDE DEF slot
  <2>3. /\ Touches({slot}) /\ entry'[slot].state = "posted" /\ entry'[slot].ar = left
    BY <1>2, <2>1, <2>2, PaidOutTouches
  <2> QED
    BY <2>3 DEF slot
<1>7. entry'[<<"note", n>>] = entry[<<"note", n>>]
  BY <1>6, SlotsAre DEF Touches
<1>8. note'[n] = row /\ row # NoRow
  BY <1>3, <1>5, NoteIs, RowsAreSome
<1>9. NoteFollows(n)' /\ AppliedOf(n)' = AppliedOf(n)
  <2>1. Carries(<<"note", n>>, note[n].date, 0 - note[n].total)
    BY <1>0, NoteIs DEF NoteFollows
  <2> QED
    BY <1>0, <1>2, <1>5, <1>6, <1>7, <1>8, <2>1 DEF NoteFollows, AppliedOf, Carries
<1>10. {<<"refund", n>>} \in SUBSET NoteSlots(n)
  BY DEF NoteSlots
<1> QED
  BY <1>3, <1>4, <1>5, <1>6, <1>9, <1>10, NoteAloneKeeps

\* A refund undone goes with its entry.
LEMMA UndoRefundKeeps ==
    ASSUME IInv, NEW n \in Note, UndoRefund(n)
    PROVE  IInv'
<1> DEFINE row == [note[n] EXCEPT !.status = "open"]
<1>0. note[n] # NoRow
  BY DEF UndoRefund
<1>1. note[n] \in NoteRow
  BY <1>0, NoteIs
<1>2. note' = [note EXCEPT ![n] = row]
  BY <1>1, NoteIs DEF UndoRefund, NoteRow
<1>3. /\ entry' = Without({<<"refund", n>>})
      /\ UNCHANGED <<invoice, payments, apps, deposit, receipt, closed>>
  BY DEF UndoRefund
<1>4. /\ row \in NoteRow /\ row.date = note[n].date /\ row.total = note[n].total
      /\ row.applied = note[n].applied /\ row.status = "open"
  BY <1>1 DEF NoteRow
<1> HIDE DEF row
<1>5. Touches({<<"refund", n>>}) /\ Empty(<<"refund", n>>)'
  BY <1>3, WithoutTouches, SlotsAre DEF IInv, Empty
<1>6. entry'[<<"note", n>>] = entry[<<"note", n>>]
  BY <1>5, SlotsAre DEF Touches
<1>7. note'[n] = row /\ row # NoRow
  BY <1>2, <1>4, NoteIs, RowsAreSome
<1>8. NoteFollows(n)' /\ AppliedOf(n)' = AppliedOf(n)
  <2>1. Carries(<<"note", n>>, note[n].date, 0 - note[n].total)
    BY <1>0, NoteIs DEF NoteFollows
  <2> QED
    BY <1>0, <1>4, <1>5, <1>6, <1>7, <2>1 DEF NoteFollows, AppliedOf, Carries
<1>9. {<<"refund", n>>} \in SUBSET NoteSlots(n)
  BY DEF NoteSlots
<1> QED
  BY <1>2, <1>3, <1>4, <1>5, <1>8, <1>9, NoteAloneKeeps

\* A deleted credit note had nothing applied of it and leaves no entry.
LEMMA NoteDeleteKeeps ==
    ASSUME IInv, NEW n \in Note, CreditNotesDelete(n)
    PROVE  IInv'
<1>0. note[n] # NoRow /\ note[n].status = "open" /\ note[n].applied = 0
  BY DEF CreditNotesDelete
<1>1. /\ note' = [note EXCEPT ![n] = NoRow]
      /\ entry' = Without({<<"note", n>>})
      /\ UNCHANGED <<invoice, payments, apps, deposit, receipt, closed>>
  BY DEF CreditNotesDelete
<1>2. Touches({<<"note", n>>}) /\ Empty(<<"note", n>>)'
  BY <1>1, WithoutTouches, SlotsAre DEF IInv, Empty
<1>3. entry'[<<"refund", n>>] = entry[<<"refund", n>>]
  BY <1>2, SlotsAre DEF Touches
<1>4. note'[n] = NoRow
  BY <1>1, NoteIs
<1>5. NoteFollows(n)' /\ AppliedOf(n)' = AppliedOf(n)
  <2>1. Empty(<<"refund", n>>)
    BY <1>0, NoteIs DEF NoteFollows
  <2> QED
    BY <1>0, <1>2, <1>3, <1>4, <2>1 DEF NoteFollows, AppliedOf, Empty
<1>6. {<<"note", n>>} \in SUBSET NoteSlots(n)
  BY DEF NoteSlots
<1> QED
  BY <1>1, <1>2, <1>5, <1>6, NoteAloneKeeps

\* One note's applications change: what is credited to an invoice changes as much.
LEMMA CreditedChange ==
    ASSUME Typed, Typed', NEW n \in Note, \A y \in Note \ {n} : apps'[y] = apps[y], NEW i
    PROVE  Credited(i)' = Credited(i) - AppliedTo(n, i) + AppliedTo(n, i)'
<1> DEFINE f == [y \in Note |-> AppliedTo(y, i)]
           g == [y \in Note |-> AppliedTo(y, i)']
<1>1. \A y \in Note : AppliedTo(y, i) \in Nat /\ AppliedTo(y, i)' \in Nat
  <2>1. ASSUME NEW y \in Note PROVE AppliedTo(y, i) \in Nat /\ AppliedTo(y, i)' \in Nat
    <3>1. AppliedTo(y, i) \in Nat
      BY AppliedTyped
    <3>2. apps'[y] \in Seq(Application) /\ \A x \in Application : x.amount \in Nat
      BY DEF Typed, TypeOK, Application
    <3>3. AppliedTo(y, i)' = SumFunction(AmountsFor(apps'[y], i))
      BY DEF AppliedTo, AmountsFor
    <3>4. SumFunction(AmountsFor(apps'[y], i)) \in Nat
      BY <3>2, AmountsAreNat
    <3> QED
      BY <3>1, <3>3, <3>4
  <2> QED
    BY <2>1
<1>2. \A y \in Note \ {n} : AppliedTo(y, i)' = AppliedTo(y, i)
  BY DEF AppliedTo
<1>3. /\ DOMAIN f = Note /\ DOMAIN g = Note
      /\ \A y \in Note : f[y] = AppliedTo(y, i) /\ g[y] = AppliedTo(y, i)'
  OBVIOUS
<1>4. Credited(i) = SumFunction(f) /\ Credited(i)' = SumFunction(g)
  BY DEF Credited
<1> HIDE DEF f, g
<1>5. IntOn(f, Note) /\ IntOn(g, Note) /\ \A y \in Note \ {n} : f[y] = g[y]
  BY <1>1, <1>2, <1>3 DEF IntOn
<1>6. SumFunction(g) = SumFunction(f) - f[n] + g[n]
  BY <1>3, <1>5, IdsAreFinite, TableChange
<1> QED
  BY <1>3, <1>4, <1>6

\* Credit moves between a note and an invoice.
LEMMA CreditMoves ==
    ASSUME IInv, Typed', NEW n \in Note, NEW i \in Invoice,
           UNCHANGED <<payments, deposit, receipt, entry, closed>>,
           \A y \in Note \ {n} : note'[y] = note[y] /\ apps'[y] = apps[y],
           \A y \in Invoice \ {i} : invoice'[y] = invoice[y],
           SameInvoice(invoice[i], invoice'[i]), NoteFollows(n)',
           \A y \in Invoice \ {i} : AppliedTo(n, y)' = AppliedTo(n, y),
           NEW delta \in Int,
           AppliedTo(n, i)' = AppliedTo(n, i) + delta,
           PaidOf(i)' = PaidOf(i) + delta,
           AllApplied(n)' = AllApplied(n) + delta,
           AppliedOf(n)' = AppliedOf(n) + delta
    PROVE  IInv'
<1>1. Typed /\ Touches({})
  BY SameTouches DEF IInv
<1>2. PaymentsFollow' /\ DepositsFollow' /\ ReceiptsFollow'
  BY <1>1, PaymentsAside, DepositsAside, ReceiptsSame DEF IInv
<1>3. InvoicesFollow' /\ \A y \in Invoice : Old(y)' = Old(y)
  <2>1. ASSUME NEW y \in Invoice PROVE InvoiceFollows(y)' /\ Old(y)' = Old(y)
    <3>1. SameInvoice(invoice[y], invoice'[y])
      BY DEF SameInvoice
    <3>2. InvoiceFollows(y)
      BY InvoiceIs
    <3> QED
      BY <3>1, <3>2 DEF InvoiceFollows, Carries, Empty, SameInvoice, Old
  <2> QED
    BY <2>1 DEF InvoicesFollow
<1>4. NotesFollow'
  <2>1. ASSUME NEW y \in Note \ {n} PROVE NoteFollows(y)'
    <3>1. NoteFollows(y)
      BY NoteIs
    <3> QED
      BY <3>1 DEF NoteFollows, Carries, Empty
  <2> QED
    BY <2>1 DEF NotesFollow
<1>5. PaidFollows'
  <2>1. ASSUME NEW y \in Invoice PROVE PaidBy(y)' + Credited(y)' + Old(y)' = PaidOf(y)'
    <3>1. PaidBy(y)' = PaidBy(y) /\ Old(y)' = Old(y)
      BY <1>3, PaidBySame
    <3>2. Credited(y)' = Credited(y) - AppliedTo(n, y) + AppliedTo(n, y)'
      BY <1>1, CreditedChange
    <3>3. /\ PaidBy(y) \in Nat /\ Credited(y) \in Nat /\ Old(y) \in Nat
          /\ PaidBy(y) + Credited(y) + Old(y) = PaidOf(y) /\ AppliedTo(n, y) \in Nat
      BY <1>1, PaidParts, AppliedTyped
    <3>4. CASE y = i
      BY <3>1, <3>2, <3>3, <3>4
    <3>5. CASE y # i
      <4>1. PaidOf(y)' = PaidOf(y) /\ AppliedTo(n, y)' = AppliedTo(n, y)
        BY <3>5 DEF PaidOf
      <4> QED
        BY <3>1, <3>2, <3>3, <4>1
    <3> QED
      BY <3>4, <3>5
  <2> QED
    BY <2>1 DEF PaidFollows
<1>6. AppliedFollows'
  <2>1. ASSUME NEW y \in Note PROVE AllApplied(y)' = AppliedOf(y)'
    <3>1. AllApplied(y) = AppliedOf(y) /\ AllApplied(n) = AppliedOf(n)
      BY DEF IInv, AppliedFollows
    <3>2. CASE y = n
      BY <3>1, <3>2
    <3>3. CASE y # n
      <4>1. AllApplied(y)' = AllApplied(y) /\ AppliedOf(y)' = AppliedOf(y)
        BY <3>3 DEF AllApplied, AppliedOf
      <4> QED
        BY <3>1, <4>1
    <3> QED
      BY <3>2, <3>3
  <2> QED
    BY <2>1 DEF AppliedFollows
<1> QED
  BY <1>2, <1>3, <1>4, <1>5, <1>6 DEF IInv

\* The columns of an application.
LEMMA ApplicationAmounts == \A x \in Application : x.amount \in Nat /\ x.target \in Invoice
BY DEF Application

\* What an application appended to a note's adds.
LEMMA ApplicationAdds ==
    ASSUME NEW s \in Seq(Application), NEW x \in Application, NEW y
    PROVE  /\ SumFunction(AmountsFor(Append(s, x), y))
              = SumFunction(AmountsFor(s, y)) + (IF x.target = y THEN x.amount ELSE 0)
           /\ SumFunction(AmountsIn(Append(s, x))) = SumFunction(AmountsIn(s)) + x.amount
           /\ SumFunction(AmountsFor(s, y)) \in Nat
           /\ SumFunction(AmountsIn(s)) \in Nat
BY ApplicationAmounts, AmountsAdd

\* What was applied of a note, as the invariant has it.
LEMMA AppliedIs ==
    ASSUME NEW n
    PROVE  /\ \A y : AppliedTo(n, y) = SumFunction(AmountsFor(apps[n], y))
           /\ \A y : AppliedTo(n, y)' = SumFunction(AmountsFor(apps'[n], y))
           /\ AllApplied(n) = SumFunction(AmountsIn(apps[n]))
           /\ AllApplied(n)' = SumFunction(AmountsIn(apps'[n]))
BY DEF AppliedTo, AmountsFor, AllApplied, AmountsIn

\* Credit applied is added to the paid amount and to what the note says was applied.
LEMMA ApplyKeeps ==
    ASSUME IInv, NEW n \in Note, NEW i \in Invoice, NEW amount \in Cents,
           CreditNotesApply(n, i, amount)
    PROVE  IInv'
<1> DEFINE new == [target |-> i, amount |-> amount]
           row == Settled(invoice[i], invoice[i].paid + amount)
<1>0. /\ note[n] # NoRow /\ invoice[i] # NoRow /\ note[n].status # "refunded"
      /\ amount \in 1..Remaining(note[n])
      /\ apps' = [apps EXCEPT ![n] = Append(apps[n], new)]
      /\ UNCHANGED <<payments, deposit, receipt, entry, closed>>
  BY DEF CreditNotesApply, IInv, Typed, TypeOK
<1>1. /\ note[n] \in NoteRow /\ note[n].total \in Nat /\ note[n].applied \in Nat
      /\ invoice[i] \in InvoiceRow /\ invoice[i].paid \in Nat /\ Typed
  BY <1>0, NoteIs, InvoiceIs DEF InvoiceRow, IInv
<1>2. amount \in Nat \ {0}
  <2>1. Remaining(note[n]) \in Nat
    BY <1>1, PositiveIsNat DEF Remaining
  <2> QED
    BY <1>0, <2>1
<1>3. new \in Application /\ new.target = i /\ new.amount = amount
  BY <1>2 DEF Application
<1>4. invoice' = [invoice EXCEPT ![i] = row]
  BY InvoiceIs DEF CreditNotesApply
<1>5. PaidDown(invoice[i], row, invoice[i].paid + amount)
  <2>1. invoice[i].paid + amount \in Nat /\ "none" \in Money \cup {"none"}
    BY <1>1, <1>2
  <2> QED
    BY <1>1, <2>1, SettledIs
<1> HIDE DEF new, row
<1>6. PICK status \in {"applied", "open"} :
          note'[n] = [note[n] EXCEPT !.applied = note[n].applied + amount, !.status = status]
  BY <1>1, NoteIs DEF CreditNotesApply, NoteRow
<1>7. \A y \in Note \ {n} : note'[y] = note[y]
  BY NoteIs DEF CreditNotesApply
<1>8. DOMAIN note' = Note
  BY NoteIs DEF CreditNotesApply
<1>9. /\ note'[n] \in NoteRow /\ note'[n].date = note[n].date
      /\ note'[n].total = note[n].total /\ note'[n].applied = note[n].applied + amount
      /\ note'[n].status # "refunded"
  <2>1. note[n].applied + amount \in Nat /\ status # "refunded"
    BY <1>1, <1>2
  <2> QED
    BY <1>1, <1>6, <2>1 DEF NoteRow
<1>10. note' \in [Note -> NoteRow \cup {NoRow}]
  <2>1. \A y \in Note : note'[y] \in NoteRow \cup {NoRow}
    BY <1>7, <1>9, NoteIs
  <2>2. note' = [y \in Note |-> note'[y]]
    BY NoteIs DEF CreditNotesApply
  <2> QED
    BY <2>1, <2>2
<1>11. /\ row \in InvoiceRow /\ row # NoRow /\ invoice'[i] = row
       /\ SameInvoice(invoice[i], invoice'[i])
       /\ PaidOf(i)' = PaidOf(i) + amount
  BY <1>0, <1>4, <1>5, InvoiceIs, RowsAreSome DEF PaidDown, SameInvoice, PaidOf
<1>12. apps[n] \in Seq(Application) /\ apps'[n] = Append(apps[n], new)
       /\ \A y \in Note \ {n} : apps'[y] = apps[y]
  BY <1>0, <1>1 DEF Typed, TypeOK
<1>13. Typed'
  <2>1. Append(apps[n], new) \in Seq(Application)
    BY <1>3, <1>12
  <2>2. apps' \in [Note -> Seq(Application)]
    BY <1>0, <1>1, <2>1 DEF Typed, TypeOK
  <2>3. invoice' \in [Invoice -> InvoiceRow \cup {NoRow}]
    BY <1>1, <1>4, <1>11 DEF Typed, TypeOK
  <2> QED
    BY <1>0, <1>1, <1>10, <2>2, <2>3 DEF Typed, TypeOK
<1>14. NoteFollows(n)' /\ AppliedOf(n)' = AppliedOf(n) + amount
  <2>1. Carries(<<"note", n>>, note[n].date, 0 - note[n].total) /\ Empty(<<"refund", n>>)
    BY <1>0, NoteIs DEF NoteFollows
  <2>2. note'[n] # NoRow
    BY <1>9, RowsAreSome
  <2> QED
    BY <1>0, <1>9, <2>1, <2>2 DEF NoteFollows, AppliedOf, Carries, Empty
<1>15. ASSUME NEW y
       PROVE  AppliedTo(n, y)' = AppliedTo(n, y) + (IF y = i THEN amount ELSE 0)
              /\ AppliedTo(n, y) \in Nat
  <2>1. /\ SumFunction(AmountsFor(Append(apps[n], new), y))
           = SumFunction(AmountsFor(apps[n], y)) + (IF new.target = y THEN new.amount ELSE 0)
        /\ SumFunction(AmountsFor(apps[n], y)) \in Nat
    BY <1>3, <1>12, ApplicationAdds
  <2>2. /\ AppliedTo(n, y) = SumFunction(AmountsFor(apps[n], y))
        /\ AppliedTo(n, y)' = SumFunction(AmountsFor(apps'[n], y))
    BY AppliedIs
  <2> QED
    BY <1>3, <1>12, <2>1, <2>2
<1>16. AllApplied(n)' = AllApplied(n) + amount
  <2>1. SumFunction(AmountsIn(Append(apps[n], new))) = SumFunction(AmountsIn(apps[n])) + new.amount
    BY <1>3, <1>12, ApplicationAdds
  <2> QED
    BY <1>3, <1>12, <2>1, AppliedIs
<1>17. \A y \in Invoice \ {i} : AppliedTo(n, y)' = AppliedTo(n, y)
  <2>1. ASSUME NEW y \in Invoice \ {i} PROVE AppliedTo(n, y)' = AppliedTo(n, y)
    <3>1. AppliedTo(n, y)' = AppliedTo(n, y) + 0 /\ AppliedTo(n, y) \in Nat
      BY <1>15
    <3> QED
      BY <3>1
  <2> QED
    BY <2>1
<1>18. AppliedTo(n, i)' = AppliedTo(n, i) + amount
  BY <1>15
<1>19. \A y \in Note \ {n} : note'[y] = note[y] /\ apps'[y] = apps[y]
  BY <1>7, <1>12
<1>20. \A y \in Invoice \ {i} : invoice'[y] = invoice[y]
  BY <1>4, InvoiceIs
<1>21. amount \in Int
  BY <1>2
<1> QED
  BY <1>0, <1>11, <1>13, <1>14, <1>16, <1>17, <1>18, <1>19, <1>20, <1>21, CreditMoves

\* Taking the newest application away is the reverse.
LEMMA LastIsAppended ==
    ASSUME NEW s \in Seq(Application), s # <<>>
    PROVE  /\ SubSeq(s, 1, Len(s) - 1) \in Seq(Application)
           /\ s[Len(s)] \in Application
           /\ s = Append(SubSeq(s, 1, Len(s) - 1), s[Len(s)])
OBVIOUS

\* The newest application taken back is taken off both.
LEMMA UnapplyKeeps ==
    ASSUME IInv, NEW n \in Note, Unapply(n)
    PROVE  IInv'
<1>1. Typed /\ apps[n] \in Seq(Application)
  BY DEF IInv, Typed, TypeOK
<1>2. PICK rest \in Seq(Application), last \in Application :
          /\ apps[n] = Append(rest, last)
          /\ apps' = [apps EXCEPT ![n] = rest]
          /\ invoice[last.target] # NoRow
          /\ invoice' = [invoice EXCEPT ![last.target] =
                 [Settled(@, Positive(@.paid - last.amount)) EXCEPT
                     !.account = AccountAfter(PaymentsOf(last.target))]]
          /\ note' = [note EXCEPT ![n].applied = Positive(@ - last.amount), ![n].status = "open"]
  <2> DEFINE last == apps[n][Len(apps[n])]
             rest == SubSeq(apps[n], 1, Len(apps[n]) - 1)
  <2>1. rest \in Seq(Application) /\ last \in Application /\ apps[n] = Append(rest, last)
    BY <1>1, LastIsAppended DEF Unapply
  <2>2. /\ apps' = [apps EXCEPT ![n] = rest]
        /\ invoice[last.target] # NoRow
        /\ invoice' = [invoice EXCEPT ![last.target] =
               [Settled(@, Positive(@.paid - last.amount)) EXCEPT
                   !.account = AccountAfter(PaymentsOf(last.target))]]
        /\ note' = [note EXCEPT ![n].applied = Positive(@ - last.amount), ![n].status = "open"]
    BY <1>1 DEF Unapply, Typed, TypeOK
  <2> HIDE DEF last, rest
  <2> QED
    BY <2>1, <2>2
<1> DEFINE i == last.target
           amount == last.amount
           row == [Settled(invoice[i], Positive(invoice[i].paid - amount)) EXCEPT
                      !.account = AccountAfter(PaymentsOf(i))]
<1>0. /\ note[n] # NoRow /\ note[n].status # "refunded" /\ invoice[i] # NoRow
      /\ UNCHANGED <<payments, deposit, receipt, entry, closed>>
  BY <1>2 DEF Unapply
<1>3. i \in Invoice /\ amount \in Nat
  BY ApplicationAmounts
<1>4. invoice' = [invoice EXCEPT ![i] = row]
  BY <1>2, <1>3, InvoiceIs
<1>5. note' = [note EXCEPT ![n].applied = Positive(@ - amount), ![n].status = "open"]
  BY <1>2
<1>6. last.target = i /\ last.amount = amount
  OBVIOUS
<1> HIDE DEF i, amount
<1>7. /\ note[n] \in NoteRow /\ note[n].total \in Nat /\ note[n].applied \in Nat
      /\ invoice[i] \in InvoiceRow /\ invoice[i].paid \in Nat
  BY <1>0, <1>3, NoteIs, InvoiceIs DEF InvoiceRow
<1>8. PaidDown(invoice[i], row, Positive(invoice[i].paid - amount))
  <2>1. invoice[i].paid - amount \in Int
    BY <1>3, <1>7
  <2>2. Positive(invoice[i].paid - amount) \in Nat
    BY <2>1, PositiveIsNat
  <2>3. AccountAfter(PaymentsOf(i)) \in Money \cup {"none"}
    BY <1>1, AccountAfterIs DEF PaymentsOf
  <2> QED
    BY <1>7, <2>2, <2>3, SettledIs
<1> HIDE DEF row
<1>9. /\ apps'[n] = rest /\ \A y \in Note \ {n} : apps'[y] = apps[y]
  BY <1>1, <1>2 DEF Typed, TypeOK
<1>10. ASSUME NEW y
       PROVE  /\ AppliedTo(n, y) = AppliedTo(n, y)' + (IF y = i THEN amount ELSE 0)
              /\ AppliedTo(n, y)' \in Nat
  <2>1. /\ SumFunction(AmountsFor(rest, y)) \in Nat
        /\ SumFunction(AmountsFor(Append(rest, last), y))
           = SumFunction(AmountsFor(rest, y)) + (IF last.target = y THEN last.amount ELSE 0)
    BY <1>2, ApplicationAdds
  <2>2. /\ AppliedTo(n, y) = SumFunction(AmountsFor(apps[n], y))
        /\ AppliedTo(n, y)' = SumFunction(AmountsFor(apps'[n], y))
    BY AppliedIs
  <2> QED
    BY <1>2, <1>6, <1>9, <2>1, <2>2
<1>11. AllApplied(n) = AllApplied(n)' + amount /\ AllApplied(n)' \in Nat
  <2>1. /\ AllApplied(n) = SumFunction(AmountsIn(apps[n]))
        /\ AllApplied(n)' = SumFunction(AmountsIn(apps'[n]))
    BY AppliedIs
  <2>2. /\ SumFunction(AmountsIn(rest)) \in Nat
        /\ SumFunction(AmountsIn(Append(rest, last))) = SumFunction(AmountsIn(rest)) + last.amount
    BY <1>2, ApplicationAdds
  <2> QED
    BY <1>2, <1>6, <1>9, <2>1, <2>2
<1>12. amount <= invoice[i].paid
  <2>1. AppliedTo(n, i) <= Credited(i) /\ AppliedTo(n, i) \in Nat /\ Credited(i) \in Nat
    BY <1>1, CreditedTyped, AppliedTyped
  <2>2. /\ PaidBy(i) \in Nat /\ Old(i) \in Nat
        /\ PaidBy(i) + Credited(i) + Old(i) = invoice[i].paid
    BY <1>0, <1>3, PaidParts DEF PaidOf
  <2>3. amount <= AppliedTo(n, i)
    <3>1. AppliedTo(n, i) = AppliedTo(n, i)' + amount /\ AppliedTo(n, i)' \in Nat
      BY <1>10
    <3> QED
      BY <1>3, <3>1
  <2> QED
    BY <1>3, <1>7, <2>1, <2>2, <2>3
<1>13. amount <= note[n].applied
  <2>1. AllApplied(n) = note[n].applied
    BY <1>0 DEF IInv, AppliedFollows, AppliedOf
  <2> QED
    BY <1>3, <1>11, <2>1
<1> DEFINE left == note[n].applied - amount
<1>14. left \in Nat /\ Positive(note[n].applied - amount) = left
  BY <1>3, <1>7, <1>13 DEF Positive
<1>15. /\ note'[n] = [note[n] EXCEPT !.applied = left, !.status = "open"]
       /\ \A y \in Note \ {n} : note'[y] = note[y]
  BY <1>5, <1>7, <1>14, NoteIs DEF NoteRow
<1> HIDE DEF left
<1>16. /\ note'[n] \in NoteRow /\ note'[n].date = note[n].date
       /\ note'[n].total = note[n].total /\ note'[n].applied = left
       /\ note'[n].status = "open"
  BY <1>7, <1>14, <1>15 DEF NoteRow
<1>17. note' \in [Note -> NoteRow \cup {NoRow}]
  <2>1. \A y \in Note : note'[y] \in NoteRow \cup {NoRow}
    BY <1>15, <1>16, NoteIs
  <2>2. note' = [y \in Note |-> note'[y]]
    BY <1>5, NoteIs
  <2> QED
    BY <2>1, <2>2
<1> DEFINE delta == 0 - amount
<1>18. /\ delta \in Int /\ left = note[n].applied + delta
       /\ Positive(invoice[i].paid - amount) = invoice[i].paid + delta
  BY <1>3, <1>7, <1>12 DEF Positive, left
<1>19. /\ row \in InvoiceRow /\ row # NoRow /\ invoice'[i] = row
       /\ SameInvoice(invoice[i], invoice'[i])
       /\ PaidOf(i)' = PaidOf(i) + delta
  BY <1>0, <1>3, <1>4, <1>8, <1>18, InvoiceIs, RowsAreSome DEF PaidDown, SameInvoice, PaidOf
<1>20. Typed'
  <2>1. apps' \in [Note -> Seq(Application)]
    BY <1>1, <1>2 DEF Typed, TypeOK
  <2>2. invoice' \in [Invoice -> InvoiceRow \cup {NoRow}]
    BY <1>1, <1>3, <1>4, <1>19 DEF Typed, TypeOK
  <2> QED
    BY <1>0, <1>1, <1>17, <2>1, <2>2 DEF Typed, TypeOK
<1>21. NoteFollows(n)' /\ AppliedOf(n)' = AppliedOf(n) + delta
  <2>1. Carries(<<"note", n>>, note[n].date, 0 - note[n].total) /\ Empty(<<"refund", n>>)
    BY <1>0, NoteIs DEF NoteFollows
  <2>2. note'[n] # NoRow
    BY <1>16, RowsAreSome
  <2> QED
    BY <1>0, <1>16, <1>18, <2>1, <2>2 DEF NoteFollows, AppliedOf, Carries, Empty
<1>22. \A y \in Invoice \ {i} : AppliedTo(n, y)' = AppliedTo(n, y)
  <2>1. ASSUME NEW y \in Invoice \ {i} PROVE AppliedTo(n, y)' = AppliedTo(n, y)
    <3>1. AppliedTo(n, y) = AppliedTo(n, y)' + 0 /\ AppliedTo(n, y)' \in Nat
      BY <1>10
    <3> QED
      BY <3>1
  <2> QED
    BY <2>1
<1>23. AppliedTo(n, i)' = AppliedTo(n, i) + delta /\ AllApplied(n)' = AllApplied(n) + delta
  <2>1. AppliedTo(n, i) = AppliedTo(n, i)' + amount /\ AppliedTo(n, i)' \in Nat
    BY <1>10
  <2> QED
    BY <1>3, <1>11, <2>1
<1>24. \A y \in Invoice \ {i} : invoice'[y] = invoice[y]
  BY <1>3, <1>4, InvoiceIs
<1> HIDE DEF delta
<1> QED
  BY <1>0, <1>3, <1>9, <1>15, <1>18, <1>19, <1>20, <1>21, <1>22, <1>23, <1>24, CreditMoves

-----------------------------------------------------------------------------
(* Sales receipts *)

\* One receipt, as the invariant has it.
LEMMA ReceiptIs ==
    ASSUME IInv, NEW r \in Receipt
    PROVE  /\ receipt[r] \in ReceiptRow \cup {NoRow}
           /\ ReceiptFollows(r)
           /\ \A row : receipt' = [receipt EXCEPT ![r] = row] =>
                  /\ receipt'[r] = row
                  /\ \A y \in Receipt \ {r} : receipt'[y] = receipt[y]
                  /\ row \in ReceiptRow \cup {NoRow} =>
                        receipt' \in [Receipt -> ReceiptRow \cup {NoRow}]
<1>1. receipt \in [Receipt -> ReceiptRow \cup {NoRow}] /\ ReceiptFollows(r)
  BY DEF IInv, Typed, TypeOK, ReceiptsFollow
<1>2. ASSUME NEW row, receipt' = [receipt EXCEPT ![r] = row]
      PROVE  /\ receipt'[r] = row
             /\ \A y \in Receipt \ {r} : receipt'[y] = receipt[y]
             /\ row \in ReceiptRow \cup {NoRow} =>
                   receipt' \in [Receipt -> ReceiptRow \cup {NoRow}]
  BY <1>1, <1>2
<1> QED
  BY <1>1, <1>2

\* A step of a receipt alone.
LEMMA ReceiptAloneKeeps ==
    ASSUME IInv, NEW r \in Receipt, Touches({<<"receipt", r>>}),
           NEW row \in ReceiptRow \cup {NoRow}, receipt' = [receipt EXCEPT ![r] = row],
           UNCHANGED <<invoice, payments, note, apps, deposit, closed>>,
           ReceiptFollows(r)'
    PROVE  IInv'
<1> DEFINE S == {<<"receipt", r>>}
<1>1. /\ \A k \in 1..MaxPayment : <<"payment", k>> \notin S
      /\ \A d \in Deposit : <<"deposit", d>> \notin S
      /\ \A y \in Receipt \ {r} : <<"receipt", y>> \notin S
      /\ \A i \in Invoice : /\ <<"invoice", i>> \notin S
                            /\ <<"writeoff", i>> \notin S
                            /\ <<"legacy", i>> \notin S
      /\ \A n \in Note : <<"note", n>> \notin S /\ <<"refund", n>> \notin S
  OBVIOUS
<1>0. Touches(S)
  OBVIOUS
<1> HIDE DEF S
<1>2. Typed'
  <2>1. receipt' \in [Receipt -> ReceiptRow \cup {NoRow}]
    BY ReceiptIs
  <2> QED
    BY <2>1 DEF IInv, Typed, TypeOK, Touches
<1>3. PaymentsFollow' /\ DepositsFollow' /\ NotesFollow'
  BY <1>0, <1>1, PaymentsAside, DepositsAside, NotesAside DEF IInv
<1>4. InvoicesFollow' /\ \A i \in Invoice : Old(i)' = Old(i)
  BY <1>0, <1>1, InvoicesSame
<1>5. ReceiptsFollow'
  <2>1. \A y \in Receipt \ {r} : receipt'[y] = receipt[y]
    BY ReceiptIs
  <2>2. \A y \in {r} : ReceiptFollows(y)'
    OBVIOUS
  <2>3. ReceiptsFollow /\ {r} \in SUBSET Receipt
    BY DEF IInv
  <2> QED
    BY <1>0, <1>1, <2>1, <2>2, <2>3, ReceiptsAside
<1>6. PaidFollows'
  <2>1. \A i \in Invoice : PaidOf(i)' = PaidOf(i)
    BY DEF PaidOf
  <2> QED
    BY <1>4, <2>1, PaidSame
<1>7. AppliedFollows'
  <2>1. \A y \in Note : AppliedOf(y)' = AppliedOf(y)
    BY DEF AppliedOf
  <2> QED
    BY <2>1, AppliedSame DEF IInv
<1> QED
  BY <1>2, <1>3, <1>4, <1>5, <1>6, <1>7 DEF IInv

\* A new receipt has its entry.
LEMMA ReceiptCreateKeeps ==
    ASSUME IInv, NEW r \in Receipt, NEW date \in Day, NEW total \in Amount, NEW account \in Money,
           SalesReceiptsCreate(r, date, total, account)
    PROVE  IInv'
<1> DEFINE row == [date |-> date, total |-> total, account |-> account, deposit |-> NoRow]
<1>1. row \in ReceiptRow /\ row.date = date
  BY DEF ReceiptRow
<1>2. /\ receipt' = [receipt EXCEPT ![r] = row]
      /\ Post(<<"receipt", r>>, date, 0, InUf(account, total), account = "bank")
      /\ UNCHANGED <<invoice, payments, note, apps, deposit, closed>>
  BY DEF SalesReceiptsCreate
<1> HIDE DEF row
<1>3. InUf(account, total) \in Int
  BY TotalsAre, InUfIsInt
<1>4. (account = "bank") \in BOOLEAN
  OBVIOUS
<1>5. /\ Touches({<<"receipt", r>>})
      /\ entry'[<<"receipt", r>>].state = "posted"
      /\ entry'[<<"receipt", r>>].date = date
      /\ entry'[<<"receipt", r>>].ar = 0
  BY <1>2, <1>3, <1>4, PostTouches, SlotsAre, PlainEntry, Zenon
<1>6. receipt'[r] = row /\ row # NoRow
  BY <1>1, <1>2, ReceiptIs, RowsAreSome
<1>7. ReceiptFollows(r)'
  BY <1>1, <1>5, <1>6 DEF ReceiptFollows, Carries
<1> QED
  BY <1>1, <1>2, <1>5, <1>7, ReceiptAloneKeeps

\* A deleted receipt leaves none.
LEMMA ReceiptDeleteKeeps ==
    ASSUME IInv, NEW r \in Receipt, SalesReceiptsDelete(r)
    PROVE  IInv'
<1>1. /\ receipt' = [receipt EXCEPT ![r] = NoRow]
      /\ entry' = Without({<<"receipt", r>>})
      /\ UNCHANGED <<invoice, payments, note, apps, deposit, closed>>
  BY DEF SalesReceiptsDelete
<1>2. Touches({<<"receipt", r>>}) /\ Empty(<<"receipt", r>>)'
  BY <1>1, WithoutTouches, SlotsAre DEF IInv, Empty
<1>3. ReceiptFollows(r)'
  BY <1>1, <1>2, ReceiptIs DEF ReceiptFollows, Empty
<1> QED
  BY <1>1, <1>2, <1>3, ReceiptAloneKeeps


-----------------------------------------------------------------------------
(* Bank deposits *)

\* Every payment is replaced by one of the same id, invoice and amount.
SameMoney(map) ==
    /\ payments' = {map[p] : p \in payments}
    /\ \A p \in payments : /\ map[p] \in PaymentRow
                           /\ map[p].id = p.id
                           /\ map[p].invoice = p.invoice
                           /\ map[p].amount = p.amount

\* Payments changed in nothing but date and deposit come to the same.
LEMMA MappedPayments ==
    ASSUME IInv, NEW map, SameMoney(map)
    PROVE  /\ IsFiniteSet(payments') /\ payments' \subseteq PaymentRow
           /\ \A p, q \in payments' : p.id = q.id => p = q
           /\ \A i \in Invoice : PaidBy(i)' = PaidBy(i)
<1>1. /\ payments' = {map[p] : p \in payments}
      /\ \A p \in payments : /\ map[p] \in PaymentRow
                             /\ map[p].id = p.id
                             /\ map[p].invoice = p.invoice
                             /\ map[p].amount = p.amount
      /\ \A p, q \in payments : p.id = q.id => p = q
      /\ IsFiniteSet(payments) /\ Typed
  BY DEF SameMoney, IInv, Typed, PaymentsFollow
<1>2. IsFiniteSet(payments')
  BY <1>1, ImageIsFinite
<1>3. payments' \subseteq PaymentRow /\ \A p, q \in payments' : p.id = q.id => p = q
  BY <1>1
<1>4. ASSUME NEW i \in Invoice PROVE PaidBy(i)' = PaidBy(i)
  <2> DEFINE S == PaymentsOf(i)
             N == {map[p] : p \in S}
             f == [r \in S |-> r.amount]
             g == [r \in N |-> r.amount]
  <2>1. PaymentsOf(i)' = N
    BY <1>1 DEF PaymentsOf
  <2>2. /\ IsFiniteSet(S) /\ \A r \in S : r.amount \in Nat
        /\ S \in SUBSET payments
    <3>1. PaymentsOf(i) \in SUBSET payments
      BY DEF PaymentsOf
    <3> QED
      BY <1>1, <3>1, AmountsTyped
  <2>3. SumFunction(f) = PaidBy(i) /\ SumFunction(g) = PaidBy(i)'
    BY <2>1 DEF PaidBy, Amounts
  <2>4. /\ DOMAIN f = S /\ DOMAIN g = N
        /\ \A r \in S : f[r] = r.amount
        /\ \A r \in S : g[map[r]] = map[r].amount
    OBVIOUS
  <2> HIDE DEF f, g
  <2>5. Renames(f, S, map, g, N)
    BY <1>1, <2>2, <2>4 DEF Renames
  <2>6. IntOn(f, S)
    BY <2>2, <2>4 DEF IntOn
  <2> HIDE DEF S, N
  <2>7. SumFunctionOnSet(g, N) = SumFunctionOnSet(f, S)
    BY <2>2, <2>5, <2>6, SumRelabel
  <2> QED
    BY <2>3, <2>4, <2>7 DEF SumFunction
<1> QED
  BY <1>2, <1>3, <1>4

\* The same row, or the same in another deposit or in none.
Elsewhere(old, new) ==
    \/ new = old
    \/ /\ old # NoRow
       /\ \E b \in Deposit \cup {NoRow} : new = [old EXCEPT !.deposit = b]

\* A row that changed in its deposit alone is a row.
LEMMA ElsewhereIs ==
    /\ \A old \in InvoiceRow \cup {NoRow} : \A new : Elsewhere(old, new) =>
          /\ new \in InvoiceRow \cup {NoRow} /\ SameInvoice(old, new)
          /\ old # NoRow => new # NoRow /\ new.paid = old.paid
    /\ \A old \in ReceiptRow \cup {NoRow} : \A new : Elsewhere(old, new) =>
          /\ new \in ReceiptRow \cup {NoRow}
          /\ old = NoRow => new = NoRow
          /\ old # NoRow => new # NoRow /\ new.date = old.date
    /\ \A old \in PaymentRow : \A new : Elsewhere(old, new) =>
          /\ new \in PaymentRow /\ new.id = old.id /\ new.invoice = old.invoice
          /\ new.amount = old.amount /\ new.date = old.date
<1>1. ASSUME NEW old \in InvoiceRow \cup {NoRow}, NEW new, Elsewhere(old, new)
      PROVE  /\ new \in InvoiceRow \cup {NoRow} /\ SameInvoice(old, new)
             /\ old # NoRow => new # NoRow /\ new.paid = old.paid
  <2>1. CASE new = old
    BY <2>1 DEF SameInvoice
  <2>2. CASE new # old
    <3>1. PICK b \in Deposit \cup {NoRow} : new = [old EXCEPT !.deposit = b]
      BY <1>1, <2>2 DEF Elsewhere
    <3>2. old \in InvoiceRow
      BY <1>1, <2>2 DEF Elsewhere
    <3>3. /\ new \in InvoiceRow /\ new.date = old.date /\ new.total = old.total
          /\ new.paid = old.paid /\ new.writtenOff = old.writtenOff
      BY <3>1, <3>2 DEF InvoiceRow
    <3> QED
      BY <3>2, <3>3, RowsAreSome DEF SameInvoice
  <2> QED
    BY <2>1, <2>2
<1>2. ASSUME NEW old \in ReceiptRow \cup {NoRow}, NEW new, Elsewhere(old, new)
      PROVE  /\ new \in ReceiptRow \cup {NoRow}
             /\ old = NoRow => new = NoRow
             /\ old # NoRow => new # NoRow /\ new.date = old.date
  <2>1. CASE new = old
    BY <2>1
  <2>2. CASE new # old
    <3>1. PICK b \in Deposit \cup {NoRow} : new = [old EXCEPT !.deposit = b]
      BY <1>2, <2>2 DEF Elsewhere
    <3>2. old \in ReceiptRow
      BY <1>2, <2>2 DEF Elsewhere
    <3>3. new \in ReceiptRow /\ new.date = old.date
      BY <3>1, <3>2 DEF ReceiptRow
    <3> QED
      BY <3>2, <3>3, RowsAreSome
  <2> QED
    BY <2>1, <2>2
<1>3. ASSUME NEW old \in PaymentRow, NEW new, Elsewhere(old, new)
      PROVE  /\ new \in PaymentRow /\ new.id = old.id /\ new.invoice = old.invoice
             /\ new.amount = old.amount /\ new.date = old.date
  <2>1. CASE new = old
    BY <2>1
  <2>2. CASE new # old
    <3>1. PICK b \in Deposit \cup {NoRow} : new = [old EXCEPT !.deposit = b]
      BY <1>3, <2>2 DEF Elsewhere
    <3> QED
      BY <3>1 DEF PaymentRow
  <2> QED
    BY <2>1, <2>2
<1> QED
  BY <1>1, <1>2, <1>3

\* A step of a deposit: what it holds stays what it is.
LEMMA DepositKeeps ==
    ASSUME IInv, NEW d \in Deposit, Touches({<<"deposit", d>>}),
           NEW row \in Day \cup {NoRow}, deposit' = [deposit EXCEPT ![d] = row],
           DepositFollows(d)',
           NEW map, payments' = {map[p] : p \in payments},
           \A p \in payments : Elsewhere(p, map[p]),
           DOMAIN invoice' = Invoice, invoice' = [i \in DOMAIN invoice' |-> invoice'[i]],
           \A i \in Invoice : Elsewhere(invoice[i], invoice'[i]),
           DOMAIN receipt' = Receipt, receipt' = [r \in DOMAIN receipt' |-> receipt'[r]],
           \A r \in Receipt : Elsewhere(receipt[r], receipt'[r]),
           UNCHANGED <<note, apps, closed>>
    PROVE  IInv'
<1> DEFINE S == {<<"deposit", d>>}
<1>1. /\ \A k \in 1..MaxPayment : <<"payment", k>> \notin S
      /\ \A y \in Deposit \ {d} : <<"deposit", y>> \notin S
      /\ \A r \in Receipt : <<"receipt", r>> \notin S
      /\ \A i \in Invoice : /\ <<"invoice", i>> \notin S
                            /\ <<"writeoff", i>> \notin S
                            /\ <<"legacy", i>> \notin S
      /\ \A n \in Note : <<"note", n>> \notin S /\ <<"refund", n>> \notin S
  OBVIOUS
<1>0. Touches(S)
  OBVIOUS
<1> HIDE DEF S
<1>2. ASSUME NEW i \in Invoice
      PROVE  /\ invoice'[i] \in InvoiceRow \cup {NoRow} /\ PaidOf(i)' = PaidOf(i)
             /\ InvoiceFollows(i)' /\ Old(i)' = Old(i)
  <2>1. /\ invoice'[i] \in InvoiceRow \cup {NoRow} /\ SameInvoice(invoice[i], invoice'[i])
        /\ invoice[i] # NoRow => invoice'[i] # NoRow /\ invoice'[i].paid = invoice[i].paid
    BY InvoiceIs, ElsewhereIs
  <2>2. InvoiceFollows(i)' /\ Old(i)' = Old(i)
    BY <1>0, <1>1, <2>1, InvoiceIs, InvoiceKept
  <2>3. PaidOf(i)' = PaidOf(i)
    BY <2>1 DEF PaidOf, SameInvoice
  <2> QED
    BY <2>1, <2>2, <2>3
<1>3. ASSUME NEW r \in Receipt
      PROVE  receipt'[r] \in ReceiptRow \cup {NoRow} /\ ReceiptFollows(r)'
  <2>1. /\ receipt'[r] \in ReceiptRow \cup {NoRow}
        /\ receipt[r] = NoRow => receipt'[r] = NoRow
        /\ receipt[r] # NoRow => receipt'[r] # NoRow /\ receipt'[r].date = receipt[r].date
    BY ReceiptIs, ElsewhereIs
  <2>2. entry'[<<"receipt", r>>] = entry[<<"receipt", r>>]
    BY <1>0, <1>1, SlotsAre DEF Touches
  <2> QED
    BY <2>1, <2>2, ReceiptIs DEF ReceiptFollows, Carries, Empty
<1>4. SameMoney(map) /\ \A p \in payments : map[p].date = p.date
  <2>1. ASSUME NEW p \in payments
        PROVE  /\ map[p] \in PaymentRow /\ map[p].id = p.id /\ map[p].invoice = p.invoice
               /\ map[p].amount = p.amount /\ map[p].date = p.date
    <3>1. p \in PaymentRow /\ Elsewhere(p, map[p])
      BY PaymentsAre DEF IInv
    <3> QED
      BY <3>1, ElsewhereIs
  <2> QED
    BY <2>1 DEF SameMoney
<1>5. /\ IsFiniteSet(payments') /\ payments' \subseteq PaymentRow
      /\ \A p, q \in payments' : p.id = q.id => p = q
      /\ \A i \in Invoice : PaidBy(i)' = PaidBy(i)
  BY <1>4, MappedPayments
<1>6. PaymentsFollow'
  <2>1. /\ \A p \in payments : PaymentFollows(p) /\ p.id \in 1..MaxPayment
        /\ \A k \in 1..MaxPayment : (\A p \in payments : p.id # k) => Empty(<<"payment", k>>)
    BY PaymentsAre DEF IInv, PaymentsFollow
  <2>2. \A k \in 1..MaxPayment : entry'[<<"payment", k>>] = entry[<<"payment", k>>]
    BY <1>0, <1>1, SlotsAre DEF Touches
  <2>3. ASSUME NEW q \in payments' PROVE PaymentFollows(q)'
    <3>1. PICK p \in payments : q = map[p]
      OBVIOUS
    <3>2. q.id = p.id /\ q.amount = p.amount /\ q.date = p.date
      BY <1>4, <3>1 DEF SameMoney
    <3> QED
      BY <2>1, <2>2, <3>2 DEF PaymentFollows, Carries
  <2>4. ASSUME NEW k \in 1..MaxPayment, \A q \in payments' : q.id # k
        PROVE  Empty(<<"payment", k>>)'
    <3>1. \A p \in payments : p.id # k
      BY <1>4, <2>4 DEF SameMoney
    <3> QED
      BY <2>1, <2>2, <3>1 DEF Empty
  <2> QED
    BY <1>5, <2>3, <2>4 DEF PaymentsFollow
<1>7. DepositsFollow'
  <2>1. ASSUME NEW y \in Deposit \ {d} PROVE DepositFollows(y)'
    <3>1. entry'[<<"deposit", y>>] = entry[<<"deposit", y>>]
      BY <1>0, <1>1, SlotsAre DEF Touches
    <3>2. deposit'[y] = deposit[y] /\ DepositFollows(y)
      BY DEF IInv, Typed, TypeOK, DepositsFollow
    <3> QED
      BY <3>1, <3>2 DEF DepositFollows, Carries, Empty
  <2> QED
    BY <2>1 DEF DepositsFollow
<1>8. Typed'
  <2>1. invoice' \in [Invoice -> InvoiceRow \cup {NoRow}]
    BY <1>2
  <2>2. receipt' \in [Receipt -> ReceiptRow \cup {NoRow}]
    BY <1>3
  <2>3. deposit' \in [Deposit -> Day \cup {NoRow}]
    BY DEF IInv, Typed, TypeOK
  <2> QED
    BY <1>0, <1>5, <2>1, <2>2, <2>3 DEF IInv, Typed, TypeOK, Touches
<1>9. NotesFollow'
  BY <1>0, <1>1, NotesAside DEF IInv
<1>10. InvoicesFollow' /\ ReceiptsFollow'
  BY <1>2, <1>3 DEF InvoicesFollow, ReceiptsFollow
<1>11. PaidFollows'
  <2>1. ASSUME NEW i \in Invoice PROVE PaidBy(i)' + Credited(i)' + Old(i)' = PaidOf(i)'
    <3>1. PaidBy(i)' = PaidBy(i) /\ Credited(i)' = Credited(i)
      BY <1>5, CreditedSame
    <3>2. PaidBy(i) + Credited(i) + Old(i) = PaidOf(i)
      BY DEF IInv, PaidFollows
    <3> QED
      BY <1>2, <3>1, <3>2
  <2> QED
    BY <2>1 DEF PaidFollows
<1>12. AppliedFollows'
  <2>1. \A n \in Note : AppliedOf(n)' = AppliedOf(n)
    BY DEF AppliedOf
  <2> QED
    BY <2>1, AppliedSame DEF IInv
<1> QED
  BY <1>6, <1>7, <1>8, <1>9, <1>10, <1>11, <1>12 DEF IInv

\* What a deposit comes to is a number.
LEMMA DepositedTyped ==
    ASSUME IInv, NEW is \in SUBSET Stored(invoice), NEW ps \in SUBSET payments,
           NEW rs \in SUBSET Stored(receipt)
    PROVE  SumFunction([i \in is |-> invoice[i].total]) + Amounts(ps)
           + SumFunction([r \in rs |-> receipt[r].total]) \in Int
<1> DEFINE f == [i \in is |-> invoice[i].total]
           g == [r \in rs |-> receipt[r].total]
<1>1. /\ IsFiniteSet(is) /\ IsFiniteSet(rs)
      /\ DOMAIN f = is /\ DOMAIN g = rs
  <2>1. is \subseteq Invoice /\ rs \subseteq Receipt
    BY DEF Stored, IInv, Typed, TypeOK
  <2> QED
    BY <2>1, IdsAreFinite, FS_Subset
<1>2. \A i \in is : f[i] \in Int
  <2>1. \A i \in is : invoice[i] \in InvoiceRow
    BY DEF Stored, IInv, Typed, TypeOK
  <2>2. \A i \in is : invoice[i].total \in Amount
    BY <2>1 DEF InvoiceRow
  <2> QED
    BY <2>2, TotalsAre
<1>3. \A r \in rs : g[r] \in Int
  <2>1. \A r \in rs : receipt[r] \in ReceiptRow
    BY DEF Stored, IInv, Typed, TypeOK
  <2>2. \A r \in rs : receipt[r].total \in Amount
    BY <2>1 DEF ReceiptRow
  <2> QED
    BY <2>2, TotalsAre
<1> HIDE DEF f, g
<1>4. SumFunction(f) \in Int /\ SumFunction(g) \in Int
  <2>1. IntOn(f, is) /\ IntOn(g, rs)
    BY <1>2, <1>3 DEF IntOn
  <2> QED
    BY <1>1, <2>1, TableSum
<1>5. Amounts(ps) \in Nat
  BY AmountsTyped DEF IInv
<1>6. SumFunction(f) + Amounts(ps) + SumFunction(g) \in Int
  BY <1>4, <1>5
<1> QED
  BY <1>6 DEF f, g

\* A deposit takes rows in and has its entry, which touches no receivable.
LEMMA DepositsCreateKeeps ==
    ASSUME IInv, NEW d \in Deposit, NEW date \in Day, NEW is \in SUBSET Invoice,
           NEW ps \in SUBSET UndepositedPayments, NEW rs \in SUBSET UndepositedReceipts,
           DepositsCreate(d, date, is, ps, rs)
    PROVE  IInv'
<1> DEFINE cents == SumFunction([i \in is |-> invoice[i].total]) + Amounts(ps)
                    + SumFunction([r \in rs |-> receipt[r].total])
           map == [p \in payments |-> IF p \in ps THEN [p EXCEPT !.deposit = d] ELSE p]
<1>1. /\ Post(<<"deposit", d>>, date, 0, 0 - cents, TRUE)
      /\ deposit' = [deposit EXCEPT ![d] = date]
      /\ invoice' = [i \in Invoice |-> IF i \in is THEN [invoice[i] EXCEPT !.deposit = d]
                                       ELSE invoice[i]]
      /\ payments' = {map[p] : p \in payments}
      /\ receipt' = [r \in Receipt |-> IF r \in rs THEN [receipt[r] EXCEPT !.deposit = d]
                                       ELSE receipt[r]]
      /\ UNCHANGED <<note, apps, closed>>
      /\ \A i \in is : invoice[i] # NoRow
  BY DEF DepositsCreate, AwaitingDeposit
<1>2. 0 - cents \in Int
  <2>1. is \in SUBSET Stored(invoice) /\ ps \in SUBSET payments /\ rs \in SUBSET Stored(receipt)
    BY <1>1, InvoiceIs DEF Stored, UndepositedPayments, UndepositedReceipts
  <2>2. cents \in Int
    BY <2>1, DepositedTyped
  <2> QED
    BY <2>2
<1> HIDE DEF cents
<1>3. /\ Touches({<<"deposit", d>>})
      /\ entry'[<<"deposit", d>>].state = "posted"
      /\ entry'[<<"deposit", d>>].date = date
      /\ entry'[<<"deposit", d>>].ar = 0
  BY <1>1, <1>2, PostTouches, SlotsAre, PlainEntry, Zenon
<1>4. DepositFollows(d)'
  <2>1. deposit'[d] = date /\ date # NoRow
    BY <1>1, RowsAreSome DEF IInv, Typed, TypeOK
  <2> QED
    BY <1>3, <2>1 DEF DepositFollows, Carries
<1>5. \A p \in payments : Elsewhere(p, map[p])
  <2>1. \A p \in payments : p # NoRow
    BY PaymentsAre, NullIsNoRow DEF IInv
  <2> QED
    BY <2>1 DEF Elsewhere
<1>6. \A i \in Invoice : Elsewhere(invoice[i], invoice'[i])
  BY <1>1 DEF Elsewhere
<1>7. \A r \in Receipt : Elsewhere(receipt[r], receipt'[r])
  <2>1. \A r \in rs : receipt[r] # NoRow
    BY DEF UndepositedReceipts, Stored
  <2> QED
    BY <1>1, <2>1 DEF Elsewhere
<1>8. /\ DOMAIN invoice' = Invoice /\ invoice' = [i \in DOMAIN invoice' |-> invoice'[i]]
      /\ DOMAIN receipt' = Receipt /\ receipt' = [r \in DOMAIN receipt' |-> receipt'[r]]
  BY <1>1
<1> HIDE DEF map
<1> QED
  BY <1>1, <1>3, <1>4, <1>5, <1>6, <1>7, <1>8, DepositKeeps

\* A deleted deposit lets its rows go.
LEMMA DepositsDeleteKeeps ==
    ASSUME IInv, NEW d \in Deposit, DepositsDelete(d)
    PROVE  IInv'
<1> DEFINE Freed(row) == IF row # NoRow /\ row.deposit = d
                         THEN [row EXCEPT !.deposit = NoRow] ELSE row
           map == [p \in payments |-> Freed(p)]
<1>1. /\ deposit' = [deposit EXCEPT ![d] = NoRow]
      /\ entry' = Without({<<"deposit", d>>})
      /\ invoice' = [i \in Invoice |-> Freed(invoice[i])]
      /\ payments' = {Freed(p) : p \in payments}
      /\ receipt' = [r \in Receipt |-> Freed(receipt[r])]
      /\ UNCHANGED <<note, apps, closed>>
  BY DEF DepositsDelete
<1>2. payments' = {map[p] : p \in payments}
  BY <1>1
<1>3. Touches({<<"deposit", d>>}) /\ Empty(<<"deposit", d>>)'
  BY <1>1, WithoutTouches, SlotsAre DEF IInv, Empty
<1>4. DepositFollows(d)'
  <2>1. deposit'[d] = NoRow
    BY <1>1 DEF IInv, Typed, TypeOK
  <2> QED
    BY <1>3, <2>1 DEF DepositFollows, Empty
<1>5. /\ \A p \in payments : Elsewhere(p, map[p])
      /\ \A i \in Invoice : Elsewhere(invoice[i], invoice'[i])
      /\ \A r \in Receipt : Elsewhere(receipt[r], receipt'[r])
  BY <1>1 DEF Elsewhere
<1>6. /\ DOMAIN invoice' = Invoice /\ invoice' = [i \in DOMAIN invoice' |-> invoice'[i]]
      /\ DOMAIN receipt' = Receipt /\ receipt' = [r \in DOMAIN receipt' |-> receipt'[r]]
  BY <1>1
<1> HIDE DEF map, Freed
<1> QED
  BY <1>1, <1>2, <1>3, <1>4, <1>5, <1>6, DepositKeeps


-----------------------------------------------------------------------------
(* Dates *)

\* Moved entries change in their date alone.
LEMMA MovedEntries ==
    ASSUME Typed, NEW moved, NEW date \in Day,
           entry' = [s \in Slot |-> IF s \in moved THEN [entry[s] EXCEPT !.date = date]
                                    ELSE entry[s]]
    PROVE  /\ Touches(moved)
           /\ \A s \in Slot : entry'[s].state = entry[s].state /\ entry'[s].ar = entry[s].ar
           /\ \A s \in Slot : s \in moved => entry'[s].date = date
<1>1. ASSUME NEW s \in Slot
      PROVE  /\ entry'[s] \in EntryRow
             /\ s \notin moved => entry'[s] = entry[s]
             /\ entry'[s].state = entry[s].state /\ entry'[s].ar = entry[s].ar
             /\ s \in moved => entry'[s].date = date
  <2>1. entry[s] \in EntryRow
    BY DEF Typed, TypeOK
  <2>2. CASE s \in moved
    <3>1. entry'[s] = [entry[s] EXCEPT !.date = date]
      BY <2>2
    <3> QED
      BY <2>1, <2>2, <3>1 DEF EntryRow
  <2>3. CASE s \notin moved
    BY <2>1, <2>3
  <2> QED
    BY <2>2, <2>3
<1>2. entry' = [s \in Slot |-> entry'[s]]
  OBVIOUS
<1>3. entry' \in [Slot -> EntryRow]
  BY <1>1, <1>2
<1> QED
  BY <1>1, <1>3 DEF Touches

\* Entries that exist are given another date, and their documents with them.
LEMMA MoveKeeps ==
    ASSUME IInv, NEW moved, NEW date \in Day, MoveLinked(moved, date),
           \A s \in moved : s \in Slot /\ entry[s].state # "none",
           UNCHANGED <<apps, closed>>
    PROVE  IInv'
<1> DEFINE map == [p \in payments |-> IF <<"payment", p.id>> \in moved
                                      THEN [p EXCEPT !.date = date] ELSE p]
<1>1. /\ entry' = [s \in Slot |-> IF s \in moved THEN [entry[s] EXCEPT !.date = date]
                                  ELSE entry[s]]
      /\ invoice' = [i \in Invoice |-> IF <<"invoice", i>> \in moved
                                       THEN [invoice[i] EXCEPT !.date = date] ELSE invoice[i]]
      /\ note' = [n \in Note |-> IF <<"note", n>> \in moved
                                 THEN [note[n] EXCEPT !.date = date] ELSE note[n]]
      /\ receipt' = [r \in Receipt |-> IF <<"receipt", r>> \in moved
                                       THEN [receipt[r] EXCEPT !.date = date] ELSE receipt[r]]
      /\ payments' = {map[p] : p \in payments}
      /\ deposit' = [d \in Deposit |-> IF <<"deposit", d>> \in moved THEN date ELSE deposit[d]]
  <2>1. DOMAIN invoice = Invoice /\ DOMAIN note = Note /\ DOMAIN receipt = Receipt
    BY DEF IInv, Typed, TypeOK
  <2> QED
    BY <2>1 DEF MoveLinked
<1>2. /\ Touches(moved)
      /\ \A s \in Slot : entry'[s].state = entry[s].state /\ entry'[s].ar = entry[s].ar
      /\ \A s \in Slot : s \in moved => entry'[s].date = date
      /\ \A s \in Slot : s \notin moved => entry'[s] = entry[s]
  <2>1. Typed
    BY DEF IInv
  <2>2. Touches(moved)
    BY <1>1, <2>1, MovedEntries
  <2> QED
    BY <1>1, <2>1, <2>2, MovedEntries DEF Touches
<1>3. ASSUME NEW i \in Invoice
      PROVE  /\ invoice'[i] \in InvoiceRow \cup {NoRow} /\ PaidOf(i)' = PaidOf(i)
             /\ InvoiceFollows(i)' /\ Old(i)' = Old(i)
  <2>1. Old(i)' = Old(i)
    BY <1>2, SlotsAre DEF Old, Empty
  <2>2. CASE invoice[i] = NoRow
    <3>1. <<"invoice", i>> \notin moved
      BY <2>2, InvoiceIs DEF InvoiceFollows, Empty
    <3>2. invoice'[i] = NoRow
      BY <1>1, <2>2, <3>1
    <3>3. InvoiceFollows(i)'
      BY <1>2, <2>2, <3>2, SlotsAre, InvoiceIs DEF InvoiceFollows, Empty
    <3> QED
      BY <2>1, <2>2, <3>2, <3>3 DEF PaidOf
  <2>3. CASE invoice[i] # NoRow
    <3>2. invoice[i] \in InvoiceRow
      BY <2>3, InvoiceIs
    <3>3. /\ [invoice[i] EXCEPT !.date = date] \in InvoiceRow
          /\ [invoice[i] EXCEPT !.date = date].date = date
          /\ [invoice[i] EXCEPT !.date = date].total = invoice[i].total
          /\ [invoice[i] EXCEPT !.date = date].paid = invoice[i].paid
          /\ [invoice[i] EXCEPT !.date = date].writtenOff = invoice[i].writtenOff
      BY <3>2 DEF InvoiceRow
    <3>4. /\ invoice'[i] \in InvoiceRow /\ invoice'[i].total = invoice[i].total
          /\ invoice'[i].paid = invoice[i].paid
          /\ invoice'[i].writtenOff = invoice[i].writtenOff
          /\ invoice'[i].date = IF <<"invoice", i>> \in moved THEN date ELSE invoice[i].date
      BY <1>1, <3>2, <3>3
    <3>5. invoice'[i] # NoRow
      BY <3>4, RowsAreSome
    <3>6. /\ entry'[<<"invoice", i>>].state = "posted"
          /\ entry'[<<"invoice", i>>].date = invoice'[i].date
          /\ entry'[<<"invoice", i>>].ar = invoice'[i].total
      <4>1. Carries(<<"invoice", i>>, invoice[i].date, invoice[i].total)
        BY <2>3, InvoiceIs DEF InvoiceFollows
      <4> QED
        BY <1>2, <3>4, <4>1, SlotsAre DEF Carries
    <3>7. InvoiceFollows(i)'
      <4>1. InvoiceFollows(i)
        BY InvoiceIs
      <4> QED
        BY <1>2, <2>3, <3>4, <3>5, <3>6, <4>1, SlotsAre DEF InvoiceFollows, Empty, Carries
    <3> QED
      BY <2>1, <2>3, <3>4, <3>5, <3>7 DEF PaidOf
  <2> QED
    BY <2>2, <2>3
<1>4. ASSUME NEW n \in Note
      PROVE  note'[n] \in NoteRow \cup {NoRow} /\ AppliedOf(n)' = AppliedOf(n) /\ NoteFollows(n)'
  <2>1. CASE note[n] = NoRow
    <3>1. <<"note", n>> \notin moved
      BY <2>1, NoteIs DEF NoteFollows, Empty
    <3>2. note'[n] = NoRow
      BY <1>1, <2>1, <3>1
    <3>3. NoteFollows(n)'
      BY <1>2, <2>1, <3>2, SlotsAre, NoteIs DEF NoteFollows, Empty
    <3> QED
      BY <2>1, <3>2, <3>3 DEF AppliedOf
  <2>2. CASE note[n] # NoRow
    <3>1. note[n] \in NoteRow
      BY <2>2, NoteIs
    <3>2. /\ [note[n] EXCEPT !.date = date] \in NoteRow
          /\ [note[n] EXCEPT !.date = date].date = date
          /\ [note[n] EXCEPT !.date = date].total = note[n].total
          /\ [note[n] EXCEPT !.date = date].applied = note[n].applied
          /\ [note[n] EXCEPT !.date = date].status = note[n].status
      BY <3>1 DEF NoteRow
    <3>3. /\ note'[n] \in NoteRow /\ note'[n].total = note[n].total
          /\ note'[n].applied = note[n].applied /\ note'[n].status = note[n].status
          /\ note'[n].date = IF <<"note", n>> \in moved THEN date ELSE note[n].date
      BY <1>1, <3>1, <3>2
    <3>4. note'[n] # NoRow
      BY <3>3, RowsAreSome
    <3>5. NoteFollows(n)
      BY NoteIs
    <3>6. /\ entry'[<<"note", n>>].state = "posted"
          /\ entry'[<<"note", n>>].date = note'[n].date
          /\ entry'[<<"note", n>>].ar = 0 - note'[n].total
      <4>1. Carries(<<"note", n>>, note[n].date, 0 - note[n].total)
        BY <2>2, <3>5 DEF NoteFollows
      <4> QED
        BY <1>2, <3>3, <4>1, SlotsAre DEF Carries
    <3>7. NoteFollows(n)'
      BY <1>2, <2>2, <3>3, <3>4, <3>5, <3>6, SlotsAre DEF NoteFollows, Empty, Carries
    <3> QED
      BY <2>2, <3>3, <3>4, <3>7 DEF AppliedOf
  <2> QED
    BY <2>1, <2>2
<1>5. ASSUME NEW r \in Receipt
      PROVE  receipt'[r] \in ReceiptRow \cup {NoRow} /\ ReceiptFollows(r)'
  <2>1. CASE receipt[r] = NoRow
    <3>1. <<"receipt", r>> \notin moved
      BY <2>1, ReceiptIs DEF ReceiptFollows, Empty
    <3>2. receipt'[r] = NoRow
      BY <1>1, <2>1, <3>1
    <3> QED
      BY <1>2, <2>1, <3>2, SlotsAre, ReceiptIs DEF ReceiptFollows, Empty
  <2>2. CASE receipt[r] # NoRow
    <3>1. receipt[r] \in ReceiptRow
      BY <2>2, ReceiptIs
    <3>2. /\ [receipt[r] EXCEPT !.date = date] \in ReceiptRow
          /\ [receipt[r] EXCEPT !.date = date].date = date
      BY <3>1 DEF ReceiptRow
    <3>3. /\ receipt'[r] \in ReceiptRow
          /\ receipt'[r].date = IF <<"receipt", r>> \in moved THEN date ELSE receipt[r].date
      BY <1>1, <3>1, <3>2
    <3>4. receipt'[r] # NoRow
      BY <3>3, RowsAreSome
    <3> QED
      BY <1>2, <2>2, <3>3, <3>4, SlotsAre, ReceiptIs DEF ReceiptFollows, Carries
  <2> QED
    BY <2>1, <2>2
<1>6. ASSUME NEW d \in Deposit
      PROVE  deposit'[d] \in Day \cup {NoRow} /\ DepositFollows(d)'
  <2>1. deposit[d] \in Day \cup {NoRow} /\ DepositFollows(d)
    BY DEF IInv, Typed, TypeOK, DepositsFollow
  <2>2. CASE deposit[d] = NoRow
    <3>1. <<"deposit", d>> \notin moved
      BY <2>1, <2>2 DEF DepositFollows, Empty
    <3>2. deposit'[d] = NoRow
      BY <1>1, <2>2, <3>1
    <3> QED
      BY <1>2, <2>1, <2>2, <3>2, SlotsAre DEF DepositFollows, Empty
  <2>3. CASE deposit[d] # NoRow
    <3>1. deposit'[d] = IF <<"deposit", d>> \in moved THEN date ELSE deposit[d]
      BY <1>1
    <3>2. deposit'[d] \in Day /\ deposit'[d] # NoRow
      BY <2>1, <2>3, <3>1, RowsAreSome
    <3> QED
      BY <1>2, <2>1, <2>3, <3>1, <3>2, SlotsAre DEF DepositFollows, Carries
  <2> QED
    BY <2>2, <2>3
<1>7. ASSUME NEW p \in payments
      PROVE  /\ map[p] \in PaymentRow /\ map[p].id = p.id /\ map[p].invoice = p.invoice
             /\ map[p].amount = p.amount
             /\ map[p].date = IF <<"payment", p.id>> \in moved THEN date ELSE p.date
  <2>1. p \in PaymentRow
    BY PaymentsAre DEF IInv
  <2>2. /\ [p EXCEPT !.date = date] \in PaymentRow
        /\ [p EXCEPT !.date = date].date = date
        /\ [p EXCEPT !.date = date].id = p.id
        /\ [p EXCEPT !.date = date].invoice = p.invoice
        /\ [p EXCEPT !.date = date].amount = p.amount
    BY <2>1 DEF PaymentRow
  <2>3. map[p] = IF <<"payment", p.id>> \in moved THEN [p EXCEPT !.date = date] ELSE p
    OBVIOUS
  <2> HIDE DEF map
  <2> QED
    BY <2>1, <2>2, <2>3
<1> HIDE DEF map
<1>8. SameMoney(map)
  BY <1>1, <1>7 DEF SameMoney
<1>9. /\ IsFiniteSet(payments') /\ payments' \subseteq PaymentRow
      /\ \A p, q \in payments' : p.id = q.id => p = q
      /\ \A i \in Invoice : PaidBy(i)' = PaidBy(i)
  BY <1>8, MappedPayments
<1>10. PaymentsFollow'
  <2>1. /\ \A p \in payments : PaymentFollows(p) /\ p.id \in 1..MaxPayment
        /\ \A k \in 1..MaxPayment : (\A p \in payments : p.id # k) => Empty(<<"payment", k>>)
    BY PaymentsAre DEF IInv, PaymentsFollow
  <2>2. ASSUME NEW q \in payments' PROVE PaymentFollows(q)'
    <3>1. PICK p \in payments : q = map[p]
      BY <1>1
    <3>2. /\ q.id = p.id /\ q.amount = p.amount
          /\ q.date = IF <<"payment", p.id>> \in moved THEN date ELSE p.date
      BY <1>7, <3>1
    <3> QED
      BY <1>2, <2>1, <3>2, SlotsAre DEF PaymentFollows, Carries
  <2>3. ASSUME NEW k \in 1..MaxPayment, \A q \in payments' : q.id # k
        PROVE  Empty(<<"payment", k>>)'
    <3>1. \A p \in payments : p.id # k
      BY <1>1, <1>7, <2>3
    <3> QED
      BY <1>2, <2>1, <3>1, SlotsAre DEF Empty
  <2> QED
    BY <1>9, <2>2, <2>3 DEF PaymentsFollow
<1>11. Typed'
  <2>1. invoice' \in [Invoice -> InvoiceRow \cup {NoRow}]
    <3>1. invoice' = [i \in Invoice |-> invoice'[i]]
      BY <1>1
    <3> QED
      BY <1>3, <3>1
  <2>2. note' \in [Note -> NoteRow \cup {NoRow}]
    <3>1. note' = [n \in Note |-> note'[n]]
      BY <1>1
    <3> QED
      BY <1>4, <3>1
  <2>3. receipt' \in [Receipt -> ReceiptRow \cup {NoRow}]
    <3>1. receipt' = [r \in Receipt |-> receipt'[r]]
      BY <1>1
    <3> QED
      BY <1>5, <3>1
  <2>4. deposit' \in [Deposit -> Day \cup {NoRow}]
    <3>1. deposit' = [d \in Deposit |-> deposit'[d]]
      BY <1>1
    <3> QED
      BY <1>6, <3>1
  <2> QED
    BY <1>2, <1>9, <2>1, <2>2, <2>3, <2>4 DEF IInv, Typed, TypeOK, Touches
<1>12. PaidFollows'
  <2>1. ASSUME NEW i \in Invoice PROVE PaidBy(i)' + Credited(i)' + Old(i)' = PaidOf(i)'
    <3>1. PaidBy(i)' = PaidBy(i) /\ Credited(i)' = Credited(i)
      BY <1>9, CreditedSame
    <3>2. PaidBy(i) + Credited(i) + Old(i) = PaidOf(i)
      BY DEF IInv, PaidFollows
    <3> QED
      BY <1>3, <3>1, <3>2
  <2> QED
    BY <2>1 DEF PaidFollows
<1>13. AppliedFollows'
  BY <1>4, AppliedSame DEF IInv
<1>14. InvoicesFollow' /\ NotesFollow' /\ DepositsFollow' /\ ReceiptsFollow'
  BY <1>3, <1>4, <1>5, <1>6 DEF InvoicesFollow, NotesFollow, DepositsFollow, ReceiptsFollow
<1> QED
  BY <1>10, <1>11, <1>12, <1>13, <1>14 DEF IInv

\* The payments an invoice's new date takes along are some of its own.
LEMMA MovedWithInvoice ==
    ASSUME Typed, NEW i \in Invoice, NEW date, InvoicesChangeDate(i, date)
    PROVE  \E moved \in SUBSET PaymentsOf(i) :
              /\ \A p \in moved : MayMove(<<"payment", p.id>>, date)
              /\ MayMove(<<"invoice", i>>, date)
              /\ MoveLinked({<<"invoice", i>>} \cup PaymentSlots(moved), date)
<1> DEFINE moving == {p \in PaymentsOf(i) : p.date = invoice[i].date}
           moved == {p \in moving : \A q \in moving :
                        q.id <= p.id => MayMove(<<"payment", q.id>>, date)}
<1>1. /\ MayMove(<<"invoice", i>>, date)
      /\ MoveLinked({<<"invoice", i>>} \cup PaymentSlots(moved), date)
  BY DEF InvoicesChangeDate
<1>2. \A p \in moved : p.id <= p.id => MayMove(<<"payment", p.id>>, date)
  OBVIOUS
<1>3. moved \in SUBSET PaymentsOf(i) /\ PaymentsOf(i) \in SUBSET payments
  BY DEF PaymentsOf
<1> HIDE DEF moved
<1>4. \A p \in moved : p.id <= p.id
  BY <1>3, PaymentsAre, InvoicesAssumption
<1>5. \A p \in moved : MayMove(<<"payment", p.id>>, date)
  BY <1>2, <1>4, Zenon
<1> QED
  BY <1>1, <1>3, <1>5

\* An invoice given another date takes the payments of its old day along.
LEMMA ChangeDateKeeps ==
    ASSUME IInv, NEW i \in Invoice, NEW date \in Day, InvoicesChangeDate(i, date)
    PROVE  IInv'
<1>1. PICK moved \in SUBSET PaymentsOf(i) :
          /\ \A p \in moved : MayMove(<<"payment", p.id>>, date)
          /\ MayMove(<<"invoice", i>>, date)
          /\ MoveLinked({<<"invoice", i>>} \cup PaymentSlots(moved), date)
  BY MovedWithInvoice DEF IInv
<1> DEFINE S == {<<"invoice", i>>} \cup PaymentSlots(moved)
<1>2. \A s \in S : s \in Slot /\ entry[s].state # "none"
  <2>1. \A p \in moved : p.id \in 1..MaxPayment
    BY PaymentsAre DEF PaymentsOf, IInv
  <2> QED
    BY <1>1, <2>1, SlotsAre DEF PaymentSlots, MayMove
<1>3. MoveLinked(S, date) /\ UNCHANGED <<apps, closed>>
  BY <1>1 DEF InvoicesChangeDate
<1> HIDE DEF S
<1> QED
  BY <1>2, <1>3, MoveKeeps

-----------------------------------------------------------------------------
(* The ledger screen *)

\* An entry changes in nothing a document says of it.
LEMMA EntryAloneKeeps ==
    ASSUME IInv, NEW s \in Slot, Touches({s}),
           UNCHANGED <<invoice, payments, note, apps, deposit, receipt, closed>>,
           entry[s].state = "posted",
           entry'[s].date = entry[s].date, entry'[s].ar = entry[s].ar,
           \/ entry'[s].state = "posted"
           \/ s[1] = "writeoff" /\ entry'[s].state = "void"
    PROVE  IInv'
<1>1. /\ \A t \in Slot : /\ entry'[t].date = entry[t].date
                         /\ entry'[t].ar = entry[t].ar
                         /\ entry'[t].state = "none" <=> entry[t].state = "none"
      /\ \A t \in Slot : t[1] # "writeoff" => entry'[t].state = entry[t].state
  BY DEF Touches
<1>2. ASSUME NEW i \in Invoice PROVE InvoiceFollows(i)' /\ Old(i)' = Old(i)
  <2>1. InvoiceFollows(i)
    BY InvoiceIs
  <2>2. /\ <<"invoice", i>>[1] # "writeoff" /\ <<"legacy", i>>[1] # "writeoff"
    OBVIOUS
  <2> QED
    BY <1>1, <2>1, <2>2, SlotsAre DEF InvoiceFollows, Carries, Empty, Old
<1>3. ASSUME NEW n \in Note PROVE NoteFollows(n)'
  <2>1. NoteFollows(n)
    BY NoteIs
  <2>2. <<"note", n>>[1] # "writeoff" /\ <<"refund", n>>[1] # "writeoff"
    OBVIOUS
  <2> QED
    BY <1>1, <2>1, <2>2, SlotsAre DEF NoteFollows, Carries, Empty
<1>4. ASSUME NEW r \in Receipt PROVE ReceiptFollows(r)'
  <2>1. ReceiptFollows(r) /\ <<"receipt", r>>[1] # "writeoff"
    BY ReceiptIs
  <2> QED
    BY <1>1, <2>1, SlotsAre DEF ReceiptFollows, Carries, Empty
<1>5. ASSUME NEW d \in Deposit PROVE DepositFollows(d)'
  <2>1. DepositFollows(d)
    BY DEF IInv, DepositsFollow
  <2>2. <<"deposit", d>>[1] # "writeoff"
    OBVIOUS
  <2> QED
    BY <1>1, <2>1, <2>2, SlotsAre DEF DepositFollows, Carries, Empty
<1>6. PaymentsFollow'
  <2>1. \A p \in payments : p.id \in 1..MaxPayment
    BY PaymentsAre DEF IInv
  <2>2. ASSUME NEW k \in 1..MaxPayment
        PROVE  /\ entry'[<<"payment", k>>].date = entry[<<"payment", k>>].date
               /\ entry'[<<"payment", k>>].ar = entry[<<"payment", k>>].ar
               /\ entry'[<<"payment", k>>].state = entry[<<"payment", k>>].state
    <3>1. <<"payment", k>>[1] # "writeoff" /\ <<"payment", k>> \in Slot
      BY SlotsAre
    <3> QED
      BY <1>1, <3>1
  <2>3. PaymentsFollow
    BY DEF IInv
  <2>4. ASSUME NEW p \in payments PROVE PaymentFollows(p)'
    BY <2>1, <2>2, <2>3 DEF PaymentsFollow, PaymentFollows, Carries
  <2>5. ASSUME NEW k \in 1..MaxPayment, \A p \in payments : p.id # k
        PROVE  Empty(<<"payment", k>>)'
    BY <2>2, <2>3, <2>5 DEF PaymentsFollow, Empty
  <2> QED
    BY <2>3, <2>4, <2>5 DEF PaymentsFollow
<1>7. Typed'
  BY DEF IInv, Typed, TypeOK, Touches
<1>8. PaidFollows'
  <2>1. \A i \in Invoice : PaidOf(i)' = PaidOf(i)
    BY DEF PaidOf
  <2> QED
    BY <1>2, <2>1, PaidSame
<1>9. AppliedFollows'
  <2>1. \A y \in Note : AppliedOf(y)' = AppliedOf(y)
    BY DEF AppliedOf
  <2> QED
    BY <2>1, AppliedSame DEF IInv
<1> QED
  BY <1>2, <1>3, <1>4, <1>5, <1>6, <1>7, <1>8, <1>9
     DEF IInv, InvoicesFollow, NotesFollow, ReceiptsFollow, DepositsFollow

\* A step that changes locks alone.
LEMMA SameKeeps ==
    ASSUME IInv, closed' \subseteq Day,
           UNCHANGED <<invoice, payments, note, apps, deposit, receipt, entry>>
    PROVE  IInv'
<1>1. Typed' /\ PaymentsFollow'
  BY DEF IInv, Typed, TypeOK, PaymentsFollow, PaymentFollows, Carries, Empty
<1>2. ASSUME NEW i \in Invoice
      PROVE  InvoiceFollows(i)' /\ Old(i)' = Old(i) /\ PaidOf(i)' = PaidOf(i)
  BY InvoiceIs DEF InvoiceFollows, Carries, Empty, Old, PaidOf
<1>3. NotesFollow'
  BY DEF IInv, NotesFollow, NoteFollows, Carries, Empty
<1>4. DepositsFollow' /\ ReceiptsFollow'
  BY DEF IInv, DepositsFollow, DepositFollows, ReceiptsFollow, ReceiptFollows, Carries, Empty
<1>5. PaidFollows'
  BY <1>2, PaidSame
<1>6. AppliedFollows'
  <2>1. \A n \in Note : AppliedOf(n)' = AppliedOf(n)
    BY DEF AppliedOf
  <2> QED
    BY <2>1, AppliedSame DEF IInv
<1> QED
  BY <1>1, <1>2, <1>3, <1>4, <1>5, <1>6 DEF IInv, InvoicesFollow

\* Every step of the ledger screen and the reconciliation.
LEMMA LedgerKeeps == ASSUME IInv, LedgerStep PROVE IInv'
<1>1. ASSUME NEW s \in Slot, JournalVoid(s) PROVE IInv'
  <2>1. /\ entry[s].state = "posted" /\ s[1] = "writeoff"
        /\ entry' = [entry EXCEPT ![s].state = "void"]
        /\ UNCHANGED <<invoice, payments, note, apps, deposit, receipt, closed>>
    BY <1>1 DEF JournalVoid, LinkedDocument
  <2>2. entry \in [Slot -> EntryRow] /\ entry[s] \in EntryRow
    BY DEF IInv, Typed, TypeOK
  <2>3. entry'[s] = [entry[s] EXCEPT !.state = "void"] /\ \A t \in Slot : t # s => entry'[t] = entry[t]
    BY <2>1, <2>2
  <2>4. /\ [entry[s] EXCEPT !.state = "void"] \in EntryRow
        /\ entry'[s].state = "void" /\ entry'[s].date = entry[s].date /\ entry'[s].ar = entry[s].ar
    BY <2>2, <2>3 DEF EntryRow
  <2>5. Touches({s})
    BY <2>1, <2>2, <2>3, <2>4 DEF Touches
  <2> QED
    BY <2>1, <2>4, <2>5, EntryAloneKeeps
<1>2. ASSUME NEW s \in Slot, BankReconciliationToggleLine(s) PROVE IInv'
  <2>1. /\ entry[s].state = "posted"
        /\ entry' = [entry EXCEPT ![s].cleared = ~@]
        /\ UNCHANGED <<invoice, payments, note, apps, deposit, receipt, closed>>
    BY <1>2 DEF BankReconciliationToggleLine
  <2>2. entry \in [Slot -> EntryRow] /\ entry[s] \in EntryRow
    BY DEF IInv, Typed, TypeOK
  <2>3. PICK flag \in BOOLEAN : flag = ~entry[s].cleared
    BY <2>2, Zenon DEF EntryRow
  <2>4. entry'[s] = [entry[s] EXCEPT !.cleared = flag] /\ \A t \in Slot : t # s => entry'[t] = entry[t]
    BY <2>1, <2>2, <2>3
  <2>5. /\ [entry[s] EXCEPT !.cleared = flag] \in EntryRow
        /\ entry'[s].state = "posted" /\ entry'[s].date = entry[s].date /\ entry'[s].ar = entry[s].ar
    BY <2>1, <2>2, <2>4 DEF EntryRow
  <2>6. Touches({s})
    BY <2>1, <2>2, <2>4, <2>5 DEF Touches
  <2> QED
    BY <2>1, <2>5, <2>6, EntryAloneKeeps
<1>3. ASSUME NEW s \in Slot, NEW date \in Day, JournalUpdateDate(s, date) PROVE IInv'
  <2>1. /\ MoveLinked({s}, date) /\ UNCHANGED <<apps, closed>>
        /\ \A t \in {s} : t \in Slot /\ entry[t].state # "none"
    BY <1>3 DEF JournalUpdateDate, MayMove
  <2> QED
    BY <2>1, MoveKeeps
<1>4. ASSUME NEW day \in Day, FiscalPeriodsLock(day) \/ FiscalPeriodsUnlock(day) PROVE IInv'
  <2>1. closed' \subseteq Day
    BY <1>4 DEF FiscalPeriodsLock, FiscalPeriodsUnlock, IInv, Typed, TypeOK
  <2> QED
    BY <1>4, <2>1, SameKeeps DEF FiscalPeriodsLock, FiscalPeriodsUnlock
<1> QED
  BY <1>1, <1>2, <1>3, <1>4 DEF LedgerStep

\* Every step keeps the invariant, by the part of Next it is in.
LEMMA InvariantKept == ASSUME IInv, [Next]_vars PROVE IInv'
<1>1. CASE UNCHANGED vars
  <2>1. closed' \subseteq Day
    BY <1>1 DEF vars, IInv, Typed, TypeOK
  <2> QED
    BY <1>1, <2>1, SameKeeps DEF vars
<1>2. ASSUME NEW i \in Invoice, InvoiceStep(i) PROVE IInv'
  BY <1>2, CreateKeeps, UpdateKeeps, ReceivePaymentKeeps, WriteOffKeeps, ChangeDateKeeps,
     ReverseKeeps, UndoWriteOffKeeps, DeleteKeeps, DeleteWithPaymentsKeeps DEF InvoiceStep
<1>3. ASSUME NEW n \in Note, NoteStep(n) PROVE IInv'
  BY <1>3, NoteCreateKeeps, ApplyKeeps, RefundKeeps, UndoRefundKeeps, UnapplyKeeps,
     NoteDeleteKeeps DEF NoteStep, CreditNotesUndoSettlement
<1>4. ASSUME NEW r \in Receipt, ReceiptStep(r) PROVE IInv'
  <2>1. ASSUME NEW date \in Day, SalesReceiptsChangeDate(r, date) PROVE IInv'
    <3>1. /\ MoveLinked({<<"receipt", r>>}, date) /\ UNCHANGED <<apps, closed>>
          /\ \A s \in {<<"receipt", r>>} : s \in Slot /\ entry[s].state # "none"
      BY <2>1, SlotsAre DEF SalesReceiptsChangeDate, MayMove
    <3> QED
      BY <3>1, MoveKeeps
  <2> QED
    BY <1>4, <2>1, ReceiptCreateKeeps, ReceiptDeleteKeeps DEF ReceiptStep
<1>5. ASSUME NEW d \in Deposit, DepositStep(d) PROVE IInv'
  BY <1>5, DepositsCreateKeeps, DepositsDeleteKeeps DEF DepositStep
<1> QED
  BY <1>1, <1>2, <1>3, <1>4, <1>5, LedgerKeeps DEF Next


-----------------------------------------------------------------------------
(* Accounts Receivable *)

\* What the entries of one kind add to Accounts Receivable.
ArOf(kind, ids) == [x \in ids |-> Ar[<<kind, x>>]]

\* Entries of one kind, added up by the ids of their documents.
LEMMA SumOfKind ==
    ASSUME NEW kind, NEW ids, IsFiniteSet(ids), \A x \in ids : Ar[<<kind, x>>] \in Int
    PROVE  /\ SumFunctionOnSet(Ar, {kind} \X ids) = SumFunction(ArOf(kind, ids))
           /\ SumFunction(ArOf(kind, ids)) \in Int
           /\ IsFiniteSet({kind} \X ids)
<1> DEFINE name == [x \in ids |-> <<kind, x>>]
           N == {name[x] : x \in ids}
           f == ArOf(kind, ids)
<1>1. N = {kind} \X ids
  OBVIOUS
<1>2. /\ DOMAIN f = ids /\ \A x \in ids : f[x] = Ar[<<kind, x>>]
      /\ \A x \in ids : name[x] = <<kind, x>>
  BY DEF ArOf
<1> HIDE DEF f, name
<1>3. IntOn(f, ids) /\ Renames(f, ids, name, Ar, N)
  <2>1. \A x, y \in ids : name[x] = name[y] => x = y
    BY <1>2
  <2> QED
    BY <1>2, <2>1 DEF IntOn, Renames
<1>4. IsFiniteSet(N)
  BY ImageIsFinite
<1> HIDE DEF N
<1>5. SumFunctionOnSet(Ar, N) = SumFunctionOnSet(f, ids)
  BY <1>3, SumRelabel
<1>6. SumFunctionOnSet(f, ids) \in Int
  BY <1>3, SumInt
<1> QED
  BY <1>1, <1>2, <1>4, <1>5, <1>6 DEF SumFunction, f

\* What one entry adds to Accounts Receivable.
LEMMA ArIs ==
    ASSUME Typed
    PROVE  /\ DOMAIN Ar = Slot
           /\ \A s \in Slot : Ar[s] \in Int
           /\ \A s \in Slot : Ar[s] = IF entry[s].state = "posted" THEN entry[s].ar ELSE 0
<1>1. \A s \in Slot : entry[s].ar \in Int
  <2>1. \A s \in Slot : entry[s] \in EntryRow
    BY DEF Typed, TypeOK
  <2> QED
    BY <2>1 DEF EntryRow
<1> QED
  BY <1>1 DEF Ar

\* Of one part of the entries at a time.
LEMMA SumSheds ==
    ASSUME NEW S, IsFiniteSet(S), IntOn(Ar, S), NEW R \in SUBSET S
    PROVE  /\ SumFunctionOnSet(Ar, S) = SumFunctionOnSet(Ar, R) + SumFunctionOnSet(Ar, S \ R)
           /\ IsFiniteSet(S \ R) /\ IntOn(Ar, S \ R)
<1>1. IsFiniteSet(S \ R) /\ IntOn(Ar, S \ R)
  BY FS_Subset DEF IntOn
<1> QED
  BY <1>1, SumSplit

\* Accounts Receivable, kind by kind: deposits and receipts have no part in it.
LEMMA ArByKind ==
    ASSUME IInv
    PROVE  /\ SumFunction(Ar) = SumFunction(ArOf("invoice", Invoice))
                                + SumFunction(ArOf("writeoff", Invoice))
                                + SumFunction(ArOf("legacy", Invoice))
                                + SumFunction(ArOf("payment", 1..MaxPayment))
                                + SumFunction(ArOf("note", Note))
                                + SumFunction(ArOf("refund", Note))
           /\ SumFunction(ArOf("invoice", Invoice)) \in Int
           /\ SumFunction(ArOf("writeoff", Invoice)) \in Int
           /\ SumFunction(ArOf("legacy", Invoice)) \in Int
           /\ SumFunction(ArOf("payment", 1..MaxPayment)) \in Int
           /\ SumFunction(ArOf("note", Note)) \in Int
           /\ SumFunction(ArOf("refund", Note)) \in Int
<1> DEFINE Of(kind, ids) == SumFunctionOnSet(Ar, {kind} \X ids)
           P == 1..MaxPayment
<1>0. Typed /\ IsFiniteSet(P) /\ MaxPayment \in Int
  <2>1. 1 \in Int /\ MaxPayment \in Int
    BY InvoicesAssumption
  <2> QED
    BY <2>1, FS_Interval DEF IInv
<1>1. ASSUME NEW kind, NEW ids, IsFiniteSet(ids), \A x \in ids : <<kind, x>> \in Slot
      PROVE  /\ Of(kind, ids) = SumFunction(ArOf(kind, ids))
             /\ SumFunction(ArOf(kind, ids)) \in Int
             /\ IsFiniteSet({kind} \X ids)
  BY <1>0, <1>1, ArIs, SumOfKind
<1>2. IsFiniteSet(Slot) /\ IntOn(Ar, Slot)
  <2>1. /\ IsFiniteSet({"invoice"} \X Invoice) /\ IsFiniteSet({"writeoff"} \X Invoice)
        /\ IsFiniteSet({"legacy"} \X Invoice) /\ IsFiniteSet({"payment"} \X P)
        /\ IsFiniteSet({"note"} \X Note) /\ IsFiniteSet({"refund"} \X Note)
        /\ IsFiniteSet({"deposit"} \X Deposit) /\ IsFiniteSet({"receipt"} \X Receipt)
    BY <1>0, <1>1, IdsAreFinite, SlotsAre
  <2>2. Slot = ({"invoice"} \X Invoice) \cup ({"writeoff"} \X Invoice)
               \cup ({"legacy"} \X Invoice) \cup ({"payment"} \X P)
               \cup ({"note"} \X Note) \cup ({"refund"} \X Note)
               \cup ({"deposit"} \X Deposit) \cup ({"receipt"} \X Receipt)
    BY DEF Slot
  <2>3. IsFiniteSet(Slot)
    BY <2>1, <2>2, FS_Union
  <2> QED
    BY <1>0, <2>3, ArIs DEF IntOn
<1> DEFINE R1 == Slot \ ({"invoice"} \X Invoice)
           R2 == R1 \ ({"writeoff"} \X Invoice)
           R3 == R2 \ ({"legacy"} \X Invoice)
           R4 == R3 \ ({"payment"} \X P)
           R5 == R4 \ ({"note"} \X Note)
           R6 == R5 \ ({"refund"} \X Note)
<1>3. /\ ({"invoice"} \X Invoice) \in SUBSET Slot
      /\ ({"writeoff"} \X Invoice) \in SUBSET R1
      /\ ({"legacy"} \X Invoice) \in SUBSET R2
      /\ ({"payment"} \X P) \in SUBSET R3
      /\ ({"note"} \X Note) \in SUBSET R4
      /\ ({"refund"} \X Note) \in SUBSET R5
      /\ R6 \subseteq ({"deposit"} \X Deposit) \cup ({"receipt"} \X Receipt)
  BY DEF Slot
<1> HIDE DEF P
<1>4. /\ SumFunctionOnSet(Ar, Slot) = Of("invoice", Invoice) + SumFunctionOnSet(Ar, R1)
      /\ IsFiniteSet(R1) /\ IntOn(Ar, R1)
  BY <1>2, <1>3, SumSheds
<1> HIDE DEF R1
<1>5. /\ SumFunctionOnSet(Ar, R1) = Of("writeoff", Invoice) + SumFunctionOnSet(Ar, R2)
      /\ IsFiniteSet(R2) /\ IntOn(Ar, R2)
  BY <1>3, <1>4, SumSheds
<1> HIDE DEF R2
<1>6. /\ SumFunctionOnSet(Ar, R2) = Of("legacy", Invoice) + SumFunctionOnSet(Ar, R3)
      /\ IsFiniteSet(R3) /\ IntOn(Ar, R3)
  BY <1>3, <1>5, SumSheds
<1> HIDE DEF R3
<1>7. /\ SumFunctionOnSet(Ar, R3) = Of("payment", P) + SumFunctionOnSet(Ar, R4)
      /\ IsFiniteSet(R4) /\ IntOn(Ar, R4)
  BY <1>3, <1>6, SumSheds
<1> HIDE DEF R4
<1>8. /\ SumFunctionOnSet(Ar, R4) = Of("note", Note) + SumFunctionOnSet(Ar, R5)
      /\ IsFiniteSet(R5) /\ IntOn(Ar, R5)
  BY <1>3, <1>7, SumSheds
<1> HIDE DEF R5
<1>9. /\ SumFunctionOnSet(Ar, R5) = Of("refund", Note) + SumFunctionOnSet(Ar, R6)
      /\ IsFiniteSet(R6) /\ IntOn(Ar, R6)
  BY <1>3, <1>8, SumSheds
<1>10. SumFunctionOnSet(Ar, R6) = 0
  <2>1. ASSUME NEW d \in Deposit PROVE Ar[<<"deposit", d>>] = 0
    <3>1. DepositFollows(d)
      BY DEF IInv, DepositsFollow
    <3> QED
      BY <1>0, <3>1, ArIs, SlotsAre DEF DepositFollows, Carries, Empty
  <2>2. ASSUME NEW r \in Receipt PROVE Ar[<<"receipt", r>>] = 0
    BY <1>0, ArIs, SlotsAre, ReceiptIs DEF ReceiptFollows, Carries, Empty
  <2>3. \A s \in R6 : Ar[s] = 0
    BY <1>3, <2>1, <2>2
  <2> HIDE DEF R6
  <2> QED
    BY <1>9, <2>3, SumZero
<1> HIDE DEF R6, Of
<1>11. /\ Of("invoice", Invoice) = SumFunction(ArOf("invoice", Invoice))
       /\ Of("writeoff", Invoice) = SumFunction(ArOf("writeoff", Invoice))
       /\ Of("legacy", Invoice) = SumFunction(ArOf("legacy", Invoice))
       /\ Of("payment", P) = SumFunction(ArOf("payment", P))
       /\ Of("note", Note) = SumFunction(ArOf("note", Note))
       /\ Of("refund", Note) = SumFunction(ArOf("refund", Note))
       /\ SumFunction(ArOf("invoice", Invoice)) \in Int
       /\ SumFunction(ArOf("writeoff", Invoice)) \in Int
       /\ SumFunction(ArOf("legacy", Invoice)) \in Int
       /\ SumFunction(ArOf("payment", P)) \in Int
       /\ SumFunction(ArOf("note", Note)) \in Int
       /\ SumFunction(ArOf("refund", Note)) \in Int
  <2>1. \A k \in P : <<"payment", k>> \in Slot
    BY SlotsAre DEF P
  <2> QED
    BY <1>0, <1>1, <2>1, IdsAreFinite, SlotsAre
<1>12. SumFunction(Ar) = SumFunctionOnSet(Ar, Slot)
  BY <1>0, ArIs DEF SumFunction
<1> QED
  BY <1>4, <1>5, <1>6, <1>7, <1>8, <1>9, <1>10, <1>11, <1>12 DEF P

PaidTable == [i \in Invoice |-> PaidBy(i)]
CreditedTable == [i \in Invoice |-> Credited(i)]
AppliedTable == [n \in Note |-> AllApplied(n)]

\* An invoice's entries come to what it owes and what was paid or credited of it.
LEMMA ArOfInvoices ==
    ASSUME IInv
    PROVE  /\ SumFunction(ArOf("invoice", Invoice)) + SumFunction(ArOf("writeoff", Invoice))
              + SumFunction(ArOf("legacy", Invoice))
              = SumFunction(Owed) + SumFunction(PaidTable) + SumFunction(CreditedTable)
           /\ SumFunction(Owed) \in Int /\ SumFunction(PaidTable) \in Int
           /\ SumFunction(CreditedTable) \in Int
<1> DEFINE a == ArOf("invoice", Invoice)
           b == ArOf("writeoff", Invoice)
           c == ArOf("legacy", Invoice)
           ab == [i \in Invoice |-> a[i] + b[i]]
           op == [i \in Invoice |-> Owed[i] + PaidTable[i]]
           all == [i \in Invoice |-> a[i] + b[i] + c[i]]
<1>1. ASSUME NEW i \in Invoice
      PROVE  /\ a[i] \in Int /\ b[i] \in Int /\ c[i] \in Int
             /\ Owed[i] \in Int /\ PaidTable[i] \in Int /\ CreditedTable[i] \in Int
             /\ a[i] + b[i] + c[i] = Owed[i] + PaidTable[i] + CreditedTable[i]
  <2>1. /\ a[i] = Ar[<<"invoice", i>>] /\ b[i] = Ar[<<"writeoff", i>>] /\ c[i] = Ar[<<"legacy", i>>]
        /\ a[i] \in Int /\ b[i] \in Int /\ c[i] \in Int
    <3>1. Typed
      BY DEF IInv
    <3> QED
      BY <3>1, ArIs, SlotsAre DEF ArOf
  <2>2. /\ PaidTable[i] = PaidBy(i) /\ CreditedTable[i] = Credited(i)
        /\ PaidBy(i) \in Nat /\ Credited(i) \in Nat /\ Old(i) \in Nat
        /\ PaidBy(i) + Credited(i) + Old(i) = PaidOf(i)
        /\ PaidOf(i) = 0 => PaidBy(i) = 0 /\ Credited(i) = 0
    BY PaidParts DEF PaidTable, CreditedTable
  <2>3. /\ a[i] = IF entry[<<"invoice", i>>].state = "posted" THEN entry[<<"invoice", i>>].ar ELSE 0
        /\ b[i] = IF entry[<<"writeoff", i>>].state = "posted" THEN entry[<<"writeoff", i>>].ar ELSE 0
        /\ c[i] = IF entry[<<"legacy", i>>].state = "posted" THEN entry[<<"legacy", i>>].ar ELSE 0
    <3>1. Typed
      BY DEF IInv
    <3> QED
      BY <2>1, <3>1, ArIs, SlotsAre
  <2> HIDE DEF a, b, c
  <2>4. CASE invoice[i] = NoRow
    <3>1. a[i] = 0 /\ b[i] = 0 /\ c[i] = 0
      BY <2>3, <2>4, InvoiceIs DEF InvoiceFollows, Empty
    <3>2. Owed[i] = 0 /\ PaidOf(i) = 0
      BY <2>4 DEF Owed, PaidOf
    <3> QED
      BY <2>1, <2>2, <3>1, <3>2
  <2>5. CASE invoice[i] # NoRow
    <3>1. /\ invoice[i] \in InvoiceRow /\ InvoiceFollows(i)
      BY <2>5, InvoiceIs
    <3>2. invoice[i].total \in Amount /\ invoice[i].paid \in Nat /\ invoice[i].writtenOff \in Nat
      BY <3>1 DEF InvoiceRow
    <3>3. invoice[i].total \in Int
      BY <3>2, TotalsAre
    <3>4. a[i] = invoice[i].total
      BY <2>3, <2>5, <3>1 DEF InvoiceFollows, Carries
    <3>5. c[i] = 0 - Old(i)
      BY <2>2, <2>3, <2>5, <3>1, <3>3 DEF InvoiceFollows, Old, Empty
    <3>6. b[i] = 0 - StandingWriteOff(i) /\ StandingWriteOff(i) \in Int
      BY <2>3, <2>5, <3>1, <3>2 DEF InvoiceFollows, StandingWriteOff, Empty
    <3>7. Owed[i] = invoice[i].total - invoice[i].paid - StandingWriteOff(i)
      BY <2>5 DEF Owed
    <3>8. PaidOf(i) = invoice[i].paid
      BY <2>5 DEF PaidOf
    <3> QED
      BY <2>1, <2>2, <3>2, <3>3, <3>4, <3>5, <3>6, <3>7, <3>8
  <2> QED
    BY <2>4, <2>5
<1>2. /\ DOMAIN a = Invoice /\ DOMAIN b = Invoice /\ DOMAIN c = Invoice
      /\ DOMAIN Owed = Invoice /\ DOMAIN PaidTable = Invoice /\ DOMAIN CreditedTable = Invoice
  BY DEF ArOf, Owed, PaidTable, CreditedTable
<1>3. IsFiniteSet(Invoice)
  BY IdsAreFinite
<1> HIDE DEF a, b, c
<1>4. /\ IntOn(a, Invoice) /\ IntOn(b, Invoice) /\ IntOn(c, Invoice) /\ IntOn(Owed, Invoice)
      /\ IntOn(PaidTable, Invoice) /\ IntOn(CreditedTable, Invoice)
      /\ IntOn(ab, Invoice) /\ IntOn(op, Invoice)
  BY <1>1 DEF IntOn
<1>5. /\ \A i \in Invoice : ab[i] = a[i] + b[i]
      /\ \A i \in Invoice : op[i] = Owed[i] + PaidTable[i]
      /\ \A i \in Invoice : all[i] = ab[i] + c[i]
      /\ \A i \in Invoice : all[i] = op[i] + CreditedTable[i]
  BY <1>1
<1> HIDE DEF ab, op, all
<1>6. /\ SumFunctionOnSet(ab, Invoice) = SumFunctionOnSet(a, Invoice) + SumFunctionOnSet(b, Invoice)
      /\ SumFunctionOnSet(op, Invoice) = SumFunctionOnSet(Owed, Invoice) + SumFunctionOnSet(PaidTable, Invoice)
  BY <1>3, <1>4, <1>5, SumPlus
<1>7. /\ SumFunctionOnSet(all, Invoice) = SumFunctionOnSet(ab, Invoice) + SumFunctionOnSet(c, Invoice)
      /\ SumFunctionOnSet(all, Invoice) = SumFunctionOnSet(op, Invoice) + SumFunctionOnSet(CreditedTable, Invoice)
  BY <1>3, <1>4, <1>5, SumPlus
<1>8. /\ SumFunctionOnSet(Owed, Invoice) \in Int /\ SumFunctionOnSet(PaidTable, Invoice) \in Int
      /\ SumFunctionOnSet(CreditedTable, Invoice) \in Int
  BY <1>3, <1>4, SumInt
<1>9. /\ SumFunctionOnSet(a, Invoice) + SumFunctionOnSet(b, Invoice) + SumFunctionOnSet(c, Invoice)
         = SumFunctionOnSet(Owed, Invoice) + SumFunctionOnSet(PaidTable, Invoice)
           + SumFunctionOnSet(CreditedTable, Invoice)
  BY <1>6, <1>7
<1> QED
  BY <1>2, <1>8, <1>9 DEF SumFunction, a, b, c

\* A note's entries cancel against the credit it still holds and what was applied.
LEMMA ArOfNotes ==
    ASSUME IInv
    PROVE  /\ SumFunction(ArOf("note", Note)) + SumFunction(ArOf("refund", Note))
              + SumFunction(Credit) + SumFunction(AppliedTable) = 0
           /\ SumFunction(Credit) \in Int /\ SumFunction(AppliedTable) \in Int
<1> DEFINE a == ArOf("note", Note)
           b == ArOf("refund", Note)
           ab == [n \in Note |-> a[n] + b[n]]
           ca == [n \in Note |-> Credit[n] + AppliedTable[n]]
           all == [n \in Note |-> a[n] + b[n] + Credit[n] + AppliedTable[n]]
<1>1. ASSUME NEW n \in Note
      PROVE  /\ a[n] \in Int /\ b[n] \in Int /\ Credit[n] \in Int /\ AppliedTable[n] \in Int
             /\ a[n] + b[n] + Credit[n] + AppliedTable[n] = 0
  <2>0. Typed
    BY DEF IInv
  <2>1. /\ a[n] \in Int /\ b[n] \in Int
        /\ a[n] = IF entry[<<"note", n>>].state = "posted" THEN entry[<<"note", n>>].ar ELSE 0
        /\ b[n] = IF entry[<<"refund", n>>].state = "posted" THEN entry[<<"refund", n>>].ar ELSE 0
    BY <2>0, ArIs, SlotsAre DEF ArOf
  <2>2. AppliedTable[n] = AppliedOf(n)
    BY DEF AppliedTable, IInv, AppliedFollows
  <2> HIDE DEF a, b
  <2>3. CASE note[n] = NoRow
    <3>1. a[n] = 0 /\ b[n] = 0
      BY <2>1, <2>3, NoteIs DEF NoteFollows, Empty
    <3>2. Credit[n] = 0 /\ AppliedOf(n) = 0
      BY <2>3 DEF Credit, AppliedOf
    <3> QED
      BY <2>2, <3>1, <3>2
  <2>4. CASE note[n] # NoRow
    <3>1. note[n].total \in Int /\ note[n].applied \in Int /\ NoteFollows(n)
      BY <2>4, NoteIs
    <3>2. a[n] = 0 - note[n].total
      BY <2>1, <2>4, <3>1 DEF NoteFollows, Carries
    <3>3. AppliedOf(n) = note[n].applied
      BY <2>4 DEF AppliedOf
    <3>4. CASE note[n].status = "refunded"
      <4>1. b[n] = note[n].total - note[n].applied /\ Credit[n] = 0
        BY <2>1, <2>4, <3>1, <3>4 DEF NoteFollows, Credit
      <4> QED
        BY <2>2, <3>1, <3>2, <3>3, <4>1
    <3>5. CASE note[n].status # "refunded"
      <4>1. b[n] = 0 /\ Credit[n] = note[n].total - note[n].applied
        BY <2>1, <2>4, <3>1, <3>5 DEF NoteFollows, Credit, Empty
      <4> QED
        BY <2>2, <3>1, <3>2, <3>3, <4>1
    <3> QED
      BY <3>4, <3>5
  <2> QED
    BY <2>3, <2>4
<1>2. /\ DOMAIN a = Note /\ DOMAIN b = Note /\ DOMAIN Credit = Note /\ DOMAIN AppliedTable = Note
  BY DEF ArOf, Credit, AppliedTable
<1>3. IsFiniteSet(Note)
  BY IdsAreFinite
<1> HIDE DEF a, b
<1>4. /\ IntOn(a, Note) /\ IntOn(b, Note) /\ IntOn(Credit, Note) /\ IntOn(AppliedTable, Note)
      /\ IntOn(ab, Note) /\ IntOn(ca, Note)
  BY <1>1 DEF IntOn
<1>5. /\ \A n \in Note : ab[n] = a[n] + b[n]
      /\ \A n \in Note : ca[n] = Credit[n] + AppliedTable[n]
      /\ \A n \in Note : all[n] = ab[n] + ca[n]
      /\ \A n \in Note : all[n] = 0
  BY <1>1
<1> HIDE DEF ab, ca, all
<1>6. /\ SumFunctionOnSet(ab, Note) = SumFunctionOnSet(a, Note) + SumFunctionOnSet(b, Note)
      /\ SumFunctionOnSet(ca, Note) = SumFunctionOnSet(Credit, Note) + SumFunctionOnSet(AppliedTable, Note)
      /\ SumFunctionOnSet(all, Note) = SumFunctionOnSet(ab, Note) + SumFunctionOnSet(ca, Note)
  BY <1>3, <1>4, <1>5, SumPlus
<1>7. SumFunctionOnSet(all, Note) = 0
  BY <1>3, <1>5, SumZero
<1>8. /\ SumFunctionOnSet(a, Note) \in Int /\ SumFunctionOnSet(b, Note) \in Int
      /\ SumFunctionOnSet(Credit, Note) \in Int /\ SumFunctionOnSet(AppliedTable, Note) \in Int
  BY <1>3, <1>4, SumInt
<1>9. SumFunctionOnSet(a, Note) + SumFunctionOnSet(b, Note)
      + SumFunctionOnSet(Credit, Note) + SumFunctionOnSet(AppliedTable, Note) = 0
  BY <1>6, <1>7, <1>8
<1> QED
  BY <1>2, <1>8, <1>9 DEF SumFunction, a, b

\* What was applied of all notes is what was credited to all invoices.
LEMMA CreditIsCredit ==
    ASSUME Typed
    PROVE  SumFunction(AppliedTable) = SumFunction(CreditedTable)
<1> DEFINE row == [n \in Note |-> [i \in Invoice |-> AppliedTo(n, i)]]
           column == [i \in Invoice |-> [n \in Note |-> AppliedTo(n, i)]]
<1>1. IsFiniteSet(Note) /\ IsFiniteSet(Invoice)
  BY IdsAreFinite
<1>2. ASSUME NEW n \in Note
      PROVE  /\ IntOn(row[n], Invoice)
             /\ AppliedTable[n] = SumFunctionOnSet(row[n], Invoice)
  <2>1. /\ apps[n] \in Seq(Application)
        /\ AllApplied(n) = SumFunction(AmountsIn(apps[n]))
        /\ \A i \in Invoice : /\ AppliedTo(n, i) = SumFunction(AmountsFor(apps[n], i))
                              /\ AppliedTo(n, i) \in Nat
    BY AppliedTyped
  <2> DEFINE S == DOMAIN apps[n]
             f == AmountsIn(apps[n])
             class == [k \in S |-> apps[n][k].target]
             col == [i \in Invoice |-> AmountsFor(apps[n], i)]
  <2>2. S = 1..Len(apps[n]) /\ \A k \in S : apps[n][k] \in Application
    BY <2>1
  <2>3. IsFiniteSet(S)
    <3>1. 1 \in Int /\ Len(apps[n]) \in Int
      BY <2>1
    <3> QED
      BY <2>2, <3>1, FS_Interval
  <2>4. \A k \in S : apps[n][k].amount \in Nat /\ apps[n][k].target \in Invoice
    BY <2>2, ApplicationAmounts
  <2>5. /\ \A k \in S : f[k] = apps[n][k].amount /\ class[k] = apps[n][k].target
        /\ DOMAIN f = S
        /\ \A i \in Invoice : /\ DOMAIN col[i] = S
                              /\ \A k \in S : col[i][k] = IF class[k] = i THEN f[k] ELSE 0
    BY DEF AmountsIn, AmountsFor
  <2>6. \A i \in Invoice : row[n][i] = AppliedTo(n, i) /\ col[i] = AmountsFor(apps[n], i)
    OBVIOUS
  <2> HIDE DEF f, class, col, row
  <2>7. \A i \in Invoice : row[n][i] = SumFunctionOnSet(col[i], S)
    BY <2>1, <2>5, <2>6 DEF SumFunction
  <2>8. IntOn(f, S) /\ Sorted(f, S, class, Invoice, col, row[n])
    BY <2>4, <2>5, <2>7 DEF IntOn, Sorted
  <2> HIDE DEF S
  <2>9. SumFunctionOnSet(row[n], Invoice) = SumFunctionOnSet(f, S)
    BY <1>1, <2>3, <2>8, SumByClass
  <2>10. AllApplied(n) = SumFunctionOnSet(f, S)
    BY <2>1, <2>5 DEF SumFunction, f
  <2> QED
    BY <2>1, <2>6, <2>9, <2>10 DEF IntOn, AppliedTable
<1>3. \A i \in Invoice : CreditedTable[i] = SumFunctionOnSet(column[i], Note)
  BY DEF CreditedTable, Credited, SumFunction
<1>4. \A n \in Note, i \in Invoice : column[i][n] = row[n][i]
  OBVIOUS
<1> HIDE DEF row, column
<1>5. Crossed(Note, Invoice, row, column, AppliedTable, CreditedTable)
  BY <1>2, <1>3, <1>4 DEF Crossed
<1>6. SumFunctionOnSet(AppliedTable, Note) = SumFunctionOnSet(CreditedTable, Invoice)
  BY <1>1, <1>5, SumSwap
<1>7. DOMAIN AppliedTable = Note /\ DOMAIN CreditedTable = Invoice
  BY DEF AppliedTable, CreditedTable
<1> QED
  BY <1>6, <1>7 DEF SumFunction

\* The entries of the payments are what was paid of all invoices.
LEMMA ArOfPayments ==
    ASSUME IInv
    PROVE  SumFunction(ArOf("payment", 1..MaxPayment)) + SumFunction(PaidTable) = 0
<1> DEFINE S == 1..MaxPayment
           g == ArOf("payment", S)
           name == [p \in payments |-> p.id]
           used == {name[p] : p \in payments}
           f == [p \in payments |-> 0 - p.amount]
           h == [p \in payments |-> p.amount]
           class == [p \in payments |-> p.invoice]
           column == [i \in Invoice |-> [p \in payments |-> IF p.invoice = i THEN p.amount ELSE 0]]
           zero == [p \in payments |-> 0]
<1>1. /\ Typed /\ IsFiniteSet(payments) /\ IsFiniteSet(Invoice)
      /\ \A p \in payments : p.amount \in Nat /\ p.invoice \in Invoice /\ p.id \in S
      /\ \A p, q \in payments : p.id = q.id => p = q
      /\ \A p \in payments : PaymentFollows(p)
      /\ \A k \in S : (\A p \in payments : p.id # k) => Empty(<<"payment", k>>)
  BY PaymentsAre, IdsAreFinite DEF IInv, Typed, PaymentsFollow
<1>2. IsFiniteSet(S)
  <2>1. 1 \in Int /\ MaxPayment \in Int
    BY InvoicesAssumption
  <2> QED
    BY <2>1, FS_Interval
<1>3. /\ \A k \in S : <<"payment", k>> \in Slot /\ g[k] = Ar[<<"payment", k>>]
      /\ DOMAIN g = S
  BY SlotsAre DEF ArOf
<1>4. /\ \A p \in payments : /\ name[p] = p.id /\ f[p] = 0 - p.amount /\ h[p] = p.amount
                             /\ class[p] = p.invoice /\ zero[p] = 0
      /\ \A i \in Invoice : /\ DOMAIN column[i] = payments
                            /\ \A p \in payments : column[i][p] = IF class[p] = i THEN h[p] ELSE 0
  OBVIOUS
<1>5. used \in SUBSET S /\ IsFiniteSet(used)
  <2>1. used \in SUBSET S
    BY <1>1
  <2> QED
    BY <1>2, <2>1, FS_Subset
<1>6. \A k \in S : (\A p \in payments : p.id # k) \/ k \in used
  BY <1>4
<1> HIDE DEF g, name, f, h, class, column, zero, S
<1>7. /\ IntOn(g, S) /\ \A p \in payments : g[name[p]] = f[p]
      /\ \A k \in S \ used : g[k] = 0
  <2>1. \A k \in S : g[k] \in Int
    BY <1>1, <1>3, ArIs
  <2>2. ASSUME NEW p \in payments PROVE g[name[p]] = f[p]
    <3>1. name[p] = p.id /\ p.id \in S /\ f[p] = 0 - p.amount
      BY <1>1, <1>4
    <3>2. g[p.id] = Ar[<<"payment", p.id>>] /\ <<"payment", p.id>> \in Slot
      BY <1>3, <3>1
    <3>3. Ar[<<"payment", p.id>>] = IF entry[<<"payment", p.id>>].state = "posted"
                                    THEN entry[<<"payment", p.id>>].ar ELSE 0
      BY <1>1, <3>2, ArIs
    <3>4. PaymentFollows(p)
      BY <1>1
    <3>5. entry[<<"payment", p.id>>].state = "posted"
          /\ entry[<<"payment", p.id>>].ar = 0 - p.amount
      BY <3>4 DEF PaymentFollows, Carries
    <3> QED
      BY <3>1, <3>2, <3>3, <3>5
  <2>3. ASSUME NEW k \in S \ used PROVE g[k] = 0
    <3>1. Empty(<<"payment", k>>)
      BY <1>1, <1>6
    <3> QED
      BY <1>1, <1>3, <3>1, ArIs DEF Empty
  <2> QED
    BY <2>1, <2>2, <2>3 DEF IntOn
<1>8. SumFunctionOnSet(g, S) = SumFunctionOnSet(g, used)
  BY <1>2, <1>5, <1>7, SumSupport
<1>9. Renames(f, payments, name, g, used) /\ IntOn(f, payments) /\ IntOn(h, payments)
  BY <1>1, <1>4, <1>7 DEF Renames, IntOn
<1>10. SumFunctionOnSet(g, used) = SumFunctionOnSet(f, payments)
  <2> HIDE DEF used
  <2> QED
    BY <1>1, <1>9, SumRelabel
<1>11. \A i \in Invoice : PaidTable[i] = SumFunctionOnSet(column[i], payments)
  <2>1. ASSUME NEW i \in Invoice PROVE PaidTable[i] = SumFunctionOnSet(column[i], payments)
    <3> DEFINE own == PaymentsOf(i)
               amounts == [p \in own |-> p.amount]
    <3>1. /\ own \in SUBSET payments /\ \A p \in own : p.invoice = i
          /\ \A p \in payments \ own : p.invoice # i
      BY DEF PaymentsOf
    <3>2. PaidTable[i] = SumFunctionOnSet(amounts, own)
      BY DEF PaidTable, PaidBy, Amounts, SumFunction
    <3>3. /\ \A p \in own : amounts[p] = p.amount
      OBVIOUS
    <3> HIDE DEF own, amounts
    <3>4. IsFiniteSet(own)
      BY <1>1, <3>1, FS_Subset
    <3>5. SumFunctionOnSet(amounts, own) = SumFunctionOnSet(column[i], own)
      <4>1. \A p \in own : amounts[p] = column[i][p]
        BY <1>4, <3>1, <3>3
      <4> QED
        BY <3>4, <4>1, SumAgree
    <3>6. SumFunctionOnSet(column[i], own) = SumFunctionOnSet(column[i], payments)
      <4>1. IntOn(column[i], payments)
        BY <1>1, <1>4 DEF IntOn
      <4>2. \A p \in payments \ own : column[i][p] = 0
        BY <1>4, <3>1
      <4> QED
        BY <1>1, <3>1, <4>1, <4>2, SumSupport
    <3> QED
      BY <3>2, <3>5, <3>6
  <2> QED
    BY <2>1
<1>12. Sorted(h, payments, class, Invoice, column, PaidTable)
  BY <1>1, <1>4, <1>11 DEF Sorted
<1>13. SumFunctionOnSet(PaidTable, Invoice) = SumFunctionOnSet(h, payments)
  BY <1>1, <1>9, <1>12, SumByClass
<1>14. SumFunctionOnSet(zero, payments)
       = SumFunctionOnSet(f, payments) + SumFunctionOnSet(h, payments)
  <2>1. \A p \in payments : zero[p] = f[p] + h[p]
    BY <1>1, <1>4
  <2> QED
    BY <1>1, <1>9, <2>1, SumPlus
<1>15. SumFunctionOnSet(zero, payments) = 0
  BY <1>1, <1>4, SumZero
<1>16. DOMAIN PaidTable = Invoice
  BY DEF PaidTable
<1> QED
  BY <1>3, <1>8, <1>10, <1>13, <1>14, <1>15, <1>16 DEF SumFunction, g, S

\* Accounts Receivable is the sum of those parts, and the payments and the credit cancel.
LEMMA ReceivablesFollow == ASSUME IInv PROVE ReceivablesAgree
<1> DEFINE ar == SumFunction(Ar)
           ai == SumFunction(ArOf("invoice", Invoice))
           aw == SumFunction(ArOf("writeoff", Invoice))
           al == SumFunction(ArOf("legacy", Invoice))
           ap == SumFunction(ArOf("payment", 1..MaxPayment))
           an == SumFunction(ArOf("note", Note))
           af == SumFunction(ArOf("refund", Note))
           owed == SumFunction(Owed)
           credit == SumFunction(Credit)
           paid == SumFunction(PaidTable)
           credited == SumFunction(CreditedTable)
           applied == SumFunction(AppliedTable)
<1>1. applied = credited
  BY CreditIsCredit DEF IInv
<1>2. /\ ar = ai + aw + al + ap + an + af
      /\ ai \in Int /\ aw \in Int /\ al \in Int /\ ap \in Int /\ an \in Int /\ af \in Int
  BY ArByKind
<1>3. /\ ai + aw + al = owed + paid + credited
      /\ owed \in Int /\ paid \in Int /\ credited \in Int
  BY ArOfInvoices
<1>4. an + af + credit + applied = 0 /\ credit \in Int /\ applied \in Int
  BY ArOfNotes
<1>5. ap + paid = 0
  BY ArOfPayments
<1>6. ReceivablesAgree <=> ar = owed - credit
  BY DEF ReceivablesAgree
<1> HIDE DEF ar, ai, aw, al, ap, an, af, owed, credit, paid, credited, applied
<1>7. ar = owed - credit
  BY <1>1, <1>2, <1>3, <1>4, <1>5
<1> QED
  BY <1>6, <1>7

-----------------------------------------------------------------------------
(* The initial states *)

\* Nothing comes to nothing.
LEMMA NothingComesToNothing ==
    /\ \A i : payments = {} => PaidBy(i) = 0
    /\ \A n \in Note : \A i : apps[n] = <<>> => AppliedTo(n, i) = 0 /\ AllApplied(n) = 0
    /\ \A i : (\A n \in Note : AppliedTo(n, i) = 0) => Credited(i) = 0
<1>1. ASSUME NEW i, payments = {} PROVE PaidBy(i) = 0
  <2> DEFINE f == [r \in PaymentsOf(i) |-> r.amount]
  <2>1. PaymentsOf(i) = {}
    BY <1>1 DEF PaymentsOf
  <2>2. DOMAIN f = {} /\ \A y \in {} : f[y] = 0
    BY <2>1
  <2>3. PaidBy(i) = SumFunction(f)
    BY DEF PaidBy, Amounts
  <2> HIDE DEF f
  <2> QED
    BY <2>2, <2>3, FS_EmptySet, TableZero
<1>2. ASSUME NEW n \in Note, NEW i, apps[n] = <<>>
      PROVE  AppliedTo(n, i) = 0 /\ AllApplied(n) = 0
  <2> DEFINE f == [k \in DOMAIN apps[n] |->
                      IF apps[n][k].target = i THEN apps[n][k].amount ELSE 0]
             g == [k \in DOMAIN apps[n] |-> apps[n][k].amount]
  <2>1. DOMAIN apps[n] = {}
    BY <1>2
  <2>2. DOMAIN f = {} /\ DOMAIN g = {} /\ \A y \in {} : f[y] = 0 /\ g[y] = 0
    BY <2>1
  <2>3. AppliedTo(n, i) = SumFunction(f) /\ AllApplied(n) = SumFunction(g)
    BY DEF AppliedTo, AllApplied
  <2> HIDE DEF f, g
  <2> QED
    BY <2>2, <2>3, FS_EmptySet, TableZero
<1>3. ASSUME NEW i, \A n \in Note : AppliedTo(n, i) = 0 PROVE Credited(i) = 0
  <2> DEFINE f == [n \in Note |-> AppliedTo(n, i)]
  <2>1. DOMAIN f = Note /\ \A n \in Note : f[n] = 0
    BY <1>3
  <2>2. Credited(i) = SumFunction(f)
    BY DEF Credited
  <2> HIDE DEF f
  <2> QED
    BY <2>1, <2>2, IdsAreFinite, TableZero
<1> QED
  BY <1>1, <1>2, <1>3

\* An invoice of an older file has its entry and its payment's, and nothing else has.
LEMMA InvariantStarts == Init => IInv
<1> SUFFICES ASSUME Init PROVE IInv
  OBVIOUS
<1>1. PICK old \in SUBSET Invoice, total \in Amount :
        /\ invoice = [i \in Invoice |-> IF i \in old THEN LegacyPaid(total) ELSE NoRow]
        /\ entry = [s \in Slot |->
               CASE s \in {"invoice"} \X old -> Entry(1, total, 0, FALSE)
                 [] s \in {"legacy"} \X old -> Entry(1, 0 - total, total, FALSE)
                 [] OTHER -> NoEntry]
  BY DEF Init
<1>2. /\ payments = {}
      /\ note = [n \in Note |-> NoRow]
      /\ apps = [n \in Note |-> <<>>]
      /\ deposit = [d \in Deposit |-> NoRow]
      /\ receipt = [r \in Receipt |-> NoRow]
      /\ closed = {}
  BY DEF Init
<1> DEFINE carried == Entry(1, total, 0, FALSE)
           paid == Entry(1, 0 - total, total, FALSE)
<1>3. 1 \in Day /\ total \in Nat \ {0} /\ total \in Int /\ 0 - total \in Int
  BY InvoicesAssumption, TotalsAre DEF Day
<1>4. /\ carried \in EntryRow /\ paid \in EntryRow /\ NoEntry \in EntryRow
      /\ carried.state = "posted" /\ carried.date = 1 /\ carried.ar = total
      /\ paid.state = "posted" /\ paid.ar = 0 - total /\ NoEntry.state = "none"
  BY <1>3 DEF Entry, EntryRow, NoEntry
<1>5. /\ \A s \in Slot : entry[s] \in {carried, paid, NoEntry}
      /\ DOMAIN entry = Slot /\ entry = [s \in Slot |-> entry[s]]
      /\ \A i \in Invoice : /\ entry[<<"invoice", i>>] = IF i \in old THEN carried ELSE NoEntry
                            /\ entry[<<"legacy", i>>] = IF i \in old THEN paid ELSE NoEntry
      /\ \A s \in Slot : s[1] \notin {"invoice", "legacy"} => entry[s] = NoEntry
  <2>1. /\ \A s \in Slot : s \in {"invoice"} \X old => entry[s] = carried
        /\ \A s \in Slot : s \notin {"invoice"} \X old /\ s \in {"legacy"} \X old => entry[s] = paid
        /\ \A s \in Slot : s \notin {"invoice"} \X old /\ s \notin {"legacy"} \X old
                              => entry[s] = NoEntry
        /\ DOMAIN entry = Slot /\ entry = [s \in Slot |-> entry[s]]
    BY <1>1
  <2> HIDE DEF carried, paid
  <2>2. \A i \in Invoice : /\ <<"invoice", i>> \in {"invoice"} \X old <=> i \in old
                           /\ <<"legacy", i>> \notin {"invoice"} \X old
                           /\ <<"legacy", i>> \in {"legacy"} \X old <=> i \in old
                           /\ <<"invoice", i>> \notin {"legacy"} \X old
    OBVIOUS
  <2>3. \A s \in Slot : s[1] \notin {"invoice", "legacy"}
                           => s \notin {"invoice"} \X old /\ s \notin {"legacy"} \X old
    OBVIOUS
  <2>4. \A i \in Invoice : /\ entry[<<"invoice", i>>] = IF i \in old THEN carried ELSE NoEntry
                           /\ entry[<<"legacy", i>>] = IF i \in old THEN paid ELSE NoEntry
    BY <2>1, <2>2, SlotsAre
  <2>5. \A s \in Slot : s[1] \notin {"invoice", "legacy"} => entry[s] = NoEntry
    BY <2>1, <2>3
  <2>6. \A s \in Slot : entry[s] \in {carried, paid, NoEntry}
    BY <2>1
  <2> QED
    BY <2>1, <2>4, <2>5, <2>6
<1> HIDE DEF carried, paid
<1>6. LegacyPaid(total) \in InvoiceRow /\ LegacyPaid(total).total = total
      /\ LegacyPaid(total).paid = total /\ LegacyPaid(total).writtenOff = 0
      /\ LegacyPaid(total).date = 1
  BY <1>3 DEF LegacyPaid, InvoiceRow
<1>7. Typed
  <2>1. \A s \in Slot : entry[s] \in EntryRow
    BY <1>4, <1>5
  <2>2. entry \in [Slot -> EntryRow]
    BY <1>5, <2>1
  <2>3. invoice \in [Invoice -> InvoiceRow \cup {NoRow}]
    BY <1>1, <1>6
  <2>4. apps \in [Note -> Seq(Application)]
    BY <1>2
  <2> QED
    BY <1>2, <2>2, <2>3, <2>4, FS_EmptySet DEF Typed, TypeOK
<1>8. /\ \A i \in Invoice : Empty(<<"writeoff", i>>)
      /\ \A k \in 1..MaxPayment : Empty(<<"payment", k>>)
      /\ \A n \in Note : Empty(<<"note", n>>) /\ Empty(<<"refund", n>>)
      /\ \A d \in Deposit : Empty(<<"deposit", d>>)
      /\ \A r \in Receipt : Empty(<<"receipt", r>>)
  <2>1. \A s \in Slot : s[1] \notin {"invoice", "legacy"} => entry[s].state = "none"
    BY <1>4, <1>5
  <2> QED
    BY <2>1, SlotsAre DEF Empty
<1>9. ASSUME NEW i \in Invoice PROVE InvoiceFollows(i) /\ Old(i) = PaidOf(i)
  <2>1. CASE i \in old
    <3>1. /\ invoice[i] = LegacyPaid(total) /\ entry[<<"invoice", i>>] = carried
          /\ entry[<<"legacy", i>>] = paid
      BY <1>1, <1>5, <2>1
    <3>2. invoice[i] # NoRow
      BY <1>6, <3>1, RowsAreSome
    <3>3. InvoiceFollows(i)
      BY <1>3, <1>4, <1>6, <1>8, <3>1, <3>2 DEF InvoiceFollows, Carries, Empty
    <3>4. Old(i) = 0 - (0 - total) /\ PaidOf(i) = total
      BY <1>4, <1>6, <3>1, <3>2 DEF Old, Empty, PaidOf
    <3> QED
      BY <1>3, <3>3, <3>4
  <2>2. CASE i \notin old
    <3>1. /\ invoice[i] = NoRow /\ entry[<<"invoice", i>>] = NoEntry
          /\ entry[<<"legacy", i>>] = NoEntry
      BY <1>1, <1>5, <2>2
    <3> QED
      BY <1>4, <1>8, <3>1 DEF InvoiceFollows, Empty, Old, PaidOf
  <2> QED
    BY <2>1, <2>2
<1>10. PaidFollows
  <2>1. ASSUME NEW i \in Invoice PROVE PaidBy(i) + Credited(i) + Old(i) = PaidOf(i)
    <3>1. PaidBy(i) = 0
      BY <1>2, NothingComesToNothing
    <3>2. \A n \in Note : apps[n] = <<>>
      BY <1>2
    <3>3. Credited(i) = 0
      BY <3>2, NothingComesToNothing
    <3>4. PaidOf(i) \in Int
      BY <1>1, <1>3, <1>6 DEF PaidOf
    <3> QED
      BY <1>9, <3>1, <3>3, <3>4
  <2> QED
    BY <2>1 DEF PaidFollows
<1>11. AppliedFollows
  <2>1. \A n \in Note : apps[n] = <<>> /\ note[n] = NoRow
    BY <1>2
  <2> QED
    BY <2>1, NothingComesToNothing DEF AppliedFollows, AppliedOf
<1>12. NotesFollow /\ DepositsFollow /\ ReceiptsFollow /\ PaymentsFollow
  BY <1>2, <1>8 DEF NotesFollow, NoteFollows, DepositsFollow, DepositFollows, ReceiptsFollow,
     ReceiptFollows, PaymentsFollow
<1> QED
  BY <1>7, <1>9, <1>10, <1>11, <1>12 DEF IInv, InvoicesFollow

\* Types, entries that say what their documents say, and sums that agree: always.
THEOREM InvariantHolds == Spec => []IInv
<1>1. IInv /\ [Next]_vars => IInv'
  BY InvariantKept
<1> QED
  BY <1>1, InvariantStarts, PTL DEF Spec

-----------------------------------------------------------------------------
(* What the invariant says *)

\* Every table holds rows of its kind, whatever was invoiced, paid, credited, deposited,
\* moved and undone: no reversal leaves a negative paid amount or a status of its own.
THEOREM TypeCorrect == Spec => []TypeOK
<1>1. IInv => TypeOK
  BY DEF IInv, Typed
<1> QED
  BY <1>1, InvariantHolds, PTL

\* A stored document has its entry and the entry its date, by the invariant.
LEMMA DatesAre == ASSUME IInv PROVE DatesFollow
<1>1. DOMAIN invoice = Invoice /\ DOMAIN note = Note /\ DOMAIN receipt = Receipt
      /\ DOMAIN deposit = Deposit
  BY DEF IInv, Typed, TypeOK
<1>2. CarriedBy(invoice, "invoice")
  BY <1>1 DEF CarriedBy, Stored, IInv, InvoicesFollow, InvoiceFollows, Carries
<1>3. CarriedBy(note, "note")
  BY <1>1 DEF CarriedBy, Stored, IInv, NotesFollow, NoteFollows, Carries
<1>4. CarriedBy(receipt, "receipt")
  BY <1>1 DEF CarriedBy, Stored, IInv, ReceiptsFollow, ReceiptFollows, Carries
<1>5. \A p \in payments : PaymentFollows(p)
  BY DEF IInv, PaymentsFollow
<1>6. \A d \in Stored(deposit) : Carries(<<"deposit", d>>, deposit[d], 0)
  BY <1>1 DEF Stored, IInv, DepositsFollow, DepositFollows
<1> QED
  BY <1>2, <1>3, <1>4, <1>5, <1>6 DEF DatesFollow, PaymentFollows, Carries

\* A stored document has its posted entry and the entry its date, from whichever side the
\* date was corrected (invoicesChangeDate, salesReceiptsChangeDate, journalUpdateDate).
THEOREM DatesAlwaysFollow == Spec => []DatesFollow
<1>1. IInv => DatesFollow
  BY DatesAre
<1> QED
  BY <1>1, InvariantHolds, PTL

\* No payment and no application exceeds the paid amount, so none has lost its invoice.
LEMMA Backed == ASSUME IInv PROVE PaidIsBacked
<1>0. Typed
  BY DEF IInv
<1>1. ASSUME NEW p \in payments PROVE invoice[p.invoice] # NoRow
  <2> DEFINE i == p.invoice
  <2>1. i \in Invoice /\ p.amount \in Nat \ {0} /\ p \in PaymentsOf(i)
    BY <1>0, PaymentsAre DEF PaymentsOf
  <2> HIDE DEF i
  <2>2. p.amount <= PaidBy(i) /\ PaidBy(i) \in Nat
    BY <1>0, <2>1, PaidByTyped
  <2>3. PaidOf(i) = 0 => PaidBy(i) = 0
    BY <2>1, PaidParts
  <2>4. invoice[i] = NoRow => PaidOf(i) = 0
    BY DEF PaidOf
  <2>5. invoice[i] # NoRow
    BY <2>1, <2>2, <2>3, <2>4
  <2> QED
    BY <2>5 DEF i
<1>2. ASSUME NEW n \in Note, NEW k \in DOMAIN apps[n] PROVE invoice[apps[n][k].target] # NoRow
  <2> DEFINE i == apps[n][k].target
             f == AmountsFor(apps[n], i)
  <2>1. apps[n] \in Seq(Application) /\ DOMAIN apps[n] = 1..Len(apps[n]) /\ Len(apps[n]) \in Nat
    BY <1>0 DEF Typed, TypeOK
  <2>2. \A j \in DOMAIN apps[n] : apps[n][j].amount \in Nat \ {0} /\ apps[n][j].target \in Invoice
    <3>1. \A j \in DOMAIN apps[n] : apps[n][j] \in Application
      BY <2>1
    <3> QED
      BY <3>1 DEF Application
  <2>3. /\ DOMAIN f = DOMAIN apps[n] /\ \A j \in DOMAIN apps[n] : f[j] \in Nat
        /\ f[k] = apps[n][k].amount
    BY <2>2 DEF AmountsFor
  <2>4. IsFiniteSet(DOMAIN apps[n])
    <3>1. 1 \in Int /\ Len(apps[n]) \in Int
      BY <2>1
    <3> QED
      BY <2>1, <3>1, FS_Interval
  <2>5. i \in Invoice /\ f[k] \in Nat \ {0}
    BY <2>2, <2>3
  <2>6. AppliedTo(n, i) = SumFunction(f)
    BY <1>0, AppliedTyped
  <2> HIDE DEF i, f
  <2>7. SumFunction(f) \in Nat /\ f[k] <= SumFunction(f)
    BY <2>3, <2>4, TableBounds
  <2>8. AppliedTo(n, i) <= Credited(i) /\ Credited(i) \in Nat
    BY <1>0, CreditedTyped
  <2>9. PaidOf(i) = 0 => Credited(i) = 0
    BY <2>5, PaidParts
  <2>10. invoice[i] = NoRow => PaidOf(i) = 0
    BY DEF PaidOf
  <2>11. invoice[i] # NoRow
    BY <2>5, <2>6, <2>7, <2>8, <2>9, <2>10
  <2> QED
    BY <2>11 DEF i
<1>3. ASSUME NEW i \in Stored(invoice), ~Legacy(i)
      PROVE  invoice[i].paid = Amounts(PaymentsOf(i)) + SumFunction([n \in Note |-> AppliedTo(n, i)])
  <2>1. i \in Invoice /\ invoice[i] # NoRow
    BY <1>0 DEF Stored, Typed, TypeOK
  <2>2. Old(i) = 0
    BY <1>3 DEF Legacy, Old, Empty
  <2>3. /\ PaidBy(i) + Credited(i) + Old(i) = PaidOf(i)
        /\ PaidBy(i) \in Nat /\ Credited(i) \in Nat
    BY <2>1, PaidParts
  <2>4. PaidOf(i) = invoice[i].paid
    BY <2>1 DEF PaidOf
  <2>5. invoice[i].paid = PaidBy(i) + Credited(i)
    BY <2>2, <2>3, <2>4
  <2> QED
    BY <2>5 DEF PaidBy, Credited
<1>4. ASSUME NEW n \in Stored(note)
      PROVE  note[n].applied = SumFunction([k \in DOMAIN apps[n] |-> apps[n][k].amount])
  <2>1. n \in Note /\ note[n] # NoRow
    BY <1>0 DEF Stored, Typed, TypeOK
  <2>2. AllApplied(n) = AppliedOf(n) /\ AppliedOf(n) = note[n].applied
    BY <2>1 DEF IInv, AppliedFollows, AppliedOf
  <2> QED
    BY <2>2 DEF AllApplied
<1> QED
  BY <1>1, <1>2, <1>3, <1>4 DEF PaidIsBacked

\* What an invoice says was paid is the payments and the credit it still has, what a credit
\* note says was applied is its applications, and none of them has lost its invoice.
THEOREM PaidIsAlwaysBacked == Spec => []PaidIsBacked
<1>1. IInv => PaidIsBacked
  BY Backed
<1> QED
  BY <1>1, InvariantHolds, PTL

\* Accounts Receivable in the ledger is what the invoices still owe less the credit
\* customers still hold, after any order of payments, reversals, credits, refunds, edits and
\* deletions.
THEOREM ReceivablesAlwaysAgree == Spec => []ReceivablesAgree
<1>1. IInv => ReceivablesAgree
  BY ReceivablesFollow
<1> QED
  BY <1>1, InvariantHolds, PTL

-----------------------------------------------------------------------------
(* What a locked month reports *)

\* What ClosedMonthSealed says of one entry, and of all but the write-offs'.
Sealed(s) ==
    /\ entry[s].state = "posted" /\ entry[s].date \in closed
          => Figures(entry'[s]) = Figures(entry[s])
    /\ entry'[s].state = "posted" /\ entry'[s].date \in closed
          => Figures(entry'[s]) = Figures(entry[s])
AllSealed == \A s \in Slot : s[1] # "writeoff" => Sealed(s)

\* An entry that is in no locked month.
OutOfIt(s) == Empty(s) \/ IsOpen(entry[s].date)

\* What documents void is in no locked month.
LEMMA MayVoidIsOutOfIt == ASSUME NEW s, MayVoid(s) PROVE OutOfIt(s)
BY DEF MayVoid, OutOfIt

\* An entry posted in an open month, where none was or in place of one of an open month.
LEMMA PostSeals ==
    ASSUME Typed, NEW s \in Slot, NEW date, NEW ar, NEW uf, NEW bank,
           Post(s, date, ar, uf, bank), s[1] = "writeoff" \/ OutOfIt(s)
    PROVE  AllSealed
<1>1. /\ entry'[s] = Entry(date, ar, uf, bank)
      /\ \A t \in Slot : t # s => entry'[t] = entry[t]
      /\ IsOpen(date)
  BY DEF Post, Typed, TypeOK
<1>2. entry'[s].date = date
  BY <1>1 DEF Entry
<1> QED
  BY <1>1, <1>2 DEF AllSealed, Sealed, OutOfIt, Empty, IsOpen

\* Entries voided, each of them in an open month.
LEMMA WithoutSeals ==
    ASSUME NEW slots, entry' = Without(slots),
           \A s \in slots : s[1] = "writeoff" \/ OutOfIt(s)
    PROVE  AllSealed
<1>1. \A s \in Slot : entry'[s] = IF s \in slots THEN NoEntry ELSE entry[s]
  BY DEF Without
<1>2. NoEntry.state = "none"
  BY DEF NoEntry
<1> QED
  BY <1>1, <1>2 DEF AllSealed, Sealed, OutOfIt, Empty, IsOpen

\* Entries given another date, from an open month to an open month.
LEMMA MoveSeals ==
    ASSUME Typed, NEW moved, NEW date, MoveLinked(moved, date),
           \A s \in moved : MayMove(s, date)
    PROVE  AllSealed
<1>1. \A s \in Slot : entry'[s] = IF s \in moved THEN [entry[s] EXCEPT !.date = date] ELSE entry[s]
  BY DEF MoveLinked
<1>2. \A s \in Slot : "date" \in DOMAIN entry[s]
  BY DEF Typed, TypeOK, EntryRow
<1>3. \A s \in Slot : s \in moved => entry'[s].date = date
  BY <1>1, <1>2
<1> QED
  BY <1>1, <1>3 DEF AllSealed, Sealed, MayMove, IsOpen

\* Entries that stay are what they were.
LEMMA SameSeals == ASSUME entry' = entry PROVE AllSealed
BY DEF AllSealed, Sealed

\* An invoice posts where it has no entry or one it may void, and voids what it may.
LEMMA InvoiceSeals == ASSUME IInv, NEW i \in Invoice, InvoiceStep(i) PROVE AllSealed
<1>0. Typed
  BY DEF IInv
<1>1. ASSUME NEW date \in Day, NEW total \in Amount, InvoicesCreate(i, date, total)
      PROVE  AllSealed
  <2>1. invoice[i] = NoRow /\ Post(<<"invoice", i>>, date, total, 0, FALSE)
    BY <1>1 DEF InvoicesCreate
  <2>2. OutOfIt(<<"invoice", i>>)
    BY <2>1, InvoiceIs DEF InvoiceFollows, OutOfIt
  <2> QED
    BY <1>0, <2>1, <2>2, SlotsAre, PostSeals
<1>2. ASSUME NEW date \in Day, NEW total \in Amount, InvoicesUpdate(i, date, total)
      PROVE  AllSealed
  <2>1. MayVoid(<<"invoice", i>>) /\ Post(<<"invoice", i>>, date, total, 0, FALSE)
    BY <1>2 DEF InvoicesUpdate
  <2> QED
    BY <1>0, <2>1, MayVoidIsOutOfIt, SlotsAre, PostSeals
<1>3. ASSUME NEW date \in Day, NEW amount, NEW account \in Money,
             InvoicesReceivePayment(i, date, amount, account)
      PROVE  AllSealed
  <2>1. /\ NextPayment \in 1..MaxPayment
        /\ Post(<<"payment", NextPayment>>, date, 0 - amount,
                InUf(account, amount), account = "bank")
    BY <1>3 DEF InvoicesReceivePayment
  <2>2. Empty(<<"payment", NextPayment>>)
    BY <1>0, <2>1, NextPaymentIsNew DEF IInv, PaymentsFollow
  <2>3. OutOfIt(<<"payment", NextPayment>>) /\ <<"payment", NextPayment>> \in Slot
    BY <2>1, <2>2, SlotsAre DEF OutOfIt
  <2> QED
    BY <1>0, <2>1, <2>3, PostSeals
<1>4. ASSUME NEW date \in Day, InvoicesWriteOff(i, date) PROVE AllSealed
  <2>1. Post(<<"writeoff", i>>, date, 0 - Balance(invoice[i]), 0, FALSE)
    BY <1>4 DEF InvoicesWriteOff
  <2> QED
    BY <1>0, <2>1, SlotsAre, PostSeals
<1>5. ASSUME NEW date \in Day, InvoicesChangeDate(i, date) PROVE AllSealed
  <2>1. PICK moved \in SUBSET PaymentsOf(i) :
            /\ \A p \in moved : MayMove(<<"payment", p.id>>, date)
            /\ MayMove(<<"invoice", i>>, date)
            /\ MoveLinked({<<"invoice", i>>} \cup PaymentSlots(moved), date)
    BY <1>0, <1>5, MovedWithInvoice
  <2>2. \A s \in {<<"invoice", i>>} \cup PaymentSlots(moved) : MayMove(s, date)
    BY <2>1 DEF PaymentSlots
  <2> QED
    BY <1>0, <2>1, <2>2, MoveSeals
<1>6. ASSUME InvoicesReverseLastPayment(i) PROVE AllSealed
  <2> DEFINE p == Newest(PaymentsOf(i))
  <2>1. MayVoid(<<"payment", p.id>>) /\ entry' = Without(PaymentSlots({p}))
    BY <1>6 DEF InvoicesReverseLastPayment
  <2> HIDE DEF p
  <2>2. \A s \in PaymentSlots({p}) : s = <<"payment", p.id>>
    BY DEF PaymentSlots
  <2>3. \A s \in PaymentSlots({p}) : OutOfIt(s)
    BY <2>1, <2>2, MayVoidIsOutOfIt
  <2> QED
    BY <2>1, <2>3, WithoutSeals
<1>7. ASSUME InvoicesUndoWriteOff(i) PROVE AllSealed
  <2>1. entry' = Without({<<"writeoff", i>>})
    BY <1>7 DEF InvoicesUndoWriteOff
  <2> QED
    BY <2>1, WithoutSeals
<1>8. ASSUME InvoicesDelete(i) PROVE AllSealed
  <2>1. MayVoid(<<"invoice", i>>) /\ entry' = Without({<<"invoice", i>>})
    BY <1>8 DEF InvoicesDelete
  <2> QED
    BY <2>1, MayVoidIsOutOfIt, WithoutSeals
<1>9. ASSUME InvoicesDeleteWithPayments(i) PROVE AllSealed
  <2> DEFINE back == IF invoice[i].writtenOff > 0 THEN WrittenBack(invoice[i]) ELSE invoice[i]
             banked == \E p \in PaymentsOf(i) : p.deposit # NoRow
             gone == {p \in PaymentsOf(i) :
                         /\ ~banked
                         /\ \A q \in PaymentsOf(i) :
                               NotOlder(q, p) => MayVoid(<<"payment", q.id>>)}
             row == Reversed(i, back, gone)
             deleted == /\ gone = PaymentsOf(i)
                        /\ row.paid = 0
                        /\ MayVoid(<<"invoice", i>>)
             slots == {<<"writeoff", i>>} \cup PaymentSlots(gone)
                      \cup IF deleted THEN {<<"invoice", i>>} ELSE {}
  <2>1. entry' = Without(slots)
    BY <1>9 DEF InvoicesDeleteWithPayments
  <2>2. ASSUME NEW p \in gone PROVE MayVoid(<<"payment", p.id>>)
    <3>1. p \in PaymentsOf(i) /\ (NotOlder(p, p) => MayVoid(<<"payment", p.id>>))
      OBVIOUS
    <3>2. p.id \in Int
      BY <1>0, <3>1, PaymentsAre, InvoicesAssumption DEF PaymentsOf
    <3>3. NotOlder(p, p)
      BY <3>2 DEF NotOlder
    <3> QED
      BY <3>1, <3>3
  <2>3. deleted => MayVoid(<<"invoice", i>>)
    OBVIOUS
  <2> HIDE DEF gone, deleted
  <2>4. ASSUME NEW s \in slots PROVE s[1] = "writeoff" \/ OutOfIt(s)
    <3>1. \/ s = <<"writeoff", i>>
          \/ \E p \in gone : s = <<"payment", p.id>>
          \/ deleted /\ s = <<"invoice", i>>
      BY DEF PaymentSlots
    <3> QED
      BY <2>2, <2>3, <3>1, MayVoidIsOutOfIt
  <2> HIDE DEF slots
  <2> QED
    BY <2>1, <2>4, WithoutSeals
<1> QED
  BY <1>1, <1>2, <1>3, <1>4, <1>5, <1>6, <1>7, <1>8, <1>9 DEF InvoiceStep

\* So does a credit note.
LEMMA NoteSeals == ASSUME IInv, NEW n \in Note, NoteStep(n) PROVE AllSealed
<1>0. Typed
  BY DEF IInv
<1>1. ASSUME NEW date \in Day, NEW total \in Amount, CreditNotesCreate(n, date, total)
      PROVE  AllSealed
  <2>1. note[n] = NoRow /\ Post(<<"note", n>>, date, 0 - total, 0, FALSE)
    BY <1>1 DEF CreditNotesCreate
  <2>2. OutOfIt(<<"note", n>>)
    BY <2>1, NoteIs DEF NoteFollows, OutOfIt
  <2> QED
    BY <1>0, <2>1, <2>2, SlotsAre, PostSeals
<1>2. ASSUME NEW date \in Day, CreditNotesRefund(n, date) PROVE AllSealed
  <2>1. /\ note[n] # NoRow /\ note[n].status # "refunded"
        /\ Post(<<"refund", n>>, date, Remaining(note[n]), 0, TRUE)
    BY <1>2 DEF CreditNotesRefund
  <2>2. OutOfIt(<<"refund", n>>)
    BY <2>1, NoteIs DEF NoteFollows, OutOfIt
  <2> QED
    BY <1>0, <2>1, <2>2, SlotsAre, PostSeals
<1>3. ASSUME UndoRefund(n) PROVE AllSealed
  <2>1. MayVoid(<<"refund", n>>) /\ entry' = Without({<<"refund", n>>})
    BY <1>3 DEF UndoRefund
  <2> QED
    BY <2>1, MayVoidIsOutOfIt, WithoutSeals
<1>4. ASSUME CreditNotesDelete(n) PROVE AllSealed
  <2>1. MayVoid(<<"note", n>>) /\ entry' = Without({<<"note", n>>})
    BY <1>4 DEF CreditNotesDelete
  <2> QED
    BY <2>1, MayVoidIsOutOfIt, WithoutSeals
<1>5. ASSUME Unapply(n) PROVE AllSealed
  BY <1>5, SameSeals DEF Unapply
<1>6. ASSUME NEW i \in Invoice, NEW amount, CreditNotesApply(n, i, amount) PROVE AllSealed
  BY <1>6, SameSeals DEF CreditNotesApply
<1> QED
  BY <1>1, <1>2, <1>3, <1>4, <1>5, <1>6 DEF NoteStep, CreditNotesUndoSettlement

\* So does a receipt.
LEMMA ReceiptSeals == ASSUME IInv, NEW r \in Receipt, ReceiptStep(r) PROVE AllSealed
<1>0. Typed
  BY DEF IInv
<1>1. ASSUME NEW date \in Day, NEW total \in Amount, NEW account \in Money,
             SalesReceiptsCreate(r, date, total, account)
      PROVE  AllSealed
  <2>1. receipt[r] = NoRow
        /\ Post(<<"receipt", r>>, date, 0, InUf(account, total), account = "bank")
    BY <1>1 DEF SalesReceiptsCreate
  <2>2. OutOfIt(<<"receipt", r>>)
    BY <2>1, ReceiptIs DEF ReceiptFollows, OutOfIt
  <2> QED
    BY <1>0, <2>1, <2>2, SlotsAre, PostSeals
<1>2. ASSUME NEW date \in Day, SalesReceiptsChangeDate(r, date) PROVE AllSealed
  <2>1. MayMove(<<"receipt", r>>, date) /\ MoveLinked({<<"receipt", r>>}, date)
    BY <1>2 DEF SalesReceiptsChangeDate
  <2> QED
    BY <1>0, <2>1, MoveSeals
<1>3. ASSUME SalesReceiptsDelete(r) PROVE AllSealed
  <2>1. MayVoid(<<"receipt", r>>) /\ entry' = Without({<<"receipt", r>>})
    BY <1>3 DEF SalesReceiptsDelete
  <2> QED
    BY <2>1, MayVoidIsOutOfIt, WithoutSeals
<1> QED
  BY <1>1, <1>2, <1>3 DEF ReceiptStep

\* So does a deposit.
LEMMA DepositSeals == ASSUME IInv, NEW d \in Deposit, DepositStep(d) PROVE AllSealed
<1>0. Typed
  BY DEF IInv
<1>1. ASSUME NEW date \in Day, NEW is, NEW ps, NEW rs, DepositsCreate(d, date, is, ps, rs)
      PROVE  AllSealed
  <2>1. PICK cents : Post(<<"deposit", d>>, date, 0, cents, TRUE)
    BY <1>1 DEF DepositsCreate
  <2>2. Empty(<<"deposit", d>>)
    BY <1>1 DEF DepositsCreate, IInv, DepositsFollow, DepositFollows
  <2> QED
    BY <1>0, <2>1, <2>2, SlotsAre, PostSeals DEF OutOfIt
<1>2. ASSUME DepositsDelete(d) PROVE AllSealed
  <2>1. MayVoid(<<"deposit", d>>) /\ entry' = Without({<<"deposit", d>>})
    BY <1>2 DEF DepositsDelete
  <2> QED
    BY <2>1, MayVoidIsOutOfIt, WithoutSeals
<1> QED
  BY <1>1, <1>2 DEF DepositStep

\* The ledger screen voids write-offs only, and moves what it may move.
LEMMA LedgerSeals == ASSUME IInv, LedgerStep PROVE AllSealed
<1>0. Typed /\ DOMAIN entry = Slot
  BY DEF IInv, Typed, TypeOK
<1>1. ASSUME NEW s \in Slot, JournalVoid(s) PROVE AllSealed
  <2>1. s[1] = "writeoff"
    BY <1>1 DEF JournalVoid, LinkedDocument
  <2>2. \A t \in Slot : t # s => entry'[t] = entry[t]
    BY <1>0, <1>1 DEF JournalVoid
  <2> QED
    BY <2>1, <2>2 DEF AllSealed, Sealed
<1>2. ASSUME NEW s \in Slot, BankReconciliationToggleLine(s) PROVE AllSealed
  <2>1. entry' = [entry EXCEPT ![s].cleared = ~@]
    BY <1>2 DEF BankReconciliationToggleLine
  <2>2. \A t \in Slot : t # s => entry'[t] = entry[t]
    BY <1>0, <2>1
  <2>3. Figures(entry'[s]) = Figures(entry[s])
    <3>1. entry'[s] = [entry[s] EXCEPT !.cleared = ~entry[s].cleared]
      BY <1>0, <2>1
    <3>2. entry[s] \in EntryRow
      BY DEF IInv, Typed, TypeOK
    <3> QED
      BY <3>1, <3>2 DEF EntryRow, Figures
  <2> QED
    BY <2>2, <2>3 DEF AllSealed, Sealed
<1>3. ASSUME NEW s \in Slot, NEW date \in Day, JournalUpdateDate(s, date) PROVE AllSealed
  <2>1. MayMove(s, date) /\ MoveLinked({s}, date)
    BY <1>3 DEF JournalUpdateDate
  <2> QED
    BY <1>0, <2>1, MoveSeals
<1>4. ASSUME NEW day, FiscalPeriodsLock(day) \/ FiscalPeriodsUnlock(day) PROVE AllSealed
  BY <1>4, SameSeals DEF FiscalPeriodsLock, FiscalPeriodsUnlock
<1> QED
  BY <1>1, <1>2, <1>3, <1>4 DEF LedgerStep

\* No handler of a document, however many transactions it has, changes what a locked month
\* reports: each posts, voids and moves in open months alone.
THEOREM ClosedMonthIsSealed == Spec => ClosedMonthSealed
<1>1. IInv /\ [Next]_vars =>
        [\A s \in Slot : s[1] # "writeoff" =>
            /\ entry[s].state = "posted" /\ entry[s].date \in closed
                  => Figures(entry'[s]) = Figures(entry[s])
            /\ entry'[s].state = "posted" /\ entry'[s].date \in closed
                  => Figures(entry'[s]) = Figures(entry[s])]_vars
  <2> SUFFICES ASSUME IInv, Next PROVE AllSealed
    BY DEF AllSealed, Sealed
  <2> QED
    BY InvoiceSeals, NoteSeals, ReceiptSeals, DepositSeals, LedgerSeals DEF Next
<1> QED
  BY <1>1, InvariantHolds, PTL DEF Spec, ClosedMonthSealed
=============================================================================
