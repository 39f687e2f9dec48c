----------------------------- MODULE Purchasing -----------------------------
(***************************************************************************)
(* Purchase orders, goods receipts, vendor bills, their payments and       *)
(* vendor credits in the desktop program                                   *)
(* (src/src/main/ipc/purchaseOrders.handlers.ts, bills.handlers.ts,        *)
(* creditNotes.handlers.ts), with what they post to Accounts Payable and   *)
(* to Goods Received Not Invoiced and the stock they bring in.  Every      *)
(* handler here is one transaction: what the journal refuses leaves        *)
(* nothing.                                                                *)
(*                                                                         *)
(* One vendor and one stock product, which costs one cent a unit; an order *)
(* has one line.  Dates, tax and foreign currency are left out.            *)
(***************************************************************************)
EXTENDS Integers, Sequences, FiniteSetsExt, Functions

CONSTANTS
    Order, Receipt, Bill, Payment, Credit,  \* ids of documents
    Amount,        \* the totals a bill or a credit may have
    MaxQuantity,   \* bound on what an order asks for
    BillQuantity,  \* the quantities of stock a bill may bring in
    Threshold,     \* approval_po_threshold_cents
    NoRow          \* no such row, or a null reference

ASSUME PurchasingAssumption ==
    /\ Amount \subseteq Nat \ {0}
    /\ MaxQuantity \in Nat \ {0}
    /\ BillQuantity \subseteq Nat
    /\ Threshold \in Nat
    /\ NoRow \notin Bill \cup Nat

\* Ids of rows are 64-bit numbers.
ASSUME IdsAreFinite ==
    \A ids \in {Order, Receipt, Bill, Payment, Credit} : IsFiniteSet(ids)

VARIABLES
    order,      \* table purchase_orders, with its one line
    receipt,    \* tables purchase_order_receipts and ..._receipt_lines
    bill,       \* table bills, with the one line of each
    payment,    \* table bill_payments
    credit,     \* table credit_notes, vendor credits only
    apps,       \* table credit_note_applications: per credit, in order of id
    movements,  \* table inventory_movements: stock that came in, in order of id
    entry       \* the posted journal entry of each document

vars == <<order, receipt, bill, payment, credit, apps, movements, entry>>

-----------------------------------------------------------------------------
(* Rows *)

Quantity == 1..MaxQuantity
Cents == 1..Max(Amount)   \* what one payment or one application may be

OrderStatus == {"draft", "sent", "received", "cancelled", "converted"}
OrderApproval == {"notRequired", "pending", "approved", "rejected"}
BillApproval == {"pending", "approved", "rejected", "onHold"}

\* "agreed" is history: the total when it was last approved, 0 when approved_at
\* is null.  A bill is born approved and agreed by nobody.
OrderRow == [status: OrderStatus, approval: OrderApproval, agreed: Nat,
             quantity: Quantity, received: Nat,
             converted: Bill \cup {NoRow}, matched: Bill \cup {NoRow}]
ReceiptRow == [order: Order, quantity: Quantity]

BillRow == [amount: Nat \ {0}, paid: Nat, status: {"unpaid", "paid"},
            approval: BillApproval, agreed: Nat]
PaymentRow == [bill: Bill, amount: Nat \ {0}]
CreditRow == [total: Amount, applied: Nat, status: {"open", "applied", "refunded"}]
Application == [target: Bill, amount: Nat \ {0}]

Source == ({"receipt"} \X Receipt) \cup ({"bill"} \X Bill)
Movement == [source: Source, quantity: Nat]

\* The columns that hold the id of a journal entry.
Slot == ({"receipt"} \X Receipt) \cup ({"bill"} \X Bill) \cup ({"payment"} \X Payment)
        \cup ({"credit", "refund"} \X Credit)

\* What an entry adds to what is owed to the vendor and to goods not invoiced.
EntryRow == [ap: Int, grni: Int]

ASSUME NullIsNoRow ==
    NoRow \notin OrderRow \cup ReceiptRow \cup BillRow \cup PaymentRow \cup CreditRow
                 \cup EntryRow

Stored(table) == {x \in DOMAIN table : table[x] # NoRow}
Positive(n) == IF n > 0 THEN n ELSE 0
ReceiptsOf(o) == {r \in Stored(receipt) : receipt[r].order = o}
ReceivedOn(o) == [r \in Receipt |-> IF r \in ReceiptsOf(o) THEN receipt[r].quantity ELSE 0]
PaymentsOf(b) == {p \in Stored(payment) : payment[p].bill = b}
AppliedTo(c, b) ==
    SumFunction([k \in DOMAIN apps[c] |->
                    IF apps[c][k].target = b THEN apps[c][k].amount ELSE 0])

\* journalCreate and journalPost; journalVoid, as documents call it.
Post(s, ap, grni) == entry' = [entry EXCEPT ![s] = [ap |-> ap, grni |-> grni]]
MayVoid(s) == entry[s] # NoRow
Void(s) == entry' = [entry EXCEPT ![s] = NoRow]

MovedBy(source, quantity) ==
    IF quantity = 0 THEN <<>> ELSE <<[source |-> source, quantity |-> quantity]>>

\* delete from inventory_movements, by the document the rows are of.
WithoutStock(rows, source) ==
    LET kept[n \in 0..Len(rows)] ==
            IF n = 0 THEN <<>>
            ELSE IF rows[n].source = source THEN kept[n - 1]
            ELSE Append(kept[n - 1], rows[n])
    IN kept[Len(rows)]

\* Stock of the bill counts as used once something was recorded after it.
UsedLater(b) ==
    \E j, k \in DOMAIN movements :
        /\ j < k
        /\ movements[j].source = <<"bill", b>>
        /\ movements[k].source # <<"bill", b>>

-----------------------------------------------------------------------------
(* Purchase orders *)

InitialApproval(total) == IF total >= Threshold THEN "pending" ELSE "notRequired"

Transitions == [draft |-> {"sent", "cancelled"},
                sent |-> {"received", "cancelled", "draft"},
                received |-> {"sent", "cancelled"},
                cancelled |-> {"draft", "sent"},
                converted |-> {}]

PurchaseOrdersCreate(o, quantity) ==
    /\ order[o] = NoRow
    /\ order' = [order EXCEPT ![o] =
           [status |-> "draft", approval |-> InitialApproval(quantity), agreed |-> 0,
            quantity |-> quantity, received |-> 0,
            converted |-> NoRow, matched |-> NoRow]]
    /\ UNCHANGED <<receipt, bill, payment, credit, apps, movements, entry>>

PurchaseOrdersUpdate(o, quantity) ==
    /\ order[o] # NoRow
    /\ order[o].converted = NoRow
    /\ order[o].received = 0
    /\ order' = [order EXCEPT ![o].quantity = quantity,
                              ![o].approval = InitialApproval(quantity)]
    /\ UNCHANGED <<receipt, bill, payment, credit, apps, movements, entry>>

PurchaseOrdersSetStatus(o, status) ==
    /\ order[o] # NoRow
    /\ status \in Transitions[order[o].status]
    /\ status = "sent" => order[o].approval \notin {"pending", "rejected"}
    /\ status = "cancelled" => order[o].received = 0
    /\ order' = [order EXCEPT ![o].status = status]
    /\ UNCHANGED <<receipt, bill, payment, credit, apps, movements, entry>>

PurchaseOrdersSetApproval(o, approval) ==
    /\ order[o] # NoRow
    /\ order[o].approval \notin {"notRequired", approval}
    /\ order' = [order EXCEPT ![o].approval = approval,
                              ![o].agreed = IF approval = "approved"
                                            THEN order[o].quantity ELSE 0]
    /\ UNCHANGED <<receipt, bill, payment, credit, apps, movements, entry>>

PurchaseOrdersReceive(o, r, quantity) ==
    /\ order[o] # NoRow
    /\ receipt[r] = NoRow
    /\ order[o].converted = NoRow
    /\ order[o].matched = NoRow
    /\ order[o].status \notin {"converted", "cancelled"}
    /\ quantity \in 1..(order[o].quantity - order[o].received)
    /\ Post(<<"receipt", r>>, 0, quantity)
    /\ receipt' = [receipt EXCEPT ![r] = [order |-> o, quantity |-> quantity]]
    /\ movements' = movements \o MovedBy(<<"receipt", r>>, quantity)
    /\ order' = [order EXCEPT
           ![o].received = @ + quantity,
           ![o].status = IF order[o].received + quantity >= order[o].quantity
                         THEN "received" ELSE "sent"]
    /\ UNCHANGED <<bill, payment, credit, apps>>

\* Any receipt of the order may be the newest, as dates are left out.
PurchaseOrdersReverseLatestReceipt(o, r) ==
    /\ order[o] # NoRow
    /\ order[o].converted = NoRow
    /\ order[o].matched = NoRow
    /\ r \in ReceiptsOf(o)
    /\ MayVoid(<<"receipt", r>>)
    /\ Void(<<"receipt", r>>)
    /\ movements' = WithoutStock(movements, <<"receipt", r>>)
    /\ receipt' = [receipt EXCEPT ![r] = NoRow]
    /\ order' = [order EXCEPT ![o].received = Positive(@ - receipt[r].quantity),
                              ![o].status = "sent"]
    /\ UNCHANGED <<bill, payment, credit, apps>>

PurchaseOrdersDelete(o) ==
    /\ order[o] # NoRow
    /\ order[o].converted = NoRow
    /\ order[o].received = 0
    /\ order' = [order EXCEPT ![o] = NoRow]
    /\ UNCHANGED <<receipt, bill, payment, credit, apps, movements, entry>>

-----------------------------------------------------------------------------
(* From an order to a bill *)

NewBill(amount) ==
    [amount |-> amount, paid |-> 0, status |-> "unpaid",
     approval |-> "approved", agreed |-> 0]

SlipExpectedReceiptCost(o) == Max({receipt[r].quantity : r \in ReceiptsOf(o)} \cup {0})

\* The cost accrued by all receipts of the order.
ExpectedReceiptCost(o) == SumFunction(ReceivedOn(o))

\* The bill clears what the receipts accrued; the difference is a price variance.
PurchaseOrdersMatchSupplierBill(o, b, amount) ==
    /\ order[o] # NoRow
    /\ bill[b] = NoRow
    /\ order[o].matched = NoRow
    /\ order[o].converted = NoRow
    /\ order[o].status # "converted"
    /\ order[o].received >= order[o].quantity
    /\ ExpectedReceiptCost(o) > 0
    /\ Post(<<"bill", b>>, amount, 0 - ExpectedReceiptCost(o))
    /\ bill' = [bill EXCEPT ![b] = NewBill(amount)]
    /\ order' = [order EXCEPT ![o].status = "converted", ![o].converted = b,
                              ![o].matched = b]
    /\ UNCHANGED <<receipt, payment, credit, apps, movements>>

PurchaseOrdersUnmatchSupplierBill(o) ==
    /\ order[o] # NoRow
    /\ order[o].matched # NoRow
    /\ LET b == order[o].matched IN
        /\ bill[b] # NoRow
        /\ bill[b].paid = 0
        /\ MayVoid(<<"bill", b>>)
        /\ Void(<<"bill", b>>)
        /\ bill' = [bill EXCEPT ![b] = NoRow]
    /\ order' = [order EXCEPT ![o].status = "received", ![o].converted = NoRow,
                              ![o].matched = NoRow]
    /\ UNCHANGED <<receipt, payment, credit, apps, movements>>

\* The bill has one line without a product: it brings in no stock.
PurchaseOrdersConvertToBill(o, b) ==
    /\ order[o] # NoRow
    /\ bill[b] = NoRow
    /\ order[o].converted = NoRow
    /\ order[o].matched = NoRow
    /\ order[o].status \notin {"converted", "cancelled"}
    /\ order[o].received = 0
    /\ Post(<<"bill", b>>, order[o].quantity, 0)
    /\ bill' = [bill EXCEPT ![b] = NewBill(order[o].quantity)]
    /\ order' = [order EXCEPT ![o].status = "converted", ![o].converted = b]
    /\ UNCHANGED <<receipt, payment, credit, apps, movements>>

-----------------------------------------------------------------------------
(* Bills *)

BillsCreate(b, amount, quantity) ==
    /\ bill[b] = NoRow
    /\ Post(<<"bill", b>>, amount, 0)
    /\ bill' = [bill EXCEPT ![b] = NewBill(amount)]
    /\ movements' = movements \o MovedBy(<<"bill", b>>, quantity)
    /\ UNCHANGED <<order, receipt, payment, credit, apps>>

\* billEditRefusalReason
Editable(b) ==
    /\ bill[b] # NoRow
    /\ PaymentsOf(b) = {}
    /\ bill[b].paid = 0
    /\ \A c \in Credit : AppliedTo(c, b) = 0
    /\ \A o \in Stored(order) : order[o].matched # b
    /\ ~UsedLater(b)

SlipKeepsDecision(row, amount) == row

\* approvalAfterBillEdit
ApprovalAfterEdit(row, amount) ==
    IF \/ row.approval = "approved" /\ row.agreed # 0 /\ amount # row.amount
       \/ row.approval = "rejected"
    THEN [row EXCEPT !.approval = "pending", !.agreed = 0]
    ELSE row

\* The old entry is voided, a new one posted, and the stock brought in again.
BillsUpdate(b, amount, quantity) ==
    /\ Editable(b)
    /\ MayVoid(<<"bill", b>>)
    /\ Post(<<"bill", b>>, amount, 0)
    /\ bill' = [bill EXCEPT ![b] =
           [ApprovalAfterEdit(@, amount) EXCEPT
               !.amount = amount, !.status = "unpaid"]]
    /\ movements' = WithoutStock(movements, <<"bill", b>>)
                    \o MovedBy(<<"bill", b>>, quantity)
    /\ UNCHANGED <<order, receipt, payment, credit, apps>>

Balance(row) == Positive(row.amount - row.paid)

SlipSettled(row, paid) ==
    [row EXCEPT !.paid = paid,
                !.status = IF paid >= row.amount THEN "paid"
                           ELSE IF paid > 0 THEN "partial" ELSE "unpaid"]

Settled(row, paid) ==
    [row EXCEPT !.paid = paid,
                !.status = IF paid >= row.amount THEN "paid" ELSE "unpaid"]

BillsPay(b, p, amount) ==
    /\ bill[b] # NoRow
    /\ payment[p] = NoRow
    /\ amount \in 1..Balance(bill[b])
    /\ bill[b].approval = "approved"
    /\ Post(<<"payment", p>>, 0 - amount, 0)
    /\ payment' = [payment EXCEPT ![p] = [bill |-> b, amount |-> amount]]
    /\ bill' = [bill EXCEPT ![b] = Settled(@, @.paid + amount)]
    /\ UNCHANGED <<order, receipt, credit, apps, movements>>

\* Any payment of the bill may be the newest, as dates are left out.
BillsReverseLastPayment(b, p) ==
    /\ bill[b] # NoRow
    /\ p \in PaymentsOf(b)
    /\ MayVoid(<<"payment", p>>)
    /\ Void(<<"payment", p>>)
    /\ payment' = [payment EXCEPT ![p] = NoRow]
    /\ bill' = [bill EXCEPT ![b] = Settled(@, Positive(@.paid - payment[p].amount))]
    /\ UNCHANGED <<order, receipt, credit, apps, movements>>

SlipOrdersWithout(b) == order

\* The orders once the bill is gone: the one that became it may be billed again.
OrdersWithout(b) ==
    [o \in Order |->
        IF order[o] # NoRow /\ order[o].converted = b
        THEN [order[o] EXCEPT !.status = "sent", !.converted = NoRow, !.matched = NoRow]
        ELSE order[o]]

BillsDelete(b) ==
    /\ bill[b] # NoRow
    /\ bill[b].paid = 0
    /\ \A o \in Stored(order) : order[o].matched # b
    /\ MayVoid(<<"bill", b>>)
    /\ Void(<<"bill", b>>)
    /\ movements' = WithoutStock(movements, <<"bill", b>>)
    /\ order' = OrdersWithout(b)
    /\ bill' = [bill EXCEPT ![b] = NoRow]
    /\ UNCHANGED <<receipt, payment, credit, apps>>

BillTransitions == [pending |-> {"approved", "rejected", "onHold"},
                    onHold |-> {"approved", "rejected", "pending"},
                    rejected |-> {"pending", "approved"},
                    approved |-> {"onHold", "pending", "rejected"}]

BillsSetApproval(b, approval) ==
    /\ bill[b] # NoRow
    /\ approval \in BillTransitions[bill[b].approval]
    /\ bill' = [bill EXCEPT ![b].approval = approval,
                            ![b].agreed = IF approval = "approved"
                                          THEN bill[b].amount ELSE 0]
    /\ UNCHANGED <<order, receipt, payment, credit, apps, movements, entry>>

-----------------------------------------------------------------------------
(* Vendor credits *)

SlipRemaining(row) == row.total

Remaining(row) == Positive(row.total - row.applied)

CreditNotesCreate(c, total) ==
    /\ credit[c] = NoRow
    /\ Post(<<"credit", c>>, 0 - total, 0)
    /\ credit' = [credit EXCEPT ![c] = [total |-> total, applied |-> 0,
                                        status |-> "open"]]
    /\ UNCHANGED <<order, receipt, bill, payment, apps, movements>>

\* Nothing is posted; whether the bill was approved is not asked.
CreditNotesApply(c, b, amount) ==
    /\ credit[c] # NoRow
    /\ bill[b] # NoRow
    /\ credit[c].status # "refunded"
    /\ amount \in 1..Remaining(credit[c])
    /\ amount <= Balance(bill[b])
    /\ apps' = [apps EXCEPT ![c] = Append(@, [target |-> b, amount |-> amount])]
    /\ bill' = [bill EXCEPT ![b] = Settled(@, @.paid + amount)]
    /\ credit' = [credit EXCEPT ![c].applied = @ + amount,
                                ![c].status = IF credit[c].applied + amount >= credit[c].total
                                              THEN "applied" ELSE "open"]
    /\ UNCHANGED <<order, receipt, payment, movements, entry>>

CreditNotesRefund(c) ==
    /\ credit[c] # NoRow
    /\ credit[c].status # "refunded"
    /\ Remaining(credit[c]) > 0
    /\ Post(<<"refund", c>>, Remaining(credit[c]), 0)
    /\ credit' = [credit EXCEPT ![c].status = "refunded"]
    /\ UNCHANGED <<order, receipt, bill, payment, apps, movements>>

UndoRefund(c) ==
    /\ credit[c] # NoRow
    /\ credit[c].status = "refunded"
    /\ MayVoid(<<"refund", c>>)
    /\ Void(<<"refund", c>>)
    /\ credit' = [credit EXCEPT ![c].status = "open"]
    /\ UNCHANGED <<order, receipt, bill, payment, apps, movements>>

\* The newest application of the credit goes; the bill owes the amount again.
Unapply(c) ==
    /\ credit[c] # NoRow
    /\ credit[c].status # "refunded"
    /\ apps[c] # <<>>
    /\ LET last == apps[c][Len(apps[c])] IN
        /\ bill[last.target] # NoRow
        /\ bill' = [bill EXCEPT ![last.target] =
               Settled(@, Positive(@.paid - last.amount))]
        /\ credit' = [credit EXCEPT ![c].applied = Positive(@ - last.amount),
                                    ![c].status = "open"]
    /\ apps' = [apps EXCEPT ![c] = SubSeq(@, 1, Len(@) - 1)]
    /\ UNCHANGED <<order, receipt, payment, movements, entry>>

CreditNotesUndoSettlement(c) == UndoRefund(c) \/ Unapply(c)

CreditNotesDelete(c) ==
    /\ credit[c] # NoRow
    /\ credit[c].status = "open"
    /\ credit[c].applied = 0
    /\ MayVoid(<<"credit", c>>)
    /\ Void(<<"credit", c>>)
    /\ credit' = [credit EXCEPT ![c] = NoRow]
    /\ UNCHANGED <<order, receipt, bill, payment, apps, movements>>

-----------------------------------------------------------------------------

Init ==
    /\ order = [o \in Order |-> NoRow]
    /\ receipt = [r \in Receipt |-> NoRow]
    /\ bill = [b \in Bill |-> NoRow]
    /\ payment = [p \in Payment |-> NoRow]
    /\ credit = [c \in Credit |-> NoRow]
    /\ apps = [c \in Credit |-> <<>>]
    /\ movements = <<>>
    /\ entry = [s \in Slot |-> NoRow]

OrderStep(o) ==
    \/ \E quantity \in Quantity :
          PurchaseOrdersCreate(o, quantity) \/ PurchaseOrdersUpdate(o, quantity)
    \/ \E status \in OrderStatus : PurchaseOrdersSetStatus(o, status)
    \/ \E approval \in OrderApproval \ {"notRequired"} :
          PurchaseOrdersSetApproval(o, approval)
    \/ \E r \in Receipt, quantity \in Quantity : PurchaseOrdersReceive(o, r, quantity)
    \/ \E r \in Receipt : PurchaseOrdersReverseLatestReceipt(o, r)
    \/ \E b \in Bill, amount \in Amount :
          PurchaseOrdersMatchSupplierBill(o, b, amount)
    \/ \E b \in Bill : PurchaseOrdersConvertToBill(o, b)
    \/ PurchaseOrdersUnmatchSupplierBill(o)
    \/ PurchaseOrdersDelete(o)

BillStep(b) ==
    \/ \E amount \in Amount, quantity \in BillQuantity :
          BillsCreate(b, amount, quantity) \/ BillsUpdate(b, amount, quantity)
    \/ \E p \in Payment, amount \in Cents : BillsPay(b, p, amount)
    \/ \E p \in Payment : BillsReverseLastPayment(b, p)
    \/ \E approval \in BillApproval : BillsSetApproval(b, approval)
    \/ BillsDelete(b)

CreditStep(c) ==
    \/ \E total \in Amount : CreditNotesCreate(c, total)
    \/ \E b \in Bill, amount \in Cents : CreditNotesApply(c, b, amount)
    \/ CreditNotesRefund(c)
    \/ CreditNotesUndoSettlement(c)
    \/ CreditNotesDelete(c)

Next ==
    \/ \E o \in Order : OrderStep(o)
    \/ \E b \in Bill : BillStep(b)
    \/ \E c \in Credit : CreditStep(c)

Spec == Init /\ [][Next]_vars

-----------------------------------------------------------------------------
(* Properties *)

TypeOK ==
    /\ order \in [Order -> OrderRow \cup {NoRow}]
    /\ receipt \in [Receipt -> ReceiptRow \cup {NoRow}]
    /\ bill \in [Bill -> BillRow \cup {NoRow}]
    /\ payment \in [Payment -> PaymentRow \cup {NoRow}]
    /\ credit \in [Credit -> CreditRow \cup {NoRow}]
    /\ apps \in [Credit -> Seq(Application)]
    /\ movements \in Seq(Movement)
    /\ entry \in [Slot -> EntryRow \cup {NoRow}]

\* What each entry, bill and credit adds to the sums below; what is not there adds
\* nothing.
Ap == [s \in Slot |-> IF entry[s] = NoRow THEN 0 ELSE entry[s].ap]
Grni == [s \in Slot |-> IF entry[s] = NoRow THEN 0 ELSE entry[s].grni]
Owed == [b \in Bill |-> IF bill[b] = NoRow THEN 0 ELSE bill[b].amount - bill[b].paid]
Held == [c \in Credit |-> IF credit[c] = NoRow THEN 0
                          ELSE IF credit[c].status = "refunded" THEN 0
                          ELSE credit[c].total - credit[c].applied]
NotInvoiced == [o \in Order |-> IF order[o] = NoRow THEN 0
                                ELSE IF order[o].matched = NoRow THEN order[o].received
                                ELSE 0]

PaidBy(b) == [p \in Payment |-> IF p \in PaymentsOf(b) THEN payment[p].amount ELSE 0]
Applied(b) == [c \in Credit |-> AppliedTo(c, b)]

\* What a bill says was paid is the payments and the credit it still has, and
\* Accounts Payable in the ledger is what the bills still owe less the credit the
\* vendor still gives, after any order of matching, paying, editing and undoing.
PayablesAgree ==
    /\ \A b \in Stored(bill) :
          bill[b].paid = SumFunction(PaidBy(b)) + SumFunction(Applied(b))
    /\ SumFunction(Ap) = SumFunction(Owed) - SumFunction(Held)

\* Goods Received Not Invoiced holds the cost of what was received on orders whose
\* invoice has not come, received in whatever parts; and what an order says was
\* received is what its receipts brought into stock.
GoodsAgree ==
    /\ SumFunction(Grni) = SumFunction(NotInvoiced)
    /\ \A o \in Stored(order) : order[o].received = SumFunction(ReceivedOn(o))
    /\ {movements[k] : k \in {j \in DOMAIN movements : movements[j].source[1] = "receipt"}}
          = {[source |-> <<"receipt", r>>, quantity |-> receipt[r].quantity] :
                r \in Stored(receipt)}

\* An order becomes one bill and a bill comes from one order; a billed order was
\* either received and matched or billed without a receipt, so its goods enter the
\* books once.
BilledOnce ==
    /\ \A o \in Stored(order) :
        /\ order[o].status = "converted" <=> order[o].converted # NoRow
        /\ order[o].matched \in {NoRow, order[o].converted}
        /\ order[o].converted # NoRow =>
              /\ bill[order[o].converted] # NoRow
              /\ order[o].matched # NoRow <=> ReceiptsOf(o) # {}
              /\ \A p \in Stored(order) \ {o} : order[p].converted # order[o].converted

\* Whoever approved an order or a bill approved the total it has now.
ApprovedFigure ==
    /\ \A o \in Stored(order) : order[o].approval = "approved" =>
          order[o].quantity = order[o].agreed
    /\ \A b \in Stored(bill) : bill[b].approval = "approved" =>
          bill[b].agreed \in {0, bill[b].amount}
=============================================================================
