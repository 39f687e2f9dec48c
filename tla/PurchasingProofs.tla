--------------------------- MODULE PurchasingProofs ---------------------------
(***************************************************************************)
(* Proofs about Purchasing, for any number of orders, receipts, bills,     *)
(* payments and credits: the types (TypeCorrect), approvals                *)
(* (ApprovalsAreOfTheFigure), and from one inductive invariant, IInv, the  *)
(* link between orders and bills (GoodsAreBilledOnce), Accounts Payable    *)
(* (PayablesAlwaysAgree) and the goods (GoodsAlwaysAgree).                 *)
(*                                                                         *)
(* None of the last three is inductive.  That Accounts Payable is what is  *)
(* owed does not say that the entry of the bill a step voids is of that    *)
(* bill's amount; IInv does, entry by entry (EntriesFollow), and has the   *)
(* paid, applied and received amounts with the rows they come from.  A     *)
(* step then changes a term or two of each sum, by the lemmas of           *)
(* FiniteSums, and by the same amount on both sides.                       *)
(***************************************************************************)
EXTENDS Purchasing, FiniteSums

\* The recursion of WithoutStock, up to a row.
Keeps(kept, rows, source, last) ==
    kept = [n \in 0..last |->
               IF n = 0 THEN <<>>
               ELSE IF rows[n].source = source THEN kept[n - 1]
               ELSE Append(kept[n - 1], rows[n])]

\* One step of the recursion.
LEMMA KeptUnfold ==
    ASSUME NEW kept, NEW rows, NEW source, NEW last, Keeps(kept, rows, source, last),
           NEW n \in 0..last
    PROVE  kept[n] = IF n = 0 THEN <<>>
                     ELSE IF rows[n].source = source THEN kept[n - 1]
                     ELSE Append(kept[n - 1], rows[n])
BY DEF Keeps

\* There is such a function for every sequence of movements.
LEMMA KeptExists ==
    ASSUME NEW rows \in Seq(Movement), NEW source
    PROVE  \E kept : Keeps(kept, rows, source, Len(rows))
<1> DEFINE Good == {n \in 0..Len(rows) : \E kept : Keeps(kept, rows, source, n)}
<1>1. 0 \in Good
  <2> DEFINE none == [n \in 0..0 |-> <<>>]
  <2>1. \A n \in 0..0 : n = 0
    OBVIOUS
  <2>2. none = [n \in 0..0 |-> IF n = 0 THEN <<>>
                               ELSE IF rows[n].source = source THEN none[n - 1]
                               ELSE Append(none[n - 1], rows[n])]
    BY <2>1
  <2>3. Keeps(none, rows, source, 0)
    BY <2>2 DEF Keeps
  <2> QED
    BY <2>3
<1>2. ASSUME NEW last \in 0..(Len(rows) - 1), last \in Good
      PROVE  last + 1 \in Good
  <2>1. PICK kept : Keeps(kept, rows, source, last)
    BY <1>2
  <2> DEFINE more == [n \in 0..(last + 1) |->
                         IF n <= last THEN kept[n]
                         ELSE IF rows[n].source = source THEN kept[n - 1]
                         ELSE Append(kept[n - 1], rows[n])]
             next == [n \in 0..(last + 1) |->
                         IF n = 0 THEN <<>>
                         ELSE IF rows[n].source = source THEN more[n - 1]
                         ELSE Append(more[n - 1], rows[n])]
  <2>2. ASSUME NEW n \in 0..(last + 1)
        PROVE  more[n] = next[n]
    <3>1. n # 0 => n - 1 \in 0..last /\ more[n - 1] = kept[n - 1]
      OBVIOUS
    <3>2. n \in 0..last => kept[n] = IF n = 0 THEN <<>>
                                     ELSE IF rows[n].source = source THEN kept[n - 1]
                                     ELSE Append(kept[n - 1], rows[n])
      BY <2>1, KeptUnfold
    <3>3. n <= last \/ n = last + 1
      OBVIOUS
    <3> QED
      BY <3>1, <3>2, <3>3
  <2>3. more = next
    BY <2>2
  <2>4. Keeps(more, rows, source, last + 1)
    BY <2>3 DEF Keeps
  <2> QED
    BY <2>4
<1> HIDE DEF Good
<1>3. \A n \in 0..Len(rows) : n \in Good
  BY <1>1, <1>2, InductionOnLengths
<1> QED
  BY <1>3 DEF Good

Has(rows, m) == \E k \in DOMAIN rows : rows[k] = m

\* The rows of a sequence with one more.
LEMMA AppendHas ==
    ASSUME NEW s \in Seq(Movement), NEW x \in Movement, NEW m
    PROVE  Has(Append(s, x), m) <=> Has(s, m) \/ m = x
<1>1. /\ DOMAIN s = 1..Len(s)
      /\ Len(s) \in Nat
      /\ DOMAIN Append(s, x) = 1..(Len(s) + 1)
      /\ \A k \in 1..Len(s) : Append(s, x)[k] = s[k]
      /\ Append(s, x)[Len(s) + 1] = x
  OBVIOUS
<1>2. \A k : k \in 1..(Len(s) + 1) <=> k \in 1..Len(s) \/ k = Len(s) + 1
  BY <1>1
<1> QED
  BY <1>1, <1>2 DEF Has

\* Deleting the stock of a document leaves the other rows.
LEMMA WithoutStockKeeps ==
    ASSUME NEW rows \in Seq(Movement), NEW source
    PROVE  /\ WithoutStock(rows, source) \in Seq(Movement)
           /\ \A m : Has(WithoutStock(rows, source), m) <=> m.source # source /\ Has(rows, m)
<1>1. PICK kept : Keeps(kept, rows, source, Len(rows)) /\ WithoutStock(rows, source) = kept[Len(rows)]
  <2>1. WithoutStock(rows, source) = (CHOOSE kept : Keeps(kept, rows, source, Len(rows)))[Len(rows)]
    BY DEF WithoutStock, Keeps
  <2> QED
    BY <2>1, KeptExists
<1> DEFINE Right(n) == /\ kept[n] \in Seq(Movement)
                       /\ \A m : Has(kept[n], m)
                                 <=> m.source # source /\ \E k \in 1..n : rows[k] = m
           Good == {n \in 0..Len(rows) : Right(n)}
<1>2. 0 \in Good
  BY <1>1 DEF Keeps, Has
<1>3. ASSUME NEW n \in 0..(Len(rows) - 1), n \in Good
      PROVE  n + 1 \in Good
  <2>1. /\ n + 1 \in 1..Len(rows)
        /\ rows[n + 1] \in Movement
        /\ kept[n + 1] = IF rows[n + 1].source = source THEN kept[n]
                         ELSE Append(kept[n], rows[n + 1])
    <3>1. n + 1 \in 0..Len(rows) /\ n + 1 \in 1..Len(rows) /\ n + 1 # 0 /\ (n + 1) - 1 = n
      OBVIOUS
    <3>2. kept[n + 1] = IF rows[n + 1].source = source THEN kept[(n + 1) - 1]
                        ELSE Append(kept[(n + 1) - 1], rows[n + 1])
      BY <1>1, <3>1, KeptUnfold
    <3> QED
      BY <3>1, <3>2
  <2>2. \A k : k \in 1..(n + 1) <=> k \in 1..n \/ k = n + 1
    OBVIOUS
  <2>3. CASE rows[n + 1].source = source
    BY <1>3, <2>1, <2>2, <2>3
  <2>4. CASE rows[n + 1].source # source
    <3>1. kept[n] \in Seq(Movement) /\ kept[n + 1] = Append(kept[n], rows[n + 1])
      BY <1>3, <2>1, <2>4
    <3>2. kept[n + 1] \in Seq(Movement)
      BY <2>1, <3>1
    <3>3. ASSUME NEW m
          PROVE  Has(kept[n + 1], m) <=> Has(kept[n], m) \/ m = rows[n + 1]
      <4>1. rows[n + 1] \in Movement
        BY <2>1
      <4> QED
        BY <3>1, <4>1, AppendHas
    <3>4. \A m : Has(kept[n], m) <=> m.source # source /\ \E k \in 1..n : rows[k] = m
      BY <1>3
    <3>5. \A m : (\E k \in 1..(n + 1) : rows[k] = m)
                    <=> (\E k \in 1..n : rows[k] = m) \/ m = rows[n + 1]
      BY <2>2
    <3> QED
      BY <2>4, <3>2, <3>3, <3>4, <3>5
  <2> QED
    BY <2>3, <2>4
<1> HIDE DEF Good
<1>4. \A n \in 0..Len(rows) : n \in Good
  BY <1>2, <1>3, InductionOnLengths
<1>5. Right(Len(rows))
  <2>1. Len(rows) \in 0..Len(rows)
    OBVIOUS
  <2>2. Len(rows) \in Good
    BY <1>4, <2>1
  <2> HIDE DEF Right
  <2> QED
    BY <2>2 DEF Good
<1> QED
  BY <1>1, <1>5 DEF Has

-----------------------------------------------------------------------------
(* The sums, one term at a time *)

Received(o) == SumFunction(ReceivedOn(o))
Paid(b) == SumFunction(PaidBy(b))
Credited(b) == SumFunction(Applied(b))
ApTotal == SumFunction(Ap)
GrniTotal == SumFunction(Grni)
OwedTotal == SumFunction(Owed)
HeldTotal == SumFunction(Held)
NotInvoicedTotal == SumFunction(NotInvoiced)

\* Every table and the set of entries is finite.
LEMMA FiniteIds ==
    /\ IsFiniteSet(Order)
    /\ IsFiniteSet(Receipt)
    /\ IsFiniteSet(Bill)
    /\ IsFiniteSet(Payment)
    /\ IsFiniteSet(Credit)
BY IdsAreFinite

\* The set of entries is finite.
LEMMA FiniteSlot == IsFiniteSet(Slot)
<1>1. IsFiniteSet({"receipt"}) /\ IsFiniteSet({"bill"}) /\ IsFiniteSet({"payment"})
  BY FS_Singleton
<1>2. IsFiniteSet({"credit", "refund"})
  <2>1. IsFiniteSet({"credit"} \cup {"refund"})
    BY FS_Singleton, FS_AddElement
  <2>2. {"credit", "refund"} = {"credit"} \cup {"refund"}
    OBVIOUS
  <2> QED
    BY <2>1, <2>2
<1>3. /\ IsFiniteSet({"receipt"} \X Receipt)
      /\ IsFiniteSet({"bill"} \X Bill)
      /\ IsFiniteSet({"payment"} \X Payment)
      /\ IsFiniteSet({"credit", "refund"} \X Credit)
  BY <1>1, <1>2, FiniteIds, FS_Product
<1>4. IsFiniteSet(({"receipt"} \X Receipt) \cup ({"bill"} \X Bill))
  BY <1>3, FS_Union
<1>5. IsFiniteSet(({"receipt"} \X Receipt) \cup ({"bill"} \X Bill) \cup ({"payment"} \X Payment))
  BY <1>3, <1>4, FS_Union
<1>6. IsFiniteSet((({"receipt"} \X Receipt) \cup ({"bill"} \X Bill) \cup ({"payment"} \X Payment))
                  \cup ({"credit", "refund"} \X Credit))
  BY <1>3, <1>5, FS_Union
<1> QED
  BY <1>6 DEF Slot

\* What each receipt adds to what an order received.
LEMMA ReceivedTerms ==
    ASSUME TypeOK, NEW o \in Order
    PROVE  /\ DOMAIN ReceivedOn(o) = Receipt
           /\ \A r \in Receipt : ReceivedOn(o)[r] \in Nat
BY DEF TypeOK, ReceivedOn, ReceiptsOf, Stored, ReceiptRow, Quantity

\* What an order received is a natural number, and no receipt is larger.
LEMMA ReceivedIsNat ==
    ASSUME TypeOK, NEW o \in Order
    PROVE  /\ SumFunction(ReceivedOn(o)) \in Nat
           /\ \A r \in Receipt : ReceivedOn(o)[r] <= SumFunction(ReceivedOn(o))
BY ReceivedTerms, FiniteIds, TableBounds

-----------------------------------------------------------------------------
(* Types *)

\* The entries each document has.
LEMMA SlotsAre ==
    /\ \A r \in Receipt : <<"receipt", r>> \in Slot
    /\ \A b \in Bill : <<"bill", b>> \in Slot
    /\ \A p \in Payment : <<"payment", p>> \in Slot
    /\ \A c \in Credit : <<"credit", c>> \in Slot /\ <<"refund", c>> \in Slot
BY DEF Slot

\* A posted entry is an entry.
LEMMA PostTyped ==
    ASSUME TypeOK, NEW s \in Slot, NEW ap \in Int, NEW grni \in Int, Post(s, ap, grni)
    PROVE  entry' \in [Slot -> EntryRow \cup {NoRow}]
BY DEF TypeOK, Post, EntryRow

\* Entries stay entries when one is voided.
LEMMA VoidTyped ==
    ASSUME TypeOK, NEW s \in Slot, Void(s)
    PROVE  entry' \in [Slot -> EntryRow \cup {NoRow}]
BY DEF TypeOK, Void

\* Movements stay movements when a document brings goods in.
LEMMA MovedTyped ==
    ASSUME TypeOK, NEW source \in Source, NEW quantity \in Nat
    PROVE  /\ MovedBy(source, quantity) \in Seq(Movement)
           /\ movements \o MovedBy(source, quantity) \in Seq(Movement)
           /\ WithoutStock(movements, source) \in Seq(Movement)
           /\ WithoutStock(movements, source) \o MovedBy(source, quantity) \in Seq(Movement)
<1>1. [source |-> source, quantity |-> quantity] \in Movement
  BY DEF Movement
<1> DEFINE m == [source |-> source, quantity |-> quantity]
<1>3. MovedBy(source, quantity) = IF quantity = 0 THEN <<>> ELSE <<m>>
  BY DEF MovedBy
<1> HIDE DEF m
<1>4. <<m>> \in Seq(Movement)
  BY <1>1 DEF m
<1>5. MovedBy(source, quantity) \in Seq(Movement)
  BY <1>3, <1>4
<1>2. movements \in Seq(Movement) /\ WithoutStock(movements, source) \in Seq(Movement)
  BY WithoutStockKeeps DEF TypeOK
<1> QED
  BY <1>2, <1>5

\* The documents that bring goods in.
LEMMA SourcesAre ==
    /\ \A r \in Receipt : <<"receipt", r>> \in Source
    /\ \A b \in Bill : <<"bill", b>> \in Source
BY DEF Source

\* Max(n, 0) is a natural number.
LEMMA PositiveIsNat == ASSUME NEW n \in Int PROVE Positive(n) \in Nat
BY DEF Positive

\* A step of a purchase order keeps the types.
LEMMA OrderStepTyped ==
    ASSUME TypeOK, NEW o \in Order, OrderStep(o)
    PROVE  TypeOK'
<1> USE DEF TypeOK
<1>1. ASSUME NEW quantity \in Quantity,
             PurchaseOrdersCreate(o, quantity) \/ PurchaseOrdersUpdate(o, quantity)
      PROVE  TypeOK'
  <2>1. quantity \in Quantity /\ InitialApproval(quantity) \in OrderApproval
    BY DEF InitialApproval, OrderApproval
  <2>2. CASE PurchaseOrdersCreate(o, quantity)
    <3>1. order'[o] \in OrderRow
      BY <2>1, <2>2 DEF PurchaseOrdersCreate, OrderRow, OrderStatus
    <3> QED
      BY <2>2, <3>1 DEF PurchaseOrdersCreate
  <2>3. CASE PurchaseOrdersUpdate(o, quantity)
    <3>1. order[o] \in OrderRow
      BY <2>3 DEF PurchaseOrdersUpdate
    <3>2. order'[o] = [order[o] EXCEPT !.quantity = quantity, !.approval = InitialApproval(quantity)]
      BY <2>3 DEF PurchaseOrdersUpdate
    <3>3. order'[o] \in OrderRow
      BY <2>1, <3>1, <3>2 DEF OrderRow
    <3> QED
      BY <2>3, <3>3 DEF PurchaseOrdersUpdate
  <2> QED
    BY <1>1, <2>2, <2>3
<1>2. ASSUME NEW status \in OrderStatus, PurchaseOrdersSetStatus(o, status)
      PROVE  TypeOK'
  <2>1. order[o] \in OrderRow
    BY <1>2 DEF PurchaseOrdersSetStatus
  <2>2. order'[o] = [order[o] EXCEPT !.status = status]
    BY <1>2 DEF PurchaseOrdersSetStatus
  <2>3. order'[o] \in OrderRow
    BY <2>1, <2>2 DEF OrderRow
  <2> QED
    BY <1>2, <2>3 DEF PurchaseOrdersSetStatus
<1>3. ASSUME NEW approval \in OrderApproval \ {"notRequired"}, PurchaseOrdersSetApproval(o, approval)
      PROVE  TypeOK'
  <2>1. order[o] \in OrderRow /\ order[o].quantity \in Nat
    BY <1>3 DEF PurchaseOrdersSetApproval, OrderRow, Quantity
  <2>2. PICK agreed \in Nat : order'[o] = [order[o] EXCEPT !.approval = approval, !.agreed = agreed]
    BY <1>3, <2>1 DEF PurchaseOrdersSetApproval
  <2>3. order'[o] \in OrderRow
    BY <2>1, <2>2 DEF OrderRow
  <2> QED
    BY <1>3, <2>3 DEF PurchaseOrdersSetApproval
<1>4. ASSUME NEW r \in Receipt, NEW quantity \in Quantity, PurchaseOrdersReceive(o, r, quantity)
      PROVE  TypeOK'
  <2>1. quantity \in Nat /\ 0 \in Int
    BY DEF Quantity
  <2>2. entry' \in [Slot -> EntryRow \cup {NoRow}]
    <3>1. Post(<<"receipt", r>>, 0, quantity) /\ quantity \in Int /\ <<"receipt", r>> \in Slot
      BY <1>4, <2>1, SlotsAre DEF PurchaseOrdersReceive
    <3> HIDE DEF TypeOK
    <3> QED
      BY <2>1, <3>1, PostTyped
  <2>3. movements' \in Seq(Movement)
    BY <1>4, <2>1, MovedTyped, SourcesAre DEF PurchaseOrdersReceive
  <2>4. receipt' \in [Receipt -> ReceiptRow \cup {NoRow}]
    BY <1>4 DEF PurchaseOrdersReceive, ReceiptRow
  <2>5. order' \in [Order -> OrderRow \cup {NoRow}]
    <3>1. order[o] \in OrderRow /\ order[o].received + quantity \in Nat
      BY <1>4, <2>1 DEF PurchaseOrdersReceive, OrderRow
    <3>2. PICK status \in {"received", "sent"} :
              order'[o] = [order[o] EXCEPT !.received = order[o].received + quantity, !.status = status]
      BY <1>4 DEF PurchaseOrdersReceive
    <3>3. order'[o] \in OrderRow
      BY <2>1, <3>1, <3>2 DEF OrderRow, OrderStatus
    <3> QED
      BY <1>4, <3>3 DEF PurchaseOrdersReceive
  <2> QED
    BY <1>4, <2>2, <2>3, <2>4, <2>5 DEF PurchaseOrdersReceive
<1>5. ASSUME NEW r \in Receipt, PurchaseOrdersReverseLatestReceipt(o, r)
      PROVE  TypeOK'
  <2>1. entry' \in [Slot -> EntryRow \cup {NoRow}]
    BY <1>5, VoidTyped, SlotsAre DEF PurchaseOrdersReverseLatestReceipt
  <2>2. movements' \in Seq(Movement)
    BY <1>5, MovedTyped, SourcesAre DEF PurchaseOrdersReverseLatestReceipt
  <2>3. order[o] \in OrderRow /\ receipt[r] \in ReceiptRow
    BY <1>5 DEF PurchaseOrdersReverseLatestReceipt, ReceiptsOf, Stored
  <2>4. Positive(order[o].received - receipt[r].quantity) \in Nat
    <3>1. order[o].received - receipt[r].quantity \in Int
      BY <2>3 DEF OrderRow, ReceiptRow, Quantity
    <3> QED
      BY <3>1, PositiveIsNat
  <2>5. order' \in [Order -> OrderRow \cup {NoRow}]
    BY <1>5, <2>3, <2>4 DEF PurchaseOrdersReverseLatestReceipt, OrderRow, OrderStatus
  <2> QED
    BY <1>5, <2>1, <2>2, <2>5 DEF PurchaseOrdersReverseLatestReceipt
<1>6. ASSUME NEW b \in Bill, NEW amount \in Amount, PurchaseOrdersMatchSupplierBill(o, b, amount)
      PROVE  TypeOK'
  <2>1. amount \in Nat \ {0}
    BY PurchasingAssumption
  <2>2. ExpectedReceiptCost(o) \in Int
    BY ReceivedIsNat DEF ExpectedReceiptCost
  <2>3. entry' \in [Slot -> EntryRow \cup {NoRow}]
    BY <1>6, <2>1, <2>2, PostTyped, SlotsAre DEF PurchaseOrdersMatchSupplierBill
  <2>4. NewBill(amount) \in BillRow
    BY <2>1 DEF NewBill, BillRow, BillApproval
  <2>5. bill' \in [Bill -> BillRow \cup {NoRow}]
    BY <1>6, <2>4 DEF PurchaseOrdersMatchSupplierBill
  <2>6. order' \in [Order -> OrderRow \cup {NoRow}]
    <3>1. order[o] \in OrderRow
      BY <1>6 DEF PurchaseOrdersMatchSupplierBill
    <3>2. order'[o] = [order[o] EXCEPT !.status = "converted", !.converted = b, !.matched = b]
      BY <1>6 DEF PurchaseOrdersMatchSupplierBill
    <3>3. order'[o] \in OrderRow
      BY <3>1, <3>2 DEF OrderRow, OrderStatus
    <3> QED
      BY <1>6, <3>3 DEF PurchaseOrdersMatchSupplierBill
  <2> QED
    BY <1>6, <2>3, <2>5, <2>6 DEF PurchaseOrdersMatchSupplierBill
<1>7. ASSUME NEW b \in Bill, PurchaseOrdersConvertToBill(o, b)
      PROVE  TypeOK'
  <2>1. order[o] \in OrderRow /\ order[o].quantity \in Nat \ {0}
    BY <1>7 DEF PurchaseOrdersConvertToBill, OrderRow, Quantity
  <2>2. entry' \in [Slot -> EntryRow \cup {NoRow}]
    BY <1>7, <2>1, PostTyped, SlotsAre DEF PurchaseOrdersConvertToBill
  <2>3. NewBill(order[o].quantity) \in BillRow
    BY <2>1 DEF NewBill, BillRow, BillApproval
  <2>4. bill' \in [Bill -> BillRow \cup {NoRow}]
    BY <1>7, <2>3 DEF PurchaseOrdersConvertToBill
  <2>5. order' \in [Order -> OrderRow \cup {NoRow}]
    BY <1>7, <2>1 DEF PurchaseOrdersConvertToBill, OrderRow, OrderStatus
  <2> QED
    BY <1>7, <2>2, <2>4, <2>5 DEF PurchaseOrdersConvertToBill
<1>8. ASSUME PurchaseOrdersUnmatchSupplierBill(o)
      PROVE  TypeOK'
  <2>1. order[o] \in OrderRow /\ order[o].matched \in Bill
    BY <1>8 DEF PurchaseOrdersUnmatchSupplierBill, OrderRow
  <2>2. entry' \in [Slot -> EntryRow \cup {NoRow}]
    BY <1>8, <2>1, VoidTyped, SlotsAre DEF PurchaseOrdersUnmatchSupplierBill
  <2>3. order' \in [Order -> OrderRow \cup {NoRow}]
    BY <1>8, <2>1 DEF PurchaseOrdersUnmatchSupplierBill, OrderRow, OrderStatus
  <2> QED
    BY <1>8, <2>1, <2>2, <2>3 DEF PurchaseOrdersUnmatchSupplierBill
<1>9. ASSUME PurchaseOrdersDelete(o)
      PROVE  TypeOK'
  BY <1>9 DEF PurchaseOrdersDelete
<1> QED
  BY <1>1, <1>2, <1>3, <1>4, <1>5, <1>6, <1>7, <1>8, <1>9 DEF OrderStep

\* A bill is still a bill after its paid amount and status are set.
LEMMA SettledIsRow ==
    ASSUME NEW row \in BillRow, NEW paid \in Nat
    PROVE  Settled(row, paid) \in BillRow
<1>1. PICK status \in {"unpaid", "paid"} :
          Settled(row, paid) = [row EXCEPT !.paid = paid, !.status = status]
  BY DEF Settled
<1> QED
  BY <1>1 DEF BillRow

\* An edited bill is a bill.
LEMMA EditedIsRow ==
    ASSUME NEW row \in BillRow, NEW amount \in Nat \ {0}
    PROVE  /\ ApprovalAfterEdit(row, amount) \in BillRow
           /\ ApprovalAfterEdit(row, amount).paid = row.paid
           /\ [ApprovalAfterEdit(row, amount) EXCEPT !.amount = amount, !.status = "unpaid"] \in BillRow
BY DEF ApprovalAfterEdit, BillRow, BillApproval

\* A step of a bill keeps the types.
LEMMA BillStepTyped ==
    ASSUME TypeOK, NEW b \in Bill, BillStep(b)
    PROVE  TypeOK'
<1>1. ASSUME NEW amount \in Amount, NEW quantity \in BillQuantity, BillsCreate(b, amount, quantity)
      PROVE  TypeOK'
  <2>1. amount \in Nat \ {0} /\ quantity \in Nat
    BY PurchasingAssumption
  <2>2. NewBill(amount) \in BillRow
    BY <2>1 DEF NewBill, BillRow, BillApproval
  <2>3. Post(<<"bill", b>>, amount, 0) /\ amount \in Int
    BY <1>1, <2>1 DEF BillsCreate
  <2>4. entry' \in [Slot -> EntryRow \cup {NoRow}]
    BY <2>3, PostTyped, SlotsAre
  <2>5. movements' \in Seq(Movement)
    BY <1>1, <2>1, MovedTyped, SourcesAre DEF BillsCreate
  <2> QED
    BY <1>1, <2>2, <2>4, <2>5 DEF BillsCreate, TypeOK
<1>2. ASSUME NEW amount \in Amount, NEW quantity \in BillQuantity, BillsUpdate(b, amount, quantity)
      PROVE  TypeOK'
  <2>1. amount \in Nat \ {0} /\ quantity \in Nat
    BY PurchasingAssumption
  <2>2. bill[b] \in BillRow
    BY <1>2 DEF BillsUpdate, Editable, TypeOK
  <2>3. Post(<<"bill", b>>, amount, 0) /\ amount \in Int
    BY <1>2, <2>1 DEF BillsUpdate
  <2>4. entry' \in [Slot -> EntryRow \cup {NoRow}]
    BY <2>3, PostTyped, SlotsAre
  <2>5. movements' \in Seq(Movement)
    BY <1>2, <2>1, MovedTyped, SourcesAre DEF BillsUpdate
  <2>6. bill' \in [Bill -> BillRow \cup {NoRow}]
    BY <1>2, <2>1, <2>2, EditedIsRow DEF BillsUpdate, TypeOK
  <2> QED
    BY <1>2, <2>4, <2>5, <2>6 DEF BillsUpdate, TypeOK
<1>3. ASSUME NEW p \in Payment, NEW amount \in Cents, BillsPay(b, p, amount)
      PROVE  TypeOK'
  <2>1. bill[b] \in BillRow
    BY <1>3 DEF BillsPay, TypeOK
  <2>2. amount \in Nat \ {0}
    BY <1>3 DEF BillsPay
  <2>3. bill[b].paid + amount \in Nat
    BY <2>1, <2>2 DEF BillRow
  <2>4. Post(<<"payment", p>>, 0 - amount, 0) /\ 0 - amount \in Int
    BY <1>3, <2>2 DEF BillsPay
  <2>5. entry' \in [Slot -> EntryRow \cup {NoRow}]
    BY <2>4, PostTyped, SlotsAre
  <2>6. bill' \in [Bill -> BillRow \cup {NoRow}]
    BY <1>3, <2>1, <2>3, SettledIsRow DEF BillsPay, TypeOK
  <2>7. payment' \in [Payment -> PaymentRow \cup {NoRow}]
    BY <1>3, <2>2 DEF BillsPay, TypeOK, PaymentRow
  <2> QED
    BY <1>3, <2>5, <2>6, <2>7 DEF BillsPay, TypeOK
<1>4. ASSUME NEW p \in Payment, BillsReverseLastPayment(b, p)
      PROVE  TypeOK'
  <2>1. bill[b] \in BillRow /\ payment[p] \in PaymentRow
    BY <1>4 DEF BillsReverseLastPayment, TypeOK, PaymentsOf, Stored
  <2>2. bill[b].paid - payment[p].amount \in Int
    BY <2>1 DEF BillRow, PaymentRow
  <2>3. Void(<<"payment", p>>)
    BY <1>4 DEF BillsReverseLastPayment
  <2>4. entry' \in [Slot -> EntryRow \cup {NoRow}]
    BY <2>3, VoidTyped, SlotsAre
  <2>5. bill' \in [Bill -> BillRow \cup {NoRow}]
    BY <1>4, <2>1, <2>2, PositiveIsNat, SettledIsRow DEF BillsReverseLastPayment, TypeOK
  <2> QED
    BY <1>4, <2>4, <2>5 DEF BillsReverseLastPayment, TypeOK
<1>5. ASSUME NEW approval \in BillApproval, BillsSetApproval(b, approval)
      PROVE  TypeOK'
  <2>1. bill[b] \in BillRow /\ bill[b].amount \in Nat
    BY <1>5 DEF BillsSetApproval, TypeOK, BillRow
  <2>2. PICK agreed \in Nat : bill'[b] = [bill[b] EXCEPT !.approval = approval, !.agreed = agreed]
    BY <1>5, <2>1 DEF BillsSetApproval, TypeOK
  <2>3. bill'[b] \in BillRow
    BY <2>1, <2>2 DEF BillRow
  <2> QED
    BY <1>5, <2>3 DEF BillsSetApproval, TypeOK
<1>6. ASSUME BillsDelete(b)
      PROVE  TypeOK'
  <2>1. Void(<<"bill", b>>)
    BY <1>6 DEF BillsDelete
  <2>2. entry' \in [Slot -> EntryRow \cup {NoRow}]
    BY <2>1, VoidTyped, SlotsAre
  <2>3. movements' \in Seq(Movement)
    BY <1>6, MovedTyped, SourcesAre DEF BillsDelete
  <2>4. order' \in [Order -> OrderRow \cup {NoRow}]
    <3>1. ASSUME NEW o \in Order
          PROVE  OrdersWithout(b)[o] \in OrderRow \cup {NoRow}
      <4>1. order[o] \in OrderRow \cup {NoRow}
        BY DEF TypeOK
      <4>2. \/ OrdersWithout(b)[o] = order[o]
            \/ /\ order[o] # NoRow
               /\ OrdersWithout(b)[o] = [order[o] EXCEPT !.status = "sent",
                                           !.converted = NoRow, !.matched = NoRow]
        BY DEF OrdersWithout
      <4> QED
        BY <4>1, <4>2 DEF OrderRow, OrderStatus
    <3> QED
      BY <1>6, <3>1 DEF BillsDelete, OrdersWithout
  <2> QED
    BY <1>6, <2>2, <2>3, <2>4 DEF BillsDelete, TypeOK
<1> QED
  BY <1>1, <1>2, <1>3, <1>4, <1>5, <1>6 DEF BillStep

\* A step of a vendor credit keeps the types.
LEMMA CreditStepTyped ==
    ASSUME TypeOK, NEW c \in Credit, CreditStep(c)
    PROVE  TypeOK'
<1>1. ASSUME NEW total \in Amount, CreditNotesCreate(c, total)
      PROVE  TypeOK'
  <2>1. total \in Nat
    BY PurchasingAssumption
  <2>2. Post(<<"credit", c>>, 0 - total, 0) /\ <<"credit", c>> \in Slot
    BY <1>1, SlotsAre DEF CreditNotesCreate
  <2>5. 0 - total \in Int /\ 0 \in Int
    BY <2>1
  <2>3. entry' \in [Slot -> EntryRow \cup {NoRow}]
    BY <2>2, <2>5, PostTyped
  <2>4. credit' \in [Credit -> CreditRow \cup {NoRow}]
    BY <1>1 DEF CreditNotesCreate, TypeOK, CreditRow
  <2> QED
    BY <1>1, <2>3, <2>4 DEF CreditNotesCreate, TypeOK
<1>2. ASSUME NEW b \in Bill, NEW amount \in Cents, CreditNotesApply(c, b, amount)
      PROVE  TypeOK'
  <2>1. bill[b] \in BillRow /\ credit[c] \in CreditRow
    BY <1>2 DEF CreditNotesApply, TypeOK
  <2>2. amount \in Nat \ {0}
    BY <1>2 DEF CreditNotesApply
  <2>3. bill[b].paid + amount \in Nat /\ credit[c].applied + amount \in Nat
    BY <2>1, <2>2 DEF BillRow, CreditRow
  <2>4. bill' \in [Bill -> BillRow \cup {NoRow}]
    BY <1>2, <2>1, <2>3, SettledIsRow DEF CreditNotesApply, TypeOK
  <2>5. PICK status \in {"applied", "open"} :
            credit'[c] = [credit[c] EXCEPT !.applied = credit[c].applied + amount, !.status = status]
    BY <1>2, <2>1 DEF CreditNotesApply, TypeOK
  <2>6. credit'[c] \in CreditRow
    BY <2>1, <2>3, <2>5 DEF CreditRow
  <2>7. [target |-> b, amount |-> amount] \in Application
    BY <2>2 DEF Application
  <2>8. apps' \in [Credit -> Seq(Application)]
    BY <1>2, <2>7 DEF CreditNotesApply, TypeOK
  <2> QED
    BY <1>2, <2>4, <2>6, <2>8 DEF CreditNotesApply, TypeOK
<1>3. ASSUME CreditNotesRefund(c)
      PROVE  TypeOK'
  <2>1. credit[c] \in CreditRow
    BY <1>3 DEF CreditNotesRefund, TypeOK
  <2>2. Remaining(credit[c]) \in Int
    <3>1. credit[c].total \in Amount /\ credit[c].applied \in Nat
      BY <2>1 DEF CreditRow
    <3>2. credit[c].total \in Nat
      BY <3>1, PurchasingAssumption
    <3>3. credit[c].total - credit[c].applied \in Int
      BY <3>1, <3>2
    <3> QED
      BY <3>3, PositiveIsNat DEF Remaining
  <2>3. Post(<<"refund", c>>, Remaining(credit[c]), 0) /\ <<"refund", c>> \in Slot
    BY <1>3, SlotsAre DEF CreditNotesRefund
  <2>6. 0 \in Int
    OBVIOUS
  <2>4. entry' \in [Slot -> EntryRow \cup {NoRow}]
    BY <2>2, <2>3, <2>6, PostTyped
  <2>5. credit' \in [Credit -> CreditRow \cup {NoRow}]
    BY <1>3, <2>1 DEF CreditNotesRefund, TypeOK, CreditRow
  <2> QED
    BY <1>3, <2>4, <2>5 DEF CreditNotesRefund, TypeOK
<1>4. ASSUME UndoRefund(c)
      PROVE  TypeOK'
  <2>1. credit[c] \in CreditRow /\ Void(<<"refund", c>>)
    BY <1>4 DEF UndoRefund, TypeOK
  <2>2. entry' \in [Slot -> EntryRow \cup {NoRow}]
    BY <2>1, VoidTyped, SlotsAre
  <2>3. credit' \in [Credit -> CreditRow \cup {NoRow}]
    BY <1>4, <2>1 DEF UndoRefund, TypeOK, CreditRow
  <2> QED
    BY <1>4, <2>2, <2>3 DEF UndoRefund, TypeOK
<1>5. ASSUME Unapply(c)
      PROVE  TypeOK'
  <2> DEFINE last == apps[c][Len(apps[c])]
  <2>1. last \in Application /\ credit[c] \in CreditRow /\ bill[last.target] \in BillRow
    <3>1. apps[c] \in Seq(Application) /\ apps[c] # <<>>
      BY <1>5 DEF Unapply, TypeOK
    <3>2. last \in Application
      BY <3>1
    <3> QED
      BY <1>5, <3>2 DEF Unapply, TypeOK, Application
  <2>2. bill[last.target].paid - last.amount \in Int /\ credit[c].applied - last.amount \in Int
    BY <2>1 DEF Application, CreditRow, BillRow
  <2>3. bill' \in [Bill -> BillRow \cup {NoRow}]
    <3>1. Settled(bill[last.target], Positive(bill[last.target].paid - last.amount)) \in BillRow
      BY <2>1, <2>2, PositiveIsNat, SettledIsRow
    <3> QED
      BY <1>5, <2>1, <3>1 DEF Unapply, TypeOK
  <2>4. credit'[c] = [credit[c] EXCEPT !.applied = Positive(credit[c].applied - last.amount),
                                       !.status = "open"]
    BY <1>5, <2>1 DEF Unapply, TypeOK
  <2>5. credit'[c] \in CreditRow
    <3>1. Positive(credit[c].applied - last.amount) \in Nat
      BY <2>2, PositiveIsNat
    <3> QED
      BY <2>1, <2>4, <3>1 DEF CreditRow
  <2>6. apps' \in [Credit -> Seq(Application)]
    <3>1. SubSeq(apps[c], 1, Len(apps[c]) - 1) \in Seq(Application)
      BY <1>5 DEF Unapply, TypeOK
    <3> QED
      BY <1>5, <3>1 DEF Unapply, TypeOK
  <2> QED
    BY <1>5, <2>3, <2>5, <2>6 DEF Unapply, TypeOK
<1>6. ASSUME CreditNotesDelete(c)
      PROVE  TypeOK'
  <2>1. Void(<<"credit", c>>)
    BY <1>6 DEF CreditNotesDelete
  <2>2. entry' \in [Slot -> EntryRow \cup {NoRow}]
    BY <2>1, VoidTyped, SlotsAre
  <2> QED
    BY <1>6, <2>2 DEF CreditNotesDelete, TypeOK
<1> QED
  BY <1>1, <1>2, <1>3, <1>4, <1>5, <1>6 DEF CreditStep, CreditNotesUndoSettlement

\* Every table holds rows of its kind, whatever was ordered, billed, paid and undone.
THEOREM TypeCorrect == Spec => []TypeOK
<1>1. Init => TypeOK
  BY DEF Init, TypeOK
<1>2. TypeOK /\ [Next]_vars => TypeOK'
  <2> SUFFICES ASSUME TypeOK, [Next]_vars PROVE TypeOK'
    OBVIOUS
  <2>1. CASE UNCHANGED vars
    BY <2>1 DEF TypeOK, vars
  <2> QED
    BY <2>1, OrderStepTyped, BillStepTyped, CreditStepTyped DEF Next
<1> QED
  BY <1>1, <1>2, PTL DEF Spec

-----------------------------------------------------------------------------
(* The inductive invariant *)

\* What the rows of a document say its entry is; no row, no entry.
ReceiptEntry(r) == IF receipt[r] = NoRow THEN NoRow
                   ELSE [ap |-> 0, grni |-> receipt[r].quantity]
PaymentEntry(p) == IF payment[p] = NoRow THEN NoRow
                   ELSE [ap |-> 0 - payment[p].amount, grni |-> 0]
CreditEntry(c) == IF credit[c] = NoRow THEN NoRow
                  ELSE [ap |-> 0 - credit[c].total, grni |-> 0]
RefundEntry(c) == IF credit[c] = NoRow THEN NoRow
                  ELSE IF credit[c].status = "refunded"
                  THEN [ap |-> credit[c].total - credit[c].applied, grni |-> 0]
                  ELSE NoRow

\* A bill's entry clears what was received on the order matched to it, if one is.
Clears(b, cost) ==
    /\ \A o \in Stored(order) : order[o].matched = b => cost = order[o].received
    /\ (\A o \in Stored(order) : order[o].matched # b) => cost = 0

BillPosted(b) ==
    IF bill[b] = NoRow THEN entry[<<"bill", b>>] = NoRow
    ELSE /\ entry[<<"bill", b>>] # NoRow
         /\ entry[<<"bill", b>>].ap = bill[b].amount
         /\ Clears(b, 0 - entry[<<"bill", b>>].grni)

EntriesFollow ==
    /\ \A r \in Receipt : entry[<<"receipt", r>>] = ReceiptEntry(r)
    /\ \A p \in Payment : entry[<<"payment", p>>] = PaymentEntry(p)
    /\ \A c \in Credit : entry[<<"credit", c>>] = CreditEntry(c)
    /\ \A c \in Credit : entry[<<"refund", c>>] = RefundEntry(c)
    /\ \A b \in Bill : BillPosted(b)

ReceivedFollows ==
    \A o \in Order : Received(o) = IF order[o] = NoRow THEN 0 ELSE order[o].received

PaidFollows ==
    \A b \in Bill : Paid(b) + Credited(b) = IF bill[b] = NoRow THEN 0 ELSE bill[b].paid

AllApplied(c) == SumFunction([k \in DOMAIN apps[c] |-> apps[c][k].amount])

AppliedFollows ==
    \A c \in Credit : AllApplied(c) = IF credit[c] = NoRow THEN 0 ELSE credit[c].applied

ReceiptMovement(r) == [source |-> <<"receipt", r>>, quantity |-> receipt[r].quantity]

StockFollows ==
    \A m \in Movement :
        m.source[1] = "receipt" =>
            (Has(movements, m) <=> \E r \in Stored(receipt) : m = ReceiptMovement(r))

Totals == ApTotal = OwedTotal - HeldTotal /\ GrniTotal = NotInvoicedTotal

IInv ==
    /\ TypeOK
    /\ ReceivedFollows
    /\ BilledOnce
    /\ StockFollows
    /\ EntriesFollow
    /\ PaidFollows
    /\ AppliedFollows
    /\ Totals

-----------------------------------------------------------------------------
(* What one changed row does to each sum *)

\* A receipt that changes changes what its orders received by as much.
LEMMA ReceivedChange ==
    ASSUME TypeOK, TypeOK', NEW r \in Receipt,
           \A y \in Receipt \ {r} : receipt'[y] = receipt[y], NEW o \in Order
    PROVE  /\ Received(o)' = Received(o) - ReceivedOn(o)[r] + ReceivedOn(o)'[r]
           /\ Received(o) \in Nat /\ ReceivedOn(o)[r] \in Nat /\ ReceivedOn(o)'[r] \in Nat
           /\ ReceivedOn(o)[r] <= Received(o)
<1>1. /\ DOMAIN ReceivedOn(o) = Receipt /\ DOMAIN ReceivedOn(o)' = Receipt
      /\ \A y \in Receipt : ReceivedOn(o)[y] \in Nat /\ ReceivedOn(o)'[y] \in Nat
  BY DEF TypeOK, ReceivedOn, ReceiptsOf, Stored, ReceiptRow, Quantity
<1>2. IntOn(ReceivedOn(o), Receipt) /\ IntOn(ReceivedOn(o)', Receipt)
  BY <1>1 DEF IntOn
<1>3. \A y \in Receipt \ {r} : ReceivedOn(o)[y] = ReceivedOn(o)'[y]
  BY DEF TypeOK, ReceivedOn, ReceiptsOf, Stored
<1>4. SumFunction(ReceivedOn(o)') = SumFunction(ReceivedOn(o)) - ReceivedOn(o)[r] + ReceivedOn(o)'[r]
  BY <1>1, <1>2, <1>3, FiniteIds, TableChange
<1> QED
  BY <1>1, <1>4, ReceivedIsNat DEF Received

\* Receipts that stay leave what every order received.
LEMMA ReceivedSame ==
    ASSUME UNCHANGED receipt, NEW o \in Order
    PROVE  Received(o)' = Received(o)
BY DEF Received, ReceivedOn, ReceiptsOf, Stored

\* Likewise for the payments of a bill.
LEMMA PaidChange ==
    ASSUME TypeOK, TypeOK', NEW p \in Payment,
           \A y \in Payment \ {p} : payment'[y] = payment[y], NEW b \in Bill
    PROVE  /\ Paid(b)' = Paid(b) - PaidBy(b)[p] + PaidBy(b)'[p]
           /\ Paid(b) \in Nat /\ PaidBy(b)[p] \in Nat /\ PaidBy(b)'[p] \in Nat
           /\ PaidBy(b)[p] <= Paid(b)
<1>1. /\ DOMAIN PaidBy(b) = Payment /\ DOMAIN PaidBy(b)' = Payment
      /\ \A y \in Payment : PaidBy(b)[y] \in Nat /\ PaidBy(b)'[y] \in Nat
  BY DEF TypeOK, PaidBy, PaymentsOf, Stored, PaymentRow
<1>2. IntOn(PaidBy(b), Payment) /\ IntOn(PaidBy(b)', Payment)
  BY <1>1 DEF IntOn
<1>3. \A y \in Payment \ {p} : PaidBy(b)[y] = PaidBy(b)'[y]
  BY DEF TypeOK, PaidBy, PaymentsOf, Stored
<1>4. SumFunction(PaidBy(b)') = SumFunction(PaidBy(b)) - PaidBy(b)[p] + PaidBy(b)'[p]
  BY <1>1, <1>2, <1>3, FiniteIds, TableChange
<1>5. SumFunction(PaidBy(b)) \in Nat /\ PaidBy(b)[p] <= SumFunction(PaidBy(b))
  BY <1>1, FiniteIds, TableBounds
<1> QED
  BY <1>1, <1>4, <1>5 DEF Paid

\* Payments that stay leave what was paid of every bill.
LEMMA PaidSame ==
    ASSUME UNCHANGED payment, NEW b \in Bill
    PROVE  Paid(b)' = Paid(b)
BY DEF Paid, PaidBy, PaymentsOf, Stored

\* What the applications of one credit pay, on one bill and in all.

\* One more application pays its amount on its own bill.
LEMMA ApplicationAdds ==
    ASSUME NEW s \in Seq(Application), NEW x \in Application, NEW b
    PROVE  /\ SumFunction(AmountsFor(s, b)) \in Nat
           /\ SumFunction(AmountsFor(Append(s, x), b))
              = SumFunction(AmountsFor(s, b)) + (IF x.target = b THEN x.amount ELSE 0)
           /\ SumFunction(AmountsIn(s)) \in Nat
           /\ SumFunction(AmountsIn(Append(s, x))) = SumFunction(AmountsIn(s)) + x.amount
<1>1. \A r \in Application : r.amount \in Nat
  BY DEF Application
<1> QED
  BY <1>1, AmountsAdd

\* Applications come to natural numbers.
LEMMA ApplicationsAreNat ==
    ASSUME NEW s \in Seq(Application), NEW b
    PROVE  SumFunction(AmountsFor(s, b)) \in Nat /\ SumFunction(AmountsIn(s)) \in Nat
<1>1. \A r \in Application : r.amount \in Nat
  BY DEF Application
<1> QED
  BY <1>1, AmountsAreNat

\* Taking the newest application away is the reverse.
LEMMA LastIsAppended ==
    ASSUME NEW s \in Seq(Application), s # <<>>
    PROVE  /\ SubSeq(s, 1, Len(s) - 1) \in Seq(Application)
           /\ s[Len(s)] \in Application
           /\ s = Append(SubSeq(s, 1, Len(s) - 1), s[Len(s)])
OBVIOUS

\* The two sums of one credit, as sums over its sequence of applications.
LEMMA AppliedToIs ==
    ASSUME NEW c \in Credit, NEW b
    PROVE  /\ AppliedTo(c, b) = SumFunction(AmountsFor(apps[c], b))
           /\ AppliedTo(c, b)' = SumFunction(AmountsFor(apps'[c], b))
           /\ AllApplied(c) = SumFunction(AmountsIn(apps[c]))
           /\ AllApplied(c)' = SumFunction(AmountsIn(apps'[c]))
BY DEF AppliedTo, AmountsFor, AllApplied, AmountsIn

\* What was applied of a credit is a natural number.
LEMMA AppliedIsNat ==
    ASSUME TypeOK, NEW c \in Credit, NEW b
    PROVE  AppliedTo(c, b) \in Nat /\ AllApplied(c) \in Nat
<1>1. apps[c] \in Seq(Application)
  BY DEF TypeOK
<1> QED
  BY <1>1, ApplicationsAreNat, AppliedToIs

\* Likewise for the credit applied to a bill.
LEMMA CreditedChange ==
    ASSUME TypeOK, TypeOK', NEW c \in Credit,
           \A y \in Credit \ {c} : apps'[y] = apps[y], NEW b \in Bill
    PROVE  /\ Credited(b)' = Credited(b) - AppliedTo(c, b) + AppliedTo(c, b)'
           /\ Credited(b) \in Nat /\ AppliedTo(c, b) \in Nat /\ AppliedTo(c, b)' \in Nat
           /\ AppliedTo(c, b) <= Credited(b)
<1>0. \A y \in Credit : AppliedTo(y, b) \in Nat /\ AppliedTo(y, b)' \in Nat
  <2>1. \A y \in Credit : apps[y] \in Seq(Application) /\ apps'[y] \in Seq(Application)
    BY DEF TypeOK
  <2> QED
    BY <2>1, ApplicationsAreNat, AppliedToIs
<1>1. /\ DOMAIN Applied(b) = Credit /\ DOMAIN Applied(b)' = Credit
      /\ \A y \in Credit : Applied(b)[y] = AppliedTo(y, b) /\ Applied(b)'[y] = AppliedTo(y, b)'
  BY DEF Applied
<1>2. \A y \in Credit \ {c} : AppliedTo(y, b)' = AppliedTo(y, b)
  BY AppliedToIs
<1>3. /\ IntOn(Applied(b), Credit) /\ IntOn(Applied(b)', Credit)
      /\ \A y \in Credit : Applied(b)[y] \in Nat
      /\ \A y \in Credit \ {c} : Applied(b)[y] = Applied(b)'[y]
  BY <1>0, <1>1, <1>2 DEF IntOn
<1>4. SumFunction(Applied(b)') = SumFunction(Applied(b)) - Applied(b)[c] + Applied(b)'[c]
  BY <1>1, <1>3, FiniteIds, TableChange
<1>5. SumFunction(Applied(b)) \in Nat /\ Applied(b)[c] <= SumFunction(Applied(b))
  BY <1>1, <1>3, FiniteIds, TableBounds
<1> QED
  BY <1>0, <1>1, <1>4, <1>5 DEF Credited

\* What was paid of a bill is a natural number, and no payment of it is larger.
LEMMA PaidIsNat ==
    ASSUME TypeOK, NEW b \in Bill
    PROVE  Paid(b) \in Nat
<1>1. DOMAIN PaidBy(b) = Payment
  BY DEF PaidBy
<1>2. \A p \in Payment : PaidBy(b)[p] \in Nat
  BY DEF TypeOK, PaidBy, PaymentsOf, Stored, PaymentRow
<1> QED
  BY <1>1, <1>2, FiniteIds, TableBounds DEF Paid

\* What was credited to a bill is a natural number, and no credit gave more.
LEMMA CreditedIsNat ==
    ASSUME TypeOK, NEW b \in Bill
    PROVE  Credited(b) \in Nat
<1>1. DOMAIN Applied(b) = Credit /\ \A c \in Credit : Applied(b)[c] = AppliedTo(c, b)
  BY DEF Applied
<1>2. \A c \in Credit : Applied(b)[c] \in Nat
  BY <1>1, AppliedIsNat
<1> QED
  BY <1>1, <1>2, FiniteIds, TableBounds DEF Credited

\* Applications that stay leave what was credited to every bill.
LEMMA CreditedSame ==
    ASSUME UNCHANGED apps, NEW b \in Bill
    PROVE  Credited(b)' = Credited(b)
BY DEF Credited, Applied, AppliedTo

\* Every term of the four sums is an integer.
LEMMA TermsTyped ==
    ASSUME TypeOK
    PROVE  /\ \A s \in Slot : Ap[s] \in Int /\ Grni[s] \in Int
           /\ \A b \in Bill : Owed[b] \in Int
           /\ \A c \in Credit : Held[c] \in Int
           /\ \A o \in Order : NotInvoiced[o] \in Int
<1>1. \A s \in Slot : Ap[s] \in Int /\ Grni[s] \in Int
  BY DEF TypeOK, Ap, Grni, EntryRow
<1>2. \A b \in Bill : Owed[b] \in Int
  BY DEF TypeOK, Owed, BillRow
<1>3. \A c \in Credit : Held[c] \in Int
  <2> SUFFICES ASSUME NEW c \in Credit, credit[c] # NoRow PROVE Held[c] \in Int
    BY DEF Held
  <2>1. credit[c].total \in Amount /\ credit[c].applied \in Nat
    BY DEF TypeOK, CreditRow
  <2>2. credit[c].total \in Nat
    BY <2>1, PurchasingAssumption
  <2> QED
    BY <2>1, <2>2 DEF Held
<1>4. \A o \in Order : NotInvoiced[o] \in Int
  BY DEF TypeOK, NotInvoiced, OrderRow
<1> QED
  BY <1>1, <1>2, <1>3, <1>4

\* So it is after a step.
LEMMA TermsTypedNext ==
    ASSUME TypeOK'
    PROVE  /\ \A s \in Slot : Ap'[s] \in Int /\ Grni'[s] \in Int
           /\ \A b \in Bill : Owed'[b] \in Int
           /\ \A c \in Credit : Held'[c] \in Int
           /\ \A o \in Order : NotInvoiced'[o] \in Int
<1>1. \A s \in Slot : Ap'[s] \in Int /\ Grni'[s] \in Int
  BY DEF TypeOK, Ap, Grni, EntryRow
<1>2. \A b \in Bill : Owed'[b] \in Int
  BY DEF TypeOK, Owed, BillRow
<1>3. \A c \in Credit : Held'[c] \in Int
  <2> SUFFICES ASSUME NEW c \in Credit, credit'[c] # NoRow PROVE Held'[c] \in Int
    BY DEF Held
  <2>1. credit'[c].total \in Amount /\ credit'[c].applied \in Nat
    BY DEF TypeOK, CreditRow
  <2>2. credit'[c].total \in Nat
    BY <2>1, PurchasingAssumption
  <2> QED
    BY <2>1, <2>2 DEF Held
<1>4. \A o \in Order : NotInvoiced'[o] \in Int
  BY DEF TypeOK, NotInvoiced, OrderRow
<1> QED
  BY <1>1, <1>2, <1>3, <1>4

\* What posting or voiding one entry does to the two accounts.
LEMMA EntryChange ==
    ASSUME TypeOK, TypeOK', NEW s \in Slot, \A y \in Slot \ {s} : entry'[y] = entry[y]
    PROVE  /\ ApTotal' = ApTotal - Ap[s] + Ap'[s]
           /\ GrniTotal' = GrniTotal - Grni[s] + Grni'[s]
           /\ ApTotal \in Int /\ GrniTotal \in Int
           /\ Ap[s] \in Int /\ Ap'[s] \in Int /\ Grni[s] \in Int /\ Grni'[s] \in Int
<1>1. /\ DOMAIN Ap = Slot /\ DOMAIN Ap' = Slot /\ DOMAIN Grni = Slot /\ DOMAIN Grni' = Slot
      /\ IntOn(Ap, Slot) /\ IntOn(Ap', Slot) /\ IntOn(Grni, Slot) /\ IntOn(Grni', Slot)
  <2>1. DOMAIN Ap = Slot /\ DOMAIN Ap' = Slot /\ DOMAIN Grni = Slot /\ DOMAIN Grni' = Slot
    BY DEF Ap, Grni
  <2> QED
    BY <2>1, TermsTyped, TermsTypedNext DEF IntOn
<1>2. \A y \in Slot \ {s} : Ap[y] = Ap'[y] /\ Grni[y] = Grni'[y]
  BY DEF Ap, Grni
<1>3. SumFunction(Ap') = SumFunction(Ap) - Ap[s] + Ap'[s]
  BY <1>1, <1>2, FiniteSlot, TableChange
<1>4. SumFunction(Grni') = SumFunction(Grni) - Grni[s] + Grni'[s]
  BY <1>1, <1>2, FiniteSlot, TableChange
<1>5. SumFunction(Ap) \in Int /\ SumFunction(Grni) \in Int
  BY <1>1, FiniteSlot, TableSum
<1> QED
  BY <1>3, <1>4, <1>5, TermsTyped, TermsTypedNext DEF ApTotal, GrniTotal

\* One changed bill changes what is owed by as much.
LEMMA OwedChange ==
    ASSUME TypeOK, TypeOK', NEW b \in Bill, \A y \in Bill \ {b} : bill'[y] = bill[y]
    PROVE  /\ OwedTotal' = OwedTotal - Owed[b] + Owed'[b]
           /\ OwedTotal \in Int /\ Owed[b] \in Int /\ Owed'[b] \in Int
<1>1. DOMAIN Owed = Bill /\ DOMAIN Owed' = Bill
  BY DEF Owed
<1>2. IntOn(Owed, Bill) /\ IntOn(Owed', Bill)
  BY TermsTyped, TermsTypedNext DEF IntOn
<1>3. \A y \in Bill \ {b} : Owed[y] = Owed'[y]
  BY DEF Owed
<1>4. SumFunction(Owed') = SumFunction(Owed) - Owed[b] + Owed'[b] /\ SumFunction(Owed) \in Int
  BY <1>1, <1>2, <1>3, FiniteIds, TableChange, TableSum
<1> QED
  BY <1>4, TermsTyped, TermsTypedNext DEF OwedTotal

\* One changed credit changes what is held by as much.
LEMMA HeldChange ==
    ASSUME TypeOK, TypeOK', NEW c \in Credit, \A y \in Credit \ {c} : credit'[y] = credit[y]
    PROVE  /\ HeldTotal' = HeldTotal - Held[c] + Held'[c]
           /\ HeldTotal \in Int /\ Held[c] \in Int /\ Held'[c] \in Int
<1>1. DOMAIN Held = Credit /\ DOMAIN Held' = Credit
  BY DEF Held
<1>2. IntOn(Held, Credit) /\ IntOn(Held', Credit)
  BY TermsTyped, TermsTypedNext DEF IntOn
<1>3. \A y \in Credit \ {c} : Held[y] = Held'[y]
  BY DEF Held
<1>4. SumFunction(Held') = SumFunction(Held) - Held[c] + Held'[c] /\ SumFunction(Held) \in Int
  BY <1>1, <1>2, <1>3, FiniteIds, TableChange, TableSum
<1> QED
  BY <1>4, TermsTyped, TermsTypedNext DEF HeldTotal

\* One changed order changes what is not invoiced by as much.
LEMMA NotInvoicedChange ==
    ASSUME TypeOK, TypeOK', NEW o \in Order,
           \A y \in Order \ {o} : NotInvoiced'[y] = NotInvoiced[y]
    PROVE  /\ NotInvoicedTotal' = NotInvoicedTotal - NotInvoiced[o] + NotInvoiced'[o]
           /\ NotInvoicedTotal \in Int /\ NotInvoiced[o] \in Int /\ NotInvoiced'[o] \in Int
<1>1. DOMAIN NotInvoiced = Order /\ DOMAIN NotInvoiced' = Order
  BY DEF NotInvoiced
<1>2. IntOn(NotInvoiced, Order) /\ IntOn(NotInvoiced', Order)
  BY TermsTyped, TermsTypedNext DEF IntOn
<1>4. SumFunction(NotInvoiced') = SumFunction(NotInvoiced) - NotInvoiced[o] + NotInvoiced'[o]
      /\ SumFunction(NotInvoiced) \in Int
  BY <1>1, <1>2, FiniteIds, TableChange, TableSum
<1> QED
  BY <1>4, TermsTyped, TermsTypedNext DEF NotInvoicedTotal

\* Tables that stay leave their totals.
LEMMA TotalsSame ==
    /\ UNCHANGED entry => ApTotal' = ApTotal /\ GrniTotal' = GrniTotal
    /\ UNCHANGED bill => OwedTotal' = OwedTotal
    /\ UNCHANGED credit => HeldTotal' = HeldTotal
    /\ UNCHANGED order => NotInvoicedTotal' = NotInvoicedTotal
BY DEF ApTotal, Ap, GrniTotal, Grni, OwedTotal, Owed, HeldTotal, Held, NotInvoicedTotal, NotInvoiced

\* The totals are integers.
LEMMA TotalsTyped ==
    ASSUME TypeOK
    PROVE  /\ ApTotal \in Int /\ GrniTotal \in Int /\ OwedTotal \in Int
           /\ HeldTotal \in Int /\ NotInvoicedTotal \in Int
<1>1. /\ DOMAIN Ap = Slot /\ DOMAIN Grni = Slot /\ DOMAIN Owed = Bill
      /\ DOMAIN Held = Credit /\ DOMAIN NotInvoiced = Order
  BY DEF Ap, Grni, Owed, Held, NotInvoiced
<1>2. /\ IntOn(Ap, Slot) /\ IntOn(Grni, Slot) /\ IntOn(Owed, Bill)
      /\ IntOn(Held, Credit) /\ IntOn(NotInvoiced, Order)
  BY TermsTyped DEF IntOn
<1> QED
  BY <1>1, <1>2, FiniteIds, FiniteSlot, TableSum
     DEF ApTotal, GrniTotal, OwedTotal, HeldTotal, NotInvoicedTotal

-----------------------------------------------------------------------------
(* Approvals *)

\* Approvals hold through a step of a purchase order: editing it takes them back.
LEMMA OrderStepApproved ==
    ASSUME TypeOK, ApprovedFigure, NEW o \in Order, OrderStep(o)
    PROVE  ApprovedFigure'
<1> USE DEF TypeOK, ApprovedFigure, Stored
<1>1. ASSUME NEW quantity \in Quantity,
             PurchaseOrdersCreate(o, quantity) \/ PurchaseOrdersUpdate(o, quantity)
      PROVE  ApprovedFigure'
  <2>1. InitialApproval(quantity) # "approved"
    BY DEF InitialApproval
  <2>2. CASE PurchaseOrdersCreate(o, quantity)
    BY <2>1, <2>2 DEF PurchaseOrdersCreate
  <2>3. CASE PurchaseOrdersUpdate(o, quantity)
    <3>1. order[o] \in OrderRow
      BY <2>3 DEF PurchaseOrdersUpdate
    <3>2. order'[o] = [order[o] EXCEPT !.quantity = quantity, !.approval = InitialApproval(quantity)]
      BY <2>3 DEF PurchaseOrdersUpdate
    <3>3. order'[o].approval # "approved"
      BY <2>1, <3>1, <3>2 DEF OrderRow
    <3> QED
      BY <2>3, <3>3 DEF PurchaseOrdersUpdate
  <2> QED
    BY <1>1, <2>2, <2>3
<1>2. ASSUME NEW status \in OrderStatus, PurchaseOrdersSetStatus(o, status)
      PROVE  ApprovedFigure'
  BY <1>2 DEF PurchaseOrdersSetStatus, OrderRow
<1>3. ASSUME NEW approval \in OrderApproval \ {"notRequired"}, PurchaseOrdersSetApproval(o, approval)
      PROVE  ApprovedFigure'
  <2>1. order[o] \in OrderRow
    BY <1>3 DEF PurchaseOrdersSetApproval
  <2>2. PICK agreed : /\ order'[o] = [order[o] EXCEPT !.approval = approval, !.agreed = agreed]
                      /\ approval = "approved" => agreed = order[o].quantity
    BY <1>3, <2>1 DEF PurchaseOrdersSetApproval
  <2>3. order'[o].approval = "approved" => order'[o].quantity = order'[o].agreed
    BY <2>1, <2>2 DEF OrderRow
  <2> QED
    BY <1>3, <2>3 DEF PurchaseOrdersSetApproval
<1>4. ASSUME NEW r \in Receipt, NEW quantity \in Quantity, PurchaseOrdersReceive(o, r, quantity)
      PROVE  ApprovedFigure'
  <2>1. order[o] \in OrderRow
    BY <1>4 DEF PurchaseOrdersReceive
  <2>2. PICK status, received :
            order'[o] = [order[o] EXCEPT !.received = received, !.status = status]
    BY <1>4 DEF PurchaseOrdersReceive
  <2>3. order'[o].approval = "approved" => order'[o].quantity = order'[o].agreed
    BY <1>4, <2>1, <2>2 DEF OrderRow, PurchaseOrdersReceive
  <2> QED
    BY <1>4, <2>3 DEF PurchaseOrdersReceive
<1>5. ASSUME NEW r \in Receipt, PurchaseOrdersReverseLatestReceipt(o, r)
      PROVE  ApprovedFigure'
  BY <1>5 DEF PurchaseOrdersReverseLatestReceipt, OrderRow
<1>6. ASSUME NEW b \in Bill, NEW amount \in Amount, PurchaseOrdersMatchSupplierBill(o, b, amount)
      PROVE  ApprovedFigure'
  <2>1. order[o] \in OrderRow
    BY <1>6 DEF PurchaseOrdersMatchSupplierBill
  <2>2. order'[o] = [order[o] EXCEPT !.status = "converted", !.converted = b, !.matched = b]
    BY <1>6 DEF PurchaseOrdersMatchSupplierBill
  <2>3. order'[o].approval = "approved" => order'[o].quantity = order'[o].agreed
    BY <1>6, <2>1, <2>2 DEF OrderRow, PurchaseOrdersMatchSupplierBill
  <2> QED
    BY <1>6, <2>3 DEF PurchaseOrdersMatchSupplierBill, NewBill
<1>7. ASSUME NEW b \in Bill, PurchaseOrdersConvertToBill(o, b)
      PROVE  ApprovedFigure'
  BY <1>7 DEF PurchaseOrdersConvertToBill, NewBill, OrderRow
<1>8. ASSUME PurchaseOrdersUnmatchSupplierBill(o)
      PROVE  ApprovedFigure'
  BY <1>8 DEF PurchaseOrdersUnmatchSupplierBill, OrderRow
<1>9. ASSUME PurchaseOrdersDelete(o)
      PROVE  ApprovedFigure'
  BY <1>9 DEF PurchaseOrdersDelete
<1> QED
  BY <1>1, <1>2, <1>3, <1>4, <1>5, <1>6, <1>7, <1>8, <1>9 DEF OrderStep

\* Paying leaves the amount and the approval.
LEMMA SettledKeeps ==
    ASSUME NEW row \in BillRow, NEW paid
    PROVE  /\ Settled(row, paid).amount = row.amount
           /\ Settled(row, paid).approval = row.approval
           /\ Settled(row, paid).agreed = row.agreed
           /\ Settled(row, paid).paid = paid
<1>1. PICK status : Settled(row, paid) = [row EXCEPT !.paid = paid, !.status = status]
  BY DEF Settled
<1> QED
  BY <1>1 DEF BillRow

\* Approvals hold through a step of a bill: editing it takes them back.
LEMMA BillStepApproved ==
    ASSUME TypeOK, ApprovedFigure, NEW b \in Bill, BillStep(b)
    PROVE  ApprovedFigure'
<1> USE DEF TypeOK, ApprovedFigure, Stored
<1>1. ASSUME NEW amount \in Amount, NEW quantity \in BillQuantity, BillsCreate(b, amount, quantity)
      PROVE  ApprovedFigure'
  BY <1>1 DEF BillsCreate, NewBill
<1>2. ASSUME NEW amount \in Amount, NEW quantity \in BillQuantity, BillsUpdate(b, amount, quantity)
      PROVE  ApprovedFigure'
  <2>1. bill[b] \in BillRow /\ bill[b] # NoRow
    BY <1>2 DEF BillsUpdate, Editable
  <2>2. ApprovalAfterEdit(bill[b], amount) \in BillRow
    BY <2>1 DEF ApprovalAfterEdit, BillRow, BillApproval
  <2>3. bill'[b] = [ApprovalAfterEdit(bill[b], amount) EXCEPT !.amount = amount, !.status = "unpaid"]
    BY <1>2 DEF BillsUpdate
  <2>4. ApprovalAfterEdit(bill[b], amount).approval = "approved" =>
            ApprovalAfterEdit(bill[b], amount).agreed \in {0, amount}
    BY <2>1 DEF ApprovalAfterEdit, BillRow
  <2>5. bill'[b].approval = "approved" => bill'[b].agreed \in {0, bill'[b].amount}
    BY <2>2, <2>3, <2>4 DEF BillRow
  <2> QED
    BY <1>2, <2>5 DEF BillsUpdate
<1>3. ASSUME NEW p \in Payment, NEW amount \in Cents, BillsPay(b, p, amount)
      PROVE  ApprovedFigure'
  <2>1. bill[b] \in BillRow /\ bill'[b] = Settled(bill[b], bill[b].paid + amount)
    BY <1>3 DEF BillsPay
  <2>2. bill[b] # NoRow
    BY <1>3 DEF BillsPay
  <2> QED
    BY <1>3, <2>1, <2>2, SettledKeeps DEF BillsPay
<1>4. ASSUME NEW p \in Payment, BillsReverseLastPayment(b, p)
      PROVE  ApprovedFigure'
  <2>1. bill[b] \in BillRow /\ bill[b] # NoRow
        /\ bill'[b] = Settled(bill[b], Positive(bill[b].paid - payment[p].amount))
    BY <1>4 DEF BillsReverseLastPayment
  <2> QED
    BY <1>4, <2>1, SettledKeeps DEF BillsReverseLastPayment
<1>5. ASSUME NEW approval \in BillApproval, BillsSetApproval(b, approval)
      PROVE  ApprovedFigure'
  <2>1. bill[b] \in BillRow
    BY <1>5 DEF BillsSetApproval
  <2>2. PICK agreed : /\ bill'[b] = [bill[b] EXCEPT !.approval = approval, !.agreed = agreed]
                      /\ approval = "approved" => agreed = bill[b].amount
    BY <1>5, <2>1 DEF BillsSetApproval
  <2>3. bill'[b].approval = "approved" => bill'[b].agreed \in {0, bill'[b].amount}
    BY <2>1, <2>2 DEF BillRow
  <2> QED
    BY <1>5, <2>3 DEF BillsSetApproval
<1>6. ASSUME BillsDelete(b)
      PROVE  ApprovedFigure'
  <2>1. ASSUME NEW o \in Order, order'[o] # NoRow
        PROVE  order'[o].approval = "approved" => order'[o].quantity = order'[o].agreed
    <3>1. order'[o] = OrdersWithout(b)[o] /\ order[o] # NoRow
      BY <1>6, <2>1 DEF BillsDelete, OrdersWithout
    <3> QED
      BY <3>1 DEF OrdersWithout, OrderRow
  <2>2. DOMAIN order' = Order
    BY <1>6 DEF BillsDelete, OrdersWithout
  <2>3. \A o \in Stored(order)' : order'[o].approval = "approved" => order'[o].quantity = order'[o].agreed
    BY <2>1, <2>2
  <2>4. \A y \in Stored(bill)' : y \in Stored(bill) /\ bill'[y] = bill[y]
    BY <1>6 DEF BillsDelete
  <2> QED
    BY <2>3, <2>4
<1> QED
  BY <1>1, <1>2, <1>3, <1>4, <1>5, <1>6 DEF BillStep

\* Approvals hold through a step of a vendor credit, which only pays bills.
LEMMA CreditStepApproved ==
    ASSUME TypeOK, ApprovedFigure, NEW c \in Credit, CreditStep(c)
    PROVE  ApprovedFigure'
<1>1. CASE UNCHANGED <<order, bill>>
  BY <1>1 DEF ApprovedFigure, Stored
<1>2. ASSUME NEW b \in Bill, NEW amount \in Cents, CreditNotesApply(c, b, amount)
      PROVE  ApprovedFigure'
  <2>1. bill[b] \in BillRow /\ bill'[b] = Settled(bill[b], bill[b].paid + amount)
    BY <1>2 DEF CreditNotesApply, TypeOK
  <2>2. bill[b] # NoRow
    BY <1>2 DEF CreditNotesApply
  <2> QED
    BY <1>2, <2>1, <2>2, SettledKeeps DEF CreditNotesApply, TypeOK, ApprovedFigure, Stored
<1>3. ASSUME Unapply(c)
      PROVE  ApprovedFigure'
  <2>1. apps[c] \in Seq(Application) /\ apps[c] # <<>>
    BY <1>3 DEF Unapply, TypeOK
  <2>2. PICK last \in Application :
            /\ bill[last.target] # NoRow
            /\ bill' = [bill EXCEPT ![last.target] =
                           Settled(bill[last.target], Positive(bill[last.target].paid - last.amount))]
    BY <1>3, <2>1, LastIsAppended DEF Unapply
  <2>3. last.target \in Bill /\ bill[last.target] \in BillRow
    BY <2>2 DEF TypeOK, Application
  <2>4. order' = order /\ bill \in [Bill -> BillRow \cup {NoRow}]
    BY <1>3 DEF Unapply, TypeOK
  <2>5. /\ bill'[last.target].amount = bill[last.target].amount
        /\ bill'[last.target].approval = bill[last.target].approval
        /\ bill'[last.target].agreed = bill[last.target].agreed
        /\ \A y \in Bill \ {last.target} : bill'[y] = bill[y]
    BY <2>2, <2>3, <2>4, SettledKeeps
  <2> QED
    BY <2>2, <2>3, <2>4, <2>5 DEF ApprovedFigure, Stored
<1> QED
  BY <1>1, <1>2, <1>3 DEF CreditStep, CreditNotesCreate, CreditNotesRefund,
     CreditNotesUndoSettlement, UndoRefund, CreditNotesDelete

\* Whoever approved an order or a bill approved the total it has now.
THEOREM ApprovalsAreOfTheFigure == Spec => []ApprovedFigure
<1>1. Init => ApprovedFigure
  BY DEF Init, ApprovedFigure, Stored
<1>2. TypeOK /\ ApprovedFigure /\ [Next]_vars => ApprovedFigure'
  <2> SUFFICES ASSUME TypeOK, ApprovedFigure, [Next]_vars PROVE ApprovedFigure'
    OBVIOUS
  <2>1. CASE UNCHANGED vars
    BY <2>1 DEF ApprovedFigure, Stored, vars
  <2> QED
    BY <2>1, OrderStepApproved, BillStepApproved, CreditStepApproved DEF Next
<1> QED
  BY <1>1, <1>2, TypeCorrect, PTL DEF Spec

-----------------------------------------------------------------------------
(* What each operation does to the rows *)

\* Rows and ids are not null.
LEMMA RowsAreSome ==
    /\ \A row \in OrderRow : row # NoRow
    /\ \A row \in ReceiptRow : row # NoRow
    /\ \A row \in BillRow : row # NoRow
    /\ \A row \in PaymentRow : row # NoRow
    /\ \A row \in CreditRow : row # NoRow
    /\ \A row \in EntryRow : row # NoRow
    /\ \A b \in Bill : b # NoRow
BY NullIsNoRow, PurchasingAssumption

\* The columns the books depend on stay as they are.
SameOrder(o) ==
    /\ order[o] # NoRow
    /\ order'[o] # NoRow
    /\ order'[o].received = order[o].received
    /\ order'[o].converted = order[o].converted
    /\ order'[o].matched = order[o].matched
    /\ order'[o].status = "converted" <=> order[o].status = "converted"

\* purchaseOrdersCreate: a draft nothing was received on.
LEMMA CreateRow ==
    ASSUME TypeOK, NEW o \in Order, NEW quantity \in Quantity, PurchaseOrdersCreate(o, quantity)
    PROVE  /\ order[o] = NoRow
           /\ order'[o].received = 0
           /\ order'[o].status = "draft"
           /\ order'[o].converted = NoRow
           /\ order'[o].matched = NoRow
           /\ \A x \in Order \ {o} : order'[x] = order[x]
BY DEF PurchaseOrdersCreate, TypeOK

\* purchaseOrdersUpdate.
LEMMA UpdateRow ==
    ASSUME TypeOK, TypeOK', NEW o \in Order, NEW quantity \in Quantity,
           PurchaseOrdersUpdate(o, quantity)
    PROVE  SameOrder(o) /\ \A x \in Order \ {o} : order'[x] = order[x]
<1>1. order[o] \in OrderRow /\ \A x \in Order \ {o} : order'[x] = order[x]
  BY DEF PurchaseOrdersUpdate, TypeOK
<1>2. order'[o] = [order[o] EXCEPT !.quantity = quantity, !.approval = InitialApproval(quantity)]
  BY DEF PurchaseOrdersUpdate, TypeOK
<1>3. order'[o] \in OrderRow
  BY <1>1, <1>2 DEF OrderRow, InitialApproval, OrderApproval
<1> QED
  BY <1>1, <1>2, <1>3, RowsAreSome DEF SameOrder, OrderRow

\* purchaseOrdersSetStatus.
LEMMA SetStatusRow ==
    ASSUME TypeOK, TypeOK', NEW o \in Order, NEW status \in OrderStatus,
           PurchaseOrdersSetStatus(o, status)
    PROVE  SameOrder(o) /\ \A x \in Order \ {o} : order'[x] = order[x]
<1>1. order[o] \in OrderRow /\ \A x \in Order \ {o} : order'[x] = order[x]
  BY DEF PurchaseOrdersSetStatus, TypeOK
<1>2. order'[o] = [order[o] EXCEPT !.status = status]
  BY DEF PurchaseOrdersSetStatus, TypeOK
<1>3. order'[o] \in OrderRow
  BY <1>1, <1>2 DEF OrderRow
<1>4. order[o].status # "converted" /\ status # "converted"
  BY <1>1 DEF PurchaseOrdersSetStatus, Transitions, OrderRow, OrderStatus
<1> QED
  BY <1>1, <1>2, <1>3, <1>4, RowsAreSome DEF SameOrder, OrderRow

\* purchaseOrdersSetApproval.
LEMMA SetApprovalRow ==
    ASSUME TypeOK, TypeOK', NEW o \in Order, NEW approval \in OrderApproval,
           PurchaseOrdersSetApproval(o, approval)
    PROVE  SameOrder(o) /\ \A x \in Order \ {o} : order'[x] = order[x]
<1>1. order[o] \in OrderRow /\ \A x \in Order \ {o} : order'[x] = order[x]
  BY DEF PurchaseOrdersSetApproval, TypeOK
<1>4. order[o].quantity \in Nat
  BY <1>1 DEF OrderRow, Quantity
<1>2. PICK agreed \in Nat : order'[o] = [order[o] EXCEPT !.approval = approval, !.agreed = agreed]
  BY <1>1, <1>4 DEF PurchaseOrdersSetApproval, TypeOK
<1>3. order'[o] \in OrderRow
  BY <1>1, <1>2 DEF OrderRow
<1> QED
  BY <1>1, <1>2, <1>3, RowsAreSome DEF SameOrder, OrderRow

\* purchaseOrdersReceive: one receipt more.
LEMMA ReceiveRow ==
    ASSUME TypeOK, TypeOK', NEW o \in Order, NEW r \in Receipt, NEW quantity \in Quantity,
           PurchaseOrdersReceive(o, r, quantity)
    PROVE  /\ order[o] \in OrderRow /\ order'[o] \in OrderRow
           /\ order[o].converted = NoRow /\ order[o].matched = NoRow
           /\ order'[o].received = order[o].received + quantity
           /\ order'[o].status \in {"received", "sent"}
           /\ order'[o].converted = NoRow /\ order'[o].matched = NoRow
           /\ \A x \in Order \ {o} : order'[x] = order[x]
           /\ receipt[r] = NoRow
           /\ receipt'[r] = [order |-> o, quantity |-> quantity]
           /\ receipt'[r] # NoRow
           /\ \A y \in Receipt \ {r} : receipt'[y] = receipt[y]
<1>1. /\ order[o] \in OrderRow /\ \A x \in Order \ {o} : order'[x] = order[x]
      /\ order[o].converted = NoRow /\ order[o].matched = NoRow
  BY DEF PurchaseOrdersReceive, TypeOK
<1>2. PICK status \in {"received", "sent"} :
          order'[o] = [order[o] EXCEPT !.received = order[o].received + quantity, !.status = status]
  BY <1>1 DEF PurchaseOrdersReceive, TypeOK
<1>3. order'[o] \in OrderRow
  <2>1. order[o].received + quantity \in Nat
    BY <1>1 DEF OrderRow, Quantity
  <2> QED
    BY <1>1, <1>2, <2>1 DEF OrderRow, OrderStatus
<1>4. /\ receipt[r] = NoRow
      /\ receipt'[r] = [order |-> o, quantity |-> quantity]
      /\ receipt'[r] \in ReceiptRow
      /\ \A y \in Receipt \ {r} : receipt'[y] = receipt[y]
  BY DEF PurchaseOrdersReceive, TypeOK, ReceiptRow
<1> QED
  BY <1>1, <1>2, <1>3, <1>4, RowsAreSome DEF OrderRow

\* purchaseOrdersReverseLatestReceipt: one receipt less.
LEMMA ReverseRow ==
    ASSUME TypeOK, TypeOK', NEW o \in Order, NEW r \in Receipt,
           PurchaseOrdersReverseLatestReceipt(o, r)
    PROVE  /\ order[o] \in OrderRow /\ order'[o] \in OrderRow
           /\ order[o].converted = NoRow /\ order[o].matched = NoRow
           /\ order'[o].received = Positive(order[o].received - receipt[r].quantity)
           /\ order'[o].status = "sent"
           /\ order'[o].converted = NoRow /\ order'[o].matched = NoRow
           /\ \A x \in Order \ {o} : order'[x] = order[x]
           /\ receipt[r] \in ReceiptRow /\ receipt[r].order = o
           /\ receipt'[r] = NoRow
           /\ \A y \in Receipt \ {r} : receipt'[y] = receipt[y]
<1>1. /\ order[o] \in OrderRow /\ \A x \in Order \ {o} : order'[x] = order[x]
      /\ order[o].converted = NoRow /\ order[o].matched = NoRow
  BY DEF PurchaseOrdersReverseLatestReceipt, TypeOK
<1>2. order'[o] = [order[o] EXCEPT !.received = Positive(order[o].received - receipt[r].quantity),
                                   !.status = "sent"]
  BY <1>1 DEF PurchaseOrdersReverseLatestReceipt, TypeOK
<1>3. /\ receipt[r] \in ReceiptRow /\ receipt[r].order = o
      /\ receipt'[r] = NoRow
      /\ \A y \in Receipt \ {r} : receipt'[y] = receipt[y]
  BY DEF PurchaseOrdersReverseLatestReceipt, TypeOK, ReceiptsOf, Stored
<1>4. order'[o] \in OrderRow
  <2>1. order[o].received - receipt[r].quantity \in Int
    BY <1>1, <1>3 DEF OrderRow, ReceiptRow, Quantity
  <2>2. Positive(order[o].received - receipt[r].quantity) \in Nat
    BY <2>1, PositiveIsNat
  <2> QED
    BY <1>1, <1>2, <2>2 DEF OrderRow, OrderStatus
<1> QED
  BY <1>1, <1>2, <1>3, <1>4 DEF OrderRow

\* purchaseOrdersMatchSupplierBill: a bill for what was received.
LEMMA MatchRow ==
    ASSUME TypeOK, TypeOK', NEW o \in Order, NEW b \in Bill, NEW amount \in Amount,
           PurchaseOrdersMatchSupplierBill(o, b, amount)
    PROVE  /\ order[o] \in OrderRow /\ order'[o] \in OrderRow
           /\ order[o].converted = NoRow /\ order[o].matched = NoRow
           /\ order'[o].received = order[o].received
           /\ order'[o].status = "converted"
           /\ order'[o].converted = b /\ order'[o].matched = b
           /\ \A x \in Order \ {o} : order'[x] = order[x]
           /\ bill[b] = NoRow
           /\ bill'[b] = NewBill(amount) /\ bill'[b] \in BillRow
           /\ \A y \in Bill \ {b} : bill'[y] = bill[y]
<1>1. /\ order[o] \in OrderRow /\ \A x \in Order \ {o} : order'[x] = order[x]
      /\ order[o].converted = NoRow /\ order[o].matched = NoRow
  BY DEF PurchaseOrdersMatchSupplierBill, TypeOK
<1>2. order'[o] = [order[o] EXCEPT !.status = "converted", !.converted = b, !.matched = b]
  BY <1>1 DEF PurchaseOrdersMatchSupplierBill, TypeOK
<1>3. order'[o] \in OrderRow
  BY <1>1, <1>2 DEF OrderRow, OrderStatus
<1>4. amount \in Nat \ {0}
  BY PurchasingAssumption
<1>5. /\ bill[b] = NoRow
      /\ bill'[b] = NewBill(amount)
      /\ \A y \in Bill \ {b} : bill'[y] = bill[y]
  BY DEF PurchaseOrdersMatchSupplierBill, TypeOK
<1>6. NewBill(amount) \in BillRow
  BY <1>4 DEF NewBill, BillRow, BillApproval
<1> QED
  BY <1>1, <1>2, <1>3, <1>5, <1>6 DEF OrderRow

\* purchaseOrdersUnmatchSupplierBill: that bill goes.
LEMMA UnmatchRow ==
    ASSUME TypeOK, TypeOK', NEW o \in Order, PurchaseOrdersUnmatchSupplierBill(o)
    PROVE  /\ order[o] \in OrderRow /\ order'[o] \in OrderRow
           /\ order[o].matched \in Bill
           /\ order'[o].received = order[o].received
           /\ order'[o].status = "received"
           /\ order'[o].converted = NoRow /\ order'[o].matched = NoRow
           /\ \A x \in Order \ {o} : order'[x] = order[x]
           /\ bill[order[o].matched] \in BillRow /\ bill[order[o].matched].paid = 0
           /\ bill'[order[o].matched] = NoRow
           /\ \A y \in Bill \ {order[o].matched} : bill'[y] = bill[y]
<1>1. order[o] \in OrderRow /\ \A x \in Order \ {o} : order'[x] = order[x]
  BY DEF PurchaseOrdersUnmatchSupplierBill, TypeOK
<1>2. order'[o] = [order[o] EXCEPT !.status = "received", !.converted = NoRow, !.matched = NoRow]
  BY <1>1 DEF PurchaseOrdersUnmatchSupplierBill, TypeOK
<1>3. order'[o] \in OrderRow
  BY <1>1, <1>2 DEF OrderRow, OrderStatus
<1>4. order[o].matched \in Bill
  BY <1>1 DEF PurchaseOrdersUnmatchSupplierBill, OrderRow
<1>5. /\ bill[order[o].matched] \in BillRow /\ bill[order[o].matched].paid = 0
      /\ bill'[order[o].matched] = NoRow
      /\ \A y \in Bill \ {order[o].matched} : bill'[y] = bill[y]
  BY <1>4 DEF PurchaseOrdersUnmatchSupplierBill, TypeOK
<1> QED
  BY <1>1, <1>2, <1>3, <1>4, <1>5 DEF OrderRow

\* purchaseOrdersConvertToBill: a bill without a receipt.
LEMMA ConvertRow ==
    ASSUME TypeOK, TypeOK', NEW o \in Order, NEW b \in Bill, PurchaseOrdersConvertToBill(o, b)
    PROVE  /\ order[o] \in OrderRow /\ order'[o] \in OrderRow
           /\ order[o].converted = NoRow /\ order[o].matched = NoRow
           /\ order[o].received = 0 /\ order'[o].received = 0
           /\ order'[o].status = "converted"
           /\ order'[o].converted = b /\ order'[o].matched = NoRow
           /\ \A x \in Order \ {o} : order'[x] = order[x]
           /\ bill[b] = NoRow
           /\ bill'[b] = NewBill(order[o].quantity) /\ bill'[b] \in BillRow
           /\ \A y \in Bill \ {b} : bill'[y] = bill[y]
<1>1. /\ order[o] \in OrderRow /\ \A x \in Order \ {o} : order'[x] = order[x]
      /\ order[o].converted = NoRow /\ order[o].matched = NoRow /\ order[o].received = 0
  BY DEF PurchaseOrdersConvertToBill, TypeOK
<1>2. order'[o] = [order[o] EXCEPT !.status = "converted", !.converted = b]
  BY <1>1 DEF PurchaseOrdersConvertToBill, TypeOK
<1>3. order'[o] \in OrderRow
  BY <1>1, <1>2 DEF OrderRow, OrderStatus
<1>5. /\ bill[b] = NoRow
      /\ bill'[b] = NewBill(order[o].quantity)
      /\ \A y \in Bill \ {b} : bill'[y] = bill[y]
  BY DEF PurchaseOrdersConvertToBill, TypeOK
<1>6. NewBill(order[o].quantity) \in BillRow
  BY <1>1 DEF NewBill, BillRow, BillApproval, OrderRow, Quantity
<1> QED
  BY <1>1, <1>2, <1>3, <1>5, <1>6 DEF OrderRow

\* purchaseOrdersDelete.
LEMMA DeleteRow ==
    ASSUME TypeOK, TypeOK', NEW o \in Order, PurchaseOrdersDelete(o)
    PROVE  /\ order[o] \in OrderRow
           /\ order[o].converted = NoRow /\ order[o].received = 0
           /\ order'[o] = NoRow
           /\ \A x \in Order \ {o} : order'[x] = order[x]
BY DEF PurchaseOrdersDelete, TypeOK

\* billsCreate.
LEMMA BillCreateRow ==
    ASSUME TypeOK, TypeOK', NEW b \in Bill, NEW amount \in Amount, NEW quantity \in BillQuantity,
           BillsCreate(b, amount, quantity)
    PROVE  /\ bill[b] = NoRow
           /\ bill'[b] \in BillRow /\ bill'[b].amount = amount /\ bill'[b].paid = 0
           /\ \A y \in Bill \ {b} : bill'[y] = bill[y]
<1>1. bill[b] = NoRow /\ bill'[b] = NewBill(amount) /\ \A y \in Bill \ {b} : bill'[y] = bill[y]
  BY DEF BillsCreate, TypeOK
<1>2. amount \in Nat \ {0}
  BY PurchasingAssumption
<1>3. NewBill(amount) \in BillRow /\ NewBill(amount).amount = amount /\ NewBill(amount).paid = 0
  BY <1>2 DEF NewBill, BillRow, BillApproval
<1> QED
  BY <1>1, <1>3

\* billsUpdate: an unpaid bill changes its amount.
LEMMA BillUpdateRow ==
    ASSUME TypeOK, TypeOK', NEW b \in Bill, NEW amount \in Amount, NEW quantity \in BillQuantity,
           BillsUpdate(b, amount, quantity)
    PROVE  /\ bill[b] \in BillRow /\ bill[b].paid = 0
           /\ bill'[b] \in BillRow /\ bill'[b].amount = amount /\ bill'[b].paid = 0
           /\ \A y \in Bill \ {b} : bill'[y] = bill[y]
           /\ \A o \in Stored(order) : order[o].matched # b
<1>1. /\ bill[b] \in BillRow /\ bill[b].paid = 0
      /\ \A y \in Bill \ {b} : bill'[y] = bill[y]
      /\ \A o \in Stored(order) : order[o].matched # b
  BY DEF BillsUpdate, Editable, TypeOK
<1>2. bill'[b] = [ApprovalAfterEdit(bill[b], amount) EXCEPT !.amount = amount, !.status = "unpaid"]
  BY <1>1 DEF BillsUpdate, TypeOK
<1>3. amount \in Nat \ {0}
  BY PurchasingAssumption
<1>4. ApprovalAfterEdit(bill[b], amount) \in BillRow /\ ApprovalAfterEdit(bill[b], amount).paid = 0
  BY <1>1, <1>3, EditedIsRow
<1> QED
  BY <1>1, <1>2, <1>3, <1>4 DEF BillRow

\* billsPay: one payment more.
LEMMA PayRow ==
    ASSUME TypeOK, TypeOK', NEW b \in Bill, NEW p \in Payment, NEW amount \in Cents,
           BillsPay(b, p, amount)
    PROVE  /\ bill[b] \in BillRow /\ bill'[b] \in BillRow /\ amount \in Nat \ {0}
           /\ bill'[b].amount = bill[b].amount /\ bill'[b].paid = bill[b].paid + amount
           /\ \A y \in Bill \ {b} : bill'[y] = bill[y]
           /\ payment[p] = NoRow
           /\ payment'[p] = [bill |-> b, amount |-> amount] /\ payment'[p] \in PaymentRow
           /\ \A y \in Payment \ {p} : payment'[y] = payment[y]
<1>1. /\ bill[b] \in BillRow
      /\ bill'[b] = Settled(bill[b], bill[b].paid + amount)
      /\ \A y \in Bill \ {b} : bill'[y] = bill[y]
      /\ amount \in Nat \ {0}
  BY DEF BillsPay, TypeOK
<1>2. bill[b].paid + amount \in Nat
  BY <1>1 DEF BillRow
<1>3. /\ payment[p] = NoRow
      /\ payment'[p] = [bill |-> b, amount |-> amount] /\ payment'[p] \in PaymentRow
      /\ \A y \in Payment \ {p} : payment'[y] = payment[y]
  BY <1>1 DEF BillsPay, TypeOK, PaymentRow
<1>4. bill'[b] \in BillRow
  BY <1>1, <1>2, SettledIsRow
<1>5. bill'[b].amount = bill[b].amount /\ bill'[b].paid = bill[b].paid + amount
  BY <1>1, SettledKeeps
<1> QED
  BY <1>1, <1>3, <1>4, <1>5

\* billsReverseLastPayment: one payment less.
LEMMA ReversePayRow ==
    ASSUME TypeOK, TypeOK', NEW b \in Bill, NEW p \in Payment, BillsReverseLastPayment(b, p)
    PROVE  /\ bill[b] \in BillRow /\ bill'[b] \in BillRow
           /\ bill'[b].amount = bill[b].amount
           /\ bill'[b].paid = Positive(bill[b].paid - payment[p].amount)
           /\ \A y \in Bill \ {b} : bill'[y] = bill[y]
           /\ payment[p] \in PaymentRow /\ payment[p].bill = b
           /\ payment'[p] = NoRow
           /\ \A y \in Payment \ {p} : payment'[y] = payment[y]
<1>1. /\ bill[b] \in BillRow
      /\ bill'[b] = Settled(bill[b], Positive(bill[b].paid - payment[p].amount))
      /\ \A y \in Bill \ {b} : bill'[y] = bill[y]
  BY DEF BillsReverseLastPayment, TypeOK
<1>3. /\ payment[p] \in PaymentRow /\ payment[p].bill = b
      /\ payment'[p] = NoRow
      /\ \A y \in Payment \ {p} : payment'[y] = payment[y]
  BY DEF BillsReverseLastPayment, TypeOK, PaymentsOf, Stored
<1>2. bill[b].paid - payment[p].amount \in Int
  BY <1>1, <1>3 DEF BillRow, PaymentRow
<1> QED
  BY <1>1, <1>2, <1>3, PositiveIsNat, SettledIsRow, SettledKeeps

\* billsSetApproval.
LEMMA BillApprovalRow ==
    ASSUME TypeOK, TypeOK', NEW b \in Bill, NEW approval \in BillApproval,
           BillsSetApproval(b, approval)
    PROVE  /\ bill[b] \in BillRow /\ bill'[b] \in BillRow
           /\ bill'[b].amount = bill[b].amount /\ bill'[b].paid = bill[b].paid
           /\ \A y \in Bill \ {b} : bill'[y] = bill[y]
<1>1. bill[b] \in BillRow /\ \A y \in Bill \ {b} : bill'[y] = bill[y]
  BY DEF BillsSetApproval, TypeOK
<1>2. bill[b].amount \in Nat
  BY <1>1 DEF BillRow
<1>3. PICK agreed \in Nat : bill'[b] = [bill[b] EXCEPT !.approval = approval, !.agreed = agreed]
  BY <1>1, <1>2 DEF BillsSetApproval, TypeOK
<1> QED
  BY <1>1, <1>3 DEF BillRow

\* billsDelete: an unpaid bill goes and frees its orders.
LEMMA BillDeleteRow ==
    ASSUME TypeOK, TypeOK', BilledOnce, NEW b \in Bill, BillsDelete(b)
    PROVE  /\ bill[b] \in BillRow /\ bill[b].paid = 0 /\ bill'[b] = NoRow
           /\ \A y \in Bill \ {b} : bill'[y] = bill[y]
           /\ \A o \in Stored(order) : order[o].matched # b
           /\ \A o \in Order : order[o] = NoRow => order'[o] = NoRow
           /\ \A o \in Stored(order) :
                 /\ order'[o] \in OrderRow
                 /\ order'[o].received = order[o].received
                 /\ order'[o].matched = order[o].matched
                 /\ order[o].converted # b => order'[o] = order[o]
                 /\ order[o].converted = b =>
                       order'[o].converted = NoRow /\ order'[o].status = "sent"
<1>1. /\ bill[b] \in BillRow /\ bill[b].paid = 0 /\ bill'[b] = NoRow
      /\ \A y \in Bill \ {b} : bill'[y] = bill[y]
      /\ \A o \in Stored(order) : order[o].matched # b
      /\ \A o \in Order : order'[o] = OrdersWithout(b)[o]
  BY DEF BillsDelete, TypeOK
<1>2. ASSUME NEW o \in Order, order[o] = NoRow PROVE order'[o] = NoRow
  BY <1>1, <1>2 DEF OrdersWithout
<1>3. ASSUME NEW o \in Stored(order)
      PROVE  /\ order'[o] \in OrderRow
             /\ order'[o].received = order[o].received
             /\ order'[o].matched = order[o].matched
             /\ order[o].converted # b => order'[o] = order[o]
             /\ order[o].converted = b =>
                   order'[o].converted = NoRow /\ order'[o].status = "sent"
  <2>1. o \in Order /\ order[o] \in OrderRow /\ order[o] # NoRow
    BY DEF TypeOK, Stored
  <2>2. CASE order[o].converted # b
    <3>1. order'[o] = order[o]
      BY <1>1, <2>1, <2>2 DEF OrdersWithout
    <3> QED
      BY <2>1, <2>2, <3>1
  <2>3. CASE order[o].converted = b
    <3>1. order'[o] = [order[o] EXCEPT !.status = "sent", !.converted = NoRow, !.matched = NoRow]
      BY <1>1, <2>1, <2>3 DEF OrdersWithout
    <3>2. order'[o] \in OrderRow
      BY <2>1, <3>1 DEF OrderRow, OrderStatus
    <3>3. order[o].matched = NoRow
      BY <1>1, <2>3 DEF BilledOnce
    <3> QED
      BY <2>1, <2>3, <3>1, <3>2, <3>3 DEF OrderRow
  <2> QED
    BY <2>2, <2>3
<1> QED
  BY <1>1, <1>2, <1>3

\* creditNotesCreate.
LEMMA CreditCreateRow ==
    ASSUME TypeOK, TypeOK', NEW c \in Credit, NEW total \in Amount, CreditNotesCreate(c, total)
    PROVE  /\ credit[c] = NoRow
           /\ credit'[c] \in CreditRow /\ credit'[c].total = total
           /\ credit'[c].applied = 0 /\ credit'[c].status = "open" /\ total \in Nat
           /\ \A y \in Credit \ {c} : credit'[y] = credit[y]
BY PurchasingAssumption DEF CreditNotesCreate, TypeOK, CreditRow

\* creditNotesApply.
LEMMA ApplyRow ==
    ASSUME TypeOK, TypeOK', NEW c \in Credit, NEW b \in Bill, NEW amount \in Cents,
           CreditNotesApply(c, b, amount)
    PROVE  /\ bill[b] \in BillRow /\ bill'[b] \in BillRow /\ amount \in Nat \ {0}
           /\ bill'[b].amount = bill[b].amount /\ bill'[b].paid = bill[b].paid + amount
           /\ \A y \in Bill \ {b} : bill'[y] = bill[y]
           /\ credit[c] \in CreditRow /\ credit'[c] \in CreditRow
           /\ credit[c].status # "refunded" /\ credit'[c].status # "refunded"
           /\ credit'[c].total = credit[c].total
           /\ credit'[c].applied = credit[c].applied + amount
           /\ \A y \in Credit \ {c} : credit'[y] = credit[y]
           /\ [target |-> b, amount |-> amount] \in Application
           /\ apps'[c] = Append(apps[c], [target |-> b, amount |-> amount])
           /\ \A y \in Credit \ {c} : apps'[y] = apps[y]
<1>1. /\ bill[b] \in BillRow
      /\ bill'[b] = Settled(bill[b], bill[b].paid + amount)
      /\ \A y \in Bill \ {b} : bill'[y] = bill[y]
      /\ amount \in Nat \ {0}
  BY DEF CreditNotesApply, TypeOK
<1>2. bill[b].paid + amount \in Nat
  BY <1>1 DEF BillRow
<1>3. /\ credit[c] \in CreditRow /\ credit[c].status # "refunded"
      /\ \A y \in Credit \ {c} : credit'[y] = credit[y]
  BY DEF CreditNotesApply, TypeOK
<1>4. PICK status \in {"applied", "open"} :
          credit'[c] = [credit[c] EXCEPT !.applied = credit[c].applied + amount, !.status = status]
  BY <1>3 DEF CreditNotesApply, TypeOK
<1>5. credit'[c] \in CreditRow
  <2>1. credit[c].applied + amount \in Nat
    BY <1>1, <1>3 DEF CreditRow
  <2> QED
    BY <1>3, <1>4, <2>1 DEF CreditRow
<1>6. /\ credit'[c].status # "refunded" /\ credit'[c].total = credit[c].total
      /\ credit'[c].applied = credit[c].applied + amount
  BY <1>3, <1>4 DEF CreditRow
<1>7. /\ [target |-> b, amount |-> amount] \in Application
      /\ apps'[c] = Append(apps[c], [target |-> b, amount |-> amount])
      /\ \A y \in Credit \ {c} : apps'[y] = apps[y]
  BY <1>1 DEF CreditNotesApply, TypeOK, Application
<1>8. /\ bill'[b] \in BillRow /\ bill'[b].amount = bill[b].amount
      /\ bill'[b].paid = bill[b].paid + amount
  BY <1>1, <1>2, SettledIsRow, SettledKeeps
<1> QED
  BY <1>1, <1>3, <1>5, <1>6, <1>7, <1>8

\* creditNotesRefund.
LEMMA RefundRow ==
    ASSUME TypeOK, TypeOK', NEW c \in Credit, CreditNotesRefund(c)
    PROVE  /\ credit[c] \in CreditRow /\ credit'[c] \in CreditRow
           /\ credit[c].status # "refunded" /\ credit'[c].status = "refunded"
           /\ credit'[c].total = credit[c].total /\ credit'[c].applied = credit[c].applied
           /\ credit[c].total \in Nat
           /\ Remaining(credit[c]) = credit[c].total - credit[c].applied
           /\ \A y \in Credit \ {c} : credit'[y] = credit[y]
<1>1. /\ credit[c] \in CreditRow /\ credit[c].status # "refunded"
      /\ credit'[c] = [credit[c] EXCEPT !.status = "refunded"]
      /\ Remaining(credit[c]) > 0
      /\ \A y \in Credit \ {c} : credit'[y] = credit[y]
  BY DEF CreditNotesRefund, TypeOK
<1>2. credit[c].total \in Amount /\ credit[c].applied \in Nat
  BY <1>1 DEF CreditRow
<1>3. credit[c].total \in Nat
  BY <1>2, PurchasingAssumption
<1>4. Remaining(credit[c]) = credit[c].total - credit[c].applied
  BY <1>1, <1>2, <1>3 DEF Remaining, Positive
<1> QED
  BY <1>1, <1>3, <1>4 DEF CreditRow

\* creditNotesUndoSettlement, of a refund.
LEMMA UndoRefundRow ==
    ASSUME TypeOK, TypeOK', NEW c \in Credit, UndoRefund(c)
    PROVE  /\ credit[c] \in CreditRow /\ credit'[c] \in CreditRow
           /\ credit[c].status = "refunded" /\ credit'[c].status = "open"
           /\ credit'[c].total = credit[c].total /\ credit'[c].applied = credit[c].applied
           /\ \A y \in Credit \ {c} : credit'[y] = credit[y]
<1>1. /\ credit[c] \in CreditRow /\ credit[c].status = "refunded"
      /\ credit'[c] = [credit[c] EXCEPT !.status = "open"]
      /\ \A y \in Credit \ {c} : credit'[y] = credit[y]
  BY DEF UndoRefund, TypeOK
<1> QED
  BY <1>1 DEF CreditRow

\* creditNotesUndoSettlement, of the newest application.
LEMMA UnapplyRow ==
    ASSUME TypeOK, TypeOK', NEW c \in Credit, Unapply(c)
    PROVE  \E rest \in Seq(Application), last \in Application :
           LET b == last.target IN
           /\ apps[c] = Append(rest, last) /\ apps'[c] = rest
           /\ \A y \in Credit \ {c} : apps'[y] = apps[y]
           /\ b \in Bill /\ bill[b] \in BillRow /\ bill'[b] \in BillRow
           /\ bill'[b].amount = bill[b].amount
           /\ bill'[b].paid = Positive(bill[b].paid - last.amount)
           /\ \A y \in Bill \ {b} : bill'[y] = bill[y]
           /\ credit[c] \in CreditRow /\ credit'[c] \in CreditRow
           /\ credit[c].status # "refunded" /\ credit'[c].status = "open"
           /\ credit'[c].total = credit[c].total
           /\ credit'[c].applied = Positive(credit[c].applied - last.amount)
           /\ \A y \in Credit \ {c} : credit'[y] = credit[y]
<1> DEFINE last == apps[c][Len(apps[c])]
           rest == SubSeq(apps[c], 1, Len(apps[c]) - 1)
           b == last.target
<1>1. apps[c] \in Seq(Application) /\ apps[c] # <<>>
  BY DEF Unapply, TypeOK
<1>2. rest \in Seq(Application) /\ last \in Application /\ apps[c] = Append(rest, last)
  BY <1>1, LastIsAppended
<1>3. apps'[c] = rest /\ \A y \in Credit \ {c} : apps'[y] = apps[y]
  BY DEF Unapply, TypeOK
<1>4. /\ b \in Bill /\ last.amount \in Nat /\ bill[b] \in BillRow
      /\ bill'[b] = Settled(bill[b], Positive(bill[b].paid - last.amount))
      /\ \A y \in Bill \ {b} : bill'[y] = bill[y]
  <2>1. b \in Bill /\ last.amount \in Nat
    BY <1>2 DEF Application
  <2>2. bill[b] # NoRow /\ bill' = [bill EXCEPT ![b] = Settled(bill[b], Positive(bill[b].paid - last.amount))]
    BY DEF Unapply
  <2> HIDE DEF last, b
  <2> QED
    BY <2>1, <2>2 DEF TypeOK
<1>5. bill[b].paid - last.amount \in Int
  <2> HIDE DEF last, b
  <2> QED
    BY <1>4 DEF BillRow
<1>6. /\ bill'[b] \in BillRow /\ bill'[b].amount = bill[b].amount
      /\ bill'[b].paid = Positive(bill[b].paid - last.amount)
  <2> HIDE DEF last, b
  <2>1. Positive(bill[b].paid - last.amount) \in Nat
    BY <1>5, PositiveIsNat
  <2>2. bill'[b] \in BillRow
    BY <1>4, <2>1, SettledIsRow
  <2>3. /\ bill'[b].amount = bill[b].amount
        /\ bill'[b].paid = Positive(bill[b].paid - last.amount)
    BY <1>4, SettledKeeps
  <2> QED
    BY <2>2, <2>3
<1>7. /\ credit[c] \in CreditRow /\ credit[c].status # "refunded"
      /\ credit'[c] = [credit[c] EXCEPT !.applied = Positive(credit[c].applied - last.amount),
                                        !.status = "open"]
      /\ \A y \in Credit \ {c} : credit'[y] = credit[y]
  BY DEF Unapply, TypeOK
<1> HIDE DEF last, rest, b
<1>8. credit[c].applied - last.amount \in Int
  BY <1>4, <1>7 DEF CreditRow
<1>9. Positive(credit[c].applied - last.amount) \in Nat
  BY <1>8, PositiveIsNat
<1>10. /\ credit'[c] \in CreditRow /\ credit'[c].status = "open"
       /\ credit'[c].total = credit[c].total
       /\ credit'[c].applied = Positive(credit[c].applied - last.amount)
  BY <1>7, <1>9 DEF CreditRow
<1> QED
  BY <1>2, <1>3, <1>4, <1>6, <1>7, <1>10 DEF b

\* creditNotesDelete.
LEMMA CreditDeleteRow ==
    ASSUME TypeOK, TypeOK', NEW c \in Credit, CreditNotesDelete(c)
    PROVE  /\ credit[c] \in CreditRow
           /\ credit[c].status = "open" /\ credit[c].applied = 0
           /\ credit'[c] = NoRow
           /\ \A y \in Credit \ {c} : credit'[y] = credit[y]
BY DEF CreditNotesDelete, TypeOK

-----------------------------------------------------------------------------
(* Goods: receipts, what an order says was received, and the stock *)

ReceivedOf(o) == IF order[o] = NoRow THEN 0 ELSE order[o].received

\* Receipts and received quantities that stay still agree.
LEMMA ReceivedKept ==
    ASSUME ReceivedFollows, UNCHANGED receipt, \A o \in Order : ReceivedOf(o)' = ReceivedOf(o)
    PROVE  ReceivedFollows'
BY ReceivedSame DEF ReceivedFollows, ReceivedOf

\* An order that is billed stays so while its bill is there; other orders are not billed.
LEMMA BilledKept ==
    ASSUME TypeOK, TypeOK', BilledOnce,
           \A x \in Order : order'[x] # NoRow =>
              \/ /\ SameOrder(x)
                 /\ order[x].converted # NoRow =>
                       ReceiptsOf(x)' = ReceiptsOf(x) /\ bill'[order[x].converted] # NoRow
              \/ /\ order'[x].converted = NoRow /\ order'[x].matched = NoRow
                 /\ order'[x].status # "converted"
    PROVE  BilledOnce'
<1> SUFFICES ASSUME NEW o \in Order, order'[o] # NoRow
             PROVE  /\ order'[o].status = "converted" <=> order'[o].converted # NoRow
                    /\ order'[o].matched \in {NoRow, order'[o].converted}
                    /\ order'[o].converted # NoRow =>
                          /\ bill'[order'[o].converted] # NoRow
                          /\ order'[o].matched # NoRow <=> ReceiptsOf(o)' # {}
                          /\ \A p \in Stored(order)' \ {o} :
                                order'[p].converted # order'[o].converted
  BY DEF BilledOnce, Stored, TypeOK
<1>1. CASE order'[o].converted = NoRow /\ order'[o].matched = NoRow /\ order'[o].status # "converted"
  BY <1>1
<1>2. CASE /\ SameOrder(o)
           /\ order[o].converted # NoRow =>
                 ReceiptsOf(o)' = ReceiptsOf(o) /\ bill'[order[o].converted] # NoRow
  <2>1. o \in Stored(order)
    BY <1>2 DEF SameOrder, Stored, TypeOK
  <2>2. /\ order[o].status = "converted" <=> order[o].converted # NoRow
        /\ order[o].matched \in {NoRow, order[o].converted}
        /\ order[o].converted # NoRow =>
              /\ order[o].matched # NoRow <=> ReceiptsOf(o) # {}
              /\ \A p \in Stored(order) \ {o} : order[p].converted # order[o].converted
    BY <2>1 DEF BilledOnce
  <2>3. ASSUME order[o].converted # NoRow, NEW p \in Stored(order)' \ {o}
        PROVE  order'[p].converted # order'[o].converted
    <3>1. p \in Order /\ order'[p] # NoRow
      BY DEF Stored, TypeOK
    <3>2. order'[o].converted = order[o].converted
      BY <1>2 DEF SameOrder
    <3>3. CASE SameOrder(p)
      <4>1. p \in Stored(order) /\ order'[p].converted = order[p].converted
        BY <3>1, <3>3 DEF SameOrder, Stored, TypeOK
      <4> QED
        BY <2>2, <2>3, <3>2, <4>1
    <3>4. CASE order'[p].converted = NoRow
      BY <2>3, <3>2, <3>4
    <3> QED
      BY <3>1, <3>3, <3>4
  <2> QED
    BY <1>2, <2>2, <2>3 DEF SameOrder
<1> QED
  BY <1>1, <1>2

\* A new bill takes an order that had none.
LEMMA BilledNew ==
    ASSUME TypeOK, TypeOK', BilledOnce, UNCHANGED receipt,
           NEW o \in Order, NEW b \in Bill, bill[b] = NoRow, bill'[b] # NoRow,
           \A y \in Bill \ {b} : bill'[y] = bill[y],
           \A x \in Order \ {o} : order'[x] = order[x],
           order'[o].status = "converted", order'[o].converted = b,
           order'[o].matched \in {NoRow, b}, order'[o].matched # NoRow <=> ReceiptsOf(o) # {}
    PROVE  BilledOnce'
<1>1. \A x \in Order : ReceiptsOf(x)' = ReceiptsOf(x)
  BY DEF ReceiptsOf, Stored
<1>2. \A x \in Stored(order)' : x = o \/ (x \in Stored(order) /\ order'[x] = order[x])
  BY DEF Stored, TypeOK
<1>3. b # NoRow
  BY RowsAreSome
<1>4. ASSUME NEW x \in Stored(order), order[x].converted # NoRow
      PROVE  order[x].converted # b /\ bill'[order[x].converted] # NoRow
  <2>1. bill[order[x].converted] # NoRow /\ order[x].converted \in Bill
    BY <1>4 DEF BilledOnce, TypeOK, Stored, OrderRow
  <2> QED
    BY <2>1
<1>5. ASSUME NEW x \in Stored(order)'
      PROVE  /\ order'[x].status = "converted" <=> order'[x].converted # NoRow
             /\ order'[x].matched \in {NoRow, order'[x].converted}
             /\ order'[x].converted # NoRow =>
                   /\ bill'[order'[x].converted] # NoRow
                   /\ order'[x].matched # NoRow <=> ReceiptsOf(x)' # {}
                   /\ \A p \in Stored(order)' \ {x} :
                         order'[p].converted # order'[x].converted
  <2>1. CASE x = o
    <3>1. ReceiptsOf(o)' = ReceiptsOf(o)
      BY <1>1
    <3>2. ASSUME NEW p \in Stored(order)' \ {o}
          PROVE  order'[p].converted # b
      BY <1>2, <1>3, <1>4
    <3> QED
      BY <1>3, <2>1, <3>1, <3>2
  <2>2. CASE x \in Stored(order) /\ order'[x] = order[x] /\ x # o
    <3>1. /\ order[x].status = "converted" <=> order[x].converted # NoRow
          /\ order[x].matched \in {NoRow, order[x].converted}
          /\ order[x].converted # NoRow =>
                /\ order[x].matched # NoRow <=> ReceiptsOf(x) # {}
                /\ \A p \in Stored(order) \ {x} : order[p].converted # order[x].converted
      BY <2>2 DEF BilledOnce
    <3>2. ReceiptsOf(x)' = ReceiptsOf(x)
      BY <1>1, <2>2 DEF Stored, TypeOK
    <3>3. ASSUME order[x].converted # NoRow, NEW p \in Stored(order)' \ {x}
          PROVE  order'[p].converted # order[x].converted
      BY <1>2, <1>4, <2>2, <3>1, <3>3
    <3> QED
      BY <1>4, <2>2, <3>1, <3>2, <3>3
  <2> QED
    BY <1>2, <2>1, <2>2
<1> QED
  BY <1>5 DEF BilledOnce

\* What a document brings into stock is added at the end.
LEMMA MovedHas ==
    ASSUME NEW rows \in Seq(Movement), NEW source \in Source, NEW quantity \in Nat, NEW m
    PROVE  Has(rows \o MovedBy(source, quantity), m)
           <=> \/ Has(rows, m)
               \/ quantity # 0 /\ m = [source |-> source, quantity |-> quantity]
<1> DEFINE x == [source |-> source, quantity |-> quantity]
<1>1. x \in Movement
  BY DEF Movement
<1>2. MovedBy(source, quantity) = IF quantity = 0 THEN <<>> ELSE <<x>>
  BY DEF MovedBy
<1> HIDE DEF x
<1>3. CASE quantity = 0
  <2>1. rows \o MovedBy(source, quantity) = rows
    BY <1>2, <1>3
  <2> QED
    BY <1>3, <2>1
<1>4. CASE quantity # 0
  <2>1. rows \o MovedBy(source, quantity) = Append(rows, x)
    <3>1. rows \o <<x>> = Append(rows, x)
      BY <1>1
    <3> QED
      BY <1>2, <1>4, <3>1
  <2> QED
    BY <1>1, <1>4, <2>1, AppendHas DEF x
<1> QED
  BY <1>3, <1>4

StockOfReceipts(rows, table) ==
    \A m \in Movement :
        m.source[1] = "receipt" =>
            (Has(rows, m) <=> \E r \in Receipt :
                                 /\ table[r] # NoRow
                                 /\ m = [source |-> <<"receipt", r>>,
                                         quantity |-> table[r].quantity])

\* The stock of receipts, as a statement about each movement.
LEMMA StockFollowsIs ==
    ASSUME TypeOK, TypeOK'
    PROVE  /\ StockFollows <=> StockOfReceipts(movements, receipt)
           /\ StockFollows' <=> StockOfReceipts(movements', receipt')
BY DEF StockFollows, StockOfReceipts, ReceiptMovement, Stored, TypeOK

\* A bill's movements are no receipt's.
LEMMA BillStockKept ==
    ASSUME TypeOK, TypeOK', StockFollows, UNCHANGED receipt, NEW b \in Bill, NEW quantity \in Nat,
           \/ movements' = movements
           \/ movements' = WithoutStock(movements, <<"bill", b>>)
           \/ movements' = movements \o MovedBy(<<"bill", b>>, quantity)
           \/ movements' = WithoutStock(movements, <<"bill", b>>) \o MovedBy(<<"bill", b>>, quantity)
    PROVE  StockFollows'
<1> DEFINE kept == WithoutStock(movements, <<"bill", b>>)
<1>1. ASSUME NEW m \in Movement, m.source[1] = "receipt"
      PROVE  Has(movements', m) <=> Has(movements, m)
  <2>1. m.source # <<"bill", b>>
    BY <1>1
  <2>2. movements \in Seq(Movement) /\ <<"bill", b>> \in Source
    BY SourcesAre DEF TypeOK
  <2>3. kept \in Seq(Movement) /\ (Has(kept, m) <=> Has(movements, m))
    BY <2>1, <2>2, WithoutStockKeeps
  <2>4. m # [source |-> <<"bill", b>>, quantity |-> quantity]
    BY <2>1
  <2>5. /\ Has(movements \o MovedBy(<<"bill", b>>, quantity), m) <=> Has(movements, m)
        /\ Has(kept \o MovedBy(<<"bill", b>>, quantity), m) <=> Has(kept, m)
    <3> HIDE DEF kept
    <3> QED
      BY <2>2, <2>3, <2>4, MovedHas
  <2> QED
    BY <2>3, <2>5
<1>2. StockOfReceipts(movements, receipt)
  BY StockFollowsIs
<1>3. StockOfReceipts(movements', receipt')
  BY <1>1, <1>2 DEF StockOfReceipts
<1> QED
  BY <1>3, StockFollowsIs

\* Receipts and movements that stay still agree.
LEMMA StockSame ==
    ASSUME StockFollows, UNCHANGED <<receipt, movements>>
    PROVE  StockFollows'
BY DEF StockFollows, Stored, ReceiptMovement, Has

\* A new receipt brings its one movement.
LEMMA ReceiveStock ==
    ASSUME TypeOK, TypeOK', StockFollows, NEW o \in Order, NEW r \in Receipt, NEW quantity \in Quantity,
           PurchaseOrdersReceive(o, r, quantity)
    PROVE  StockFollows'
<1> DEFINE new == [source |-> <<"receipt", r>>, quantity |-> quantity]
<1>1. /\ receipt[r] = NoRow /\ receipt'[r] # NoRow /\ receipt'[r].quantity = quantity
      /\ \A y \in Receipt \ {r} : receipt'[y] = receipt[y]
  <2>1. /\ receipt[r] = NoRow /\ receipt'[r] # NoRow
        /\ receipt'[r] = [order |-> o, quantity |-> quantity]
        /\ \A y \in Receipt \ {r} : receipt'[y] = receipt[y]
    BY ReceiveRow
  <2> QED
    BY <2>1
<1>2. quantity \in Nat /\ quantity # 0
  BY DEF Quantity
<1>3. \A m : Has(movements', m) <=> Has(movements, m) \/ m = new
  <2>1. movements \in Seq(Movement) /\ <<"receipt", r>> \in Source
    BY SourcesAre DEF TypeOK
  <2>2. movements' = movements \o MovedBy(<<"receipt", r>>, quantity)
    BY DEF PurchaseOrdersReceive
  <2> QED
    BY <1>2, <2>1, <2>2, MovedHas
<1>4. StockOfReceipts(movements, receipt)
  BY StockFollowsIs
<1>5. ASSUME NEW m \in Movement, m.source[1] = "receipt"
      PROVE  Has(movements', m) <=> \E y \in Receipt :
                                       /\ receipt'[y] # NoRow
                                       /\ m = [source |-> <<"receipt", y>>,
                                               quantity |-> receipt'[y].quantity]
  <2>1. Has(movements, m) <=> \E y \in Receipt : /\ receipt[y] # NoRow
                                                 /\ m = [source |-> <<"receipt", y>>,
                                                         quantity |-> receipt[y].quantity]
    BY <1>4, <1>5 DEF StockOfReceipts
  <2> QED
    BY <1>1, <1>3, <2>1
<1>6. StockOfReceipts(movements', receipt')
  BY <1>5 DEF StockOfReceipts
<1> QED
  BY <1>6, StockFollowsIs

\* A reversed receipt takes its one movement away.
LEMMA ReverseStock ==
    ASSUME TypeOK, TypeOK', StockFollows, NEW o \in Order, NEW r \in Receipt,
           PurchaseOrdersReverseLatestReceipt(o, r)
    PROVE  StockFollows'
<1>1. receipt'[r] = NoRow /\ \A y \in Receipt \ {r} : receipt'[y] = receipt[y]
  BY ReverseRow
<1>2. \A m : Has(movements', m) <=> m.source # <<"receipt", r>> /\ Has(movements, m)
  <2>1. movements \in Seq(Movement) /\ movements' = WithoutStock(movements, <<"receipt", r>>)
    BY DEF TypeOK, PurchaseOrdersReverseLatestReceipt
  <2> QED
    BY <2>1, WithoutStockKeeps
<1>4. StockOfReceipts(movements, receipt)
  BY StockFollowsIs
<1>5. ASSUME NEW m \in Movement, m.source[1] = "receipt"
      PROVE  Has(movements', m) <=> \E y \in Receipt :
                                       /\ receipt'[y] # NoRow
                                       /\ m = [source |-> <<"receipt", y>>,
                                               quantity |-> receipt'[y].quantity]
  <2>1. Has(movements, m) <=> \E y \in Receipt : /\ receipt[y] # NoRow
                                                 /\ m = [source |-> <<"receipt", y>>,
                                                         quantity |-> receipt[y].quantity]
    BY <1>4, <1>5 DEF StockOfReceipts
  <2>2. \A y \in Receipt : m = [source |-> <<"receipt", y>>, quantity |-> receipt[y].quantity]
                              => m.source = <<"receipt", y>>
    OBVIOUS
  <2>3. \A y \in Receipt : <<"receipt", y>> = <<"receipt", r>> <=> y = r
    OBVIOUS
  <2> QED
    BY <1>1, <1>2, <2>1, <2>2, <2>3
<1>6. StockOfReceipts(movements', receipt')
  BY <1>5 DEF StockOfReceipts
<1> QED
  BY <1>6, StockFollowsIs

\* A receipt of another order is nothing to this one.
LEMMA OneReceipt ==
    ASSUME TypeOK, TypeOK', NEW r \in Receipt, NEW o \in Order, NEW x \in Order, x # o,
           \A y \in Receipt \ {r} : receipt'[y] = receipt[y],
           receipt[r] # NoRow => receipt[r].order = o,
           receipt'[r] # NoRow => receipt'[r].order = o
    PROVE  ReceiptsOf(x)' = ReceiptsOf(x)
BY DEF ReceiptsOf, Stored, TypeOK

\* An order that received nothing has no receipt.
LEMMA NothingReceived ==
    ASSUME TypeOK, ReceivedFollows, NEW o \in Order, ReceivedOf(o) = 0
    PROVE  ReceiptsOf(o) = {}
<1>1. Received(o) = 0
  BY DEF ReceivedFollows, ReceivedOf
<1>2. \A r \in Receipt : ReceivedOn(o)[r] \in Nat /\ ReceivedOn(o)[r] <= 0
  BY <1>1, ReceivedIsNat, ReceivedTerms DEF Received
<1>3. \A r \in ReceiptsOf(o) : r \in Receipt /\ ReceivedOn(o)[r] = receipt[r].quantity
                               /\ receipt[r].quantity \in Nat \ {0}
  BY DEF ReceivedOn, ReceiptsOf, Stored, TypeOK, ReceiptRow, Quantity
<1> QED
  BY <1>2, <1>3

\* A step of a purchase order keeps goods, stock and the link to one bill.
LEMMA OrderStepGoods ==
    ASSUME TypeOK, TypeOK', ReceivedFollows, BilledOnce, StockFollows, NEW o \in Order, OrderStep(o)
    PROVE  ReceivedFollows' /\ BilledOnce' /\ StockFollows'
<1> DEFINE Goods == ReceivedFollows' /\ BilledOnce' /\ StockFollows'
<1>0. ASSUME UNCHANGED <<receipt, bill, movements>>,
             \A x \in Order \ {o} : order'[x] = order[x],
             \/ SameOrder(o)
             \/ order'[o] # NoRow =>
                   /\ order'[o].converted = NoRow /\ order'[o].matched = NoRow
                   /\ order'[o].status # "converted",
             ReceivedOf(o)' = ReceivedOf(o)
      PROVE  Goods
  <2>1. \A x \in Order : ReceivedOf(x)' = ReceivedOf(x)
    BY <1>0 DEF ReceivedOf
  <2>2. ReceivedFollows'
    BY <1>0, <2>1, ReceivedKept
  <2>3. ASSUME NEW x \in Order, order'[x] # NoRow
        PROVE  \/ /\ SameOrder(x)
                  /\ order[x].converted # NoRow =>
                        ReceiptsOf(x)' = ReceiptsOf(x) /\ bill'[order[x].converted] # NoRow
               \/ /\ order'[x].converted = NoRow /\ order'[x].matched = NoRow
                  /\ order'[x].status # "converted"
    <3>1. ReceiptsOf(x)' = ReceiptsOf(x) /\ bill' = bill
      BY <1>0 DEF ReceiptsOf, Stored
    <3>2. x # o => SameOrder(x)
      BY <1>0, <2>3 DEF SameOrder
    <3>3. SameOrder(x) /\ order[x].converted # NoRow => bill[order[x].converted] # NoRow
      BY DEF BilledOnce, SameOrder, Stored, TypeOK
    <3> QED
      BY <1>0, <2>3, <3>1, <3>2, <3>3
  <2>4. BilledOnce'
    BY <2>3, BilledKept
  <2> QED
    BY <1>0, <2>2, <2>4, StockSame
<1>1. ASSUME NEW quantity \in Quantity,
             PurchaseOrdersCreate(o, quantity) \/ PurchaseOrdersUpdate(o, quantity)
      PROVE  Goods
  <2>1. CASE PurchaseOrdersCreate(o, quantity)
    <3>1. /\ order[o] = NoRow /\ order'[o].received = 0 /\ order'[o].status = "draft"
          /\ order'[o].converted = NoRow /\ order'[o].matched = NoRow
          /\ \A x \in Order \ {o} : order'[x] = order[x]
      BY <2>1, CreateRow
    <3>2. UNCHANGED <<receipt, bill, movements>>
      BY <2>1 DEF PurchaseOrdersCreate
    <3>3. ReceivedOf(o)' = ReceivedOf(o)
      BY <3>1 DEF ReceivedOf
    <3> QED
      BY <1>0, <3>1, <3>2, <3>3
  <2>2. CASE PurchaseOrdersUpdate(o, quantity)
    <3>1. SameOrder(o) /\ \A x \in Order \ {o} : order'[x] = order[x]
      BY <2>2, UpdateRow
    <3>2. UNCHANGED <<receipt, bill, movements>>
      BY <2>2 DEF PurchaseOrdersUpdate
    <3>3. ReceivedOf(o)' = ReceivedOf(o)
      BY <3>1 DEF ReceivedOf, SameOrder
    <3> QED
      BY <1>0, <3>1, <3>2, <3>3
  <2> QED
    BY <1>1, <2>1, <2>2
<1>2. ASSUME NEW status \in OrderStatus, PurchaseOrdersSetStatus(o, status)
      PROVE  Goods
  <2>1. SameOrder(o) /\ \A x \in Order \ {o} : order'[x] = order[x]
    BY <1>2, SetStatusRow
  <2>2. UNCHANGED <<receipt, bill, movements>>
    BY <1>2 DEF PurchaseOrdersSetStatus
  <2>3. ReceivedOf(o)' = ReceivedOf(o)
    BY <2>1 DEF ReceivedOf, SameOrder
  <2> QED
    BY <1>0, <2>1, <2>2, <2>3
<1>3. ASSUME NEW approval \in OrderApproval \ {"notRequired"}, PurchaseOrdersSetApproval(o, approval)
      PROVE  Goods
  <2>1. SameOrder(o) /\ \A x \in Order \ {o} : order'[x] = order[x]
    BY <1>3, SetApprovalRow
  <2>2. UNCHANGED <<receipt, bill, movements>>
    BY <1>3 DEF PurchaseOrdersSetApproval
  <2>3. ReceivedOf(o)' = ReceivedOf(o)
    BY <2>1 DEF ReceivedOf, SameOrder
  <2> QED
    BY <1>0, <2>1, <2>2, <2>3
<1>4. ASSUME NEW r \in Receipt, NEW quantity \in Quantity, PurchaseOrdersReceive(o, r, quantity)
      PROVE  Goods
  <2>1. /\ order[o] \in OrderRow /\ order'[o] \in OrderRow
        /\ order'[o].received = order[o].received + quantity
        /\ order'[o].status \in {"received", "sent"}
        /\ order'[o].converted = NoRow /\ order'[o].matched = NoRow
        /\ \A x \in Order \ {o} : order'[x] = order[x]
        /\ receipt[r] = NoRow /\ receipt'[r] # NoRow
        /\ receipt'[r] = [order |-> o, quantity |-> quantity]
        /\ \A y \in Receipt \ {r} : receipt'[y] = receipt[y]
    BY <1>4, ReceiveRow
  <2>2. receipt'[r].order = o /\ receipt'[r].quantity = quantity
    BY <2>1
  <2>3. \A x \in Order \ {o} : ReceiptsOf(x)' = ReceiptsOf(x)
    BY <2>1, <2>2, OneReceipt
  <2>4. ReceivedFollows'
    <3>1. ASSUME NEW x \in Order
          PROVE  Received(x)' = Received(x) + (IF x = o THEN quantity ELSE 0)
      <4>1. ReceivedOn(x)[r] = 0 /\ ReceivedOn(x)'[r] = IF x = o THEN quantity ELSE 0
        BY <2>1, <2>2 DEF ReceivedOn, ReceiptsOf, Stored, TypeOK
      <4>2. Received(x)' = Received(x) - ReceivedOn(x)[r] + ReceivedOn(x)'[r] /\ Received(x) \in Nat
        BY <2>1, ReceivedChange
      <4>3. quantity \in Nat
        BY DEF Quantity
      <4> QED
        BY <4>1, <4>2, <4>3
    <3>2. order[o] # NoRow /\ order'[o] # NoRow /\ order[o].received \in Nat
      BY <2>1, RowsAreSome DEF OrderRow
    <3>3. \A x \in Order : Received(x) \in Nat
      BY ReceivedIsNat DEF Received
    <3>4. ASSUME NEW x \in Order
          PROVE  Received(x)' = IF order'[x] = NoRow THEN 0 ELSE order'[x].received
      <4>1. Received(x) = IF order[x] = NoRow THEN 0 ELSE order[x].received
        BY DEF ReceivedFollows
      <4>2. CASE x = o
        BY <2>1, <3>1, <3>2, <4>1, <4>2
      <4>3. CASE x # o
        BY <2>1, <3>1, <3>3, <4>1, <4>3
      <4> QED
        BY <4>2, <4>3
    <3> QED
      BY <3>4 DEF ReceivedFollows
  <2>5. bill' = bill
    BY <1>4 DEF PurchaseOrdersReceive
  <2>6. ASSUME NEW x \in Order, order'[x] # NoRow
        PROVE  \/ /\ SameOrder(x)
                  /\ order[x].converted # NoRow =>
                        ReceiptsOf(x)' = ReceiptsOf(x) /\ bill'[order[x].converted] # NoRow
               \/ /\ order'[x].converted = NoRow /\ order'[x].matched = NoRow
                  /\ order'[x].status # "converted"
    <3>1. CASE x = o
      BY <2>1, <3>1
    <3>2. CASE x # o
      <4>1. SameOrder(x) /\ ReceiptsOf(x)' = ReceiptsOf(x)
        BY <2>1, <2>3, <2>6, <3>2 DEF SameOrder
      <4>2. order[x].converted # NoRow => bill[order[x].converted] # NoRow
        BY <4>1 DEF BilledOnce, SameOrder, Stored, TypeOK
      <4> QED
        BY <2>5, <4>1, <4>2
    <3> QED
      BY <3>1, <3>2
  <2>7. BilledOnce'
    BY <2>6, BilledKept
  <2> QED
    BY <1>4, <2>4, <2>7, ReceiveStock
<1>5. ASSUME NEW r \in Receipt, PurchaseOrdersReverseLatestReceipt(o, r)
      PROVE  Goods
  <2>1. /\ order[o] \in OrderRow /\ order'[o] \in OrderRow
        /\ order'[o].received = Positive(order[o].received - receipt[r].quantity)
        /\ order'[o].status = "sent"
        /\ order'[o].converted = NoRow /\ order'[o].matched = NoRow
        /\ \A x \in Order \ {o} : order'[x] = order[x]
        /\ receipt[r] \in ReceiptRow /\ receipt[r].order = o
        /\ receipt'[r] = NoRow
        /\ \A y \in Receipt \ {r} : receipt'[y] = receipt[y]
    BY <1>5, ReverseRow
  <2>3. \A x \in Order \ {o} : ReceiptsOf(x)' = ReceiptsOf(x)
    BY <2>1, OneReceipt
  <2>4. ReceivedFollows'
    <3>0. receipt[r] # NoRow /\ receipt[r].quantity \in Nat
      BY <2>1, RowsAreSome DEF ReceiptRow, Quantity
    <3>1. ASSUME NEW x \in Order
          PROVE  /\ Received(x)' = Received(x) - (IF x = o THEN receipt[r].quantity ELSE 0)
                 /\ x = o => receipt[r].quantity <= Received(x)
      <4>1. ReceivedOn(x)'[r] = 0 /\ ReceivedOn(x)[r] = IF x = o THEN receipt[r].quantity ELSE 0
        BY <2>1, <3>0 DEF ReceivedOn, ReceiptsOf, Stored, TypeOK
      <4>2. /\ Received(x)' = Received(x) - ReceivedOn(x)[r] + ReceivedOn(x)'[r]
            /\ Received(x) \in Nat /\ ReceivedOn(x)[r] <= Received(x)
        BY <2>1, ReceivedChange
      <4> QED
        BY <3>0, <4>1, <4>2
    <3>2. order[o] # NoRow /\ order'[o] # NoRow /\ order[o].received \in Nat
      BY <2>1, RowsAreSome DEF OrderRow
    <3>3. \A x \in Order : Received(x) \in Nat
      BY ReceivedIsNat DEF Received
    <3>4. ASSUME NEW x \in Order
          PROVE  Received(x)' = IF order'[x] = NoRow THEN 0 ELSE order'[x].received
      <4>1. Received(x) = IF order[x] = NoRow THEN 0 ELSE order[x].received
        BY DEF ReceivedFollows
      <4>2. CASE x = o
        BY <2>1, <3>0, <3>1, <3>2, <4>1, <4>2 DEF Positive
      <4>3. CASE x # o
        BY <2>1, <3>1, <3>3, <4>1, <4>3
      <4> QED
        BY <4>2, <4>3
    <3> QED
      BY <3>4 DEF ReceivedFollows
  <2>5. bill' = bill
    BY <1>5 DEF PurchaseOrdersReverseLatestReceipt
  <2>6. ASSUME NEW x \in Order, order'[x] # NoRow
        PROVE  \/ /\ SameOrder(x)
                  /\ order[x].converted # NoRow =>
                        ReceiptsOf(x)' = ReceiptsOf(x) /\ bill'[order[x].converted] # NoRow
               \/ /\ order'[x].converted = NoRow /\ order'[x].matched = NoRow
                  /\ order'[x].status # "converted"
    <3>1. CASE x = o
      BY <2>1, <3>1
    <3>2. CASE x # o
      <4>1. SameOrder(x) /\ ReceiptsOf(x)' = ReceiptsOf(x)
        BY <2>1, <2>3, <2>6, <3>2 DEF SameOrder
      <4>2. order[x].converted # NoRow => bill[order[x].converted] # NoRow
        BY <4>1 DEF BilledOnce, SameOrder, Stored, TypeOK
      <4> QED
        BY <2>5, <4>1, <4>2
    <3> QED
      BY <3>1, <3>2
  <2>7. BilledOnce'
    BY <2>6, BilledKept
  <2> QED
    BY <1>5, <2>4, <2>7, ReverseStock
<1>6. ASSUME NEW b \in Bill, NEW amount \in Amount, PurchaseOrdersMatchSupplierBill(o, b, amount)
      PROVE  Goods
  <2>1. /\ order[o] \in OrderRow /\ order'[o] \in OrderRow
        /\ order'[o].received = order[o].received
        /\ order'[o].status = "converted"
        /\ order'[o].converted = b /\ order'[o].matched = b
        /\ \A x \in Order \ {o} : order'[x] = order[x]
        /\ bill[b] = NoRow
        /\ bill'[b] \in BillRow
        /\ \A y \in Bill \ {b} : bill'[y] = bill[y]
    BY <1>6, MatchRow
  <2>2. UNCHANGED <<receipt, movements>> /\ ExpectedReceiptCost(o) > 0
    BY <1>6 DEF PurchaseOrdersMatchSupplierBill
  <2>3. order[o] # NoRow /\ order'[o] # NoRow /\ bill'[b] # NoRow /\ b # NoRow
    BY <2>1, RowsAreSome
  <2>4. ReceivedFollows'
    <3>1. \A x \in Order : ReceivedOf(x)' = ReceivedOf(x)
      BY <2>1, <2>3 DEF ReceivedOf
    <3> QED
      BY <2>2, <3>1, ReceivedKept
  <2>5. ReceiptsOf(o) # {}
    <3> SUFFICES ASSUME ReceiptsOf(o) = {} PROVE FALSE
      OBVIOUS
    <3>1. DOMAIN ReceivedOn(o) = Receipt /\ \A r \in Receipt : ReceivedOn(o)[r] = 0
      BY DEF ReceivedOn
    <3>2. ExpectedReceiptCost(o) = 0
      BY <3>1, FiniteIds, TableZero DEF ExpectedReceiptCost
    <3> QED
      BY <2>2, <3>2
  <2>6. BilledOnce'
    BY <2>1, <2>2, <2>3, <2>5, BilledNew
  <2> QED
    BY <2>2, <2>4, <2>6, StockSame
<1>7. ASSUME NEW b \in Bill, PurchaseOrdersConvertToBill(o, b)
      PROVE  Goods
  <2>1. /\ order[o] \in OrderRow /\ order'[o] \in OrderRow
        /\ order[o].received = 0 /\ order'[o].received = 0
        /\ order'[o].status = "converted"
        /\ order'[o].converted = b /\ order'[o].matched = NoRow
        /\ \A x \in Order \ {o} : order'[x] = order[x]
        /\ bill[b] = NoRow
        /\ bill'[b] \in BillRow
        /\ \A y \in Bill \ {b} : bill'[y] = bill[y]
    BY <1>7, ConvertRow
  <2>2. UNCHANGED <<receipt, movements>>
    BY <1>7 DEF PurchaseOrdersConvertToBill
  <2>3. order[o] # NoRow /\ order'[o] # NoRow /\ bill'[b] # NoRow /\ b # NoRow
    BY <2>1, RowsAreSome
  <2>4. ReceivedFollows'
    <3>1. \A x \in Order : ReceivedOf(x)' = ReceivedOf(x)
      BY <2>1, <2>3 DEF ReceivedOf
    <3> QED
      BY <2>2, <3>1, ReceivedKept
  <2>5. ReceiptsOf(o) = {}
    BY <2>1, <2>3, NothingReceived DEF ReceivedOf
  <2>6. BilledOnce'
    BY <2>1, <2>2, <2>3, <2>5, BilledNew
  <2> QED
    BY <2>2, <2>4, <2>6, StockSame
<1>8. ASSUME PurchaseOrdersUnmatchSupplierBill(o)
      PROVE  Goods
  <2>1. /\ order[o] \in OrderRow /\ order'[o] \in OrderRow
        /\ order[o].matched \in Bill
        /\ order'[o].received = order[o].received
        /\ order'[o].status = "received"
        /\ order'[o].converted = NoRow /\ order'[o].matched = NoRow
        /\ \A x \in Order \ {o} : order'[x] = order[x]
        /\ \A y \in Bill \ {order[o].matched} : bill'[y] = bill[y]
    BY <1>8, UnmatchRow
  <2>2. UNCHANGED <<receipt, movements>>
    BY <1>8 DEF PurchaseOrdersUnmatchSupplierBill
  <2>3. order[o] # NoRow /\ order'[o] # NoRow /\ order[o].matched # NoRow
    BY <2>1, RowsAreSome
  <2>4. ReceivedFollows'
    <3>1. \A x \in Order : ReceivedOf(x)' = ReceivedOf(x)
      BY <2>1, <2>3 DEF ReceivedOf
    <3> QED
      BY <2>2, <3>1, ReceivedKept
  <2>5. /\ order[o].matched = order[o].converted
        /\ \A p \in Stored(order) \ {o} : order[p].converted # order[o].matched
    BY <2>1, <2>3 DEF BilledOnce, Stored, TypeOK
  <2>6. ASSUME NEW x \in Order, order'[x] # NoRow
        PROVE  \/ /\ SameOrder(x)
                  /\ order[x].converted # NoRow =>
                        ReceiptsOf(x)' = ReceiptsOf(x) /\ bill'[order[x].converted] # NoRow
               \/ /\ order'[x].converted = NoRow /\ order'[x].matched = NoRow
                  /\ order'[x].status # "converted"
    <3>1. CASE x = o
      BY <2>1, <3>1
    <3>2. CASE x # o
      <4>1. SameOrder(x) /\ ReceiptsOf(x)' = ReceiptsOf(x)
        BY <2>1, <2>2, <2>6, <3>2 DEF SameOrder, ReceiptsOf, Stored
      <4>2. x \in Stored(order) /\ order[x] \in OrderRow
        BY <4>1 DEF SameOrder, Stored, TypeOK
      <4>3. order[x].converted # NoRow => /\ bill[order[x].converted] # NoRow
                                          /\ order[x].converted \in Bill
        BY <4>2 DEF BilledOnce, OrderRow
      <4>4. order[x].converted # order[o].matched
        BY <2>5, <3>2, <4>2
      <4> QED
        BY <2>1, <4>1, <4>3, <4>4
    <3> QED
      BY <3>1, <3>2
  <2>7. BilledOnce'
    BY <2>6, BilledKept
  <2> QED
    BY <2>2, <2>4, <2>7, StockSame
<1>9. ASSUME PurchaseOrdersDelete(o)
      PROVE  Goods
  <2>1. /\ order[o].received = 0 /\ order'[o] = NoRow
        /\ \A x \in Order \ {o} : order'[x] = order[x]
    BY <1>9, DeleteRow
  <2>2. UNCHANGED <<receipt, bill, movements>>
    BY <1>9 DEF PurchaseOrdersDelete
  <2>3. ReceivedOf(o)' = ReceivedOf(o)
    BY <2>1 DEF ReceivedOf
  <2> QED
    BY <1>0, <2>1, <2>2, <2>3
<1> QED
  BY <1>1, <1>2, <1>3, <1>4, <1>5, <1>6, <1>7, <1>8, <1>9 DEF OrderStep

\* So does a step of a bill.
LEMMA BillStepGoods ==
    ASSUME TypeOK, TypeOK', ReceivedFollows, BilledOnce, StockFollows, NEW b \in Bill, BillStep(b)
    PROVE  ReceivedFollows' /\ BilledOnce' /\ StockFollows'
<1> DEFINE Goods == ReceivedFollows' /\ BilledOnce' /\ StockFollows'
<1>0. ASSUME UNCHANGED <<order, receipt>>, \A y \in Bill : bill[y] # NoRow => bill'[y] # NoRow
      PROVE  ReceivedFollows' /\ BilledOnce'
  <2>1. ReceivedFollows'
    BY <1>0, ReceivedKept DEF ReceivedOf
  <2>2. ASSUME NEW x \in Order, order'[x] # NoRow
        PROVE  /\ SameOrder(x)
               /\ order[x].converted # NoRow =>
                     ReceiptsOf(x)' = ReceiptsOf(x) /\ bill'[order[x].converted] # NoRow
    <3>1. SameOrder(x) /\ ReceiptsOf(x)' = ReceiptsOf(x)
      BY <1>0, <2>2 DEF SameOrder, ReceiptsOf, Stored
    <3>2. order[x].converted # NoRow => /\ bill[order[x].converted] # NoRow
                                        /\ order[x].converted \in Bill
      BY <3>1 DEF BilledOnce, SameOrder, Stored, TypeOK, OrderRow
    <3> QED
      BY <1>0, <3>1, <3>2
  <2> QED
    BY <2>1, <2>2, BilledKept
<1>1. ASSUME NEW amount \in Amount, NEW quantity \in BillQuantity, BillsCreate(b, amount, quantity)
      PROVE  Goods
  <2>1. UNCHANGED <<order, receipt>> /\ \A y \in Bill : bill[y] # NoRow => bill'[y] # NoRow
    BY <1>1, BillCreateRow DEF BillsCreate
  <2>2. quantity \in Nat
    BY PurchasingAssumption
  <2>3. movements' = movements \o MovedBy(<<"bill", b>>, quantity) /\ UNCHANGED receipt
    BY <1>1 DEF BillsCreate
  <2>4. StockFollows'
    BY <2>2, <2>3, BillStockKept
  <2> QED
    BY <1>0, <2>1, <2>4
<1>2. ASSUME NEW amount \in Amount, NEW quantity \in BillQuantity, BillsUpdate(b, amount, quantity)
      PROVE  Goods
  <2>1. bill'[b] # NoRow /\ \A y \in Bill \ {b} : bill'[y] = bill[y]
    BY <1>2, BillUpdateRow, RowsAreSome
  <2>2. quantity \in Nat
    BY PurchasingAssumption
  <2>3. /\ movements' = WithoutStock(movements, <<"bill", b>>) \o MovedBy(<<"bill", b>>, quantity)
        /\ UNCHANGED <<order, receipt>>
    BY <1>2 DEF BillsUpdate
  <2>4. StockFollows'
    BY <2>2, <2>3, BillStockKept
  <2> QED
    BY <1>0, <2>1, <2>3, <2>4
<1>3. ASSUME NEW p \in Payment, NEW amount \in Cents, BillsPay(b, p, amount)
      PROVE  Goods
  <2>1. bill'[b] # NoRow /\ \A y \in Bill \ {b} : bill'[y] = bill[y]
    BY <1>3, PayRow, RowsAreSome
  <2>2. UNCHANGED <<order, receipt, movements>>
    BY <1>3 DEF BillsPay
  <2> QED
    BY <1>0, <2>1, <2>2, StockSame
<1>4. ASSUME NEW p \in Payment, BillsReverseLastPayment(b, p)
      PROVE  Goods
  <2>1. bill'[b] # NoRow /\ \A y \in Bill \ {b} : bill'[y] = bill[y]
    BY <1>4, ReversePayRow, RowsAreSome
  <2>2. UNCHANGED <<order, receipt, movements>>
    BY <1>4 DEF BillsReverseLastPayment
  <2> QED
    BY <1>0, <2>1, <2>2, StockSame
<1>5. ASSUME NEW approval \in BillApproval, BillsSetApproval(b, approval)
      PROVE  Goods
  <2>1. bill'[b] # NoRow /\ \A y \in Bill \ {b} : bill'[y] = bill[y]
    BY <1>5, BillApprovalRow, RowsAreSome
  <2>2. UNCHANGED <<order, receipt, movements>>
    BY <1>5 DEF BillsSetApproval
  <2> QED
    BY <1>0, <2>1, <2>2, StockSame
<1>6. ASSUME BillsDelete(b)
      PROVE  Goods
  <2>1. /\ \A y \in Bill \ {b} : bill'[y] = bill[y]
        /\ \A o \in Order : order[o] = NoRow => order'[o] = NoRow
        /\ \A o \in Stored(order) :
              /\ order'[o] \in OrderRow
              /\ order'[o].received = order[o].received
              /\ order'[o].matched = order[o].matched
              /\ order[o].converted # b => order'[o] = order[o]
              /\ order[o].converted = b =>
                    order'[o].converted = NoRow /\ order'[o].status = "sent"
        /\ \A o \in Stored(order) : order[o].matched # b
    BY <1>6, BillDeleteRow
  <2>2. UNCHANGED receipt /\ movements' = WithoutStock(movements, <<"bill", b>>)
    BY <1>6 DEF BillsDelete
  <2>3. ASSUME NEW x \in Order, order[x] # NoRow
        PROVE  x \in Stored(order) /\ order'[x] # NoRow /\ order[x] \in OrderRow
    BY <2>1, <2>3, RowsAreSome DEF Stored, TypeOK
  <2>4. \A x \in Order : ReceivedOf(x)' = ReceivedOf(x)
    BY <2>1, <2>3 DEF ReceivedOf
  <2>5. ReceivedFollows'
    BY <2>2, <2>4, ReceivedKept
  <2>6. ASSUME NEW x \in Order, order'[x] # NoRow
        PROVE  \/ /\ SameOrder(x)
                  /\ order[x].converted # NoRow =>
                        ReceiptsOf(x)' = ReceiptsOf(x) /\ bill'[order[x].converted] # NoRow
               \/ /\ order'[x].converted = NoRow /\ order'[x].matched = NoRow
                  /\ order'[x].status # "converted"
    <3>1. x \in Stored(order) /\ order[x] # NoRow /\ order[x] \in OrderRow
      BY <2>1, <2>3, <2>6
    <3>2. /\ order[x].converted # NoRow => bill[order[x].converted] # NoRow
          /\ order[x].matched \in {NoRow, order[x].converted}
          /\ order[x].converted \in Bill \cup {NoRow}
      BY <3>1 DEF BilledOnce, OrderRow
    <3>3. CASE order[x].converted = b
      BY <2>1, <3>1, <3>2, <3>3
    <3>4. CASE order[x].converted # b
      <4>1. SameOrder(x) /\ ReceiptsOf(x)' = ReceiptsOf(x)
        BY <2>1, <2>2, <2>6, <3>1, <3>4 DEF SameOrder, ReceiptsOf, Stored
      <4> QED
        BY <2>1, <3>2, <3>4, <4>1
    <3> QED
      BY <3>3, <3>4
  <2>7. BilledOnce'
    BY <2>6, BilledKept
  <2>8. StockFollows'
    <3>1. 0 \in Nat
      OBVIOUS
    <3> QED
      BY <2>2, <3>1, BillStockKept
  <2> QED
    BY <2>5, <2>7, <2>8
<1> QED
  BY <1>1, <1>2, <1>3, <1>4, <1>5, <1>6 DEF BillStep

\* So does a step of a vendor credit, which touches no goods.
LEMMA CreditStepGoods ==
    ASSUME TypeOK, TypeOK', ReceivedFollows, BilledOnce, StockFollows, NEW c \in Credit, CreditStep(c)
    PROVE  ReceivedFollows' /\ BilledOnce' /\ StockFollows'
<1>1. UNCHANGED <<order, receipt, movements>>
  BY DEF CreditStep, CreditNotesCreate, CreditNotesApply, CreditNotesRefund,
         CreditNotesUndoSettlement, UndoRefund, Unapply, CreditNotesDelete
<1>2. \A y \in Bill : bill[y] # NoRow => bill'[y] # NoRow
  <2>1. CASE UNCHANGED bill
    BY <2>1
  <2>2. ASSUME NEW b \in Bill, NEW amount \in Cents, CreditNotesApply(c, b, amount)
        PROVE  \A y \in Bill : bill[y] # NoRow => bill'[y] # NoRow
    BY <2>2, ApplyRow, RowsAreSome
  <2>3. ASSUME Unapply(c)
        PROVE  \A y \in Bill : bill[y] # NoRow => bill'[y] # NoRow
    BY <2>3, UnapplyRow, RowsAreSome
  <2> QED
    BY <2>1, <2>2, <2>3 DEF CreditStep, CreditNotesCreate, CreditNotesRefund,
       CreditNotesUndoSettlement, UndoRefund, CreditNotesDelete
<1>3. ReceivedFollows'
  BY <1>1, ReceivedKept DEF ReceivedOf
<1>4. ASSUME NEW x \in Order, order'[x] # NoRow
      PROVE  /\ SameOrder(x)
             /\ order[x].converted # NoRow =>
                   ReceiptsOf(x)' = ReceiptsOf(x) /\ bill'[order[x].converted] # NoRow
  <2>1. SameOrder(x) /\ ReceiptsOf(x)' = ReceiptsOf(x)
    BY <1>1, <1>4 DEF SameOrder, ReceiptsOf, Stored
  <2>2. order[x].converted # NoRow => /\ bill[order[x].converted] # NoRow
                                      /\ order[x].converted \in Bill
    BY <2>1 DEF BilledOnce, SameOrder, Stored, TypeOK, OrderRow
  <2> QED
    BY <1>2, <2>1, <2>2
<1>5. BilledOnce'
  BY <1>4, BilledKept
<1> QED
  BY <1>1, <1>3, <1>5, StockSame

-----------------------------------------------------------------------------
(* The books: entries, what was paid and applied, and the two accounts *)

Books == EntriesFollow /\ PaidFollows /\ AppliedFollows /\ Totals

\* A posted entry is what was posted, and the others stay.
LEMMA PostEntry ==
    ASSUME TypeOK, NEW s \in Slot, NEW ap, NEW grni, Post(s, ap, grni)
    PROVE  /\ entry'[s] = [ap |-> ap, grni |-> grni]
           /\ \A y \in Slot \ {s} : entry'[y] = entry[y]
BY DEF TypeOK, Post

\* A voided entry is gone, and the others stay.
LEMMA VoidEntry ==
    ASSUME TypeOK, NEW s \in Slot, Void(s)
    PROVE  entry'[s] = NoRow /\ \A y \in Slot \ {s} : entry'[y] = entry[y]
BY DEF TypeOK, Void

\* The entry of one document is not the entry of another.
LEMMA SlotsDiffer ==
    /\ \A r \in Receipt : \A y \in Receipt : y # r => <<"receipt", y>> \in Slot \ {<<"receipt", r>>}
    /\ \A r \in Receipt :
          /\ \A b \in Bill : <<"bill", b>> \in Slot \ {<<"receipt", r>>}
          /\ \A p \in Payment : <<"payment", p>> \in Slot \ {<<"receipt", r>>}
          /\ \A c \in Credit : <<"credit", c>> \in Slot \ {<<"receipt", r>>}
          /\ \A c \in Credit : <<"refund", c>> \in Slot \ {<<"receipt", r>>}
    /\ \A b \in Bill : \A y \in Bill : y # b => <<"bill", y>> \in Slot \ {<<"bill", b>>}
    /\ \A b \in Bill :
          /\ \A r \in Receipt : <<"receipt", r>> \in Slot \ {<<"bill", b>>}
          /\ \A p \in Payment : <<"payment", p>> \in Slot \ {<<"bill", b>>}
          /\ \A c \in Credit : <<"credit", c>> \in Slot \ {<<"bill", b>>}
          /\ \A c \in Credit : <<"refund", c>> \in Slot \ {<<"bill", b>>}
    /\ \A p \in Payment : \A y \in Payment : y # p => <<"payment", y>> \in Slot \ {<<"payment", p>>}
    /\ \A p \in Payment :
          /\ \A r \in Receipt : <<"receipt", r>> \in Slot \ {<<"payment", p>>}
          /\ \A b \in Bill : <<"bill", b>> \in Slot \ {<<"payment", p>>}
          /\ \A c \in Credit : <<"credit", c>> \in Slot \ {<<"payment", p>>}
          /\ \A c \in Credit : <<"refund", c>> \in Slot \ {<<"payment", p>>}
    /\ \A c \in Credit : \A y \in Credit :
          /\ y # c => <<"credit", y>> \in Slot \ {<<"credit", c>>}
          /\ y # c => <<"refund", y>> \in Slot \ {<<"refund", c>>}
          /\ <<"credit", y>> \in Slot \ {<<"refund", c>>}
          /\ <<"refund", y>> \in Slot \ {<<"credit", c>>}
    /\ \A c \in Credit :
          /\ \A r \in Receipt : <<"receipt", r>> \in Slot \ {<<"credit", c>>, <<"refund", c>>}
          /\ \A b \in Bill : <<"bill", b>> \in Slot \ {<<"credit", c>>, <<"refund", c>>}
          /\ \A p \in Payment : <<"payment", p>> \in Slot \ {<<"credit", c>>, <<"refund", c>>}
BY SlotsAre

ReceiptsPosted == \A r \in Receipt : entry[<<"receipt", r>>] = ReceiptEntry(r)
PaymentsPosted == \A p \in Payment : entry[<<"payment", p>>] = PaymentEntry(p)
CreditsPosted == \A c \in Credit : /\ entry[<<"credit", c>>] = CreditEntry(c)
                                   /\ entry[<<"refund", c>>] = RefundEntry(c)
BillsPosted == \A b \in Bill : BillPosted(b)

\* The entries, by the kind of their document.
LEMMA EntriesAre ==
    /\ EntriesFollow <=> ReceiptsPosted /\ PaymentsPosted /\ CreditsPosted /\ BillsPosted
    /\ EntriesFollow' <=> ReceiptsPosted' /\ PaymentsPosted' /\ CreditsPosted' /\ BillsPosted'
BY DEF EntriesFollow, ReceiptsPosted, PaymentsPosted, CreditsPosted, BillsPosted

\* Receipts and their entries that stay still agree.
LEMMA ReceiptsKept ==
    ASSUME ReceiptsPosted, UNCHANGED receipt,
           \A r \in Receipt : entry'[<<"receipt", r>>] = entry[<<"receipt", r>>]
    PROVE  ReceiptsPosted'
BY DEF ReceiptsPosted, ReceiptEntry

\* Payments and their entries that stay still agree.
LEMMA PaymentsKept ==
    ASSUME PaymentsPosted, UNCHANGED payment,
           \A p \in Payment : entry'[<<"payment", p>>] = entry[<<"payment", p>>]
    PROVE  PaymentsPosted'
BY DEF PaymentsPosted, PaymentEntry

\* Vendor credits and their entries that stay still agree.
LEMMA CreditsKept ==
    ASSUME CreditsPosted, UNCHANGED credit,
           \A c \in Credit : /\ entry'[<<"credit", c>>] = entry[<<"credit", c>>]
                             /\ entry'[<<"refund", c>>] = entry[<<"refund", c>>]
    PROVE  CreditsPosted'
BY DEF CreditsPosted, CreditEntry, RefundEntry

\* A bill's entry stands while its amount and the order matched to it do.
Billed(o, b) == order[o] # NoRow /\ order[o].matched = b

MatchKept(b) ==
    \A o \in Order : /\ Billed(o, b)' <=> Billed(o, b)
                     /\ Billed(o, b) => order'[o].received = order[o].received

\* What a bill clears, order by order, before and after a step.
LEMMA ClearsIs ==
    ASSUME TypeOK, TypeOK', NEW b, NEW cost
    PROVE  /\ Clears(b, cost) <=> /\ \A o \in Order : Billed(o, b) => cost = order[o].received
                                  /\ (\A o \in Order : ~Billed(o, b)) => cost = 0
           /\ Clears(b, cost)' <=> /\ \A o \in Order : Billed(o, b)' => cost' = order'[o].received
                                   /\ (\A o \in Order : ~Billed(o, b)') => cost' = 0
BY DEF TypeOK, Clears, Billed, Stored

\* A bill whose amount and match stay still agrees with its entry.
LEMMA BillKept ==
    ASSUME TypeOK, TypeOK', NEW b \in Bill, BillPosted(b),
           entry'[<<"bill", b>>] = entry[<<"bill", b>>],
           bill'[b] = NoRow <=> bill[b] = NoRow,
           bill[b] # NoRow => bill'[b].amount = bill[b].amount,
           MatchKept(b)
    PROVE  BillPosted(b)'
<1>1. CASE bill[b] = NoRow
  BY <1>1 DEF BillPosted
<1>2. CASE bill[b] # NoRow
  <2>1. /\ entry[<<"bill", b>>] # NoRow
        /\ entry[<<"bill", b>>].ap = bill[b].amount
        /\ Clears(b, 0 - entry[<<"bill", b>>].grni)
    BY <1>2 DEF BillPosted
  <2>2. Clears(b, 0 - entry[<<"bill", b>>].grni)'
    BY <2>1, ClearsIs DEF MatchKept
  <2> QED
    BY <1>2, <2>1, <2>2 DEF BillPosted
<1> QED
  BY <1>1, <1>2

\* A bill that is not there has no order matched to it.
LEMMA NoBillNoMatch ==
    ASSUME TypeOK, BilledOnce, NEW b \in Bill, bill[b] = NoRow
    PROVE  \A o \in Order : ~Billed(o, b)
BY RowsAreSome DEF BilledOnce, Billed, Stored, TypeOK

\* Orders of a bill: one at most.
LEMMA OneOrderMatched ==
    ASSUME TypeOK, BilledOnce, NEW b \in Bill, NEW o \in Order, Billed(o, b), NEW x \in Order, x # o
    PROVE  ~Billed(x, b)
BY RowsAreSome DEF BilledOnce, Billed, Stored, TypeOK

PaidOf(b) == IF bill[b] = NoRow THEN 0 ELSE bill[b].paid
AppliedOf(c) == IF credit[c] = NoRow THEN 0 ELSE credit[c].applied

\* Payments, applications and paid amounts that stay still agree.
LEMMA PaidKept ==
    ASSUME PaidFollows, UNCHANGED <<payment, apps>>, \A b \in Bill : PaidOf(b)' = PaidOf(b)
    PROVE  PaidFollows'
BY PaidSame, CreditedSame DEF PaidFollows, PaidOf

\* Applications and applied amounts that stay still agree.
LEMMA AppliedKept ==
    ASSUME AppliedFollows, UNCHANGED apps, \A c \in Credit : AppliedOf(c)' = AppliedOf(c)
    PROVE  AppliedFollows'
BY DEF AppliedFollows, AppliedOf, AllApplied

\* What one bill adds to what is owed.
LEMMA OneBillOwed ==
    ASSUME NEW b \in Bill
    PROVE  /\ Owed[b] = IF bill[b] = NoRow THEN 0 ELSE bill[b].amount - bill[b].paid
           /\ Owed'[b] = IF bill'[b] = NoRow THEN 0 ELSE bill'[b].amount - bill'[b].paid
BY DEF Owed

\* What one entry adds to the two accounts.
LEMMA OneEntry ==
    ASSUME NEW s \in Slot
    PROVE  /\ Ap[s] = IF entry[s] = NoRow THEN 0 ELSE entry[s].ap
           /\ Ap'[s] = IF entry'[s] = NoRow THEN 0 ELSE entry'[s].ap
           /\ Grni[s] = IF entry[s] = NoRow THEN 0 ELSE entry[s].grni
           /\ Grni'[s] = IF entry'[s] = NoRow THEN 0 ELSE entry'[s].grni
BY DEF Ap, Grni

\* What one vendor credit adds to the credit held.
LEMMA OneCreditHeld ==
    ASSUME NEW c \in Credit
    PROVE  /\ Held[c] = IF credit[c] = NoRow THEN 0
                        ELSE IF credit[c].status = "refunded" THEN 0
                        ELSE credit[c].total - credit[c].applied
           /\ Held'[c] = IF credit'[c] = NoRow THEN 0
                         ELSE IF credit'[c].status = "refunded" THEN 0
                         ELSE credit'[c].total - credit'[c].applied
BY DEF Held

\* What one order adds to the goods not invoiced.
LEMMA OneNotInvoiced ==
    ASSUME NEW o \in Order
    PROVE  /\ NotInvoiced[o] = IF order[o] = NoRow THEN 0
                               ELSE IF order[o].matched = NoRow THEN order[o].received ELSE 0
           /\ NotInvoiced'[o] = IF order'[o] = NoRow THEN 0
                                ELSE IF order'[o].matched = NoRow THEN order'[o].received ELSE 0
BY DEF NotInvoiced

\* Rows a sum or an entry does not look at may change.
LEMMA OrderBooks ==
    ASSUME TypeOK, TypeOK', Books, UNCHANGED <<receipt, bill, payment, credit, apps, entry>>,
           \A o \in Order : NotInvoiced'[o] = NotInvoiced[o],
           \A b \in Bill : MatchKept(b)
    PROVE  Books'
<1>1. ReceiptsPosted' /\ PaymentsPosted' /\ CreditsPosted'
  BY EntriesAre, ReceiptsKept, PaymentsKept, CreditsKept DEF Books
<1>2. BillsPosted'
  BY EntriesAre, BillKept DEF Books, BillsPosted
<1>3. PaidFollows' /\ AppliedFollows'
  BY PaidKept, AppliedKept DEF Books, PaidOf, AppliedOf
<1>4. NotInvoicedTotal' = NotInvoicedTotal
  <2>1. DOMAIN NotInvoiced = Order /\ DOMAIN NotInvoiced' = Order
    BY DEF NotInvoiced
  <2>2. SumFunction(NotInvoiced) = SumFunction(NotInvoiced')
    BY <2>1, FiniteIds, TableSame
  <2> QED
    BY <2>2 DEF NotInvoicedTotal
<1>5. Totals'
  BY <1>4, TotalsSame DEF Books, Totals
<1> QED
  BY <1>1, <1>2, <1>3, <1>5, EntriesAre DEF Books

\* A step of an order that is neither received nor matched leaves the books.
LEMMA SameOrderBooks ==
    ASSUME TypeOK, TypeOK', BilledOnce, Books, NEW o \in Order,
           UNCHANGED <<receipt, bill, payment, credit, apps, entry>>,
           \A x \in Order \ {o} : order'[x] = order[x],
           \/ SameOrder(o)
           \/ order[o] = NoRow /\ order'[o].matched = NoRow /\ order'[o].received = 0
           \/ order[o].matched = NoRow /\ order[o].received = 0 /\ order'[o] = NoRow
    PROVE  Books'
<1>1. \A x \in Order : NotInvoiced'[x] = NotInvoiced[x]
  BY OneNotInvoiced DEF SameOrder
<1>2. \A b \in Bill : b # NoRow
  BY RowsAreSome
<1>3. \A b \in Bill : MatchKept(b)
  BY <1>2 DEF MatchKept, Billed, SameOrder
<1> QED
  BY <1>1, <1>3, OrderBooks

\* Goods received raise Goods Received Not Invoiced by what the order received.
LEMMA ReceiveBooks ==
    ASSUME TypeOK, TypeOK', BilledOnce, Books, NEW o \in Order, NEW r \in Receipt,
           NEW quantity \in Quantity, PurchaseOrdersReceive(o, r, quantity)
    PROVE  Books'
<1> DEFINE s == <<"receipt", r>>
<1>1. /\ order[o] \in OrderRow /\ order'[o] \in OrderRow
      /\ order[o].matched = NoRow /\ order'[o].matched = NoRow
      /\ order'[o].received = order[o].received + quantity
      /\ \A x \in Order \ {o} : order'[x] = order[x]
      /\ receipt[r] = NoRow /\ receipt'[r] # NoRow
      /\ receipt'[r] = [order |-> o, quantity |-> quantity]
      /\ \A y \in Receipt \ {r} : receipt'[y] = receipt[y]
  BY ReceiveRow
<1>2. receipt'[r].quantity = quantity /\ quantity \in Nat
  BY <1>1 DEF Quantity
<1>3. s \in Slot /\ Post(s, 0, quantity) /\ UNCHANGED <<bill, payment, credit, apps>>
  BY SlotsAre DEF PurchaseOrdersReceive
<1>4. entry'[s] = [ap |-> 0, grni |-> quantity] /\ \A y \in Slot \ {s} : entry'[y] = entry[y]
  BY <1>3, PostEntry
<1>5. entry'[s] # NoRow
  <2>1. [ap |-> 0, grni |-> quantity] \in EntryRow
    BY <1>2 DEF EntryRow
  <2> QED
    BY <1>4, <2>1, RowsAreSome
<1>6. entry[s] = NoRow
  BY <1>1, EntriesAre DEF Books, ReceiptsPosted, ReceiptEntry
<1>7. ReceiptsPosted'
  <2>1. ASSUME NEW y \in Receipt PROVE entry'[<<"receipt", y>>] = ReceiptEntry(y)'
    <3>1. CASE y = r
      BY <1>1, <1>2, <1>4, <3>1 DEF ReceiptEntry
    <3>2. CASE y # r
      BY <1>1, <1>4, <3>2, SlotsDiffer, EntriesAre DEF Books, ReceiptsPosted, ReceiptEntry
    <3> QED
      BY <3>1, <3>2
  <2> QED
    BY <2>1 DEF ReceiptsPosted
<1>8. PaymentsPosted' /\ CreditsPosted'
  <2>1. /\ \A p \in Payment : entry'[<<"payment", p>>] = entry[<<"payment", p>>]
        /\ \A c \in Credit : /\ entry'[<<"credit", c>>] = entry[<<"credit", c>>]
                             /\ entry'[<<"refund", c>>] = entry[<<"refund", c>>]
    BY <1>4, SlotsDiffer
  <2> QED
    BY <1>3, <2>1, EntriesAre, PaymentsKept, CreditsKept DEF Books
<1>9. BillsPosted'
  <2>1. ASSUME NEW b \in Bill PROVE BillPosted(b)'
    <3>1. entry'[<<"bill", b>>] = entry[<<"bill", b>>] /\ b # NoRow
      BY <1>4, SlotsDiffer, RowsAreSome
    <3>2. MatchKept(b)
      BY <1>1, <3>1 DEF MatchKept, Billed
    <3> QED
      BY <1>3, <3>1, <3>2, EntriesAre, BillKept DEF Books, BillsPosted
  <2> QED
    BY <2>1 DEF BillsPosted
<1>10. PaidFollows' /\ AppliedFollows'
  BY <1>3, PaidKept, AppliedKept DEF Books, PaidOf, AppliedOf
<1>11. Totals'
  <2>1. /\ ApTotal' = ApTotal - Ap[s] + Ap'[s] /\ GrniTotal' = GrniTotal - Grni[s] + Grni'[s]
        /\ ApTotal \in Int /\ GrniTotal \in Int
    BY <1>3, <1>4, EntryChange
  <2>2. Ap[s] = 0 /\ Ap'[s] = 0 /\ Grni[s] = 0 /\ Grni'[s] = quantity
    BY <1>3, <1>4, <1>5, <1>6, OneEntry
  <2>3. /\ NotInvoicedTotal' = NotInvoicedTotal - NotInvoiced[o] + NotInvoiced'[o]
        /\ NotInvoicedTotal \in Int
    <3>1. \A y \in Order \ {o} : NotInvoiced'[y] = NotInvoiced[y]
      BY <1>1, OneNotInvoiced
    <3> QED
      BY <3>1, NotInvoicedChange
  <2>4. NotInvoiced[o] = order[o].received /\ NotInvoiced'[o] = order[o].received + quantity
    BY <1>1, RowsAreSome, OneNotInvoiced
  <2>5. order[o].received \in Nat
    BY <1>1 DEF OrderRow
  <2>6. OwedTotal' = OwedTotal /\ HeldTotal' = HeldTotal
    BY <1>3, TotalsSame
  <2> QED
    BY <1>2, <2>1, <2>2, <2>3, <2>4, <2>5, <2>6 DEF Books, Totals
<1> QED
  BY <1>7, <1>8, <1>9, <1>10, <1>11, EntriesAre DEF Books

\* A receipt reversed takes the same back.
LEMMA ReverseBooks ==
    ASSUME TypeOK, TypeOK', BilledOnce, ReceivedFollows, Books, NEW o \in Order, NEW r \in Receipt,
           PurchaseOrdersReverseLatestReceipt(o, r)
    PROVE  Books'
<1> DEFINE s == <<"receipt", r>>
<1>1. /\ order[o] \in OrderRow /\ order'[o] \in OrderRow
      /\ order[o].matched = NoRow /\ order'[o].matched = NoRow
      /\ order'[o].received = Positive(order[o].received - receipt[r].quantity)
      /\ \A x \in Order \ {o} : order'[x] = order[x]
      /\ receipt[r] \in ReceiptRow /\ receipt[r].order = o
      /\ receipt'[r] = NoRow
      /\ \A y \in Receipt \ {r} : receipt'[y] = receipt[y]
  BY ReverseRow
<1>2. receipt[r] # NoRow /\ receipt[r].quantity \in Nat /\ order[o] # NoRow /\ order'[o] # NoRow
      /\ order[o].received \in Nat
  BY <1>1, RowsAreSome DEF ReceiptRow, Quantity, OrderRow
<1>12. receipt[r].quantity <= order[o].received
  <2>1. ReceivedOn(o)[r] = receipt[r].quantity
    BY <1>1, <1>2 DEF ReceivedOn, ReceiptsOf, Stored, TypeOK
  <2>2. ReceivedOn(o)[r] <= Received(o)
    BY ReceivedIsNat DEF Received
  <2> QED
    BY <1>2, <2>1, <2>2 DEF ReceivedFollows
<1>3. s \in Slot /\ Void(s) /\ UNCHANGED <<bill, payment, credit, apps>>
  BY SlotsAre DEF PurchaseOrdersReverseLatestReceipt
<1>4. entry'[s] = NoRow /\ \A y \in Slot \ {s} : entry'[y] = entry[y]
  BY <1>3, VoidEntry
<1>6. entry[s] = [ap |-> 0, grni |-> receipt[r].quantity] /\ entry[s] # NoRow
  <2>1. [ap |-> 0, grni |-> receipt[r].quantity] \in EntryRow
    BY <1>2 DEF EntryRow
  <2>2. entry[s] = [ap |-> 0, grni |-> receipt[r].quantity]
    BY <1>2, EntriesAre DEF Books, ReceiptsPosted, ReceiptEntry
  <2> QED
    BY <2>1, <2>2, RowsAreSome
<1>7. ReceiptsPosted'
  <2>1. ASSUME NEW y \in Receipt PROVE entry'[<<"receipt", y>>] = ReceiptEntry(y)'
    <3>1. CASE y = r
      BY <1>1, <1>4, <3>1 DEF ReceiptEntry
    <3>2. CASE y # r
      BY <1>1, <1>4, <3>2, SlotsDiffer, EntriesAre DEF Books, ReceiptsPosted, ReceiptEntry
    <3> QED
      BY <3>1, <3>2
  <2> QED
    BY <2>1 DEF ReceiptsPosted
<1>8. PaymentsPosted' /\ CreditsPosted'
  <2>1. /\ \A p \in Payment : entry'[<<"payment", p>>] = entry[<<"payment", p>>]
        /\ \A c \in Credit : /\ entry'[<<"credit", c>>] = entry[<<"credit", c>>]
                             /\ entry'[<<"refund", c>>] = entry[<<"refund", c>>]
    BY <1>4, SlotsDiffer
  <2> QED
    BY <1>3, <2>1, EntriesAre, PaymentsKept, CreditsKept DEF Books
<1>9. BillsPosted'
  <2>1. ASSUME NEW b \in Bill PROVE BillPosted(b)'
    <3>1. entry'[<<"bill", b>>] = entry[<<"bill", b>>] /\ b # NoRow
      BY <1>4, SlotsDiffer, RowsAreSome
    <3>2. MatchKept(b)
      BY <1>1, <3>1 DEF MatchKept, Billed
    <3> QED
      BY <1>3, <3>1, <3>2, EntriesAre, BillKept DEF Books, BillsPosted
  <2> QED
    BY <2>1 DEF BillsPosted
<1>10. PaidFollows' /\ AppliedFollows'
  BY <1>3, PaidKept, AppliedKept DEF Books, PaidOf, AppliedOf
<1>11. Totals'
  <2>1. /\ ApTotal' = ApTotal - Ap[s] + Ap'[s] /\ GrniTotal' = GrniTotal - Grni[s] + Grni'[s]
        /\ ApTotal \in Int /\ GrniTotal \in Int
    BY <1>3, <1>4, EntryChange
  <2>2. Ap[s] = 0 /\ Ap'[s] = 0 /\ Grni[s] = receipt[r].quantity /\ Grni'[s] = 0
    BY <1>3, <1>4, <1>6, OneEntry
  <2>3. /\ NotInvoicedTotal' = NotInvoicedTotal - NotInvoiced[o] + NotInvoiced'[o]
        /\ NotInvoicedTotal \in Int
    <3>1. \A y \in Order \ {o} : NotInvoiced'[y] = NotInvoiced[y]
      BY <1>1, OneNotInvoiced
    <3> QED
      BY <3>1, NotInvoicedChange
  <2>4. NotInvoiced[o] = order[o].received /\ NotInvoiced'[o] = order[o].received - receipt[r].quantity
    BY <1>1, <1>2, <1>12, OneNotInvoiced DEF Positive
  <2>6. OwedTotal' = OwedTotal /\ HeldTotal' = HeldTotal
    BY <1>3, TotalsSame
  <2> QED
    BY <1>2, <2>1, <2>2, <2>3, <2>4, <2>6 DEF Books, Totals
<1> QED
  BY <1>7, <1>8, <1>9, <1>10, <1>11, EntriesAre DEF Books

\* A bill's entry is its own: the other documents' entries stand.
LEMMA OtherEntriesKept ==
    ASSUME TypeOK, TypeOK', Books, UNCHANGED <<receipt, payment, credit>>, NEW b \in Bill,
           \A y \in Slot \ {<<"bill", b>>} : entry'[y] = entry[y]
    PROVE  ReceiptsPosted' /\ PaymentsPosted' /\ CreditsPosted'
<1>1. /\ \A r \in Receipt : entry'[<<"receipt", r>>] = entry[<<"receipt", r>>]
      /\ \A p \in Payment : entry'[<<"payment", p>>] = entry[<<"payment", p>>]
      /\ \A c \in Credit : /\ entry'[<<"credit", c>>] = entry[<<"credit", c>>]
                           /\ entry'[<<"refund", c>>] = entry[<<"refund", c>>]
  BY SlotsDiffer
<1> QED
  BY <1>1, EntriesAre, ReceiptsKept, PaymentsKept, CreditsKept DEF Books

\* The step of one bill leaves the others and their entries.
LEMMA OtherBillsKept ==
    ASSUME TypeOK, TypeOK', Books, NEW b \in Bill, BillPosted(b)',
           \A y \in Slot \ {<<"bill", b>>} : entry'[y] = entry[y],
           \A y \in Bill \ {b} : bill'[y] = bill[y] /\ MatchKept(y)
    PROVE  BillsPosted'
<1>1. ASSUME NEW y \in Bill, y # b PROVE BillPosted(y)'
  <2>1. entry'[<<"bill", y>>] = entry[<<"bill", y>>]
    BY <1>1, SlotsDiffer
  <2> QED
    BY <1>1, <2>1, EntriesAre, BillKept DEF Books, BillsPosted
<1> QED
  BY <1>1 DEF BillsPosted

\* A bill comes: it is owed in full, and its entry says so.
LEMMA NewBillBooks ==
    ASSUME TypeOK, TypeOK', Books, UNCHANGED <<receipt, payment, credit, apps>>,
           NEW b \in Bill, bill[b] = NoRow, bill'[b] \in BillRow, bill'[b].paid = 0,
           \A y \in Bill \ {b} : bill'[y] = bill[y] /\ MatchKept(y),
           NEW cost \in Int, Post(<<"bill", b>>, bill'[b].amount, 0 - cost),
           \A o \in Order : Billed(o, b)' => cost = order'[o].received,
           (\A o \in Order : ~Billed(o, b)') => cost = 0,
           NotInvoicedTotal' = NotInvoicedTotal - cost
    PROVE  Books'
<1> DEFINE s == <<"bill", b>>
           amount == bill'[b].amount
<1>1. s \in Slot /\ amount \in Nat /\ bill'[b] # NoRow
  BY SlotsAre, RowsAreSome DEF BillRow
<1>2. entry'[s] = [ap |-> amount, grni |-> 0 - cost] /\ \A y \in Slot \ {s} : entry'[y] = entry[y]
  BY <1>1, PostEntry
<1>3. entry'[s] # NoRow
  <2>1. [ap |-> amount, grni |-> 0 - cost] \in EntryRow
    BY <1>1 DEF EntryRow
  <2> QED
    BY <1>2, <2>1, RowsAreSome
<1>4. entry[s] = NoRow
  BY EntriesAre DEF Books, BillsPosted, BillPosted
<1>5. BillPosted(b)'
  <2>1. entry'[s].ap = amount /\ 0 - entry'[s].grni = cost
    BY <1>2
  <2>2. Clears(b, 0 - entry[s].grni)'
    BY <2>1, ClearsIs
  <2> QED
    BY <1>1, <1>3, <2>1, <2>2 DEF BillPosted
<1>6. EntriesFollow'
  BY <1>2, <1>5, OtherEntriesKept, OtherBillsKept, EntriesAre
<1>7. PaidFollows' /\ AppliedFollows'
  <2>1. \A y \in Bill : PaidOf(y)' = PaidOf(y)
    BY DEF PaidOf
  <2> QED
    BY <2>1, PaidKept, AppliedKept DEF Books, AppliedOf
<1>8. Totals'
  <2>1. /\ ApTotal' = ApTotal - Ap[s] + Ap'[s] /\ GrniTotal' = GrniTotal - Grni[s] + Grni'[s]
        /\ ApTotal \in Int /\ GrniTotal \in Int
    BY <1>1, <1>2, EntryChange
  <2>2. Ap[s] = 0 /\ Ap'[s] = amount /\ Grni[s] = 0 /\ Grni'[s] = 0 - cost
    BY <1>1, <1>2, <1>3, <1>4, OneEntry
  <2>3. OwedTotal' = OwedTotal - Owed[b] + Owed'[b] /\ OwedTotal \in Int
    BY OwedChange
  <2>4. Owed[b] = 0 /\ Owed'[b] = amount
    BY <1>1, OneBillOwed
  <2>5. HeldTotal' = HeldTotal /\ HeldTotal \in Int /\ NotInvoicedTotal \in Int
    BY TotalsSame, TotalsTyped
  <2> QED
    BY <1>1, <2>1, <2>2, <2>3, <2>4, <2>5 DEF Books, Totals
<1> QED
  BY <1>6, <1>7, <1>8 DEF Books

\* A bill goes that nothing was paid on: its entry goes with it.
LEMMA NoBillBooks ==
    ASSUME TypeOK, TypeOK', Books, UNCHANGED <<receipt, payment, credit, apps>>,
           NEW b \in Bill, bill[b] \in BillRow, bill[b].paid = 0, bill'[b] = NoRow,
           \A y \in Bill \ {b} : bill'[y] = bill[y] /\ MatchKept(y),
           Void(<<"bill", b>>),
           NEW cost \in Int, Clears(b, cost), NotInvoicedTotal' = NotInvoicedTotal + cost
    PROVE  Books'
<1> DEFINE s == <<"bill", b>>
           amount == bill[b].amount
<1>1. s \in Slot /\ amount \in Nat /\ bill[b] # NoRow
  BY SlotsAre, RowsAreSome DEF BillRow
<1>2. entry'[s] = NoRow /\ \A y \in Slot \ {s} : entry'[y] = entry[y]
  BY <1>1, VoidEntry
<1>3. /\ entry[s] # NoRow /\ entry[s].ap = amount /\ Clears(b, 0 - entry[s].grni)
      /\ entry[s].grni \in Int
  <2>1. entry[s] # NoRow /\ entry[s].ap = amount /\ Clears(b, 0 - entry[s].grni)
    BY <1>1, EntriesAre DEF Books, BillsPosted, BillPosted
  <2>2. entry[s] \in EntryRow
    BY <1>1, <2>1 DEF TypeOK
  <2> QED
    BY <2>1, <2>2 DEF EntryRow
<1>4. entry[s].grni = 0 - cost
  <2>1. 0 - entry[s].grni = cost
    BY <1>3, ClearsIs
  <2> QED
    BY <1>3, <2>1
<1>5. BillPosted(b)'
  BY <1>2 DEF BillPosted
<1>6. EntriesFollow'
  BY <1>2, <1>5, OtherEntriesKept, OtherBillsKept, EntriesAre
<1>7. PaidFollows' /\ AppliedFollows'
  <2>1. \A y \in Bill : PaidOf(y)' = PaidOf(y)
    BY DEF PaidOf
  <2> QED
    BY <2>1, PaidKept, AppliedKept DEF Books, AppliedOf
<1>8. Totals'
  <2>1. /\ ApTotal' = ApTotal - Ap[s] + Ap'[s] /\ GrniTotal' = GrniTotal - Grni[s] + Grni'[s]
        /\ ApTotal \in Int /\ GrniTotal \in Int
    BY <1>1, <1>2, EntryChange
  <2>2. Ap[s] = amount /\ Ap'[s] = 0 /\ Grni[s] = 0 - cost /\ Grni'[s] = 0
    BY <1>1, <1>2, <1>3, <1>4, OneEntry
  <2>3. OwedTotal' = OwedTotal - Owed[b] + Owed'[b] /\ OwedTotal \in Int
    BY OwedChange
  <2>4. Owed[b] = amount /\ Owed'[b] = 0
    BY <1>1, OneBillOwed
  <2>5. HeldTotal' = HeldTotal /\ HeldTotal \in Int /\ NotInvoicedTotal \in Int
    BY TotalsSame, TotalsTyped
  <2> QED
    BY <1>1, <2>1, <2>2, <2>3, <2>4, <2>5 DEF Books, Totals
<1> QED
  BY <1>6, <1>7, <1>8 DEF Books

\* A bill matched to an order clears what was received on it.
LEMMA MatchBooks ==
    ASSUME TypeOK, TypeOK', BilledOnce, ReceivedFollows, Books, NEW o \in Order, NEW b \in Bill,
           NEW amount \in Amount, PurchaseOrdersMatchSupplierBill(o, b, amount)
    PROVE  Books'
<1>1. /\ order[o] \in OrderRow /\ order'[o] \in OrderRow
      /\ order[o].matched = NoRow /\ order'[o].matched = b
      /\ order'[o].received = order[o].received
      /\ \A x \in Order \ {o} : order'[x] = order[x]
      /\ bill[b] = NoRow
      /\ bill'[b] = NewBill(amount) /\ bill'[b] \in BillRow
      /\ \A y \in Bill \ {b} : bill'[y] = bill[y]
  BY MatchRow
<1> DEFINE cost == order[o].received
<1>2. order[o] # NoRow /\ order'[o] # NoRow /\ b # NoRow /\ cost \in Int
  BY <1>1, RowsAreSome DEF OrderRow
<1>3. bill'[b].amount = amount /\ bill'[b].paid = 0
  BY <1>1 DEF NewBill
<1>4. ExpectedReceiptCost(o) = cost
  BY <1>2 DEF ReceivedFollows, Received, ExpectedReceiptCost
<1>5. Post(<<"bill", b>>, bill'[b].amount, 0 - cost) /\ UNCHANGED <<receipt, payment, credit, apps>>
  BY <1>3, <1>4 DEF PurchaseOrdersMatchSupplierBill
<1>6. \A x \in Order : Billed(x, b)' <=> x = o
  BY <1>1, <1>2, NoBillNoMatch DEF Billed
<1>7. \A y \in Bill \ {b} : y # NoRow /\ MatchKept(y)
  BY <1>1, RowsAreSome DEF MatchKept, Billed
<1>8. NotInvoicedTotal' = NotInvoicedTotal - cost
  <2>1. \A y \in Order \ {o} : NotInvoiced'[y] = NotInvoiced[y]
    BY <1>1, OneNotInvoiced
  <2>2. /\ NotInvoicedTotal' = NotInvoicedTotal - NotInvoiced[o] + NotInvoiced'[o]
        /\ NotInvoicedTotal \in Int
    BY <2>1, NotInvoicedChange
  <2>3. NotInvoiced[o] = cost /\ NotInvoiced'[o] = 0
    BY <1>1, <1>2, OneNotInvoiced
  <2> QED
    BY <1>2, <2>2, <2>3
<1>9. \A x \in Order : Billed(x, b)' => cost = order'[x].received
  BY <1>1, <1>6
<1>10. ~(\A x \in Order : ~Billed(x, b)')
  BY <1>6
<1> HIDE DEF cost
<1> QED
  BY <1>1, <1>2, <1>3, <1>5, <1>7, <1>8, <1>9, <1>10, NewBillBooks

\* An order converted to a bill without a receipt clears nothing.
LEMMA ConvertBooks ==
    ASSUME TypeOK, TypeOK', BilledOnce, Books, NEW o \in Order, NEW b \in Bill,
           PurchaseOrdersConvertToBill(o, b)
    PROVE  Books'
<1>1. /\ order[o] \in OrderRow /\ order'[o] \in OrderRow
      /\ order[o].matched = NoRow /\ order'[o].matched = NoRow
      /\ order[o].received = 0 /\ order'[o].received = 0
      /\ \A x \in Order \ {o} : order'[x] = order[x]
      /\ bill[b] = NoRow
      /\ bill'[b] = NewBill(order[o].quantity) /\ bill'[b] \in BillRow
      /\ \A y \in Bill \ {b} : bill'[y] = bill[y]
  BY ConvertRow
<1>2. order[o] # NoRow /\ order'[o] # NoRow
  BY <1>1, RowsAreSome
<1>3. bill'[b].amount = order[o].quantity /\ bill'[b].paid = 0
  BY <1>1 DEF NewBill
<1>4. 0 \in Int /\ 0 - 0 = 0
  OBVIOUS
<1>5. Post(<<"bill", b>>, bill'[b].amount, 0 - 0) /\ UNCHANGED <<receipt, payment, credit, apps>>
  BY <1>3, <1>4 DEF PurchaseOrdersConvertToBill
<1>6. \A y \in Bill : y # NoRow /\ MatchKept(y)
  BY <1>1, RowsAreSome DEF MatchKept, Billed
<1>7. \A x \in Order : ~Billed(x, b)'
  BY <1>1, <1>6, NoBillNoMatch DEF MatchKept
<1>8. NotInvoicedTotal' = NotInvoicedTotal - 0
  <2>1. \A y \in Order \ {o} : NotInvoiced'[y] = NotInvoiced[y]
    BY <1>1, OneNotInvoiced
  <2>2. /\ NotInvoicedTotal' = NotInvoicedTotal - NotInvoiced[o] + NotInvoiced'[o]
        /\ NotInvoicedTotal \in Int
    BY <2>1, NotInvoicedChange
  <2>3. NotInvoiced[o] = 0 /\ NotInvoiced'[o] = 0
    BY <1>1, <1>2, OneNotInvoiced
  <2> QED
    BY <2>2, <2>3
<1> QED
  BY <1>1, <1>3, <1>4, <1>5, <1>6, <1>7, <1>8, NewBillBooks

\* A match undone takes the bill away and leaves the goods not invoiced again.
LEMMA UnmatchBooks ==
    ASSUME TypeOK, TypeOK', BilledOnce, Books, NEW o \in Order, PurchaseOrdersUnmatchSupplierBill(o)
    PROVE  Books'
<1> DEFINE b == order[o].matched
           cost == order[o].received
<1>1. /\ order[o] \in OrderRow /\ order'[o] \in OrderRow
      /\ b \in Bill
      /\ order'[o].received = cost
      /\ order'[o].matched = NoRow
      /\ \A x \in Order \ {o} : order'[x] = order[x]
      /\ bill[b] \in BillRow /\ bill[b].paid = 0
      /\ bill'[b] = NoRow
      /\ \A y \in Bill \ {b} : bill'[y] = bill[y]
  BY UnmatchRow
<1>2. order[o] # NoRow /\ order'[o] # NoRow /\ cost \in Int /\ b # NoRow
  BY <1>1, RowsAreSome DEF OrderRow
<1>3. Void(<<"bill", b>>) /\ UNCHANGED <<receipt, payment, credit, apps>>
  BY DEF PurchaseOrdersUnmatchSupplierBill
<1>4. \A x \in Order : Billed(x, b) <=> x = o
  BY <1>1, <1>2, OneOrderMatched DEF Billed
<1>5. Clears(b, cost)
  BY <1>4, ClearsIs
<1>6. \A y \in Bill \ {b} : y # NoRow /\ MatchKept(y)
  BY <1>1, RowsAreSome DEF MatchKept, Billed
<1>7. NotInvoicedTotal' = NotInvoicedTotal + cost
  <2>1. \A y \in Order \ {o} : NotInvoiced'[y] = NotInvoiced[y]
    BY <1>1, OneNotInvoiced
  <2>2. /\ NotInvoicedTotal' = NotInvoicedTotal - NotInvoiced[o] + NotInvoiced'[o]
        /\ NotInvoicedTotal \in Int
    BY <2>1, NotInvoicedChange
  <2>3. NotInvoiced[o] = 0 /\ NotInvoiced'[o] = cost
    BY <1>1, <1>2, OneNotInvoiced
  <2> QED
    BY <1>2, <2>2, <2>3
<1> HIDE DEF b, cost
<1> QED
  BY <1>1, <1>2, <1>3, <1>5, <1>6, <1>7, NoBillBooks

\* Every step of an order keeps the books.
LEMMA OrderStepBooks ==
    ASSUME TypeOK, TypeOK', BilledOnce, ReceivedFollows, Books, NEW o \in Order, OrderStep(o)
    PROVE  Books'
<1>1. ASSUME NEW quantity \in Quantity,
             PurchaseOrdersCreate(o, quantity) \/ PurchaseOrdersUpdate(o, quantity)
      PROVE  Books'
  <2>1. UNCHANGED <<receipt, bill, payment, credit, apps, entry>>
    BY <1>1 DEF PurchaseOrdersCreate, PurchaseOrdersUpdate
  <2>2. CASE PurchaseOrdersCreate(o, quantity)
    BY <2>1, <2>2, CreateRow, SameOrderBooks
  <2>3. CASE PurchaseOrdersUpdate(o, quantity)
    BY <2>1, <2>3, UpdateRow, SameOrderBooks
  <2> QED
    BY <1>1, <2>2, <2>3
<1>2. ASSUME NEW status \in OrderStatus, PurchaseOrdersSetStatus(o, status)
      PROVE  Books'
  <2>1. UNCHANGED <<receipt, bill, payment, credit, apps, entry>>
    BY <1>2 DEF PurchaseOrdersSetStatus
  <2> QED
    BY <1>2, <2>1, SetStatusRow, SameOrderBooks
<1>3. ASSUME NEW approval \in OrderApproval \ {"notRequired"}, PurchaseOrdersSetApproval(o, approval)
      PROVE  Books'
  <2>1. UNCHANGED <<receipt, bill, payment, credit, apps, entry>>
    BY <1>3 DEF PurchaseOrdersSetApproval
  <2>2. SameOrder(o) /\ \A x \in Order \ {o} : order'[x] = order[x]
    BY <1>3, SetApprovalRow
  <2> QED
    BY <2>1, <2>2, SameOrderBooks
<1>4. ASSUME NEW r \in Receipt, NEW quantity \in Quantity, PurchaseOrdersReceive(o, r, quantity)
      PROVE  Books'
  BY <1>4, ReceiveBooks
<1>5. ASSUME NEW r \in Receipt, PurchaseOrdersReverseLatestReceipt(o, r)
      PROVE  Books'
  BY <1>5, ReverseBooks
<1>6. ASSUME NEW b \in Bill, NEW amount \in Amount, PurchaseOrdersMatchSupplierBill(o, b, amount)
      PROVE  Books'
  BY <1>6, MatchBooks
<1>7. ASSUME NEW b \in Bill, PurchaseOrdersConvertToBill(o, b)
      PROVE  Books'
  BY <1>7, ConvertBooks
<1>8. ASSUME PurchaseOrdersUnmatchSupplierBill(o)
      PROVE  Books'
  BY <1>8, UnmatchBooks
<1>9. ASSUME PurchaseOrdersDelete(o)
      PROVE  Books'
  <2>1. UNCHANGED <<receipt, bill, payment, credit, apps, entry>>
    BY <1>9 DEF PurchaseOrdersDelete
  <2>2. /\ order[o] \in OrderRow /\ order[o].converted = NoRow /\ order[o].received = 0
        /\ order'[o] = NoRow /\ \A x \in Order \ {o} : order'[x] = order[x]
    BY <1>9, DeleteRow
  <2>3. order[o].matched = NoRow
    BY <2>2, RowsAreSome DEF BilledOnce, Stored, TypeOK
  <2> QED
    BY <2>1, <2>2, <2>3, SameOrderBooks
<1> QED
  BY <1>1, <1>2, <1>3, <1>4, <1>5, <1>6, <1>7, <1>8, <1>9 DEF OrderStep

-----------------------------------------------------------------------------

\* Orders that stay are matched to the bills they were.
LEMMA OrdersStand ==
    ASSUME UNCHANGED order
    PROVE  \A b \in Bill : MatchKept(b)
BY DEF MatchKept, Billed

\* A new bill is owed, and its entry says so.
LEMMA BillCreateBooks ==
    ASSUME TypeOK, TypeOK', BilledOnce, Books, NEW b \in Bill, NEW amount \in Amount,
           NEW quantity \in BillQuantity, BillsCreate(b, amount, quantity)
    PROVE  Books'
<1>1. /\ bill[b] = NoRow
      /\ bill'[b] \in BillRow /\ bill'[b].amount = amount /\ bill'[b].paid = 0
      /\ \A y \in Bill \ {b} : bill'[y] = bill[y]
  BY BillCreateRow
<1>2. 0 \in Int /\ 0 - 0 = 0
  OBVIOUS
<1>3. /\ Post(<<"bill", b>>, bill'[b].amount, 0 - 0)
      /\ UNCHANGED <<order, receipt, payment, credit, apps>>
  BY <1>1, <1>2 DEF BillsCreate
<1>4. \A y \in Bill : MatchKept(y)
  BY <1>3, OrdersStand
<1>5. \A x \in Order : ~Billed(x, b)'
  BY <1>1, <1>4, NoBillNoMatch DEF MatchKept
<1>6. NotInvoicedTotal' = NotInvoicedTotal - 0
  BY <1>3, TotalsSame, TotalsTyped
<1> QED
  BY <1>1, <1>2, <1>3, <1>4, <1>5, <1>6, NewBillBooks

\* An edited bill is owed its new amount, and so says the entry that replaces the old.
LEMMA BillUpdateBooks ==
    ASSUME TypeOK, TypeOK', Books, NEW b \in Bill, NEW amount \in Amount,
           NEW quantity \in BillQuantity, BillsUpdate(b, amount, quantity)
    PROVE  Books'
<1> DEFINE s == <<"bill", b>>
<1>1. /\ bill[b] \in BillRow /\ bill[b].paid = 0
      /\ bill'[b] \in BillRow /\ bill'[b].amount = amount /\ bill'[b].paid = 0
      /\ \A y \in Bill \ {b} : bill'[y] = bill[y]
      /\ \A o \in Stored(order) : order[o].matched # b
  BY BillUpdateRow
<1>2. bill[b] # NoRow /\ bill'[b] # NoRow /\ amount \in Nat /\ bill[b].amount \in Nat
  BY <1>1, RowsAreSome, PurchasingAssumption DEF BillRow
<1>3. s \in Slot /\ Post(s, amount, 0) /\ UNCHANGED <<order, receipt, payment, credit, apps>>
  BY SlotsAre DEF BillsUpdate
<1>4. entry'[s] = [ap |-> amount, grni |-> 0] /\ \A y \in Slot \ {s} : entry'[y] = entry[y]
  BY <1>3, PostEntry
<1>5. entry'[s] # NoRow
  <2>1. [ap |-> amount, grni |-> 0] \in EntryRow
    BY <1>2 DEF EntryRow
  <2> QED
    BY <1>4, <2>1, RowsAreSome
<1>6. \A o \in Order : ~Billed(o, b)
  BY <1>1 DEF Billed, Stored, TypeOK
<1>7. \A y \in Bill : MatchKept(y)
  BY <1>3, OrdersStand
<1>8. /\ entry[s] # NoRow /\ entry[s].ap = bill[b].amount /\ Clears(b, 0 - entry[s].grni)
      /\ entry[s].grni \in Int
  <2>1. entry[s] # NoRow /\ entry[s].ap = bill[b].amount /\ Clears(b, 0 - entry[s].grni)
    BY <1>2, EntriesAre DEF Books, BillsPosted, BillPosted
  <2>2. entry[s] \in EntryRow
    BY <1>3, <2>1 DEF TypeOK
  <2> QED
    BY <2>1, <2>2 DEF EntryRow
<1>9. entry[s].grni = 0
  <2>1. 0 - entry[s].grni = 0
    BY <1>6, <1>8, ClearsIs
  <2> QED
    BY <1>8, <2>1
<1>10. BillPosted(b)'
  <2>1. entry'[s].ap = amount /\ 0 - entry'[s].grni = 0
    BY <1>4
  <2>2. Clears(b, 0 - entry[s].grni)'
    BY <1>6, <1>7, <2>1, ClearsIs DEF MatchKept
  <2> QED
    BY <1>1, <1>2, <1>5, <2>1, <2>2 DEF BillPosted
<1>11. EntriesFollow'
  BY <1>1, <1>3, <1>4, <1>7, <1>10, OtherEntriesKept, OtherBillsKept, EntriesAre
<1>12. PaidFollows' /\ AppliedFollows'
  <2>1. \A y \in Bill : PaidOf(y)' = PaidOf(y)
    BY <1>1, <1>2 DEF PaidOf
  <2> QED
    BY <1>3, <2>1, PaidKept, AppliedKept DEF Books, AppliedOf
<1>13. Totals'
  <2>1. /\ ApTotal' = ApTotal - Ap[s] + Ap'[s] /\ GrniTotal' = GrniTotal - Grni[s] + Grni'[s]
        /\ ApTotal \in Int /\ GrniTotal \in Int
    BY <1>3, <1>4, EntryChange
  <2>2. Ap[s] = bill[b].amount /\ Ap'[s] = amount /\ Grni[s] = 0 /\ Grni'[s] = 0
    BY <1>3, <1>4, <1>5, <1>8, <1>9, OneEntry
  <2>3. OwedTotal' = OwedTotal - Owed[b] + Owed'[b] /\ OwedTotal \in Int
    BY <1>1, OwedChange
  <2>4. Owed[b] = bill[b].amount /\ Owed'[b] = amount
    BY <1>1, <1>2, OneBillOwed
  <2>5. /\ HeldTotal' = HeldTotal /\ HeldTotal \in Int
        /\ NotInvoicedTotal' = NotInvoicedTotal /\ NotInvoicedTotal \in Int
    BY <1>3, TotalsSame, TotalsTyped
  <2> QED
    BY <1>2, <2>1, <2>2, <2>3, <2>4, <2>5 DEF Books, Totals
<1> QED
  BY <1>11, <1>12, <1>13 DEF Books

\* An approval is nothing to the books.
LEMMA BillApprovalBooks ==
    ASSUME TypeOK, TypeOK', Books, NEW b \in Bill, NEW approval \in BillApproval,
           BillsSetApproval(b, approval)
    PROVE  Books'
<1>1. /\ bill[b] \in BillRow /\ bill'[b] \in BillRow
      /\ bill'[b].amount = bill[b].amount /\ bill'[b].paid = bill[b].paid
      /\ \A y \in Bill \ {b} : bill'[y] = bill[y]
  BY BillApprovalRow
<1>2. UNCHANGED <<order, receipt, payment, credit, apps, entry>>
  BY DEF BillsSetApproval
<1>3. \A y \in Bill : /\ bill'[y] = NoRow <=> bill[y] = NoRow
                      /\ bill[y] # NoRow => bill'[y].amount = bill[y].amount
                      /\ PaidOf(y)' = PaidOf(y) /\ Owed'[y] = Owed[y]
  BY <1>1, RowsAreSome, OneBillOwed DEF PaidOf
<1>4. BillsPosted'
  BY <1>2, <1>3, OrdersStand, BillKept, EntriesAre DEF Books, BillsPosted
<1>5. ReceiptsPosted' /\ PaymentsPosted' /\ CreditsPosted'
  BY <1>2, EntriesAre, ReceiptsKept, PaymentsKept, CreditsKept DEF Books
<1>6. PaidFollows' /\ AppliedFollows'
  BY <1>2, <1>3, PaidKept, AppliedKept DEF Books, AppliedOf
<1>7. OwedTotal' = OwedTotal - Owed[b] + Owed'[b] /\ OwedTotal \in Int /\ Owed[b] \in Int
  BY <1>1, OwedChange
<1>8. Totals'
  BY <1>2, <1>3, <1>7, TotalsSame DEF Books, Totals
<1> QED
  BY <1>4, <1>5, <1>6, <1>8, EntriesAre DEF Books

\* A deleted bill takes its entry along and frees its order.
LEMMA BillDeleteBooks ==
    ASSUME TypeOK, TypeOK', BilledOnce, Books, NEW b \in Bill, BillsDelete(b)
    PROVE  Books'
<1>1. /\ bill[b] \in BillRow /\ bill[b].paid = 0 /\ bill'[b] = NoRow
      /\ \A y \in Bill \ {b} : bill'[y] = bill[y]
      /\ \A o \in Stored(order) : order[o].matched # b
      /\ \A o \in Order : order[o] = NoRow => order'[o] = NoRow
      /\ \A o \in Stored(order) :
            /\ order'[o] \in OrderRow
            /\ order'[o].received = order[o].received
            /\ order'[o].matched = order[o].matched
  BY BillDeleteRow
<1>2. Void(<<"bill", b>>) /\ UNCHANGED <<receipt, payment, credit, apps>>
  BY DEF BillsDelete
<1>3. \A o \in Order : /\ order'[o] = NoRow <=> order[o] = NoRow
                       /\ order[o] # NoRow => /\ order'[o].received = order[o].received
                                              /\ order'[o].matched = order[o].matched
  BY <1>1, RowsAreSome DEF Stored, TypeOK
<1>4. \A y \in Bill : MatchKept(y)
  BY <1>3 DEF MatchKept, Billed
<1>5. \A o \in Order : ~Billed(o, b)
  BY <1>1 DEF Billed, Stored, TypeOK
<1>6. 0 \in Int /\ Clears(b, 0)
  BY <1>5, ClearsIs
<1>7. NotInvoicedTotal' = NotInvoicedTotal + 0
  <2>1. \A o \in Order : NotInvoiced[o] = NotInvoiced'[o]
    BY <1>3, OneNotInvoiced
  <2>2. DOMAIN NotInvoiced = Order /\ DOMAIN NotInvoiced' = Order
    BY DEF NotInvoiced
  <2>3. SumFunction(NotInvoiced) = SumFunction(NotInvoiced')
    BY <2>1, <2>2, FiniteIds, TableSame
  <2> QED
    BY <2>3, TotalsTyped DEF NotInvoicedTotal
<1> QED
  BY <1>1, <1>2, <1>4, <1>6, <1>7, NoBillBooks

\* A payment lowers what is owed and Accounts Payable alike.
LEMMA PayBooks ==
    ASSUME TypeOK, TypeOK', Books, NEW b \in Bill, NEW p \in Payment, NEW amount \in Cents,
           BillsPay(b, p, amount)
    PROVE  Books'
<1> DEFINE s == <<"payment", p>>
<1>1. /\ bill[b] \in BillRow /\ bill'[b] \in BillRow /\ amount \in Nat \ {0}
      /\ bill'[b].amount = bill[b].amount /\ bill'[b].paid = bill[b].paid + amount
      /\ \A y \in Bill \ {b} : bill'[y] = bill[y]
      /\ payment[p] = NoRow
      /\ payment'[p] = [bill |-> b, amount |-> amount] /\ payment'[p] \in PaymentRow
      /\ \A y \in Payment \ {p} : payment'[y] = payment[y]
  BY PayRow
<1>2. /\ bill[b] # NoRow /\ bill'[b] # NoRow /\ payment'[p] # NoRow
      /\ bill[b].paid \in Nat /\ bill[b].amount \in Nat
      /\ payment'[p].bill = b /\ payment'[p].amount = amount
  BY <1>1, RowsAreSome DEF BillRow
<1>3. s \in Slot /\ Post(s, 0 - amount, 0) /\ UNCHANGED <<order, receipt, credit, apps>>
  BY SlotsAre DEF BillsPay
<1>4. entry'[s] = [ap |-> 0 - amount, grni |-> 0] /\ \A y \in Slot \ {s} : entry'[y] = entry[y]
  BY <1>3, PostEntry
<1>5. entry'[s] # NoRow
  <2>1. 0 - amount \in Int
    BY <1>1
  <2>2. [ap |-> 0 - amount, grni |-> 0] \in EntryRow
    BY <2>1 DEF EntryRow
  <2> QED
    BY <1>4, <2>2, RowsAreSome
<1>6. entry[s] = NoRow
  BY <1>1, EntriesAre DEF Books, PaymentsPosted, PaymentEntry
<1>7. PaymentsPosted'
  <2>1. ASSUME NEW y \in Payment PROVE entry'[<<"payment", y>>] = PaymentEntry(y)'
    <3>1. CASE y = p
      BY <1>2, <1>4, <3>1 DEF PaymentEntry
    <3>2. CASE y # p
      BY <1>1, <1>4, <3>2, SlotsDiffer, EntriesAre DEF Books, PaymentsPosted, PaymentEntry
    <3> QED
      BY <3>1, <3>2
  <2> QED
    BY <2>1 DEF PaymentsPosted
<1>8. ReceiptsPosted' /\ CreditsPosted'
  <2>1. /\ \A r \in Receipt : entry'[<<"receipt", r>>] = entry[<<"receipt", r>>]
        /\ \A c \in Credit : /\ entry'[<<"credit", c>>] = entry[<<"credit", c>>]
                             /\ entry'[<<"refund", c>>] = entry[<<"refund", c>>]
    BY <1>4, SlotsDiffer
  <2> QED
    BY <1>3, <2>1, EntriesAre, ReceiptsKept, CreditsKept DEF Books
<1>9. BillsPosted'
  <2>1. ASSUME NEW y \in Bill PROVE BillPosted(y)'
    <3>1. entry'[<<"bill", y>>] = entry[<<"bill", y>>] /\ MatchKept(y)
      BY <1>3, <1>4, SlotsDiffer, OrdersStand
    <3>2. bill'[y] = NoRow <=> bill[y] = NoRow
      BY <1>1, <1>2
    <3>3. bill'[y].amount = bill[y].amount
      BY <1>1
    <3> QED
      BY <3>1, <3>2, <3>3, EntriesAre, BillKept DEF Books, BillsPosted
  <2> QED
    BY <2>1 DEF BillsPosted
<1>10. PaidFollows'
  <2>1. ASSUME NEW y \in Bill
        PROVE  Paid(y)' + Credited(y)' = IF bill'[y] = NoRow THEN 0 ELSE bill'[y].paid
    <3>1. PaidBy(y)[p] = 0 /\ PaidBy(y)'[p] = IF y = b THEN amount ELSE 0
      BY <1>1, <1>2 DEF PaidBy, PaymentsOf, Stored, TypeOK
    <3>2. Paid(y)' = Paid(y) - PaidBy(y)[p] + PaidBy(y)'[p] /\ Paid(y) \in Nat
      BY <1>1, PaidChange
    <3>3. Credited(y)' = Credited(y)
      BY <1>3, CreditedSame
    <3>4. Credited(y) \in Nat
      BY CreditedIsNat
    <3>5. Paid(y) + Credited(y) = IF bill[y] = NoRow THEN 0 ELSE bill[y].paid
      BY DEF Books, PaidFollows
    <3>6. CASE y = b
      BY <1>1, <1>2, <3>1, <3>2, <3>3, <3>4, <3>5, <3>6
    <3>7. CASE y # b
      <4>1. Paid(y)' = Paid(y) /\ bill'[y] = bill[y]
        BY <1>1, <3>1, <3>2, <3>7
      <4> QED
        BY <3>3, <3>5, <4>1
    <3> QED
      BY <3>6, <3>7
  <2> QED
    BY <2>1 DEF PaidFollows
<1>11. AppliedFollows'
  BY <1>3, AppliedKept DEF Books, AppliedOf
<1>12. Totals'
  <2>1. /\ ApTotal' = ApTotal - Ap[s] + Ap'[s] /\ GrniTotal' = GrniTotal - Grni[s] + Grni'[s]
        /\ ApTotal \in Int /\ GrniTotal \in Int
    BY <1>3, <1>4, EntryChange
  <2>2. Ap[s] = 0 /\ Ap'[s] = 0 - amount /\ Grni[s] = 0 /\ Grni'[s] = 0
    BY <1>3, <1>4, <1>5, <1>6, OneEntry
  <2>3. OwedTotal' = OwedTotal - Owed[b] + Owed'[b] /\ OwedTotal \in Int
    BY <1>1, OwedChange
  <2>4. /\ Owed[b] = bill[b].amount - bill[b].paid
        /\ Owed'[b] = bill[b].amount - (bill[b].paid + amount)
    BY <1>1, <1>2, OneBillOwed
  <2>5. /\ HeldTotal' = HeldTotal /\ HeldTotal \in Int
        /\ NotInvoicedTotal' = NotInvoicedTotal /\ NotInvoicedTotal \in Int
    BY <1>3, TotalsSame, TotalsTyped
  <2> QED
    BY <1>1, <1>2, <2>1, <2>2, <2>3, <2>4, <2>5 DEF Books, Totals
<1> QED
  BY <1>7, <1>8, <1>9, <1>10, <1>11, <1>12, EntriesAre DEF Books

\* A payment reversed raises both again.
LEMMA ReversePayBooks ==
    ASSUME TypeOK, TypeOK', Books, NEW b \in Bill, NEW p \in Payment,
           BillsReverseLastPayment(b, p)
    PROVE  Books'
<1> DEFINE s == <<"payment", p>>
           amount == payment[p].amount
<1>1. /\ bill[b] \in BillRow /\ bill'[b] \in BillRow
      /\ bill'[b].amount = bill[b].amount
      /\ bill'[b].paid = Positive(bill[b].paid - amount)
      /\ \A y \in Bill \ {b} : bill'[y] = bill[y]
      /\ payment[p] \in PaymentRow /\ payment[p].bill = b
      /\ payment'[p] = NoRow
      /\ \A y \in Payment \ {p} : payment'[y] = payment[y]
  BY ReversePayRow
<1>2. /\ bill[b] # NoRow /\ bill'[b] # NoRow /\ payment[p] # NoRow
      /\ bill[b].paid \in Nat /\ bill[b].amount \in Nat /\ amount \in Nat
  BY <1>1, RowsAreSome DEF BillRow, PaymentRow
<1>3. s \in Slot /\ Void(s) /\ UNCHANGED <<order, receipt, credit, apps>>
  BY SlotsAre DEF BillsReverseLastPayment
<1>4. entry'[s] = NoRow /\ \A y \in Slot \ {s} : entry'[y] = entry[y]
  BY <1>3, VoidEntry
<1>6. entry[s] = [ap |-> 0 - amount, grni |-> 0] /\ entry[s] # NoRow
  <2>1. 0 - amount \in Int
    BY <1>2
  <2>2. [ap |-> 0 - amount, grni |-> 0] \in EntryRow
    BY <2>1 DEF EntryRow
  <2>3. entry[s] = [ap |-> 0 - amount, grni |-> 0]
    BY <1>2, EntriesAre DEF Books, PaymentsPosted, PaymentEntry
  <2> QED
    BY <2>2, <2>3, RowsAreSome
<1>7. PaymentsPosted'
  <2>1. ASSUME NEW y \in Payment PROVE entry'[<<"payment", y>>] = PaymentEntry(y)'
    <3>1. CASE y = p
      BY <1>1, <1>4, <3>1 DEF PaymentEntry
    <3>2. CASE y # p
      BY <1>1, <1>4, <3>2, SlotsDiffer, EntriesAre DEF Books, PaymentsPosted, PaymentEntry
    <3> QED
      BY <3>1, <3>2
  <2> QED
    BY <2>1 DEF PaymentsPosted
<1>8. ReceiptsPosted' /\ CreditsPosted'
  <2>1. /\ \A r \in Receipt : entry'[<<"receipt", r>>] = entry[<<"receipt", r>>]
        /\ \A c \in Credit : /\ entry'[<<"credit", c>>] = entry[<<"credit", c>>]
                             /\ entry'[<<"refund", c>>] = entry[<<"refund", c>>]
    BY <1>4, SlotsDiffer
  <2> QED
    BY <1>3, <2>1, EntriesAre, ReceiptsKept, CreditsKept DEF Books
<1>9. BillsPosted'
  <2>1. ASSUME NEW y \in Bill PROVE BillPosted(y)'
    <3>1. entry'[<<"bill", y>>] = entry[<<"bill", y>>] /\ MatchKept(y)
      BY <1>3, <1>4, SlotsDiffer, OrdersStand
    <3>2. bill'[y] = NoRow <=> bill[y] = NoRow
      BY <1>1, <1>2
    <3>3. bill'[y].amount = bill[y].amount
      BY <1>1
    <3> QED
      BY <3>1, <3>2, <3>3, EntriesAre, BillKept DEF Books, BillsPosted
  <2> QED
    BY <2>1 DEF BillsPosted
<1>13. \A y \in Bill : /\ PaidBy(y)'[p] = 0
                       /\ PaidBy(y)[p] = IF y = b THEN amount ELSE 0
  BY <1>1, <1>2 DEF PaidBy, PaymentsOf, Stored, TypeOK
<1>14. \A y \in Bill : /\ Paid(y)' = Paid(y) - PaidBy(y)[p] + PaidBy(y)'[p]
                       /\ Paid(y) \in Nat /\ PaidBy(y)[p] <= Paid(y)
                       /\ Credited(y) \in Nat /\ Credited(y)' = Credited(y)
  BY <1>1, <1>3, PaidChange, CreditedIsNat, CreditedSame
<1>15. \A y \in Bill : Paid(y) + Credited(y) = IF bill[y] = NoRow THEN 0 ELSE bill[y].paid
  BY DEF Books, PaidFollows
<1>16. amount <= bill[b].paid /\ bill'[b].paid = bill[b].paid - amount
  <2>1. amount <= bill[b].paid
    BY <1>2, <1>13, <1>14, <1>15
  <2> QED
    BY <1>1, <1>2, <2>1 DEF Positive
<1>10. PaidFollows'
  <2>1. ASSUME NEW y \in Bill
        PROVE  Paid(y)' + Credited(y)' = IF bill'[y] = NoRow THEN 0 ELSE bill'[y].paid
    <3>6. CASE y = b
      BY <1>2, <1>13, <1>14, <1>15, <1>16, <3>6
    <3>7. CASE y # b
      BY <1>1, <1>13, <1>14, <1>15, <3>7
    <3> QED
      BY <3>6, <3>7
  <2> QED
    BY <2>1 DEF PaidFollows
<1>11. AppliedFollows'
  BY <1>3, AppliedKept DEF Books, AppliedOf
<1>12. Totals'
  <2>1. /\ ApTotal' = ApTotal - Ap[s] + Ap'[s] /\ GrniTotal' = GrniTotal - Grni[s] + Grni'[s]
        /\ ApTotal \in Int /\ GrniTotal \in Int
    BY <1>3, <1>4, EntryChange
  <2>2. Ap[s] = 0 - amount /\ Ap'[s] = 0 /\ Grni[s] = 0 /\ Grni'[s] = 0
    BY <1>3, <1>4, <1>6, OneEntry
  <2>3. OwedTotal' = OwedTotal - Owed[b] + Owed'[b] /\ OwedTotal \in Int
    BY <1>1, OwedChange
  <2>4. /\ Owed[b] = bill[b].amount - bill[b].paid
        /\ Owed'[b] = bill[b].amount - (bill[b].paid - amount)
    BY <1>1, <1>2, <1>16, OneBillOwed
  <2>5. /\ HeldTotal' = HeldTotal /\ HeldTotal \in Int
        /\ NotInvoicedTotal' = NotInvoicedTotal /\ NotInvoicedTotal \in Int
    BY <1>3, TotalsSame, TotalsTyped
  <2> QED
    BY <1>2, <2>1, <2>2, <2>3, <2>4, <2>5 DEF Books, Totals
<1> QED
  BY <1>7, <1>8, <1>9, <1>10, <1>11, <1>12, EntriesAre DEF Books

\* Every step of a bill keeps the books.
LEMMA BillStepBooks ==
    ASSUME TypeOK, TypeOK', BilledOnce, Books, NEW b \in Bill, BillStep(b)
    PROVE  Books'
BY BillCreateBooks, BillUpdateBooks, PayBooks, ReversePayBooks, BillApprovalBooks,
   BillDeleteBooks DEF BillStep

-----------------------------------------------------------------------------

\* A credit comes, is refunded, its refund undone, or goes: only its own entries change.
LEMMA CreditBooks ==
    ASSUME TypeOK, TypeOK', Books, UNCHANGED <<order, receipt, bill, payment, apps>>,
           NEW c \in Credit, \A y \in Credit \ {c} : credit'[y] = credit[y],
           NEW s \in {<<"credit", c>>, <<"refund", c>>},
           \A y \in Slot \ {s} : entry'[y] = entry[y],
           entry'[<<"credit", c>>] = CreditEntry(c)', entry'[<<"refund", c>>] = RefundEntry(c)',
           AppliedOf(c)' = AppliedOf(c),
           Grni[s] = 0, Grni'[s] = 0, Ap'[s] - Ap[s] = Held[c] - Held'[c]
    PROVE  Books'
<1>1. s \in Slot
  BY SlotsAre
<1>2. ReceiptsPosted' /\ PaymentsPosted'
  <2>1. /\ \A r \in Receipt : entry'[<<"receipt", r>>] = entry[<<"receipt", r>>]
        /\ \A p \in Payment : entry'[<<"payment", p>>] = entry[<<"payment", p>>]
    BY SlotsDiffer
  <2> QED
    BY <2>1, EntriesAre, ReceiptsKept, PaymentsKept DEF Books
<1>3. CreditsPosted'
  <2>1. ASSUME NEW y \in Credit, y # c
        PROVE  /\ entry'[<<"credit", y>>] = CreditEntry(y)'
               /\ entry'[<<"refund", y>>] = RefundEntry(y)'
    <3>1. /\ entry'[<<"credit", y>>] = entry[<<"credit", y>>]
          /\ entry'[<<"refund", y>>] = entry[<<"refund", y>>]
      BY <2>1, SlotsDiffer
    <3> QED
      BY <2>1, <3>1, EntriesAre DEF Books, CreditsPosted, CreditEntry, RefundEntry
  <2> QED
    BY <2>1 DEF CreditsPosted
<1>4. BillsPosted'
  <2>1. ASSUME NEW b \in Bill PROVE BillPosted(b)'
    <3>1. entry'[<<"bill", b>>] = entry[<<"bill", b>>] /\ MatchKept(b)
      BY SlotsDiffer, OrdersStand
    <3> QED
      BY <3>1, EntriesAre, BillKept DEF Books, BillsPosted
  <2> QED
    BY <2>1 DEF BillsPosted
<1>5. PaidFollows' /\ AppliedFollows'
  <2>1. \A y \in Credit : AppliedOf(y)' = AppliedOf(y)
    BY DEF AppliedOf
  <2> QED
    BY <2>1, PaidKept, AppliedKept DEF Books, PaidOf
<1>6. Totals'
  <2>1. /\ ApTotal' = ApTotal - Ap[s] + Ap'[s] /\ GrniTotal' = GrniTotal - Grni[s] + Grni'[s]
        /\ ApTotal \in Int /\ GrniTotal \in Int /\ Ap[s] \in Int /\ Ap'[s] \in Int
    BY <1>1, EntryChange
  <2>2. HeldTotal' = HeldTotal - Held[c] + Held'[c] /\ HeldTotal \in Int
        /\ Held[c] \in Int /\ Held'[c] \in Int
    BY HeldChange
  <2>3. /\ OwedTotal' = OwedTotal /\ OwedTotal \in Int
        /\ NotInvoicedTotal' = NotInvoicedTotal /\ NotInvoicedTotal \in Int
    BY TotalsSame, TotalsTyped
  <2>4. ApTotal = OwedTotal - HeldTotal /\ GrniTotal = NotInvoicedTotal
    BY DEF Books, Totals
  <2> QED
    BY <2>1, <2>2, <2>3, <2>4 DEF Totals
<1> QED
  BY <1>2, <1>3, <1>4, <1>5, <1>6, EntriesAre DEF Books

\* A new vendor credit is held in full.
LEMMA CreditCreateBooks ==
    ASSUME TypeOK, TypeOK', Books, NEW c \in Credit, NEW total \in Amount,
           CreditNotesCreate(c, total)
    PROVE  Books'
<1> DEFINE s == <<"credit", c>>
<1>1. /\ credit[c] = NoRow
      /\ credit'[c] \in CreditRow /\ credit'[c].total = total
      /\ credit'[c].applied = 0 /\ credit'[c].status = "open" /\ total \in Nat
      /\ \A y \in Credit \ {c} : credit'[y] = credit[y]
  BY CreditCreateRow
<1>2. credit'[c] # NoRow
  BY <1>1, RowsAreSome
<1>3. s \in Slot /\ Post(s, 0 - total, 0) /\ UNCHANGED <<order, receipt, bill, payment, apps>>
  BY SlotsAre DEF CreditNotesCreate
<1>4. entry'[s] = [ap |-> 0 - total, grni |-> 0] /\ \A y \in Slot \ {s} : entry'[y] = entry[y]
  BY <1>3, PostEntry
<1>5. entry'[s] # NoRow
  <2>1. 0 - total \in Int
    BY <1>1
  <2>2. [ap |-> 0 - total, grni |-> 0] \in EntryRow
    BY <2>1 DEF EntryRow
  <2> QED
    BY <1>4, <2>2, RowsAreSome
<1>6. entry[s] = NoRow /\ entry[<<"refund", c>>] = NoRow
  BY <1>1, EntriesAre DEF Books, CreditsPosted, CreditEntry, RefundEntry
<1>7. entry'[<<"credit", c>>] = CreditEntry(c)' /\ entry'[<<"refund", c>>] = RefundEntry(c)'
  BY <1>1, <1>2, <1>4, <1>6, SlotsDiffer DEF CreditEntry, RefundEntry
<1>8. AppliedOf(c)' = AppliedOf(c)
  BY <1>1 DEF AppliedOf
<1>9. Grni[s] = 0 /\ Grni'[s] = 0 /\ Ap[s] = 0 /\ Ap'[s] = 0 - total
  BY <1>3, <1>4, <1>5, <1>6, OneEntry
<1>10. Held[c] = 0 /\ Held'[c] = total
  BY <1>1, <1>2, OneCreditHeld
<1>11. Ap'[s] - Ap[s] = Held[c] - Held'[c]
  BY <1>1, <1>9, <1>10
<1> HIDE DEF s
<1>12. s \in {<<"credit", c>>, <<"refund", c>>}
  BY DEF s
<1> QED
  BY <1>1, <1>3, <1>4, <1>7, <1>8, <1>9, <1>11, <1>12, CreditBooks

\* A refund gives back what was left of the credit, and none is held.
LEMMA RefundBooks ==
    ASSUME TypeOK, TypeOK', Books, NEW c \in Credit, CreditNotesRefund(c)
    PROVE  Books'
<1> DEFINE s == <<"refund", c>>
           rest == credit[c].total - credit[c].applied
<1>1. /\ credit[c] \in CreditRow /\ credit'[c] \in CreditRow
      /\ credit[c].status # "refunded" /\ credit'[c].status = "refunded"
      /\ credit'[c].total = credit[c].total /\ credit'[c].applied = credit[c].applied
      /\ credit[c].total \in Nat
      /\ Remaining(credit[c]) = rest
      /\ \A y \in Credit \ {c} : credit'[y] = credit[y]
  BY RefundRow
<1>2. credit[c] # NoRow /\ credit'[c] # NoRow /\ credit[c].applied \in Nat /\ rest \in Int
  BY <1>1, RowsAreSome DEF CreditRow
<1>3. s \in Slot /\ Post(s, rest, 0) /\ UNCHANGED <<order, receipt, bill, payment, apps>>
  BY <1>1, SlotsAre DEF CreditNotesRefund
<1>4. entry'[s] = [ap |-> rest, grni |-> 0] /\ \A y \in Slot \ {s} : entry'[y] = entry[y]
  BY <1>3, PostEntry
<1>5. entry'[s] # NoRow
  <2>2. [ap |-> rest, grni |-> 0] \in EntryRow
    BY <1>2 DEF EntryRow
  <2> QED
    BY <1>4, <2>2, RowsAreSome
<1>6. entry[s] = NoRow /\ entry[<<"credit", c>>] = [ap |-> 0 - credit[c].total, grni |-> 0]
  BY <1>1, <1>2, EntriesAre DEF Books, CreditsPosted, CreditEntry, RefundEntry
<1>7. entry'[<<"credit", c>>] = CreditEntry(c)' /\ entry'[<<"refund", c>>] = RefundEntry(c)'
  BY <1>1, <1>2, <1>4, <1>6, SlotsDiffer DEF CreditEntry, RefundEntry
<1>8. AppliedOf(c)' = AppliedOf(c)
  BY <1>1, <1>2 DEF AppliedOf
<1>9. Grni[s] = 0 /\ Grni'[s] = 0 /\ Ap[s] = 0 /\ Ap'[s] = rest
  BY <1>3, <1>4, <1>5, <1>6, OneEntry
<1>10. Held[c] = rest /\ Held'[c] = 0
  BY <1>1, <1>2, OneCreditHeld
<1>11. Ap'[s] - Ap[s] = Held[c] - Held'[c]
  BY <1>2, <1>9, <1>10
<1> HIDE DEF s
<1>12. s \in {<<"credit", c>>, <<"refund", c>>}
  BY DEF s
<1> QED
  BY <1>1, <1>3, <1>4, <1>7, <1>8, <1>9, <1>11, <1>12, CreditBooks

\* A refund undone is credit held again.
LEMMA UndoRefundBooks ==
    ASSUME TypeOK, TypeOK', Books, NEW c \in Credit, UndoRefund(c)
    PROVE  Books'
<1> DEFINE s == <<"refund", c>>
           rest == credit[c].total - credit[c].applied
<1>1. /\ credit[c] \in CreditRow /\ credit'[c] \in CreditRow
      /\ credit[c].status = "refunded" /\ credit'[c].status = "open"
      /\ credit'[c].total = credit[c].total /\ credit'[c].applied = credit[c].applied
      /\ \A y \in Credit \ {c} : credit'[y] = credit[y]
  BY UndoRefundRow
<1>2. credit[c] # NoRow /\ credit'[c] # NoRow /\ rest \in Int
  <2>1. credit[c].total \in Amount /\ credit[c].applied \in Nat
    BY <1>1 DEF CreditRow
  <2>2. credit[c].total \in Nat
    BY <2>1, PurchasingAssumption
  <2> QED
    BY <1>1, <2>1, <2>2, RowsAreSome
<1>3. s \in Slot /\ Void(s) /\ UNCHANGED <<order, receipt, bill, payment, apps>>
  BY <1>1, SlotsAre DEF UndoRefund
<1>4. entry'[s] = NoRow /\ \A y \in Slot \ {s} : entry'[y] = entry[y]
  BY <1>3, VoidEntry
<1>6. /\ entry[s] = [ap |-> rest, grni |-> 0]
      /\ entry[<<"credit", c>>] = [ap |-> 0 - credit[c].total, grni |-> 0]
  BY <1>1, <1>2, EntriesAre DEF Books, CreditsPosted, CreditEntry, RefundEntry
<1>5. entry[s] # NoRow
  <2>2. [ap |-> rest, grni |-> 0] \in EntryRow
    BY <1>2 DEF EntryRow
  <2> QED
    BY <1>6, <2>2, RowsAreSome
<1>7. entry'[<<"credit", c>>] = CreditEntry(c)' /\ entry'[<<"refund", c>>] = RefundEntry(c)'
  BY <1>1, <1>2, <1>4, <1>6, SlotsDiffer DEF CreditEntry, RefundEntry
<1>8. AppliedOf(c)' = AppliedOf(c)
  BY <1>1, <1>2 DEF AppliedOf
<1>9. Grni[s] = 0 /\ Grni'[s] = 0 /\ Ap[s] = rest /\ Ap'[s] = 0
  BY <1>3, <1>4, <1>5, <1>6, OneEntry
<1>10. Held[c] = 0 /\ Held'[c] = rest
  BY <1>1, <1>2, OneCreditHeld
<1>11. Ap'[s] - Ap[s] = Held[c] - Held'[c]
  BY <1>2, <1>9, <1>10
<1> HIDE DEF s
<1>12. s \in {<<"credit", c>>, <<"refund", c>>}
  BY DEF s
<1> QED
  BY <1>1, <1>3, <1>4, <1>7, <1>8, <1>9, <1>11, <1>12, CreditBooks

\* A vendor credit nothing was applied of goes with its entry.
LEMMA CreditDeleteBooks ==
    ASSUME TypeOK, TypeOK', Books, NEW c \in Credit, CreditNotesDelete(c)
    PROVE  Books'
<1> DEFINE s == <<"credit", c>>
           total == credit[c].total
<1>1. /\ credit[c] \in CreditRow
      /\ credit[c].status = "open" /\ credit[c].applied = 0
      /\ credit'[c] = NoRow
      /\ \A y \in Credit \ {c} : credit'[y] = credit[y]
  BY CreditDeleteRow
<1>2. credit[c] # NoRow /\ total \in Nat
  BY <1>1, RowsAreSome, PurchasingAssumption DEF CreditRow
<1>3. s \in Slot /\ Void(s) /\ UNCHANGED <<order, receipt, bill, payment, apps>>
  BY <1>1, SlotsAre DEF CreditNotesDelete
<1>4. entry'[s] = NoRow /\ \A y \in Slot \ {s} : entry'[y] = entry[y]
  BY <1>3, VoidEntry
<1>6. entry[s] = [ap |-> 0 - total, grni |-> 0] /\ entry[<<"refund", c>>] = NoRow
  BY <1>1, <1>2, EntriesAre DEF Books, CreditsPosted, CreditEntry, RefundEntry
<1>5. entry[s] # NoRow
  <2>1. 0 - total \in Int
    BY <1>2
  <2>2. [ap |-> 0 - total, grni |-> 0] \in EntryRow
    BY <2>1 DEF EntryRow
  <2> QED
    BY <1>6, <2>2, RowsAreSome
<1>7. entry'[<<"credit", c>>] = CreditEntry(c)' /\ entry'[<<"refund", c>>] = RefundEntry(c)'
  BY <1>1, <1>4, <1>6, SlotsDiffer DEF CreditEntry, RefundEntry
<1>8. AppliedOf(c)' = AppliedOf(c)
  BY <1>1, <1>2 DEF AppliedOf
<1>9. Grni[s] = 0 /\ Grni'[s] = 0 /\ Ap[s] = 0 - total /\ Ap'[s] = 0
  BY <1>3, <1>4, <1>5, <1>6, OneEntry
<1>10. Held[c] = total /\ Held'[c] = 0
  BY <1>1, <1>2, OneCreditHeld
<1>11. Ap'[s] - Ap[s] = Held[c] - Held'[c]
  BY <1>2, <1>9, <1>10
<1> HIDE DEF s
<1>12. s \in {<<"credit", c>>, <<"refund", c>>}
  BY DEF s
<1> QED
  BY <1>1, <1>3, <1>4, <1>7, <1>8, <1>9, <1>11, <1>12, CreditBooks

\* Credit moves between a vendor credit and a bill: no entry, and nothing is lost.
LEMMA MovedCreditBooks ==
    ASSUME TypeOK, TypeOK', Books, UNCHANGED <<order, receipt, payment, entry>>,
           NEW b \in Bill, NEW c \in Credit, NEW delta \in Int,
           bill[b] \in BillRow, bill'[b] \in BillRow,
           bill'[b].amount = bill[b].amount, bill'[b].paid = bill[b].paid + delta,
           \A y \in Bill \ {b} : bill'[y] = bill[y],
           credit[c] \in CreditRow, credit'[c] \in CreditRow,
           credit[c].status # "refunded", credit'[c].status # "refunded",
           credit'[c].total = credit[c].total, credit'[c].applied = credit[c].applied + delta,
           \A y \in Credit \ {c} : credit'[y] = credit[y],
           \A y \in Bill : AppliedTo(c, y)' = AppliedTo(c, y) + (IF y = b THEN delta ELSE 0),
           AllApplied(c)' = AllApplied(c) + delta,
           \A y \in Credit \ {c} : apps'[y] = apps[y]
    PROVE  Books'
<1>1. /\ bill[b] # NoRow /\ bill'[b] # NoRow /\ credit[c] # NoRow /\ credit'[c] # NoRow
      /\ bill[b].amount \in Nat /\ bill[b].paid \in Nat
      /\ credit[c].total \in Nat /\ credit[c].applied \in Nat
  BY RowsAreSome, PurchasingAssumption DEF BillRow, CreditRow
<1>2. ReceiptsPosted' /\ PaymentsPosted'
  BY EntriesAre, ReceiptsKept, PaymentsKept DEF Books
<1>3. CreditsPosted'
  <2>1. ASSUME NEW y \in Credit
        PROVE  CreditEntry(y)' = CreditEntry(y) /\ RefundEntry(y)' = RefundEntry(y)
    <3>1. CASE y = c
      BY <1>1, <3>1 DEF CreditEntry, RefundEntry
    <3>2. CASE y # c
      BY <3>2 DEF CreditEntry, RefundEntry
    <3> QED
      BY <3>1, <3>2
  <2> QED
    BY <2>1, EntriesAre DEF Books, CreditsPosted
<1>4. BillsPosted'
  <2>1. ASSUME NEW y \in Bill PROVE BillPosted(y)'
    <3>1. bill'[y] = NoRow <=> bill[y] = NoRow
      BY <1>1
    <3>2. bill'[y].amount = bill[y].amount /\ MatchKept(y)
      BY OrdersStand
    <3> QED
      BY <3>1, <3>2, EntriesAre, BillKept DEF Books, BillsPosted
  <2> QED
    BY <2>1 DEF BillsPosted
<1>5. PaidFollows'
  <2>1. ASSUME NEW y \in Bill
        PROVE  Paid(y)' + Credited(y)' = IF bill'[y] = NoRow THEN 0 ELSE bill'[y].paid
    <3>1. Paid(y)' = Paid(y)
      BY PaidSame
    <3>2. Paid(y) \in Nat
      BY PaidIsNat
    <3>3. /\ Credited(y)' = Credited(y) - AppliedTo(c, y) + AppliedTo(c, y)'
          /\ Credited(y) \in Nat /\ AppliedTo(c, y) \in Nat
      BY CreditedChange
    <3>4. Credited(y)' = Credited(y) + (IF y = b THEN delta ELSE 0)
      BY <3>3
    <3>5. Paid(y) + Credited(y) = IF bill[y] = NoRow THEN 0 ELSE bill[y].paid
      BY DEF Books, PaidFollows
    <3>6. CASE y = b
      BY <1>1, <3>1, <3>2, <3>3, <3>4, <3>5, <3>6
    <3>7. CASE y # b
      <4>1. Credited(y)' = Credited(y) /\ bill'[y] = bill[y]
        BY <3>3, <3>4, <3>7
      <4> QED
        BY <3>1, <3>5, <4>1
    <3> QED
      BY <3>6, <3>7
  <2> QED
    BY <2>1 DEF PaidFollows
<1>6. AppliedFollows'
  <2>1. ASSUME NEW y \in Credit
        PROVE  AllApplied(y)' = IF credit'[y] = NoRow THEN 0 ELSE credit'[y].applied
    <3>1. AllApplied(y) = IF credit[y] = NoRow THEN 0 ELSE credit[y].applied
      BY DEF Books, AppliedFollows
    <3>2. CASE y = c
      BY <1>1, <3>1, <3>2
    <3>3. CASE y # c
      <4>1. AllApplied(y)' = AllApplied(y)
        BY <3>3, AppliedToIs
      <4> QED
        BY <3>1, <3>3, <4>1
    <3> QED
      BY <3>2, <3>3
  <2> QED
    BY <2>1 DEF AppliedFollows
<1>7. Totals'
  <2>1. OwedTotal' = OwedTotal - Owed[b] + Owed'[b] /\ OwedTotal \in Int
    BY OwedChange
  <2>2. /\ Owed[b] = bill[b].amount - bill[b].paid
        /\ Owed'[b] = bill[b].amount - (bill[b].paid + delta)
    BY <1>1, OneBillOwed
  <2>3. HeldTotal' = HeldTotal - Held[c] + Held'[c] /\ HeldTotal \in Int
    BY HeldChange
  <2>4. /\ Held[c] = credit[c].total - credit[c].applied
        /\ Held'[c] = credit[c].total - (credit[c].applied + delta)
    BY <1>1, OneCreditHeld
  <2>5. /\ ApTotal' = ApTotal /\ GrniTotal' = GrniTotal /\ ApTotal \in Int
        /\ NotInvoicedTotal' = NotInvoicedTotal
    BY TotalsSame, TotalsTyped
  <2> QED
    BY <1>1, <2>1, <2>2, <2>3, <2>4, <2>5 DEF Books, Totals
<1> QED
  BY <1>2, <1>3, <1>4, <1>5, <1>6, <1>7, EntriesAre DEF Books

\* Credit applied to a bill pays it.
LEMMA ApplyBooks ==
    ASSUME TypeOK, TypeOK', Books, NEW c \in Credit, NEW b \in Bill, NEW amount \in Cents,
           CreditNotesApply(c, b, amount)
    PROVE  Books'
<1> DEFINE new == [target |-> b, amount |-> amount]
<1>1. /\ bill[b] \in BillRow /\ bill'[b] \in BillRow /\ amount \in Nat \ {0}
      /\ bill'[b].amount = bill[b].amount /\ bill'[b].paid = bill[b].paid + amount
      /\ \A y \in Bill \ {b} : bill'[y] = bill[y]
      /\ credit[c] \in CreditRow /\ credit'[c] \in CreditRow
      /\ credit[c].status # "refunded" /\ credit'[c].status # "refunded"
      /\ credit'[c].total = credit[c].total
      /\ credit'[c].applied = credit[c].applied + amount
      /\ \A y \in Credit \ {c} : credit'[y] = credit[y]
      /\ new \in Application
      /\ apps'[c] = Append(apps[c], new)
      /\ \A y \in Credit \ {c} : apps'[y] = apps[y]
  BY ApplyRow
<1>2. UNCHANGED <<order, receipt, payment, entry>> /\ amount \in Int /\ apps[c] \in Seq(Application)
  BY <1>1 DEF CreditNotesApply, TypeOK
<1>3. new.target = b /\ new.amount = amount
  OBVIOUS
<1> HIDE DEF new
<1>4. ASSUME NEW y \in Bill
      PROVE  AppliedTo(c, y)' = AppliedTo(c, y) + (IF y = b THEN amount ELSE 0)
  <2>1. /\ AppliedTo(c, y) = SumFunction(AmountsFor(apps[c], y))
        /\ AppliedTo(c, y)' = SumFunction(AmountsFor(apps'[c], y))
    BY AppliedToIs
  <2>2. SumFunction(AmountsFor(Append(apps[c], new), y))
        = SumFunction(AmountsFor(apps[c], y)) + (IF new.target = y THEN new.amount ELSE 0)
    BY <1>1, <1>2, ApplicationAdds
  <2> QED
    BY <1>1, <1>3, <2>1, <2>2
<1>5. AllApplied(c)' = AllApplied(c) + amount
  <2>1. /\ AllApplied(c) = SumFunction(AmountsIn(apps[c]))
        /\ AllApplied(c)' = SumFunction(AmountsIn(apps'[c]))
    BY DEF AllApplied, AmountsIn
  <2>2. \A y : SumFunction(AmountsIn(Append(apps[c], new)))
                = SumFunction(AmountsIn(apps[c])) + new.amount
    BY <1>1, <1>2, ApplicationAdds
  <2>3. SumFunction(AmountsIn(Append(apps[c], new))) = SumFunction(AmountsIn(apps[c])) + amount
    BY <1>3, <2>2
  <2> QED
    BY <1>1, <2>1, <2>3
<1> QED
  BY <1>1, <1>2, <1>4, <1>5, MovedCreditBooks

\* Credit taken back from a bill is held again.
LEMMA UnapplyBooks ==
    ASSUME TypeOK, TypeOK', Books, NEW c \in Credit, Unapply(c)
    PROVE  Books'
<1>1. PICK rest \in Seq(Application), last \in Application :
           LET b == last.target IN
           /\ apps[c] = Append(rest, last) /\ apps'[c] = rest
           /\ \A y \in Credit \ {c} : apps'[y] = apps[y]
           /\ b \in Bill /\ bill[b] \in BillRow /\ bill'[b] \in BillRow
           /\ bill'[b].amount = bill[b].amount
           /\ bill'[b].paid = Positive(bill[b].paid - last.amount)
           /\ \A y \in Bill \ {b} : bill'[y] = bill[y]
           /\ credit[c] \in CreditRow /\ credit'[c] \in CreditRow
           /\ credit[c].status # "refunded" /\ credit'[c].status = "open"
           /\ credit'[c].total = credit[c].total
           /\ credit'[c].applied = Positive(credit[c].applied - last.amount)
           /\ \A y \in Credit \ {c} : credit'[y] = credit[y]
  BY UnapplyRow
<1> DEFINE b == last.target
           amount == last.amount
<1>2. /\ UNCHANGED <<order, receipt, payment, entry>>
      /\ b \in Bill /\ amount \in Nat
      /\ bill[b] # NoRow /\ credit[c] # NoRow
      /\ bill[b].paid \in Nat /\ credit[c].applied \in Nat
  BY <1>1, RowsAreSome DEF Unapply, Application, BillRow, CreditRow
<1> HIDE DEF b, amount
<1>0. /\ apps[c] = Append(rest, last) /\ apps'[c] = rest
      /\ last.target = b /\ last.amount = amount
  BY <1>1 DEF b, amount
<1>3. ASSUME NEW y
      PROVE  /\ AppliedTo(c, y) = AppliedTo(c, y)' + (IF y = b THEN amount ELSE 0)
             /\ AppliedTo(c, y)' \in Nat
  <2>1. /\ SumFunction(AmountsFor(rest, y)) \in Nat
        /\ SumFunction(AmountsFor(Append(rest, last), y))
           = SumFunction(AmountsFor(rest, y)) + (IF last.target = y THEN last.amount ELSE 0)
    BY ApplicationAdds
  <2>2. /\ AppliedTo(c, y) = SumFunction(AmountsFor(apps[c], y))
        /\ AppliedTo(c, y)' = SumFunction(AmountsFor(apps'[c], y))
    BY AppliedToIs
  <2> QED
    BY <1>0, <2>1, <2>2
<1>10. AllApplied(c) = AllApplied(c)' + amount /\ AllApplied(c)' \in Nat
  <2>1. /\ AllApplied(c) = SumFunction(AmountsIn(apps[c]))
        /\ AllApplied(c)' = SumFunction(AmountsIn(apps'[c]))
    BY DEF AllApplied, AmountsIn
  <2>2. /\ SumFunction(AmountsIn(rest)) \in Nat
        /\ SumFunction(AmountsIn(Append(rest, last))) = SumFunction(AmountsIn(rest)) + last.amount
    BY ApplicationAdds
  <2> QED
    BY <1>0, <2>1, <2>2
<1>4. amount <= bill[b].paid
  <2>1. AppliedTo(c, b) <= Credited(b) /\ AppliedTo(c, b) \in Nat /\ Credited(b) \in Nat
    BY <1>1, <1>2, CreditedChange
  <2>2. Paid(b) \in Nat /\ Paid(b) + Credited(b) = bill[b].paid
    BY <1>2, PaidIsNat DEF Books, PaidFollows
  <2>3. amount <= AppliedTo(c, b)
    BY <1>2, <1>3
  <2> QED
    BY <1>2, <2>1, <2>2, <2>3
<1>5. amount <= credit[c].applied
  <2>1. AllApplied(c) = credit[c].applied
    BY <1>2 DEF Books, AppliedFollows
  <2> QED
    BY <1>2, <1>10, <2>1
<1> DEFINE delta == 0 - amount
<1>6. /\ delta \in Int
      /\ bill'[b].paid = bill[b].paid + delta
      /\ credit'[c].applied = credit[c].applied + delta
  <2>1. /\ bill'[b].paid = Positive(bill[b].paid - amount)
        /\ credit'[c].applied = Positive(credit[c].applied - amount)
    BY <1>1 DEF b, amount
  <2>2. ASSUME NEW n \in Nat, amount <= n PROVE Positive(n - amount) = n + delta
    BY <1>2, <2>2 DEF Positive
  <2>3. delta \in Int
    BY <1>2
  <2> QED
    BY <1>2, <1>4, <1>5, <2>1, <2>2, <2>3
<1>7. \A y \in Bill : AppliedTo(c, y)' = AppliedTo(c, y) + (IF y = b THEN delta ELSE 0)
  BY <1>2, <1>3
<1>8. AllApplied(c)' = AllApplied(c) + delta
  BY <1>2, <1>10
<1>9. /\ bill[b] \in BillRow /\ bill'[b] \in BillRow /\ bill'[b].amount = bill[b].amount
      /\ \A y \in Bill \ {b} : bill'[y] = bill[y]
      /\ credit[c] \in CreditRow /\ credit'[c] \in CreditRow
      /\ credit[c].status # "refunded" /\ credit'[c].status # "refunded"
      /\ credit'[c].total = credit[c].total
      /\ \A y \in Credit \ {c} : credit'[y] = credit[y]
      /\ \A y \in Credit \ {c} : apps'[y] = apps[y]
  BY <1>1 DEF b
<1> HIDE DEF delta
<1> QED
  BY <1>2, <1>6, <1>7, <1>8, <1>9, MovedCreditBooks

\* Every step of a vendor credit keeps the books.
LEMMA CreditStepBooks ==
    ASSUME TypeOK, TypeOK', Books, NEW c \in Credit, CreditStep(c)
    PROVE  Books'
BY CreditCreateBooks, ApplyBooks, RefundBooks, UndoRefundBooks, UnapplyBooks, CreditDeleteBooks
   DEF CreditStep, CreditNotesUndoSettlement

-----------------------------------------------------------------------------
(* The invariant *)

\* The inductive invariant: types, goods and stock, and the books.
LEMMA InvariantHolds == Spec => []IInv
<1>1. Init => IInv
  <2> SUFFICES ASSUME Init PROVE IInv
    OBVIOUS
  <2> USE DEF Init
  <2>1. TypeOK
    BY DEF TypeOK
  <2>2. ReceivedFollows
    <3>1. ASSUME NEW o \in Order PROVE Received(o) = 0
      <4>1. DOMAIN ReceivedOn(o) = Receipt /\ \A r \in Receipt : ReceivedOn(o)[r] = 0
        BY DEF ReceivedOn, ReceiptsOf, Stored
      <4> QED
        BY <4>1, FiniteIds, TableZero DEF Received
    <3> QED
      BY <3>1 DEF ReceivedFollows
  <2>3. BilledOnce
    BY DEF BilledOnce, Stored
  <2>4. StockFollows
    BY DEF StockFollows, Has, Stored
  <2>5. EntriesFollow
    BY SlotsAre DEF EntriesFollow, ReceiptEntry, PaymentEntry, CreditEntry, RefundEntry, BillPosted
  <2>6. AppliedFollows /\ \A c \in Credit, b \in Bill : AppliedTo(c, b) = 0
    <3>1. ASSUME NEW c \in Credit, NEW b
          PROVE  AppliedTo(c, b) = 0 /\ AllApplied(c) = 0
      <4>1. DOMAIN AmountsFor(apps[c], b) = {} /\ DOMAIN AmountsIn(apps[c]) = {}
        BY DEF AmountsFor, AmountsIn
      <4>2. IsFiniteSet({})
        BY FS_EmptySet
      <4>3. SumFunction(AmountsFor(apps[c], b)) = 0 /\ SumFunction(AmountsIn(apps[c])) = 0
        BY <4>1, <4>2, TableZero
      <4> QED
        BY <4>3, AppliedToIs
    <3> QED
      BY <3>1 DEF AppliedFollows
  <2>7. PaidFollows
    <3>1. ASSUME NEW b \in Bill PROVE Paid(b) = 0 /\ Credited(b) = 0
      <4>1. /\ DOMAIN PaidBy(b) = Payment /\ \A p \in Payment : PaidBy(b)[p] = 0
            /\ DOMAIN Applied(b) = Credit /\ \A c \in Credit : Applied(b)[c] = 0
        BY <2>6 DEF PaidBy, PaymentsOf, Stored, Applied
      <4> QED
        BY <4>1, FiniteIds, TableZero DEF Paid, Credited
    <3> QED
      BY <3>1 DEF PaidFollows
  <2>8. Totals
    <3>1. /\ DOMAIN Ap = Slot /\ \A s \in Slot : Ap[s] = 0
          /\ DOMAIN Grni = Slot /\ \A s \in Slot : Grni[s] = 0
          /\ DOMAIN Owed = Bill /\ \A b \in Bill : Owed[b] = 0
          /\ DOMAIN Held = Credit /\ \A c \in Credit : Held[c] = 0
          /\ DOMAIN NotInvoiced = Order /\ \A o \in Order : NotInvoiced[o] = 0
      BY DEF Ap, Grni, Owed, Held, NotInvoiced
    <3>2. ApTotal = 0 /\ GrniTotal = 0 /\ OwedTotal = 0 /\ HeldTotal = 0 /\ NotInvoicedTotal = 0
      BY <3>1, FiniteIds, FiniteSlot, TableZero
         DEF ApTotal, GrniTotal, OwedTotal, HeldTotal, NotInvoicedTotal
    <3> QED
      BY <3>2 DEF Totals
  <2> QED
    BY <2>1, <2>2, <2>3, <2>4, <2>5, <2>6, <2>7, <2>8 DEF IInv
<1>2. IInv /\ TypeOK' /\ [Next]_vars => IInv'
  <2> SUFFICES ASSUME IInv, TypeOK', [Next]_vars PROVE IInv'
    OBVIOUS
  <2>1. TypeOK /\ ReceivedFollows /\ BilledOnce /\ StockFollows /\ Books
    BY DEF IInv, Books
  <2>2. CASE UNCHANGED vars
    <3>1. UNCHANGED <<order, receipt, bill, payment, credit, apps, movements, entry>>
      BY <2>2 DEF vars
    <3>2. ReceivedFollows' /\ StockFollows'
      BY <2>1, <3>1, ReceivedKept, StockSame DEF ReceivedOf
    <3>3. BilledOnce'
      BY <2>1, <3>1 DEF BilledOnce, Stored, ReceiptsOf
    <3>4. Books'
      <4>1. \A o \in Order : NotInvoiced'[o] = NotInvoiced[o]
        BY <3>1 DEF NotInvoiced
      <4> QED
        BY <2>1, <3>1, <4>1, OrdersStand, OrderBooks
    <3> QED
      BY <3>2, <3>3, <3>4 DEF IInv, Books
  <2>3. ASSUME NEW o \in Order, OrderStep(o) PROVE IInv'
    BY <2>1, <2>3, OrderStepGoods, OrderStepBooks DEF IInv, Books
  <2>4. ASSUME NEW b \in Bill, BillStep(b) PROVE IInv'
    BY <2>1, <2>4, BillStepGoods, BillStepBooks DEF IInv, Books
  <2>5. ASSUME NEW c \in Credit, CreditStep(c) PROVE IInv'
    BY <2>1, <2>5, CreditStepGoods, CreditStepBooks DEF IInv, Books
  <2> QED
    BY <2>2, <2>3, <2>4, <2>5 DEF Next
<1> QED
  BY <1>1, <1>2, TypeCorrect, PTL DEF Spec

\* An order becomes one bill and a bill comes from one order; a billed order was either
\* received and matched or billed without a receipt.
THEOREM GoodsAreBilledOnce == Spec => []BilledOnce
<1>1. IInv => BilledOnce
  BY DEF IInv
<1> QED
  BY <1>1, InvariantHolds, PTL

\* What a bill says was paid is its payments and the credit applied to it, and Accounts
\* Payable is what the bills owe less the credit still held.
THEOREM PayablesAlwaysAgree == Spec => []PayablesAgree
<1>1. IInv => PayablesAgree
  <2> SUFFICES ASSUME IInv PROVE PayablesAgree
    OBVIOUS
  <2>1. \A b \in Stored(bill) : bill[b].paid = SumFunction(PaidBy(b)) + SumFunction(Applied(b))
    BY DEF IInv, PaidFollows, Paid, Credited, Stored, TypeOK
  <2> QED
    BY <2>1 DEF IInv, Totals, ApTotal, OwedTotal, HeldTotal, PayablesAgree
<1> QED
  BY <1>1, InvariantHolds, PTL

\* Goods Received Not Invoiced is the cost of what came on orders no invoice came for;
\* an order's receipts, what it says was received and the stock agree.
THEOREM GoodsAlwaysAgree == Spec => []GoodsAgree
<1>1. IInv => GoodsAgree
  <2> SUFFICES ASSUME IInv PROVE GoodsAgree
    OBVIOUS
  <2>1. SumFunction(Grni) = SumFunction(NotInvoiced)
    BY DEF IInv, Totals, GrniTotal, NotInvoicedTotal
  <2>2. \A o \in Stored(order) : order[o].received = SumFunction(ReceivedOn(o))
    BY DEF IInv, ReceivedFollows, Received, Stored, TypeOK
  <2>3. ASSUME NEW m
        PROVE  m \in {movements[k] : k \in {j \in DOMAIN movements : movements[j].source[1] = "receipt"}}
               <=> m \in {[source |-> <<"receipt", r>>, quantity |-> receipt[r].quantity] :
                             r \in Stored(receipt)}
    <3>1. (m \in {movements[k] : k \in {j \in DOMAIN movements : movements[j].source[1] = "receipt"}})
          <=> Has(movements, m) /\ m.source[1] = "receipt"
      BY DEF Has
    <3>2. Has(movements, m) => m \in Movement
      BY DEF IInv, TypeOK, Has
    <3>3. ASSUME NEW r \in Stored(receipt)
          PROVE  ReceiptMovement(r) \in Movement /\ ReceiptMovement(r).source[1] = "receipt"
      <4>1. r \in Receipt /\ receipt[r] \in ReceiptRow
        BY DEF IInv, TypeOK, Stored
      <4>2. <<"receipt", r>> \in Source /\ receipt[r].quantity \in Nat
        BY <4>1, SourcesAre DEF ReceiptRow, Quantity
      <4> QED
        BY <4>2 DEF ReceiptMovement, Movement
    <3>4. m \in Movement /\ m.source[1] = "receipt" =>
              (Has(movements, m) <=> \E r \in Stored(receipt) : m = ReceiptMovement(r))
      BY DEF IInv, StockFollows
    <3>5. Has(movements, m) /\ m.source[1] = "receipt"
          <=> \E r \in Stored(receipt) : m = ReceiptMovement(r)
      BY <3>2, <3>3, <3>4
    <3> QED
      BY <3>1, <3>5 DEF ReceiptMovement
  <2> QED
    BY <2>1, <2>2, <2>3 DEF GoodsAgree
<1> QED
  BY <1>1, InvariantHolds, PTL

=============================================================================
