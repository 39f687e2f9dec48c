-------------------------------- MODULE Stock --------------------------------
(***************************************************************************)
(* The stock of one product in the desktop program: its movements, their   *)
(* valuation at moving weighted average cost                               *)
(* (src/src/shared/domain/inventory/inventoryValuation.ts) and what the    *)
(* handlers that move stock post to the product's Inventory Asset account  *)
(* (src/src/main/ipc/inventory.handlers.ts, bills.handlers.ts,             *)
(* purchaseOrders.handlers.ts, invoices.handlers.ts,                       *)
(* salesReceipts.handlers.ts).                                             *)
(*                                                                         *)
(* Every handler writes the movement and its entry in one transaction.     *)
(* Quantities are whole units.  What the documents post elsewhere, tax,    *)
(* locked periods and reconciled lines are left out; an entry that moves   *)
(* stock cannot be voided but with its movement.                           *)
(***************************************************************************)
EXTENDS Integers, FiniteSets, Functions

CONSTANTS
    Day,           \* the dates a movement may have
    Quantity,      \* the quantities moved at once
    UnitCost,      \* the unit costs typed on the stock screen, in cents
    Cents,         \* the cost of a line of a bill or of goods received
    MaxMovements   \* bound: ids of inventory_movements used up

ASSUME StockAssumption ==
    /\ Day \subseteq Nat
    /\ Quantity \subseteq Nat \ {0}
    /\ UnitCost \subseteq Nat
    /\ Cents \subseteq Nat \ {0}
    /\ MaxMovements \in Nat

VARIABLES
    moves,     \* table inventory_movements, each with the amount of its entry
    nextId,    \* its autoincrement
    straight   \* history: movements only ever came and went at the end

vars == <<moves, nextId, straight>>

-----------------------------------------------------------------------------
(* Rows and their valuation *)

\* source_document_type, "none" for a movement from the stock screen.
Source == {"none", "bill", "purchaseOrderReceipt", "invoice", "salesReceipt"}

\* unitCost is 0 on the way out, where the column is null; posted is 0 when
\* there is no journal entry.
Movement == [date: Day, delta: Int \ {0}, unitCost: Nat, posted: Nat,
             source: Source]

\* Math.round(p / q) of what is not negative.
Rounded(p, q) == (2 * p + q) \div (2 * q)

\* The order of valueProduct: by date, then by id.
Earlier(rows, i, j) ==
    rows[i].date < rows[j].date \/ (rows[i].date = rows[j].date /\ i < j)

Preceding(rows, i) == {j \in DOMAIN rows : Earlier(rows, j, i)}

Latest(rows, S) == CHOOSE i \in S : \A j \in S \ {i} : Earlier(rows, j, i)

Upto(rows, date) ==
    [i \in {j \in DOMAIN rows : rows[j].date <= date} |-> rows[i]]

Nothing == [quantity |-> 0, value |-> 0, cogs |-> 0, wentNegative |-> FALSE]

\* What so many units cost at the average in force.
AtAverage(v, units) ==
    IF v.quantity > 0 THEN Rounded(units * v.value, v.quantity) ELSE 0

\* Units that fill a deficit left by older files carry no value.
Inbound(v, m) ==
    LET quantity == v.quantity + m.delta
        adding == IF v.quantity >= 0 THEN m.delta
                  ELSE IF quantity > 0 THEN quantity ELSE 0
    IN [v EXCEPT !.quantity = quantity,
                 !.value = IF quantity <= 0 THEN 0
                           ELSE @ + adding * m.unitCost]

\* A slip: the average is taken over what is left.
SlipOutbound(v, m) ==
    LET quantity == v.quantity + m.delta
        cost == AtAverage([v EXCEPT !.quantity = quantity], -m.delta)
    IN [quantity |-> quantity,
        value |-> IF quantity <= 0 THEN 0 ELSE v.value - cost,
        cogs |-> v.cogs + cost,
        wentNegative |-> v.wentNegative \/ quantity < 0]

Outbound(v, m) ==
    LET quantity == v.quantity + m.delta
        cost == AtAverage(v, -m.delta)
    IN [quantity |-> quantity,
        value |-> IF quantity <= 0 THEN 0 ELSE v.value - cost,
        cogs |-> v.cogs + cost,
        wentNegative |-> v.wentNegative \/ quantity < 0]

Step(v, m) == IF m.delta > 0 THEN Inbound(v, m) ELSE Outbound(v, m)

\* valueProduct, of what is left of the rows after the caller's filter: one
\* step for each row, the latest on what came of all the others.
ValueProduct(rows) ==
    LET valued[S \in SUBSET DOMAIN rows] ==
            IF S = {} THEN Nothing
            ELSE LET last == Latest(rows, S)
                 IN Step(valued[S \ {last}], rows[last])
    IN valued[DOMAIN rows]

\* inventoryStatus, for the one product.
InventoryStatus(date) == ValueProduct(Upto(moves, date))

-----------------------------------------------------------------------------
(* The handlers *)

TypeOK ==
    /\ nextId \in 1..(MaxMovements + 1)
    /\ DOMAIN moves \subseteq 1..(nextId - 1)
    /\ moves \in [DOMAIN moves -> Movement]
    /\ straight \in BOOLEAN

Init ==
    /\ moves = [i \in {} |-> 0]
    /\ nextId = 1
    /\ straight = TRUE

\* Whether going from one table to another left alone what is before the end:
\* the rows that stay have the same rows before them in both.
AtTheEnd(before, after) ==
    \A i \in DOMAIN before \cap DOMAIN after :
        Preceding(before, i) = Preceding(after, i)

Becomes(rows) ==
    /\ moves' = rows
    /\ straight' = (straight /\ AtTheEnd(moves, rows))

With(rows, m) == [i \in DOMAIN rows \cup {nextId} |-> IF i = nextId THEN m ELSE rows[i]]
Without(id) == [i \in DOMAIN moves \ {id} |-> moves[i]]

Insert(rows, m) ==
    /\ nextId <= MaxMovements
    /\ nextId' = nextId + 1
    /\ Becomes(With(rows, m))

Take(id) == Becomes(Without(id)) /\ UNCHANGED nextId

\* Stock counted, bought or found on the stock screen.
MovementsCreateIn(date, quantity, unitCost) ==
    Insert(moves, [date |-> date, delta |-> quantity, unitCost |-> unitCost,
                   posted |-> quantity * unitCost, source |-> "none"])

\* A slip: stock that came on the day itself is overlooked.
SlipPrior(date) == Upto(moves, date - 1)

\* What a movement of the stock screen may draw on: what came no later.
Prior(date) == Upto(moves, date)

\* A slip: the credit to the asset account is kept as a negative debit.
SlipIssue(prior, date, quantity, source) ==
    LET before == ValueProduct(prior) IN
    /\ quantity <= before.quantity
    /\ Insert(moves, [date |-> date, delta |-> -quantity, unitCost |-> 0,
                      posted |-> -AtAverage(before, quantity), source |-> source])

Issue(prior, date, quantity, source) ==
    LET before == ValueProduct(prior) IN
    /\ quantity <= before.quantity
    /\ Insert(moves, [date |-> date, delta |-> -quantity, unitCost |-> 0,
                      posted |-> AtAverage(before, quantity), source |-> source])

\* Stock written off, or sold by an invoice that was recorded without it.
MovementsCreateOut(date, quantity) == Issue(Prior(date), date, quantity, "none")

\* Stock sold by an invoice or a sales receipt: all movements count as prior.
Sell(date, quantity, source) ==
    source \in {"invoice", "salesReceipt"} /\ Issue(moves, date, quantity, source)

\* Stock on a bill's line, or received on a purchase order: the entry has the
\* cost of the line, the movement the cost of a unit in whole cents.
Bought(date, quantity, cents, source) ==
    [date |-> date, delta |-> quantity, unitCost |-> Rounded(cents, quantity),
     posted |-> cents, source |-> source]

Buy(date, quantity, cents, source) ==
    /\ source \in {"bill", "purchaseOrderReceipt"}
    /\ Insert(moves, Bought(date, quantity, cents, source))

\* The newest movement of a bill may be corrected with the bill, on a new row.
BillsUpdate(id, date, quantity, cents) ==
    /\ moves[id].source = "bill"
    /\ \A j \in DOMAIN moves : j <= id
    /\ Insert(Without(id), Bought(date, quantity, cents, "bill"))

\* A bill is deleted, the latest receipt of an order reversed, or a sales
\* receipt deleted: the movement goes whatever came after it.
Withdraw(id) ==
    /\ moves[id].source \in {"bill", "purchaseOrderReceipt", "salesReceipt"}
    /\ Take(id)

MovementsDelete(id) == moves[id].posted = 0 /\ Take(id)

MovementsReverse(id) ==
    moves[id].posted # 0 /\ moves[id].source = "none" /\ Take(id)

\* journalUpdateDate on the movement's entry, or salesReceiptsChangeDate.
Redate(id, date) ==
    /\ \/ moves[id].posted # 0 /\ moves[id].source # "purchaseOrderReceipt"
       \/ moves[id].source = "salesReceipt"
    /\ moves[id].date # date
    /\ Becomes([moves EXCEPT ![id].date = date])
    /\ UNCHANGED nextId

Next ==
    \/ \E date \in Day, quantity \in Quantity :
        \/ \E c \in UnitCost : MovementsCreateIn(date, quantity, c)
        \/ MovementsCreateOut(date, quantity)
        \/ \E s \in Source : Sell(date, quantity, s)
        \/ \E c \in Cents, s \in Source : Buy(date, quantity, c, s)
        \/ \E c \in Cents, i \in DOMAIN moves : BillsUpdate(i, date, quantity, c)
    \/ \E i \in DOMAIN moves :
        \/ Withdraw(i)
        \/ MovementsDelete(i)
        \/ MovementsReverse(i)
        \/ \E date \in Day : Redate(i, date)

Spec == Init /\ [][Next]_vars

-----------------------------------------------------------------------------
(* Properties *)

AssetBalance ==
    SumFunction([i \in DOMAIN moves |-> IF moves[i].delta > 0 THEN moves[i].posted
                                       ELSE -moves[i].posted])

\* Every cost is a whole number of cents a unit: the column holds no fraction.
WholeCents ==
    \A i \in DOMAIN moves :
        moves[i].delta > 0 => moves[i].posted = moves[i].delta * moves[i].unitCost

\* As long as movements come and go at the end of the history, the stock never
\* runs short and the Inventory Asset account holds, cent for cent, what the
\* stock report says: each handler rounds as the valuation does, which replays
\* all of them (movementsCreate, writeInvoiceLinesAndStock, valueProduct).
StockAgrees ==
    straight /\ WholeCents =>
        LET v == ValueProduct(moves) IN
        AssetBalance = v.value /\ ~v.wentNegative

\* The stock report as of any day, of any history: nothing on hand is worth
\* nothing, no stock has a negative value, and unless stock ran short every
\* cent paid is either still on the shelf or was charged to cost of goods sold
\* once (valueProduct, inventoryStatus).
CostsConserved ==
    \A date \in Day :
        LET v == InventoryStatus(date)
            paid == SumFunction([i \in DOMAIN Upto(moves, date) |->
                                   IF moves[i].delta > 0
                                   THEN moves[i].delta * moves[i].unitCost ELSE 0])
        IN /\ v.value >= 0
           /\ v.quantity <= 0 => v.value = 0
           /\ ~v.wentNegative => v.value + v.cogs = paid

=============================================================================
