CONSTANTS
    Order = {o1}
    Receipt = {r1, r2}
    Bill = {b1, b2}
    Payment = {p1, p2}
    Credit = {c1}
    Amount = {2}
    MaxQuantity = 2
    BillQuantity = {1}
    Threshold = 2
    NoRow = NoRow
SYMMETRY Sym
SPECIFICATION Spec
INVARIANTS TypeOK PayablesAgree GoodsAgree BilledOnce ApprovedFigure
