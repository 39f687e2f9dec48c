CONSTANTS
    Invoice = {i1, i2}
    Note = {n1, n2}
    Deposit = {}
    Receipt = {}
    MaxPayment = 2
    MaxDay = 1
    Amount = {1, 2}
    NoRow = NoRow
SPECIFICATION Spec
SYMMETRY Sym
INVARIANTS TypeOK ReceivablesAgree PaidIsBacked
