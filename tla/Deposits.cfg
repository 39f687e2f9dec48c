CONSTANTS
    Invoice = {i1}
    Note = {}
    Deposit = {d1}
    Receipt = {s1}
    MaxPayment = 2
    MaxDay = 2
    Amount = {1, 2}
    NoRow = NoRow
SPECIFICATION Spec
INVARIANTS DatesFollow
PROPERTIES BankedStays ClosedMonthSealed
