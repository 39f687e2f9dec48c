CONSTANTS
    Day = {1, 2}
    Quantity = {1, 2, 3}
    UnitCost = {0, 1}
    Cents = {2, 3}
    MaxMovements = 3
SPECIFICATION Spec
INVARIANTS TypeOK StockAgrees CostsConserved
CHECK_DEADLOCK FALSE
