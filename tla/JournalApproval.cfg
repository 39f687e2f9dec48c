CONSTANTS
    Entry = {e1, e2}
    Date <- TwoDays
    LineSet <- ApprovalLines
    Origin <- ManualOrigins
    Period = {}
    PeriodDays <- MonthOne
    Quarter = {}
    QuarterDays <- NoDays
    Threshold = {2, NoThreshold}
    NoThreshold = NoThreshold
    NoEntry = NoEntry
    NoDate = NoDate
    q1 = q1
    q2 = q2
SPECIFICATION Spec
SYMMETRY Sym
INVARIANTS BooksBalance
PROPERTIES PostsWhole
