CONSTANTS
    Entry = {e1, e2, e3}
    Date <- TwoDays
    LineSet <- FilingLines
    Origin <- NeverGated
    Period = {}
    PeriodDays <- MonthOne
    Quarter = {q1, q2, q3}
    QuarterDays <- DayEach
    Threshold = {NoThreshold}
    NoThreshold = NoThreshold
    NoEntry = NoEntry
    NoDate = NoDate
    q1 = q1
    q2 = q2
SPECIFICATION Spec
SYMMETRY Sym
INVARIANTS FilingBacked
PROPERTIES FiledReturnSealed KeepsTheBook
