CONSTANTS
    Entry = {e1, e2, e3}
    Date <- TwoDays
    LineSet <- LockLines
    Origin <- NeverGated
    Period = {p1}
    PeriodDays <- MonthOne
    Quarter = {}
    QuarterDays <- NoDays
    Threshold = {NoThreshold}
    NoThreshold = NoThreshold
    NoEntry = NoEntry
    NoDate = NoDate
    q1 = q1
    q2 = q2
SPECIFICATION Spec
SYMMETRY Sym
INVARIANTS TypeOK MirrorBelongs
PROPERTIES LockedPeriodSealed ReconciledStays
