SPECIFICATION Spec
CONSTANTS
    t1 = t1
    t2 = t2
    a = a
    Token = {t1, t2}
    Member = {t2}
    Name = {a}
    MaxFile = 2
    MaxWait = 1
    Null = Null
    NoRow = NoRow
INVARIANTS TypeOK OpenIsOnDisk
PROPERTIES ForgottenStaysOut NothingBeyondReach UpgradedOnlyWithCopy
