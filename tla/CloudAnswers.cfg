CONSTANTS
    Request = {r1, r2, r3}
    Key = {k1, k2}
    Body <- BillBodies
    Doc <- OneDoc
    Kind = {"bill"}
    Supplier = {"s1"}
    Day <- OneDay
    Account = {bank, card}
    NoRequest = NoRequest
    NoKey = NoKey
    NoDoc = NoDoc
    NoBody = NoBody
SPECIFICATION FairSpec
INVARIANT CirclesNeedTransfer
PROPERTY Answered
