CONSTANTS
    Request = {r1, r2}
    Key = {k1, k2}
    Body <- VoidBodies
    Doc <- TwoDocs
    Kind = {"invoice"}
    Supplier = {"s1"}
    Day <- TwoDays
    Account = {}
    NoRequest = NoRequest
    NoKey = NoKey
    NoDoc = NoDoc
    NoBody = NoBody
SPECIFICATION Spec
INVARIANT TaxFollowsLedger
