CONSTANTS
    Request = {r1, r2, r3, r4}
    Key = {k1, k2}
    Body <- InvoiceBodies
    Doc <- TwoDocs
    Kind = {"invoice"}
    Supplier = {"s1"}
    Day <- TwoDays
    Account = {}
    NoRequest = NoRequest
    NoKey = NoKey
    NoDoc = NoDoc
    NoBody = NoBody
SPECIFICATION Spec
SYMMETRY Sym
INVARIANTS TypeOK SubledgerAgrees OkMeansDone
PROPERTIES OncePerKey KeepsReceivables
