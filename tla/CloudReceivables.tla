--------------------------- MODULE CloudReceivables ---------------------------
(***************************************************************************)
(* The cloud ledger as receivables: what a document is and its number are  *)
(* read from its row, what is owed and paid from the ledger.               *)
(***************************************************************************)
EXTENDS CloudLedger

KindOf == [d \in Doc |-> document[d].kind]
NumberOf == [d \in Doc |-> document[d].number]
OwedOf == [d \in Doc |-> ledger[d].owed]
PaidOf == [d \in Doc |-> ledger[d].paid]
Voided == {d \in Doc : document[d].status = "voided"}

Promised == INSTANCE Receivables WITH
    kind <- KindOf,
    number <- NumberOf,
    owed <- OwedOf,
    paid <- PaidOf,
    voided <- Voided

\* Requests that interleave statement by statement, fail, race and retry do to the
\* ledger what whole documents would, one at a time: numbers follow each other
\* without a gap (createSalesInvoice, createVendorBill), no document is paid beyond
\* its total, and none is voided that anybody paid.
KeepsReceivables == Promised!Spec
=============================================================================
