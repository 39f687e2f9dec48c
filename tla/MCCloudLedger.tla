---------------------------- MODULE MCCloudLedger ----------------------------
(***************************************************************************)
(* Small instances of CloudLedger for TLC.                                 *)
(***************************************************************************)
EXTENDS CloudReceivables, TLC

Sym == Permutations(Request) \cup Permutations(Key)

OneDoc == 1..1
TwoDocs == 1..2
OneDay == 1..1
TwoDays == 1..2

Asks(op, kind, doc, amount, date, supplier) ==
    [op |-> op, kind |-> kind, doc |-> doc, amount |-> amount, date |-> date,
     supplier |-> supplier, accounts |-> {}]

\* An invoice of two, its payment in one or two parts, and its void.
InvoiceBodies == {Asks("issue", "invoice", NoDoc, 2, 1, "none"),
                  Asks("pay", "invoice", 1, 1, 1, "none"),
                  Asks("pay", "invoice", 1, 2, 1, "none"),
                  Asks("void", "invoice", 1, 1, 1, "none")}

\* A supplier's bill, its payment from one account with money, and a journal and a
\* transfer between two.
On(body, accounts) == [body EXCEPT !.accounts = accounts]

BillBodies == {Asks("issue", "bill", NoDoc, 1, 1, "s1"),
               On(Asks("pay", "bill", 1, 1, 1, "none"), {CHOOSE a \in Account : TRUE}),
               On(Asks("journal", "none", NoDoc, 1, 1, "none"), Account),
               On(Asks("transfer", "none", NoDoc, 1, 1, "none"), Account)}

\* An invoice of one, voided as of the day it was issued.
VoidBodies == {Asks("issue", "invoice", NoDoc, 1, 1, "none"),
               Asks("void", "invoice", 1, 1, 1, "none")}
=============================================================================
