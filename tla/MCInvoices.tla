------------------------------ MODULE MCInvoices ------------------------------
(***************************************************************************)
(* Small instances of Invoices for TLC.                                    *)
(***************************************************************************)
EXTENDS Invoices, TLC

Sym == Permutations(Invoice) \cup Permutations(Note)
=============================================================================
