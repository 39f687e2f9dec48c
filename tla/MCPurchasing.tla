---------------------------- MODULE MCPurchasing ----------------------------
(***************************************************************************)
(* Small instances of Purchasing for TLC.                                  *)
(***************************************************************************)
EXTENDS Purchasing, TLC

Sym == Permutations(Order) \cup Permutations(Receipt) \cup Permutations(Bill)
       \cup Permutations(Payment)
=============================================================================
