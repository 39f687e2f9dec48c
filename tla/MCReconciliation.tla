--------------------------- MODULE MCReconciliation ---------------------------
(***************************************************************************)
(* Small instances of Reconciliation for TLC.                              *)
(***************************************************************************)
EXTENDS Reconciliation, TLC

Sym == Permutations(Line) \cup Permutations(Window)

ReconThree == 1..3
TwoDays == 1..2

\* Deposits of one, and the balances one or none of them add up to.
Deposits == {1}
SmallBalances == 0..1
=============================================================================
