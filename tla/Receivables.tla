----------------------------- MODULE Receivables -----------------------------
(***************************************************************************)
(* What the cloud ledger promises of invoices and bills, without requests, *)
(* keys, locks or retries: a document is issued once, under the next       *)
(* number of its kind; it is paid down, never below nothing; and it is     *)
(* voided once, if nobody ever paid any of it.                             *)
(***************************************************************************)
EXTENDS Integers

CONSTANTS Doc, Kind

VARIABLES
    kind,    \* what each document is, "none" until it is issued
    number,  \* the number it carries
    owed,    \* what the ledger says is still owed on it
    paid,    \* what the ledger says was paid on it
    voided   \* the documents taken back

receivables == <<kind, number, owed, paid, voided>>

Issued == {d \in Doc : kind[d] # "none"}
Numbers(k) == {number[d] : d \in {o \in Doc : kind[o] = k}}

Init ==
    /\ kind = [d \in Doc |-> "none"]
    /\ number = [d \in Doc |-> 0]
    /\ owed = [d \in Doc |-> 0]
    /\ paid = [d \in Doc |-> 0]
    /\ voided = {}

\* The number is the one after those taken, which are 1, 2, ... without a gap.
\* Totals and payments are any positive amounts, read off the next state.
Issue(d, k) ==
    /\ d \notin Issued
    /\ kind' = [kind EXCEPT ![d] = k]
    /\ number'[d] > 0
    /\ Numbers(k) = 1..(number'[d] - 1)
    /\ number' = [number EXCEPT ![d] = number'[d]]
    /\ owed'[d] > 0
    /\ owed' = [owed EXCEPT ![d] = owed'[d]]
    /\ UNCHANGED <<paid, voided>>

Pay(d) ==
    /\ d \in Issued \ voided
    /\ owed'[d] \in 0..(owed[d] - 1)
    /\ owed' = [owed EXCEPT ![d] = owed'[d]]
    /\ paid' = [paid EXCEPT ![d] = @ + owed[d] - owed'[d]]
    /\ UNCHANGED <<kind, number, voided>>

Void(d) ==
    /\ d \in Issued \ voided
    /\ paid[d] = 0
    /\ owed' = [owed EXCEPT ![d] = 0]
    /\ voided' = voided \cup {d}
    /\ UNCHANGED <<kind, number, paid>>

Next == \E d \in Doc : Pay(d) \/ Void(d) \/ \E k \in Kind : Issue(d, k)

Spec == Init /\ [][Next]_receivables
=============================================================================
