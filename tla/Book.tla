--------------------------------- MODULE Book ---------------------------------
(***************************************************************************)
(* What a journal promises, without drafts, dates, locks or approvals: an  *)
(* entry enters the book once, with the amount it keeps for good, alone or *)
(* together with the entry that undoes it; it may be withdrawn; and it may *)
(* be forgotten, but never from under an entry that undoes it.             *)
(***************************************************************************)
EXTENDS Naturals

CONSTANTS Entry, NoEntry

VARIABLES
    standing,  \* where each entry stands
    amount,    \* what an entry in the book, or withdrawn from it, moves
    undoes     \* the entry it takes back, if it is a reversal

book == <<standing, amount, undoes>>

Standing == {"out", "in", "withdrawn", "gone"}

In == {e \in Entry : standing[e] = "in"}
Written == {e \in Entry : standing[e] \in {"in", "withdrawn"}}

Init ==
    /\ standing = [e \in Entry |-> "out"]
    /\ amount = [e \in Entry |-> 0]
    /\ undoes = [e \in Entry |-> NoEntry]

\* The amount is any positive one; it is read off the next state.
Enter(e) ==
    /\ standing[e] = "out"
    /\ standing' = [standing EXCEPT ![e] = "in"]
    /\ amount'[e] \in Nat \ {0}
    /\ amount' = [amount EXCEPT ![e] = amount'[e]]
    /\ UNCHANGED undoes

EnterUndone(e, m) ==
    /\ e # m
    /\ standing[e] = "out"
    /\ standing[m] = "out"
    /\ standing' = [standing EXCEPT ![e] = "in", ![m] = "in"]
    /\ amount'[e] \in Nat \ {0}
    /\ amount' = [amount EXCEPT ![e] = amount'[e], ![m] = amount'[e]]
    /\ undoes' = [undoes EXCEPT ![m] = e]

\* One entry, or one and what undoes it.
Withdraw(e, withdrawn) ==
    /\ withdrawn \subseteq In
    /\ \A m \in withdrawn \ {e} : undoes[m] = e
    /\ standing' = [x \in Entry |-> IF x \in withdrawn THEN "withdrawn" ELSE standing[x]]
    /\ UNCHANGED <<amount, undoes>>

Forget(e) ==
    /\ standing[e] \in {"out", "withdrawn"}
    /\ \A m \in Written : undoes[m] # e
    /\ standing' = [standing EXCEPT ![e] = "gone"]
    /\ amount' = [amount EXCEPT ![e] = 0]
    /\ undoes' = [undoes EXCEPT ![e] = NoEntry]

Next ==
    \E e \in Entry :
        \/ Enter(e)
        \/ \E m \in Entry : EnterUndone(e, m)
        \/ \E withdrawn \in SUBSET Entry : Withdraw(e, withdrawn)
        \/ Forget(e)

Spec == Init /\ [][Next]_book
=============================================================================
