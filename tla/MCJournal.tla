------------------------------ MODULE MCJournal ------------------------------
(***************************************************************************)
(* Small instances of Journal for TLC.  Each run picks the inputs its      *)
(* question needs: the entries' lines, the reversal dates, the periods.    *)
(***************************************************************************)
EXTENDS JournalBook, TLC

CONSTANTS q1, q2

Sym == Permutations(Entry)

\* Day one is the month that can be locked, day two comes after it.
TwoDays == 1..2
MonthOne == [p \in Period |-> {1}]
\* Two one-day reporting periods and the long one that covers both.
DayEach == [q \in Quarter |-> CASE q = q1 -> {1} [] q = q2 -> {2} [] OTHER -> {1, 2}]
NoDays == [q \in Quarter |-> {}]

\* Lines at the threshold, a draft that does not balance yet, one of zero amounts.
Plain(a) == [dr |-> a, cr |-> a, tax |-> "none"]
Uneven == [dr |-> 2, cr |-> 1, tax |-> "none"]
Zeroes == [dr |-> 0, cr |-> 0, tax |-> "none"]
Taxed(kind) == [dr |-> 1, cr |-> 1, tax |-> kind]

ApprovalLines == {Plain(2), Uneven, Zeroes}
LockLines == {Plain(1)}
FilingLines == {Plain(1), Taxed("split")}

NeverGated == {ByReference}
AlwaysGated == {[manual |-> TRUE, referenced |-> FALSE]}
ManualOrigins == AlwaysGated \cup {ByReference}
=============================================================================
