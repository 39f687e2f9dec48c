---------------------------- MODULE Reconciliation ----------------------------
(***************************************************************************)
(* Bank reconciliation of one account (main/ipc/bankReconciliation.        *)
(* handlers.ts), the windows that tick its lines                           *)
(* (renderer/features/bank-reconciliation), and the journal handlers that  *)
(* touch a line meanwhile (main/ipc/journal.handlers.ts).                  *)
(*                                                                         *)
(* A handler runs to its end before the next one starts.  What is stale is *)
(* the window: it ticks lines of the lists its last call returned, while   *)
(* other windows void, redate or delete entries and move the statements    *)
(* on.  The account is debit-normal; a credit-normal one negates.          *)
(*                                                                         *)
(* An operator named Slip... is no part of the model: it is a definition   *)
(* with one mistake in it, that some property has to notice.               *)
(***************************************************************************)
EXTENDS Integers, FiniteSetsExt

CONSTANTS
    Line,      \* lines on the account, one per journal entry
    Recon,     \* reconciliation ids: AUTOINCREMENT, so 1, 2, ... in order
    Window,    \* windows with the reconciliation page open
    Day,       \* entry and statement dates
    Net,       \* debit minus credit of a line
    Ending,    \* ending balances a statement can show
    NoRecon    \* a null reconciliation id

ASSUME ReconciliationAssumption ==
    /\ Recon \subseteq Nat
    /\ IsFiniteSet(Line)
    /\ Day \subseteq Nat
    /\ Day # {}
    /\ Net \subseteq Int
    /\ Ending \subseteq Int
    /\ NoRecon \notin Recon

VARIABLES
    line,   \* the entries and their line on the account
    recon,  \* the bank_reconciliations rows
    shown   \* the detail each window holds from its last call

vars == <<line, recon, shown>>

LineRow == [status: {"absent", "posted", "void", "deleted"}, date: Day, net: Int,
            owner: Recon \cup {NoRecon}]
ReconRow == [status: {"absent", "inProgress", "completed", "abandoned"}, date: Day,
             start: Int, end: Int]
Detail == [recon: Recon \cup {NoRecon}, cleared: SUBSET Line, uncleared: SUBSET Line]

Kept == {r \in Recon : recon[r].status \in {"inProgress", "completed"}}
Open == {r \in Recon : recon[r].status = "inProgress"}
Completed == {r \in Recon : recon[r].status = "completed"}
Posted == {l \in Line : line[l].status = "posted"}
Present == {l \in Line : line[l].status \in {"posted", "void"}}
Ticked(l) == line[l].owner # NoRecon

ClearedLines(r) == {l \in Present : line[l].owner = r}

UnclearedPostedLines(throughDate) ==
    {l \in Posted : ~Ticked(l) /\ line[l].date <= throughDate}

NetOf(lines) == MapThenSumSet(LAMBDA l : line[l].net, lines)

ClearedBalance(r) == recon[r].start + NetOf(ClearedLines(r))

Difference(r) == ClearedBalance(r) - recon[r].end

BankReconciliationGet(r) ==
    [recon |-> r,
     cleared |-> ClearedLines(r),
     uncleared |-> IF r \in Open THEN UnclearedPostedLines(recon[r].date) ELSE {}]

\* Each call returns the detail as it is after it, and the window shows that.
Refresh(w, r) == shown' = [shown EXCEPT ![w] = BankReconciliationGet(r)']

NothingShown == [recon |-> NoRecon, cleared |-> {}, uncleared |-> {}]

-----------------------------------------------------------------------------
(* The reconciliation page *)

\* Choosing the account again shows its statements, and no detail.
BankReconciliationList(w) ==
    /\ shown' = [shown EXCEPT ![w] = NothingShown]
    /\ UNCHANGED <<line, recon>>

\* Selecting a statement in the page's list.
BankReconciliationOpen(w, r) ==
    /\ r \in Kept
    /\ shown' = [shown EXCEPT ![w] = BankReconciliationGet(r)]
    /\ UNCHANGED <<line, recon>>

\* Statement dates are unique among the completed statements that count here.
LatestCompleted == CHOOSE r \in Completed : \A o \in Completed : recon[o].date <= recon[r].date

SlipNullStart == IF Completed = {} THEN NoRecon ELSE recon[LatestCompleted].end

DefaultStart == IF Completed = {} THEN 0 ELSE recon[LatestCompleted].end

NextRecon(r) == /\ recon[r].status = "absent"
                /\ \A o \in Recon : o < r => recon[o].status # "absent"

Started(date, ending) ==
    [status |-> "inProgress", date |-> date, start |-> DefaultStart, end |-> ending]

BankReconciliationStart(w, r, date, ending) ==
    /\ NextRecon(r)
    /\ Open = {}
    /\ Completed # {} => date > recon[LatestCompleted].date
    /\ recon' = [recon EXCEPT ![r] = Started(date, ending)]
    /\ UNCHANGED line
    /\ Refresh(w, r)

SlipTickCompleted(w, r, l) ==
    /\ shown[w].recon = r
    /\ r \in Kept
    /\ \/ /\ l \in shown[w].uncleared
          /\ line[l].owner \in {NoRecon, r}
          /\ line' = [line EXCEPT ![l].owner = r]
       \/ /\ l \in shown[w].cleared
          /\ line' = [line EXCEPT ![l].owner = NoRecon]
    /\ l \in Present
    /\ UNCHANGED recon
    /\ Refresh(w, r)

\* A tick on a line of the window's unticked list, or an untick on its other list.
\* Nothing looks at the entry's status or date again, or at the owner on an untick.
BankReconciliationToggleLine(w, r, l) ==
    /\ shown[w].recon = r
    /\ r \in Open
    /\ l \in Present
    /\ \/ /\ l \in shown[w].uncleared
          /\ line[l].owner \in {NoRecon, r}
          /\ line' = [line EXCEPT ![l].owner = r]
       \/ /\ l \in shown[w].cleared
          /\ line' = [line EXCEPT ![l].owner = NoRecon]
    /\ UNCHANGED recon
    /\ Refresh(w, r)

BankReconciliationComplete(w, r) ==
    /\ shown[w].recon = r
    /\ r \in Open
    /\ Difference(r) = 0
    /\ recon' = [recon EXCEPT ![r].status = "completed"]
    /\ UNCHANGED line
    /\ Refresh(w, r)

SlipReopenAny(w, r) ==
    /\ shown[w].recon = r
    /\ r \in Completed
    /\ recon' = [recon EXCEPT ![r].status = "inProgress"]
    /\ UNCHANGED line
    /\ Refresh(w, r)

\* Only the last statement, whatever the status of the later ones.
BankReconciliationReopen(w, r) ==
    /\ shown[w].recon = r
    /\ r \in Completed
    /\ \A o \in Kept \ {r} : \/ recon[o].date < recon[r].date
                             \/ recon[o].date = recon[r].date /\ o < r
    /\ recon' = [recon EXCEPT ![r].status = "inProgress"]
    /\ UNCHANGED line
    /\ Refresh(w, r)

\* One transaction: the ticks go with the statement.
BankReconciliationAbandon(w, r) ==
    /\ shown[w].recon = r
    /\ r \in Open
    /\ recon' = [recon EXCEPT ![r].status = "abandoned"]
    /\ line' = [l \in Line |-> IF line[l].owner = r
                               THEN [line[l] EXCEPT !.owner = NoRecon]
                               ELSE line[l]]
    /\ shown' = [shown EXCEPT ![w] = NothingShown]

-----------------------------------------------------------------------------
(* The journal *)

JournalCreateAndPost(l, date, net) ==
    /\ line[l].status = "absent"
    /\ line' = [line EXCEPT ![l] = [status |-> "posted", date |-> date, net |-> net,
                                    owner |-> NoRecon]]
    /\ UNCHANGED <<recon, shown>>

SlipVoidTicked(l) ==
    /\ line[l].status = "posted"
    /\ line' = [line EXCEPT ![l].status = "void"]
    /\ UNCHANGED <<recon, shown>>

JournalVoid(l) ==
    /\ line[l].status = "posted"
    /\ ~Ticked(l)
    /\ line' = [line EXCEPT ![l].status = "void"]
    /\ UNCHANGED <<recon, shown>>

JournalUpdateDate(l, date) ==
    /\ l \in Present
    /\ ~Ticked(l)
    /\ line' = [line EXCEPT ![l].date = date]
    /\ UNCHANGED <<recon, shown>>

\* A void entry goes with its line, ticked or not.
JournalDelete(l) ==
    /\ line[l].status = "void"
    /\ line' = [line EXCEPT ![l].status = "deleted", ![l].owner = NoRecon]
    /\ UNCHANGED <<recon, shown>>

-----------------------------------------------------------------------------
(* The specification *)

AnyDay == CHOOSE d \in Day : TRUE

Init ==
    /\ line = [l \in Line |-> [status |-> "absent", date |-> AnyDay, net |-> 0,
                               owner |-> NoRecon]]
    /\ recon = [r \in Recon |-> [status |-> "absent", date |-> AnyDay, start |-> 0, end |-> 0]]
    /\ shown = [w \in Window |-> NothingShown]

Next ==
    \/ \E w \in Window : BankReconciliationList(w)
    \/ \E w \in Window, r \in Recon :
           \/ BankReconciliationOpen(w, r)
           \/ \E date \in Day, ending \in Ending : BankReconciliationStart(w, r, date, ending)
           \/ \E l \in Line : BankReconciliationToggleLine(w, r, l)
           \/ BankReconciliationComplete(w, r)
           \/ BankReconciliationReopen(w, r)
           \/ BankReconciliationAbandon(w, r)
    \/ \E l \in Line :
           \/ \E date \in Day, net \in Net : JournalCreateAndPost(l, date, net)
           \/ \E date \in Day : JournalUpdateDate(l, date)
           \/ JournalVoid(l)
           \/ JournalDelete(l)

Spec == Init /\ [][Next]_vars

-----------------------------------------------------------------------------
(* Properties *)

\* Every variable holds rows of the shape the schema gives them.
TypeOK ==
    /\ line \in [Line -> LineRow]
    /\ recon \in [Recon -> ReconRow]
    /\ shown \in [Window -> Detail]

\* Statements of an account follow each other: later ids have later dates, each
\* starts from the ending balance of the one before it, and only the last can be
\* open, however they are reopened and abandoned from different windows
\* (bankReconciliationStart, bankReconciliationReopen).
StatementsChain ==
    \A r \in Kept :
        LET before == {o \in Kept : o < r} IN
            /\ recon[r].start = IF before = {} THEN 0 ELSE recon[Max(before)].end
            /\ \A o \in before : recon[o].date < recon[r].date /\ o \in Completed

\* What a completed statement was balanced with stays: no window, however stale
\* its lists, adds a line to it or takes one off (bankReconciliationToggleLine).
\* Only the deletion of a void entry takes a line away (journalDelete).
SignedOffTicks ==
    [][\A r \in Completed, l \in Line :
        /\ r \in Completed'
        /\ (line[l].owner = r) # (line'[l].owner = r)
        => line[l].status = "void" /\ line'[l].status = "deleted"]_vars

\* An entry with a ticked line neither leaves the ledger nor moves to another day
\* until every window's tick on it is gone (hasReconciledLines).
TickedStays ==
    [][\A l \in Posted : Ticked(l) /\ line'[l].owner # NoRecon =>
        /\ line'[l].status = "posted"
        /\ line'[l].date = line[l].date]_vars

=============================================================================
