------------------------------- MODULE Journal -------------------------------
(***************************************************************************)
(* The general journal of one desktop company file: drafts, approval,      *)
(* posting, reversing entries, voiding and deletion                        *)
(* (main/ipc/journal.handlers.ts), the accountant's period locks           *)
(* (main/ipc/fiscalPeriods.handlers.ts), the filed GST/HST returns         *)
(* (main/ipc/hstFilings.handlers.ts) and the posting gate they all share   *)
(* (shared/domain/ledger/postJournalEntry.ts).                             *)
(*                                                                         *)
(* Every handler only awaits the synchronous SQLite driver, so it runs to  *)
(* its end before the next IPC message is handled: an action is a whole    *)
(* handler.  What interleaves is handlers, sent by several windows.  A     *)
(* handler that throws before its first write is a disabled action; one    *)
(* that throws after a write which no transaction covers keeps that write. *)
(*                                                                         *)
(* An operator named Slip... is no part of the model: it is a definition   *)
(* with one mistake in it, that some property has to notice.               *)
(***************************************************************************)
EXTENDS Integers, FiniteSets

CONSTANTS
    Entry,        \* journal entry ids; AUTOINCREMENT never hands one out twice
    Date,         \* calendar days
    LineSet,      \* what the journal form can send as an entry's lines
    Origin,       \* what a new entry can say about where it came from
    Period,       \* the accountant's fiscal periods
    PeriodDays,   \* the days of each fiscal period
    Quarter,      \* GST/HST reporting periods
    QuarterDays,  \* the days of each reporting period
    Threshold,    \* the approval thresholds the company settings can hold
    NoThreshold,  \* a null threshold: nothing needs approval
    NoEntry,      \* a null entry id
    NoDate        \* a null date

\* An entry's lines, reduced to what the handlers look at: the two totals and
\* how the lines reach the GST/HST return.  "split" lines post to a GST/HST
\* control account, "coded" lines carry a tax code the return derives tax from,
\* and "clearing" lines are those of a filing's own entry.
TaxKind == {"none", "coded", "split", "clearing"}
Lines == [dr: Nat, cr: Nat, tax: TaxKind]

\* The source column (fixed at creation) and whether a reference is filled in.
Origins == [manual: BOOLEAN, referenced: BOOLEAN]
ByReference == [manual |-> TRUE, referenced |-> TRUE]

ASSUME JournalAssumption ==
    /\ Date \subseteq Nat
    /\ Date # {}
    /\ Origin \subseteq Origins
    /\ LineSet \subseteq Lines
    /\ PeriodDays \in [Period -> SUBSET Date]
    /\ QuarterDays \in [Quarter -> SUBSET Date]
    /\ Period \cap Quarter = {}
    /\ Threshold \subseteq Nat \cup {NoThreshold}
    /\ NoThreshold \notin Nat
    /\ NoEntry \notin Entry
    /\ NoDate \notin Nat

VARIABLES
    entry,      \* the journal_entries rows with their lines
    period,     \* the fiscal_periods rows: the accountant's, and one per filed return
    filing,     \* the hst_filings rows: the entry each filed return posted
    threshold,  \* company_info.approval_journal_threshold_cents
    forced      \* entries voided under the locked-period override (history)

vars == <<entry, period, filing, threshold, forced>>

-----------------------------------------------------------------------------
(* Rows *)

Approval == {"notRequired", "pending", "approved", "rejected"}
Status == {"absent", "draft", "posted", "void", "deleted"}

EntryRow == [status: Status, date: Date, lines: Lines, approval: Approval,
             origin: Origins,
             reverseOn: Date \cup {NoDate},
             reverses: Entry \cup {NoEntry},
             cleared: BOOLEAN]            \* a line is ticked in a reconciliation

Draft(date, lines, approval, origin, reverseOn) ==
    [status |-> "draft", date |-> date, lines |-> lines, approval |-> approval,
     origin |-> origin, reverseOn |-> reverseOn, reverses |-> NoEntry,
     cleared |-> FALSE]

Unused == {e \in Entry : entry[e].status = "absent"}
Stored == {e \in Entry : entry[e].status \in {"draft", "posted", "void"}}
Posted == {e \in Entry : entry[e].status = "posted"}
Filed == {q \in Quarter : filing[q] # NoEntry}
FilingEntries == {filing[q] : q \in Filed}

Mirrors(e) == {m \in Stored : entry[m].reverses = e}

-----------------------------------------------------------------------------
(* The posting gate *)

Balanced(lines) == lines.dr = lines.cr /\ lines.dr > 0

AffectsReturn(lines) == lines.tax # "none"

AccountantLocked(date) ==
    \E p \in Period : period[p] = "locked" /\ date \in PeriodDays[p]

\* A return's lock is found by the label of its fiscal_periods row.
ReturnFiled(date) == \E q \in Quarter : period[q] = "locked" /\ date \in QuarterDays[q]

SlipNoReturnLock(row) == AccountantLocked(row.date)

PostingLocked(row) ==
    \/ AccountantLocked(row.date)
    \/ AffectsReturn(row.lines) /\ ReturnFiled(row.date)

SlipRejectedMayPost(approval) == approval = "pending"

ApprovalBlocks(approval) == approval \in {"pending", "rejected"}

Gated(origin) == origin.manual /\ ~origin.referenced

InitialApproval(origin, lines) ==
    IF Gated(origin) /\ threshold # NoThreshold /\ lines.dr >= threshold
    THEN "pending" ELSE "notRequired"

SlipZeroMayPost(row) ==
    /\ ~ApprovalBlocks(row.approval)
    /\ row.lines.dr = row.lines.cr
    /\ ~PostingLocked(row)

MayPost(row) ==
    /\ ~ApprovalBlocks(row.approval)
    /\ Balanced(row.lines)
    /\ ~PostingLocked(row)

-----------------------------------------------------------------------------
(* Creating and posting *)

Opposite(lines) == [lines EXCEPT !.dr = lines.cr, !.cr = lines.dr]

SlipUndatedMirror(e, row) ==
    [Draft(NoDate, Opposite(row.lines),
           InitialApproval(row.origin, Opposite(row.lines)), row.origin, NoDate)
     EXCEPT !.reverses = e]

\* The draft journalPost creates inside its transaction for a reversing entry.
MirrorDraft(e, row) ==
    [Draft(row.reverseOn, Opposite(row.lines),
           InitialApproval(row.origin, Opposite(row.lines)), row.origin, NoDate)
     EXCEPT !.reverses = e]

AsPosted(row) == [row EXCEPT !.status = "posted"]

SlipMirrorSkipsGate(e, row) ==
    /\ MayPost(row)
    /\ IF row.reverseOn = NoDate
       THEN entry' = [entry EXCEPT ![e] = AsPosted(row)]
       ELSE \E m \in Unused \ {e} :
                entry' = [entry EXCEPT ![e] = AsPosted(row),
                                       ![m] = AsPosted(MirrorDraft(e, row))]

\* Posting row as entry e: the mirror of a reversing entry is created and passed
\* through the same gate in the same transaction, or nothing is written.
PostRow(e, row) ==
    /\ MayPost(row)
    /\ IF row.reverseOn = NoDate
       THEN entry' = [entry EXCEPT ![e] = AsPosted(row)]
       ELSE /\ MayPost(MirrorDraft(e, row))
            /\ \E m \in Unused \ {e} :
                   entry' = [entry EXCEPT ![e] = AsPosted(row),
                                          ![m] = AsPosted(MirrorDraft(e, row))]

NewDraft(date, lines, origin, reverseOn) ==
    Draft(date, lines, InitialApproval(origin, lines), origin, reverseOn)

ReversalInOrder(date, reverseOn) == reverseOn # NoDate => reverseOn > date

JournalCreate(e, date, lines, origin, reverseOn) ==
    /\ e \in Unused
    /\ ReversalInOrder(date, reverseOn)
    /\ entry' = [entry EXCEPT ![e] = NewDraft(date, lines, origin, reverseOn)]
    /\ UNCHANGED <<period, filing, threshold, forced>>

JournalPost(e) ==
    /\ entry[e].status = "draft"
    /\ PostRow(e, entry[e])
    /\ UNCHANGED <<period, filing, threshold, forced>>

JournalCreateAndPost(e, date, lines, origin, reverseOn) ==
    /\ e \in Unused
    /\ ReversalInOrder(date, reverseOn)
    /\ PostRow(e, NewDraft(date, lines, origin, reverseOn))
    /\ UNCHANGED <<period, filing, threshold, forced>>

-----------------------------------------------------------------------------
(* Editing *)

\* A save rewrites the header and the lines of a draft, and nothing else of it.
JournalUpdate(e, date, lines, origin, reverseOn) ==
    /\ entry[e].status = "draft"
    /\ origin.manual = entry[e].origin.manual
    /\ entry' = [entry EXCEPT ![e].date = date, ![e].lines = lines,
                              ![e].origin = origin, ![e].reverseOn = reverseOn]
    /\ UNCHANGED <<period, filing, threshold, forced>>

\* Also allowed on posted and void entries; the entry of a filed return is refused.
JournalUpdateDate(e, date) ==
    /\ e \in Stored
    /\ ~AccountantLocked(entry[e].date)
    /\ ~AccountantLocked(date)
    /\ ~entry[e].cleared
    /\ e \in FilingEntries => date = entry[e].date
    /\ entry' = [entry EXCEPT ![e].date = date]
    /\ UNCHANGED <<period, filing, threshold, forced>>

\* Retags a line that is not on a control account, whatever the entry's status.
JournalSetLineTaxCode(e, tax) ==
    /\ e \in Stored
    /\ entry[e].lines.tax \in {"none", "coded"}
    /\ tax \in {"none", "coded"}
    /\ entry' = [entry EXCEPT ![e].lines.tax = tax]
    /\ UNCHANGED <<period, filing, threshold, forced>>

CanTransitionApproval(from, to) ==
    /\ from # "notRequired"
    /\ to # "notRequired"
    /\ from # to

\* By an administrator or an accountant, whatever the entry's status.
JournalSetApproval(e, to) ==
    /\ e \in Stored
    /\ CanTransitionApproval(entry[e].approval, to)
    /\ entry' = [entry EXCEPT ![e].approval = to]
    /\ UNCHANGED <<period, filing, threshold, forced>>

-----------------------------------------------------------------------------
(* Voiding and deleting *)

MayVoid(e, override) ==
    /\ entry[e].status = "posted"
    /\ ~PostingLocked(entry[e]) \/ override
    /\ ~entry[e].cleared

PostedMirrors(e) == Mirrors(e) \cap Posted

SlipMirrorUnchecked(e, override) == {e} \cup PostedMirrors(e)

\* Voiding e also voids its posted mirror, by a recursive call that makes the
\* same checks on the mirror.  VoidReach is what a call on e gets done.
VoidReach(e, override) == {e} \cup {m \in PostedMirrors(e) : MayVoid(m, override)}

MarkVoid(doomed, override) ==
    /\ entry' = [x \in Entry |-> IF x \in doomed
                                 THEN [entry[x] EXCEPT !.status = "void"]
                                 ELSE entry[x]]
    /\ forced' = IF override THEN forced \cup doomed ELSE forced

\* Called from the journal screen, without a transaction: when the mirror's own
\* checks throw, the void of e is already committed and stays.
JournalVoid(e, override) ==
    /\ e \notin FilingEntries
    /\ MayVoid(e, override)
    /\ MarkVoid(VoidReach(e, override), override)
    /\ UNCHANGED <<period, filing, threshold>>

SlipNoForeignKey(e) ==
    /\ entry[e].status \in {"draft", "void"}
    /\ entry' = [entry EXCEPT ![e].status = "deleted"]
    /\ UNCHANGED <<period, filing, threshold, forced>>

\* The foreign key journal_entries.reverses_entry_id stops the deletion of an
\* entry whose mirror is still stored.
JournalDelete(e) ==
    /\ entry[e].status \in {"draft", "void"}
    /\ Mirrors(e) = {}
    /\ entry' = [entry EXCEPT ![e].status = "deleted"]
    /\ UNCHANGED <<period, filing, threshold, forced>>

-----------------------------------------------------------------------------
(* Fiscal periods, filed returns, reconciliation and settings *)

FiscalPeriodsCreate(p) ==
    /\ p \in Period
    /\ period[p] = "absent"
    /\ period' = [period EXCEPT ![p] = "open"]
    /\ UNCHANGED <<entry, filing, threshold, forced>>

FiscalPeriodsLock(p) ==
    /\ period[p] # "absent"
    /\ period' = [period EXCEPT ![p] = "locked"]
    /\ UNCHANGED <<entry, filing, threshold, forced>>

\* The period of a filed return is refused.
FiscalPeriodsUnlock(p) ==
    /\ period[p] # "absent"
    /\ p \notin Filed
    /\ period' = [period EXCEPT ![p] = "open"]
    /\ UNCHANGED <<entry, filing, threshold, forced>>

\* The entries a return for quarter q reports.
Reported(q) == {e \in Posted : /\ entry[e].lines.tax \in {"coded", "split"}
                               /\ entry[e].date \in QuarterDays[q]}

\* The clearing entry of a filing: dated the filing date, with a reference, so
\* never gated; the tax it moves is abstracted to one cent.
ClearingLines == [dr |-> 1, cr |-> 1, tax |-> "clearing"]

HstFilingsCreate(e, q, date) ==
    /\ e \in Unused
    /\ \A r \in Filed : QuarterDays[q] \cap QuarterDays[r] = {}
    /\ \A d \in QuarterDays[q] : d <= date
    /\ Reported(q) # {}
    /\ PostRow(e, NewDraft(date, ClearingLines, ByReference, NoDate))
    /\ period' = [period EXCEPT ![q] = "locked"]
    /\ filing' = [filing EXCEPT ![q] = e]
    /\ UNCHANGED <<threshold, forced>>

SlipLockGoesFirst(q) ==
    /\ q \in Filed
    /\ period' = [period EXCEPT ![q] = "absent"]
    /\ UNCHANGED <<entry, filing, threshold, forced>>

\* The handler deletes the fiscal_periods row of the return first.  The filing, which
\* it would delete last, still refers to that row, and every filing refers to one: the
\* foreign key refuses, and the transaction leaves everything as it was.
HstFilingsVoid(q) ==
    /\ q \in Filed
    /\ UNCHANGED vars

\* Ticking and unticking a line on the open bank reconciliation.  The list shows
\* posted entries, the handler does not look again: the entry may be void by now
\* (Reconciliation.tla models the reconciliations themselves).
BankReconciliationToggleLine(e, tick) ==
    /\ entry[e].status \in {"posted", "void"}
    /\ entry' = [entry EXCEPT ![e].cleared = tick]
    /\ UNCHANGED <<period, filing, threshold, forced>>

CompanySave(t) ==
    /\ threshold' = t
    /\ UNCHANGED <<entry, period, filing, forced>>

-----------------------------------------------------------------------------
(* The specification *)

NoRow == [status |-> "absent", date |-> CHOOSE d \in Date : TRUE,
          lines |-> [dr |-> 0, cr |-> 0, tax |-> "none"],
          approval |-> "notRequired", origin |-> ByReference, reverseOn |-> NoDate,
          reverses |-> NoEntry, cleared |-> FALSE]

Init ==
    /\ entry = [e \in Entry |-> NoRow]
    /\ period = [p \in Period \cup Quarter |-> "absent"]
    /\ filing = [q \in Quarter |-> NoEntry]
    /\ threshold \in Threshold
    /\ forced = {}

Next ==
    \/ \E e \in Entry, date \in Date, lines \in LineSet :
           \E origin \in Origin, reverseOn \in Date \cup {NoDate} :
               \/ JournalCreate(e, date, lines, origin, reverseOn)
               \/ JournalCreateAndPost(e, date, lines, origin, reverseOn)
               \/ JournalUpdate(e, date, lines, origin, reverseOn)
    \/ \E e \in Entry :
           \/ JournalPost(e)
           \/ JournalDelete(e)
           \/ \E tick \in BOOLEAN : BankReconciliationToggleLine(e, tick)
           \/ \E date \in Date : JournalUpdateDate(e, date)
           \/ \E tax \in TaxKind : JournalSetLineTaxCode(e, tax)
           \/ \E to \in Approval : JournalSetApproval(e, to)
           \/ \E override \in BOOLEAN : JournalVoid(e, override)
           \/ \E q \in Quarter, date \in Date : HstFilingsCreate(e, q, date)
    \/ \E q \in Quarter : HstFilingsVoid(q)
    \/ \E p \in Period \cup Quarter :
           FiscalPeriodsCreate(p) \/ FiscalPeriodsLock(p) \/ FiscalPeriodsUnlock(p)
    \/ \E t \in Threshold : CompanySave(t)

Spec == Init /\ [][Next]_vars

-----------------------------------------------------------------------------
(* Invariants *)

\* Every variable holds rows of the shape the schema gives them.
TypeOK ==
    /\ entry \in [Entry -> EntryRow]
    /\ period \in [Period \cup Quarter -> {"absent", "open", "locked"}]
    /\ filing \in [Quarter -> Entry \cup {NoEntry}]
    /\ threshold \in Threshold
    /\ forced \in SUBSET Entry

\* The books balance: whatever was drafted, edited, approved, mirrored or
\* retagged, an entry that is in the ledger, or was before it was voided, has
\* equal and non-zero totals (validateJournalEntryForPosting is the only gate).
BooksBalance ==
    \A e \in Entry : entry[e].status \in {"posted", "void"} => Balanced(entry[e].lines)

\* A mirror always belongs to an entry that is still stored and went through
\* posting, and takes out exactly what that entry put in: no edit, retag, void or
\* deletion leaves a mirror without its accrual or with other amounts, and no
\* accrual has two (journalPost, journalDelete and the foreign key).
MirrorBelongs ==
    \A m \in Stored : entry[m].reverses # NoEntry =>
        LET e == entry[m].reverses IN
            /\ entry[e].status \in {"posted", "void"}
            /\ entry[m].status \in {"posted", "void"}
            /\ entry[m].lines.dr = entry[e].lines.cr
            /\ entry[m].lines.cr = entry[e].lines.dr
            /\ Mirrors(e) = {m}

LocksMatch == \A q \in Quarter : period[q] = IF q \in Filed THEN "locked" ELSE "absent"

\* A filed return has, for as long as its record is there, its lock and its own posted
\* clearing entry, and no lock is left of a return that has no record: the journal
\* screen can neither void, delete nor move the entry (linkedBusinessDocument,
\* moveLinkedDocumentDate), the accountant cannot lift the lock (fiscalPeriodsUnlock),
\* and a void that fails takes nothing of it.  No day is on two filed returns.
FilingBacked ==
    /\ LocksMatch
    /\ \A q \in Filed :
        /\ filing[q] \in Posted
        /\ entry[filing[q]].lines.tax = "clearing"
        /\ \A d \in QuarterDays[q] : d <= entry[filing[q]].date
        /\ \A r \in Filed \ {q} : /\ filing[r] # filing[q]
                                 /\ QuarterDays[r] \cap QuarterDays[q] = {}

-----------------------------------------------------------------------------
(* Action properties *)

Posts(e) == entry[e].status # "posted" /\ entry'[e].status = "posted"
Leaves(e) == entry[e].status = "posted" /\ entry'[e].status # "posted"

\* While the accountant's lock on a period stays, no entry dated in it enters the
\* ledger, none is moved into or out of it, and one leaves the ledger only by a
\* void under the confirmed override: not even as the mirror of an entry dated
\* elsewhere (postingLockWithReason in journalPost, journalVoid, journalUpdateDate).
LockedPeriodSealed ==
    [][\A p \in Period, e \in Entry : period[p] = "locked" /\ period'[p] = "locked" =>
        /\ (Posts(e) => entry'[e].date \notin PeriodDays[p])
        /\ (Leaves(e) /\ entry[e].date \in PeriodDays[p] => e \in forced')
        /\ (e \in Posted /\ entry'[e].date # entry[e].date =>
                /\ entry[e].date \notin PeriodDays[p]
                /\ entry'[e].date \notin PeriodDays[p])]_vars

\* Once a return is filed, what it reports gains no newly posted entry and loses none
\* to a void without the override: the gate finds its lock, which never goes
\* (postingLockWithReason).
FiledReturnSealed ==
    [][\A q \in Filed :
        /\ Reported(q)' \ Reported(q) \subseteq Posted
        /\ Reported(q) \ Reported(q)' \subseteq Posted' \cup forced']_vars

\* An entry enters the ledger only when nobody's decision on it is outstanding or
\* negative, and a reversing entry only together with a mirror dated on its
\* reversal date: both go in or neither does (journalPost).
PostsWhole ==
    [][\A e \in Entry : Posts(e) =>
        /\ entry'[e].approval \in {"notRequired", "approved"}
        /\ (entry'[e].reverseOn # NoDate =>
                \E m \in Entry : /\ Posts(m)
                                 /\ entry'[m].reverses = e
                                 /\ entry'[m].date = entry'[e].reverseOn)]_vars

\* A line ticked in a bank reconciliation keeps its posted entry in the ledger, at
\* its date and with its amounts, for as long as it stays ticked, whoever voids,
\* moves or edits that entry or the accrual it reverses (hasReconciledLines).
ReconciledStays ==
    [][\A e \in Posted : entry[e].cleared /\ entry'[e].cleared =>
        /\ entry'[e].status = "posted"
        /\ entry'[e].date = entry[e].date
        /\ entry'[e].lines.dr = entry[e].lines.dr
        /\ entry'[e].lines.cr = entry[e].lines.cr]_vars

=============================================================================
