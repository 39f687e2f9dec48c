----------------------------- MODULE JournalBook -----------------------------
(***************************************************************************)
(* The journal as a book: the refinement mapping from the journal_entries  *)
(* rows to the state of Book.                                              *)
(***************************************************************************)
EXTENDS Journal

InLedger(e) == entry[e].status \in {"posted", "void"}

StandingOf == [e \in Entry |-> CASE entry[e].status = "posted"  -> "in"
                                 [] entry[e].status = "void"    -> "withdrawn"
                                 [] entry[e].status = "deleted" -> "gone"
                                 [] OTHER                       -> "out"]
AmountOf == [e \in Entry |-> IF InLedger(e) THEN entry[e].lines.dr ELSE 0]
UndoesOf == [e \in Entry |-> IF InLedger(e) THEN entry[e].reverses ELSE NoEntry]

Kept == INSTANCE Book WITH
    standing <- StandingOf,
    amount <- AmountOf,
    undoes <- UndoesOf

\* Whatever the handlers do to drafts, dates, locks and approvals, seen from the
\* ledger it is an entry entering, leaving or being forgotten as Book allows: it
\* never enters twice, never changes amount, and never loses what it undoes.
KeepsTheBook == Kept!Spec
=============================================================================
