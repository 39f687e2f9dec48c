---------------------------- MODULE JournalProofs ----------------------------
(***************************************************************************)
(* Proofs about Journal, for any number of entries, days, periods and      *)
(* reporting periods, any lines and any thresholds.                        *)
(***************************************************************************)
EXTENDS JournalBook, TLAPS

(* Rows *)

LEMMA NewDraftIsRow ==
    ASSUME NEW date \in Date, NEW lines \in Lines, NEW origin \in Origins,
           NEW reverseOn \in Date \cup {NoDate}
    PROVE  NewDraft(date, lines, origin, reverseOn) \in EntryRow
BY DEF NewDraft, Draft, InitialApproval, EntryRow, Status, Approval

LEMMA MirrorDraftIsRow ==
    ASSUME NEW e \in Entry, NEW row \in EntryRow, row.reverseOn # NoDate
    PROVE  MirrorDraft(e, row) \in EntryRow
<1>1. Opposite(row.lines) \in Lines
  BY DEF EntryRow, Lines, Opposite
<1>2. row.reverseOn \in Date /\ row.origin \in Origins
  BY DEF EntryRow
<1> QED
  BY <1>1, <1>2 DEF MirrorDraft, Draft, InitialApproval, EntryRow, Status, Approval

LEMMA PostedIsRow ==
    ASSUME NEW row \in EntryRow
    PROVE  AsPosted(row) \in EntryRow
BY DEF AsPosted, EntryRow, Status

LEMMA PostRowType ==
    ASSUME TypeOK, NEW e \in Entry, NEW row \in EntryRow, PostRow(e, row)
    PROVE  entry' \in [Entry -> EntryRow]
<1>1. AsPosted(row) \in EntryRow
  BY PostedIsRow
<1>2. CASE row.reverseOn = NoDate
  BY <1>1, <1>2 DEF PostRow, TypeOK
<1>3. CASE row.reverseOn # NoDate
  <2>1. AsPosted(MirrorDraft(e, row)) \in EntryRow
    BY <1>3, MirrorDraftIsRow, PostedIsRow
  <2>2. PICK m \in Unused \ {e} :
            entry' = [entry EXCEPT ![e] = AsPosted(row),
                                   ![m] = AsPosted(MirrorDraft(e, row))]
    BY <1>3 DEF PostRow
  <2> QED
    BY <1>1, <2>1, <2>2 DEF TypeOK, Unused
<1> QED
  BY <1>2, <1>3

LEMMA MarkVoidType ==
    ASSUME TypeOK, NEW doomed \in SUBSET Entry, NEW override \in BOOLEAN,
           MarkVoid(doomed, override)
    PROVE  /\ entry' \in [Entry -> EntryRow]
           /\ forced' \in SUBSET Entry
<1>1. ASSUME NEW row \in EntryRow
      PROVE  [row EXCEPT !.status = "void"] \in EntryRow
  BY <1>1 DEF EntryRow, Status
<1> QED
  BY <1>1 DEF MarkVoid, TypeOK

-----------------------------------------------------------------------------
(* Type correctness *)

LEMMA InitType == Init => TypeOK
<1> SUFFICES ASSUME Init PROVE TypeOK
  OBVIOUS
<1>1. NoRow \in EntryRow
  <2>1. (CHOOSE d \in Date : TRUE) \in Date
    BY JournalAssumption
  <2> QED
    BY <2>1 DEF NoRow, EntryRow, Status, Lines, TaxKind, Approval, Origins, ByReference
<1> QED
  BY <1>1 DEF Init, TypeOK

LEMMA StepType == TypeOK /\ [Next]_vars => TypeOK'
<1> SUFFICES ASSUME TypeOK, [Next]_vars PROVE TypeOK'
  OBVIOUS
<1> USE JournalAssumption
<1>1. ASSUME NEW e \in Entry, NEW date \in Date, NEW lines \in LineSet, NEW origin \in Origin,
             NEW reverseOn \in Date \cup {NoDate}, JournalCreate(e, date, lines, origin, reverseOn)
      PROVE  TypeOK'
  <2>1. NewDraft(date, lines, origin, reverseOn) \in EntryRow
    BY NewDraftIsRow
  <2> QED
    BY <1>1, <2>1 DEF JournalCreate, TypeOK
<1>2. ASSUME NEW e \in Entry, NEW date \in Date, NEW lines \in LineSet, NEW origin \in Origin,
             NEW reverseOn \in Date \cup {NoDate}, JournalCreateAndPost(e, date, lines, origin, reverseOn)
      PROVE  TypeOK'
  <2>1. NewDraft(date, lines, origin, reverseOn) \in EntryRow
    BY NewDraftIsRow
  <2>2. entry' \in [Entry -> EntryRow]
    BY <1>2, <2>1, PostRowType DEF JournalCreateAndPost
  <2> QED
    BY <1>2, <2>2 DEF JournalCreateAndPost, TypeOK
<1>3. ASSUME NEW e \in Entry, NEW date \in Date, NEW lines \in LineSet, NEW origin \in Origin,
             NEW reverseOn \in Date \cup {NoDate}, JournalUpdate(e, date, lines, origin, reverseOn)
      PROVE  TypeOK'
  <2>1. entry[e] \in EntryRow
    BY DEF TypeOK
  <2>2. [entry[e] EXCEPT !.date = date, !.lines = lines, !.origin = origin,
                         !.reverseOn = reverseOn] \in EntryRow
    BY <2>1 DEF EntryRow
  <2> QED
    BY <1>3, <2>2 DEF JournalUpdate, TypeOK
<1>4. ASSUME NEW e \in Entry, JournalPost(e)
      PROVE  TypeOK'
  <2>1. entry[e] \in EntryRow
    BY DEF TypeOK
  <2>2. entry' \in [Entry -> EntryRow]
    BY <1>4, <2>1, PostRowType DEF JournalPost
  <2> QED
    BY <1>4, <2>2 DEF JournalPost, TypeOK
<1>5. ASSUME NEW e \in Entry, JournalDelete(e)
      PROVE  TypeOK'
  BY <1>5 DEF JournalDelete, TypeOK, EntryRow, Status
<1>6. ASSUME NEW e \in Entry, NEW tick \in BOOLEAN,
             BankReconciliationToggleLine(e, tick)
      PROVE  TypeOK'
  BY <1>6 DEF BankReconciliationToggleLine, TypeOK, EntryRow
<1>7. ASSUME NEW e \in Entry, NEW date \in Date, JournalUpdateDate(e, date)
      PROVE  TypeOK'
  BY <1>7 DEF JournalUpdateDate, TypeOK, EntryRow
<1>8. ASSUME NEW e \in Entry, NEW tax \in TaxKind, JournalSetLineTaxCode(e, tax)
      PROVE  TypeOK'
  <2>1. entry[e] \in EntryRow /\ entry[e].lines \in Lines
    BY DEF TypeOK, EntryRow
  <2>2. [entry[e].lines EXCEPT !.tax = tax] \in Lines
    BY <2>1 DEF Lines
  <2>3. [entry[e] EXCEPT !.lines.tax = tax] \in EntryRow
    BY <2>1, <2>2 DEF EntryRow
  <2> QED
    BY <1>8, <2>3 DEF JournalSetLineTaxCode, TypeOK
<1>9. ASSUME NEW e \in Entry, NEW to \in Approval, JournalSetApproval(e, to)
      PROVE  TypeOK'
  BY <1>9 DEF JournalSetApproval, TypeOK, EntryRow
<1>10. ASSUME NEW e \in Entry, NEW override \in BOOLEAN, JournalVoid(e, override)
       PROVE  TypeOK'
  <2>1. VoidReach(e, override) \in SUBSET Entry
    BY DEF VoidReach, PostedMirrors, Mirrors, Posted
  <2>2. MarkVoid(VoidReach(e, override), override) /\ UNCHANGED <<period, filing, threshold>>
    BY <1>10 DEF JournalVoid
  <2>3. entry' \in [Entry -> EntryRow] /\ forced' \in SUBSET Entry
    BY <2>1, <2>2, MarkVoidType
  <2> QED
    BY <2>2, <2>3 DEF TypeOK
<1>11. ASSUME NEW e \in Entry, NEW q \in Quarter, NEW date \in Date, HstFilingsCreate(e, q, date)
       PROVE  TypeOK'
  <2>1. NewDraft(date, ClearingLines, ByReference, NoDate) \in EntryRow
    BY NewDraftIsRow DEF ClearingLines, ByReference, Lines, TaxKind, Origins
  <2>2. entry' \in [Entry -> EntryRow]
    BY <1>11, <2>1, PostRowType DEF HstFilingsCreate
  <2> QED
    BY <1>11, <2>2 DEF HstFilingsCreate, TypeOK
<1>12. ASSUME NEW q \in Quarter, HstFilingsVoid(q)
       PROVE  TypeOK'
  BY <1>12 DEF HstFilingsVoid, vars, TypeOK
<1>13. ASSUME NEW p \in Period \cup Quarter,
              FiscalPeriodsCreate(p) \/ FiscalPeriodsLock(p) \/ FiscalPeriodsUnlock(p)
       PROVE  TypeOK'
  BY <1>13 DEF FiscalPeriodsCreate, FiscalPeriodsLock, FiscalPeriodsUnlock, TypeOK
<1>14. ASSUME NEW t \in Threshold, CompanySave(t)
       PROVE  TypeOK'
  BY <1>14 DEF CompanySave, TypeOK
<1>15. CASE UNCHANGED vars
  BY <1>15 DEF vars, TypeOK
<1> QED
  BY <1>1, <1>2, <1>3, <1>4, <1>5, <1>6, <1>7, <1>8, <1>9, <1>10, <1>11, <1>12,
     <1>13, <1>14, <1>15 DEF Next

\* Every reachable state is well typed, whatever the company's entries, dates and
\* settings: no handler stores a row the schema does not allow.
THEOREM TypeCorrect == Spec => []TypeOK
BY InitType, StepType, PTL DEF Spec

-----------------------------------------------------------------------------
(* What a step does to the ledger: every handler has one of four effects *)

\* Nothing enters or leaves the ledger, and what is in it keeps its amounts.
Quiet ==
    \A x \in Entry :
        /\ \/ entry'[x].status = entry[x].status
           \/ /\ entry[x].status = "absent"
              /\ entry'[x].status = "draft"
        /\ entry[x].status # "absent" => entry'[x].reverses = entry[x].reverses
        /\ entry[x].status = "absent" => entry'[x].status = "absent" \/ entry'[x].reverses = NoEntry
        /\ InLedger(x) => /\ entry'[x].lines.dr = entry[x].lines.dr
                          /\ entry'[x].lines.cr = entry[x].lines.cr

Posting ==
    \E e \in Entry, row \in EntryRow :
        /\ entry[e].status \in {"absent", "draft"}
        /\ row.reverses = NoEntry
        /\ PostRow(e, row)

Voiding ==
    \E e \in Entry, doomed \in SUBSET Posted :
        /\ \A m \in doomed \ {e} : entry[m].reverses = e
        /\ entry' = [x \in Entry |-> IF x \in doomed
                                     THEN [entry[x] EXCEPT !.status = "void"]
                                     ELSE entry[x]]

Deleting == \E e \in Entry : JournalDelete(e)

Inductive == TypeOK /\ BooksBalance /\ MirrorBelongs

LEMMA StepEffect ==
    ASSUME Inductive, [Next]_vars
    PROVE  Quiet \/ Posting \/ Voiding \/ Deleting
<1> USE JournalAssumption DEF Inductive
<1>1. ASSUME NEW e \in Entry, NEW date \in Date, NEW lines \in LineSet, NEW origin \in Origin,
             NEW reverseOn \in Date \cup {NoDate}, JournalCreate(e, date, lines, origin, reverseOn)
      PROVE  Quiet
  <2>1. entry' = [entry EXCEPT ![e] = NewDraft(date, lines, origin, reverseOn)]
        /\ entry[e].status = "absent"
    BY <1>1 DEF JournalCreate, Unused
  <2>2. /\ NewDraft(date, lines, origin, reverseOn).status = "draft"
        /\ NewDraft(date, lines, origin, reverseOn).reverses = NoEntry
    BY DEF NewDraft, Draft
  <2> QED
    BY <2>1, <2>2 DEF Quiet, TypeOK, InLedger
<1>2. ASSUME NEW e \in Entry, NEW date \in Date, NEW lines \in LineSet, NEW origin \in Origin,
             NEW reverseOn \in Date \cup {NoDate}, JournalCreateAndPost(e, date, lines, origin, reverseOn)
      PROVE  Posting
  <2>1. NewDraft(date, lines, origin, reverseOn) \in EntryRow
    BY NewDraftIsRow
  <2>2. NewDraft(date, lines, origin, reverseOn).reverses = NoEntry
    BY DEF NewDraft, Draft
  <2> QED
    BY <1>2, <2>1, <2>2 DEF JournalCreateAndPost, Posting, Unused
<1>3. ASSUME NEW e \in Entry, NEW date \in Date, NEW lines \in LineSet, NEW origin \in Origin,
             NEW reverseOn \in Date \cup {NoDate}, JournalUpdate(e, date, lines, origin, reverseOn)
      PROVE  Quiet
  BY <1>3 DEF JournalUpdate, Quiet, TypeOK, EntryRow, InLedger
<1>4. ASSUME NEW e \in Entry, JournalPost(e)
      PROVE  Posting
  <2>1. entry[e] \in EntryRow /\ entry[e].reverses = NoEntry
    BY <1>4 DEF JournalPost, TypeOK, MirrorBelongs, Stored
  <2> QED
    BY <1>4, <2>1 DEF JournalPost, Posting
<1>5. ASSUME NEW e \in Entry, NEW tick \in BOOLEAN, BankReconciliationToggleLine(e, tick)
      PROVE  Quiet
  BY <1>5 DEF BankReconciliationToggleLine, Quiet, TypeOK, EntryRow
<1>6. ASSUME NEW e \in Entry, NEW date \in Date, JournalUpdateDate(e, date)
      PROVE  Quiet
  BY <1>6 DEF JournalUpdateDate, Quiet, TypeOK, EntryRow
<1>7. ASSUME NEW e \in Entry, NEW tax \in TaxKind, JournalSetLineTaxCode(e, tax)
      PROVE  Quiet
  BY <1>7 DEF JournalSetLineTaxCode, Quiet, TypeOK, EntryRow, Lines
<1>8. ASSUME NEW e \in Entry, NEW to \in Approval, JournalSetApproval(e, to)
      PROVE  Quiet
  BY <1>8 DEF JournalSetApproval, Quiet, TypeOK, EntryRow
<1>9. ASSUME NEW e \in Entry, NEW override \in BOOLEAN, JournalVoid(e, override)
      PROVE  Voiding
  <2>1. VoidReach(e, override) \subseteq Posted
    BY <1>9 DEF JournalVoid, MayVoid, VoidReach, PostedMirrors, Posted
  <2>2. \A m \in VoidReach(e, override) \ {e} : entry[m].reverses = e
    BY DEF VoidReach, PostedMirrors, Mirrors
  <2> QED
    BY <1>9, <2>1, <2>2 DEF JournalVoid, MarkVoid, Voiding
<1>10. ASSUME NEW e \in Entry, NEW q \in Quarter, NEW date \in Date, HstFilingsCreate(e, q, date)
       PROVE  Posting
  <2>1. NewDraft(date, ClearingLines, ByReference, NoDate) \in EntryRow
    BY NewDraftIsRow DEF ClearingLines, ByReference, Lines, TaxKind, Origins
  <2>2. NewDraft(date, ClearingLines, ByReference, NoDate).reverses = NoEntry
    BY DEF NewDraft, Draft
  <2> QED
    BY <1>10, <2>1, <2>2 DEF HstFilingsCreate, Posting, Unused
<1>11. ASSUME NEW q \in Quarter, HstFilingsVoid(q)
       PROVE  UNCHANGED entry
  BY <1>11 DEF HstFilingsVoid, vars
<1>12. ASSUME UNCHANGED entry PROVE Quiet
  BY <1>12 DEF Quiet
<1>13. ASSUME NEW p \in Period \cup Quarter,
              FiscalPeriodsCreate(p) \/ FiscalPeriodsLock(p) \/ FiscalPeriodsUnlock(p)
       PROVE  UNCHANGED entry
  BY <1>13 DEF FiscalPeriodsCreate, FiscalPeriodsLock, FiscalPeriodsUnlock
<1>14. ASSUME NEW t \in Threshold, CompanySave(t) PROVE UNCHANGED entry
  BY <1>14 DEF CompanySave
<1>15. CASE UNCHANGED vars
  BY <1>12, <1>15 DEF vars
<1> QED
  BY <1>1, <1>2, <1>3, <1>4, <1>5, <1>6, <1>7, <1>8, <1>9, <1>10, <1>11, <1>12,
     <1>13, <1>14, <1>15 DEF Next, Deleting

-----------------------------------------------------------------------------
(* The invariants *)

\* PostRow written out row by row, with m as the entry of the mirror.
LEMMA PostedRows ==
    ASSUME TypeOK, NEW e \in Entry, NEW row \in EntryRow, PostRow(e, row),
           row.reverseOn # NoDate
    PROVE  \E m \in Unused \ {e} :
               /\ entry'[e] = AsPosted(row)
               /\ entry'[m] = AsPosted(MirrorDraft(e, row))
               /\ \A x \in Entry \ {e, m} : entry'[x] = entry[x]
<1>1. PICK m \in Unused \ {e} :
          entry' = [entry EXCEPT ![e] = AsPosted(row),
                                 ![m] = AsPosted(MirrorDraft(e, row))]
  BY DEF PostRow
<1> QED
  BY <1>1 DEF Unused, TypeOK

LEMMA PostedFields ==
    ASSUME NEW row \in EntryRow
    PROVE  /\ AsPosted(row).status = "posted"
           /\ AsPosted(row).lines = row.lines
           /\ AsPosted(row).reverses = row.reverses
BY DEF AsPosted, EntryRow

LEMMA MirrorFields ==
    ASSUME NEW e \in Entry, NEW row \in EntryRow, row.reverseOn # NoDate
    PROVE  /\ MirrorDraft(e, row) \in EntryRow
           /\ MirrorDraft(e, row).reverses = e
           /\ MirrorDraft(e, row).lines.dr = row.lines.cr
           /\ MirrorDraft(e, row).lines.cr = row.lines.dr
<1>1. row.lines \in Lines
  BY DEF EntryRow
<1>2. Opposite(row.lines).dr = row.lines.cr /\ Opposite(row.lines).cr = row.lines.dr
  BY <1>1 DEF Opposite, Lines
<1> QED
  BY <1>2, MirrorDraftIsRow DEF MirrorDraft, Draft

LEMMA StepBalance == Inductive /\ [Next]_vars => BooksBalance'
<1> SUFFICES ASSUME Inductive, [Next]_vars, NEW x \in Entry,
                    entry'[x].status \in {"posted", "void"}
             PROVE  Balanced(entry'[x].lines)
  BY DEF BooksBalance
<1> USE DEF Inductive
<1>1. CASE Quiet
  BY <1>1 DEF Quiet, BooksBalance, Balanced, InLedger
<1>2. CASE Posting
  <2>1. PICK e \in Entry, row \in EntryRow : entry[e].status \in {"absent", "draft"} /\ PostRow(e, row)
    BY <1>2 DEF Posting
  <2>2. Balanced(row.lines)
    BY <2>1 DEF PostRow, MayPost
  <2>3. CASE row.reverseOn = NoDate
    <3>1. entry' = [entry EXCEPT ![e] = AsPosted(row)]
      BY <2>1, <2>3 DEF PostRow
    <3> QED
      BY <2>2, <3>1, PostedFields DEF TypeOK, BooksBalance
  <2>4. CASE row.reverseOn # NoDate
    <3>1. Balanced(MirrorDraft(e, row).lines)
      BY <2>1, <2>4 DEF PostRow, MayPost
    <3>2. MirrorDraft(e, row) \in EntryRow
      BY <2>4, MirrorFields
    <3>3. PICK m \in Unused \ {e} :
              /\ entry'[e] = AsPosted(row)
              /\ entry'[m] = AsPosted(MirrorDraft(e, row))
              /\ \A y \in Entry \ {e, m} : entry'[y] = entry[y]
      BY <2>1, <2>4, PostedRows
    <3> QED
      BY <2>2, <3>1, <3>2, <3>3, PostedFields DEF BooksBalance, Unused
  <2> QED
    BY <2>3, <2>4
<1>3. CASE Voiding
  BY <1>3 DEF Voiding, Posted, TypeOK, EntryRow, BooksBalance
<1>4. CASE Deleting
  BY <1>4 DEF Deleting, JournalDelete, TypeOK, EntryRow, BooksBalance
<1> QED
  BY <1>1, <1>2, <1>3, <1>4, StepEffect

LEMMA StepMirrors == Inductive /\ [Next]_vars => MirrorBelongs'
<1> SUFFICES ASSUME Inductive, [Next]_vars, NEW m \in Stored', entry'[m].reverses # NoEntry
             PROVE  LET e == entry'[m].reverses IN
                        /\ entry'[e].status \in {"posted", "void"}
                        /\ entry'[m].status \in {"posted", "void"}
                        /\ entry'[m].lines.dr = entry'[e].lines.cr
                        /\ entry'[m].lines.cr = entry'[e].lines.dr
                        /\ \A x \in Stored' : entry'[x].reverses = e => x = m
  BY DEF MirrorBelongs, Mirrors
<1> DEFINE e == entry'[m].reverses
<1> USE DEF Inductive
<1>0. entry' \in [Entry -> EntryRow] /\ m \in Entry /\ e \in Entry
  BY StepType DEF TypeOK, Stored, EntryRow
<1>1. ASSUME NEW a \in Entry, entry[a].status \in {"draft", "posted", "void"},
             entry[a].reverses # NoEntry
      PROVE  /\ entry[a].reverses \in Entry
             /\ entry[entry[a].reverses].status \in {"posted", "void"}
             /\ entry[a].status \in {"posted", "void"}
             /\ entry[a].lines.dr = entry[entry[a].reverses].lines.cr
             /\ entry[a].lines.cr = entry[entry[a].reverses].lines.dr
             /\ \A x \in Stored : entry[x].reverses = entry[a].reverses => x = a
  BY <1>1 DEF MirrorBelongs, Mirrors, Stored, TypeOK, EntryRow
<1>2. CASE Quiet
  <2>1. entry[m].status \in {"draft", "posted", "void"} /\ entry[m].reverses = e
    BY <1>0, <1>2 DEF Quiet, Stored
  <2>2. /\ entry[e].status \in {"posted", "void"}
        /\ entry[m].status \in {"posted", "void"}
    BY <1>1, <1>0, <2>1
  <2>3. /\ entry'[e].status = entry[e].status
        /\ entry'[m].status = entry[m].status
        /\ entry'[m].lines.dr = entry'[e].lines.cr
        /\ entry'[m].lines.cr = entry'[e].lines.dr
    BY <1>0, <1>1, <1>2, <2>1, <2>2 DEF Quiet, InLedger
  <2>4. \A x \in Stored' : entry'[x].reverses = e => x = m
    BY <1>0, <1>1, <1>2, <2>1 DEF Quiet, Stored
  <2> QED
    BY <2>2, <2>3, <2>4
<1>3. CASE Posting
  <2>1. PICK a \in Entry, row \in EntryRow :
            /\ entry[a].status \in {"absent", "draft"}
            /\ row.reverses = NoEntry
            /\ PostRow(a, row)
    BY <1>3 DEF Posting
  <2>2. CASE row.reverseOn = NoDate
    <3>1. entry' = [entry EXCEPT ![a] = AsPosted(row)]
      BY <2>1, <2>2 DEF PostRow
    <3>2. /\ entry'[a] = AsPosted(row)
          /\ \A x \in Entry \ {a} : entry'[x] = entry[x]
      BY <3>1 DEF TypeOK
    <3>3. m # a /\ entry[m].status \in {"draft", "posted", "void"} /\ entry[m].reverses = e
      BY <1>0, <2>1, <3>2, PostedFields DEF Stored
    <3>4. e # a
      BY <1>1, <1>0, <2>1, <3>3
    <3> QED
      BY <1>0, <1>1, <2>1, <3>2, <3>3, <3>4, PostedFields DEF Stored
  <2>3. CASE row.reverseOn # NoDate
    <3>1. PICK b \in Unused \ {a} :
              /\ entry'[a] = AsPosted(row)
              /\ entry'[b] = AsPosted(MirrorDraft(a, row))
              /\ \A x \in Entry \ {a, b} : entry'[x] = entry[x]
      BY <2>1, <2>3, PostedRows
    <3>2. b \in Entry /\ b # a /\ entry[b].status = "absent"
      BY DEF Unused
    <3>3. /\ entry'[a].status = "posted" /\ entry'[a].reverses = NoEntry
          /\ entry'[a].lines = row.lines
      BY <2>1, <3>1, PostedFields
    <3>4. /\ entry'[b].status = "posted" /\ entry'[b].reverses = a
          /\ entry'[b].lines.dr = row.lines.cr /\ entry'[b].lines.cr = row.lines.dr
      BY <2>3, <3>1, MirrorFields, PostedFields
    <3>5. CASE m = b
      BY <1>0, <1>1, <2>1, <3>1, <3>2, <3>3, <3>4, <3>5 DEF Stored
    <3>6. CASE m # b
      <4>1. m # a /\ entry'[m] = entry[m]
        BY <1>0, <3>1, <3>3, <3>6
      <4>2. entry[m].status \in {"draft", "posted", "void"} /\ entry[m].reverses = e
        BY <4>1 DEF Stored
      <4>3. e # a /\ e # b
        BY <1>0, <1>1, <2>1, <3>2, <4>2
      <4> QED
        BY <1>0, <1>1, <3>1, <3>3, <3>4, <4>1, <4>2, <4>3 DEF Stored
    <3> QED
      BY <3>5, <3>6
  <2> QED
    BY <2>2, <2>3
<1>4. CASE Voiding
  <2>1. PICK doomed \in SUBSET Posted :
            entry' = [x \in Entry |-> IF x \in doomed
                                     THEN [entry[x] EXCEPT !.status = "void"]
                                     ELSE entry[x]]
    BY <1>4 DEF Voiding
  <2>2. \A x \in Entry : /\ entry'[x].reverses = entry[x].reverses
                         /\ entry'[x].lines = entry[x].lines
                         /\ \/ entry'[x].status = entry[x].status
                            \/ entry[x].status = "posted" /\ entry'[x].status = "void"
    BY <2>1 DEF TypeOK, EntryRow, Posted
  <2>3. entry[m].status \in {"draft", "posted", "void"} /\ entry[m].reverses = e
    BY <1>0, <2>2 DEF Stored
  <2> QED
    BY <1>0, <1>1, <2>2, <2>3 DEF Stored
<1>5. CASE Deleting
  <2>1. PICK d \in Entry : JournalDelete(d)
    BY <1>5 DEF Deleting
  <2>2. /\ entry'[d].status = "deleted"
        /\ \A x \in Entry \ {d} : entry'[x] = entry[x]
        /\ \A x \in Stored : entry[x].reverses # d
    BY <2>1 DEF JournalDelete, Mirrors, TypeOK, EntryRow
  <2>3. m # d /\ entry[m].status \in {"draft", "posted", "void"} /\ entry[m].reverses = e
    BY <1>0, <2>2 DEF Stored
  <2>4. e # d
    BY <1>0, <2>2, <2>3 DEF Stored
  <2> QED
    BY <1>0, <1>1, <2>2, <2>3, <2>4 DEF Stored
<1> QED
  BY <1>2, <1>3, <1>4, <1>5, StepEffect

LEMMA InitInductive == Init => Inductive
BY InitType DEF Init, NoRow, Inductive, BooksBalance, MirrorBelongs, Stored, TypeOK

LEMMA StepInductive == Inductive /\ [Next]_vars => Inductive'
BY StepType, StepBalance, StepMirrors DEF Inductive

\* Whatever the windows of a company send, an entry in the ledger balances.
THEOREM Balance == Spec => []BooksBalance
<1>1. Inductive => BooksBalance
  BY DEF Inductive
<1> QED
  BY <1>1, InitInductive, StepInductive, PTL DEF Spec

\* Whatever the windows of a company send, a mirror has its one accrual, stored
\* and with the opposite amounts.
THEOREM MirrorIntegrity == Spec => []MirrorBelongs
<1>1. Inductive => MirrorBelongs
  BY DEF Inductive
<1> QED
  BY <1>1, InitInductive, StepInductive, PTL DEF Spec

-----------------------------------------------------------------------------
(* The journal implements Book *)

LEMMA InitBook == Init => Kept!Init
BY DEF Init, NoRow, Kept!Init, StandingOf, AmountOf, UndoesOf, InLedger

LEMMA QuietStutters ==
    ASSUME Inductive, [Next]_vars, Quiet
    PROVE  UNCHANGED <<StandingOf, AmountOf, UndoesOf>>
<1>1. \A x \in Entry : InLedger(x)' <=> InLedger(x)
  BY DEF Quiet, InLedger
<1>2. StandingOf' = StandingOf
  BY DEF Quiet, StandingOf
<1>3. AmountOf' = AmountOf
  BY <1>1 DEF Quiet, AmountOf
<1>4. UndoesOf' = UndoesOf
  BY <1>1 DEF Quiet, UndoesOf, InLedger
<1> QED
  BY <1>2, <1>3, <1>4

LEMMA PostingEnters ==
    ASSUME Inductive, [Next]_vars, Posting
    PROVE  Kept!Next
<1>1. PICK e \in Entry, row \in EntryRow :
          /\ entry[e].status \in {"absent", "draft"}
          /\ row.reverses = NoEntry
          /\ PostRow(e, row)
  BY DEF Posting
<1>2. Balanced(row.lines) /\ row.lines \in Lines
  BY <1>1 DEF PostRow, MayPost, EntryRow
<1>3. row.lines.dr \in Nat \ {0} /\ row.lines.cr = row.lines.dr
  BY <1>2 DEF Balanced, Lines
<1>4. CASE row.reverseOn = NoDate
  <2>1. entry' = [entry EXCEPT ![e] = AsPosted(row)]
    BY <1>1, <1>4 DEF PostRow
  <2>2. /\ entry'[e].status = "posted"
        /\ entry'[e].lines = row.lines
        /\ entry'[e].reverses = NoEntry
        /\ \A x \in Entry \ {e} : entry'[x] = entry[x]
    BY <1>1, <2>1, PostedFields DEF Inductive, TypeOK
  <2>3. StandingOf[e] = "out" /\ StandingOf' = [StandingOf EXCEPT ![e] = "in"]
    BY <1>1, <2>2 DEF StandingOf
  <2>4. AmountOf'[e] = row.lines.dr /\ AmountOf' = [AmountOf EXCEPT ![e] = AmountOf'[e]]
    BY <2>2 DEF AmountOf, InLedger
  <2>5. UndoesOf' = UndoesOf
    BY <1>1, <2>2 DEF UndoesOf, InLedger
  <2> QED
    BY <1>3, <2>3, <2>4, <2>5 DEF Kept!Next, Kept!Enter
<1>5. CASE row.reverseOn # NoDate
  <2>1. PICK m \in Unused \ {e} :
            /\ entry'[e] = AsPosted(row)
            /\ entry'[m] = AsPosted(MirrorDraft(e, row))
            /\ \A x \in Entry \ {e, m} : entry'[x] = entry[x]
    BY <1>1, <1>5, PostedRows DEF Inductive
  <2>2. m \in Entry /\ m # e /\ entry[m].status = "absent"
    BY DEF Unused
  <2>3. /\ entry'[e].status = "posted" /\ entry'[e].lines = row.lines
        /\ entry'[e].reverses = NoEntry
    BY <1>1, <2>1, PostedFields
  <2>4. /\ entry'[m].status = "posted" /\ entry'[m].reverses = e
        /\ entry'[m].lines.dr = row.lines.dr
    BY <1>3, <1>5, <2>1, MirrorFields, PostedFields
  <2>5. /\ StandingOf[e] = "out" /\ StandingOf[m] = "out"
        /\ StandingOf' = [StandingOf EXCEPT ![e] = "in", ![m] = "in"]
    BY <1>1, <2>1, <2>2, <2>3, <2>4 DEF StandingOf
  <2>6. /\ AmountOf'[e] = row.lines.dr
        /\ AmountOf' = [AmountOf EXCEPT ![e] = AmountOf'[e], ![m] = AmountOf'[e]]
    BY <2>1, <2>2, <2>3, <2>4 DEF AmountOf, InLedger
  <2>7. UndoesOf' = [UndoesOf EXCEPT ![m] = e]
    BY <1>1, <2>1, <2>2, <2>3, <2>4 DEF UndoesOf, InLedger
  <2> QED
    BY <1>3, <2>2, <2>5, <2>6, <2>7 DEF Kept!Next, Kept!EnterUndone
<1> QED
  BY <1>4, <1>5

LEMMA VoidingWithdraws ==
    ASSUME Inductive, [Next]_vars, Voiding
    PROVE  Kept!Next
<1>1. PICK e \in Entry, doomed \in SUBSET Posted :
          /\ \A m \in doomed \ {e} : entry[m].reverses = e
          /\ entry' = [x \in Entry |-> IF x \in doomed
                                       THEN [entry[x] EXCEPT !.status = "void"]
                                       ELSE entry[x]]
  BY DEF Voiding
<1>2. \A x \in Entry : /\ entry'[x].status = IF x \in doomed THEN "void" ELSE entry[x].status
                       /\ entry'[x].lines = entry[x].lines
                       /\ entry'[x].reverses = entry[x].reverses
                       /\ x \in doomed => entry[x].status = "posted"
  BY <1>1 DEF Inductive, TypeOK, EntryRow, Posted
<1>3. doomed \subseteq {x \in Entry : StandingOf[x] = "in"}
  BY <1>2 DEF StandingOf, Posted
<1>4. \A m \in doomed \ {e} : UndoesOf[m] = e
  BY <1>1, <1>2 DEF UndoesOf, InLedger, Posted
<1>5. StandingOf' = [x \in Entry |-> IF x \in doomed THEN "withdrawn" ELSE StandingOf[x]]
  BY <1>2 DEF StandingOf
<1>6. AmountOf' = AmountOf /\ UndoesOf' = UndoesOf
  BY <1>2 DEF AmountOf, UndoesOf, InLedger
<1>7. doomed \in SUBSET Entry
  BY DEF Posted
<1>8. Kept!Withdraw(e, doomed)
  BY <1>3, <1>4, <1>5, <1>6 DEF Kept!Withdraw, Kept!In
<1> QED
  BY <1>7, <1>8 DEF Kept!Next

LEMMA DeletingForgets ==
    ASSUME Inductive, [Next]_vars, Deleting
    PROVE  Kept!Next
<1>1. PICK e \in Entry : JournalDelete(e)
  BY DEF Deleting
<1>2. /\ entry[e].status \in {"draft", "void"}
      /\ entry'[e].status = "deleted"
      /\ \A x \in Entry \ {e} : entry'[x] = entry[x]
  BY <1>1 DEF JournalDelete, Inductive, TypeOK, EntryRow
<1>3. \A m \in Stored : entry[m].reverses # e
  BY <1>1 DEF JournalDelete, Mirrors
<1>4. /\ StandingOf[e] \in {"out", "withdrawn"}
      /\ StandingOf' = [StandingOf EXCEPT ![e] = "gone"]
  BY <1>2 DEF StandingOf
<1>5. AmountOf' = [AmountOf EXCEPT ![e] = 0]
  BY <1>2 DEF AmountOf, InLedger
<1>6. UndoesOf' = [UndoesOf EXCEPT ![e] = NoEntry]
  BY <1>2 DEF UndoesOf, InLedger
<1>7. \A m \in Entry : StandingOf[m] \in {"in", "withdrawn"} => UndoesOf[m] # e
  BY <1>3, JournalAssumption DEF StandingOf, UndoesOf, InLedger, Stored
<1>8. Kept!Forget(e)
  BY <1>4, <1>5, <1>6, <1>7 DEF Kept!Forget, Kept!Written
<1> QED
  BY <1>8 DEF Kept!Next

LEMMA StepBook == Inductive /\ [Next]_vars => [Kept!Next]_<<StandingOf, AmountOf, UndoesOf>>
BY StepEffect, QuietStutters, PostingEnters, VoidingWithdraws, DeletingForgets

\* Every behaviour of the journal is a behaviour of Book under the mapping of
\* JournalBook: drafts, approvals, locks, returns and reconciliations never make an
\* entry enter twice, change its amount or lose the entry it undoes.
THEOREM ImplementsBook == Spec => KeepsTheBook
<1>1. Inductive /\ [Next]_vars => [Kept!Next]_Kept!book
  BY StepBook DEF Kept!book
<1> QED
  BY <1>1, InitInductive, StepInductive, InitBook, PTL DEF Spec, KeepsTheBook, Kept!Spec

-----------------------------------------------------------------------------
(* The accountant's lock *)

\* What LockedPeriodSealed says of one entry and one locked period.
SealedFor(p, x) ==
    /\ Posts(x) => entry'[x].date \notin PeriodDays[p]
    /\ Leaves(x) /\ entry[x].date \in PeriodDays[p] => x \in forced'
    /\ (x \in Posted /\ entry'[x].date # entry[x].date) =>
            /\ entry[x].date \notin PeriodDays[p]
            /\ entry'[x].date \notin PeriodDays[p]

LEMMA PostingSealed ==
    ASSUME TypeOK, NEW p \in Period, period[p] = "locked", NEW x \in Entry,
           NEW e \in Entry, NEW row \in EntryRow, PostRow(e, row),
           entry[e].status \in {"absent", "draft"}
    PROVE  SealedFor(p, x)
<1>1. AsPosted(row).date = row.date /\ AsPosted(row).status = "posted"
  BY DEF AsPosted, EntryRow
<1>2. row.date \notin PeriodDays[p]
  BY DEF PostRow, MayPost, PostingLocked, AccountantLocked
<1>3. CASE row.reverseOn = NoDate
  <2>1. entry' = [entry EXCEPT ![e] = AsPosted(row)]
    BY <1>3 DEF PostRow
  <2> QED
    BY <1>1, <1>2, <2>1 DEF SealedFor, Posts, Leaves, Posted, TypeOK
<1>4. CASE row.reverseOn # NoDate
  <2>1. PICK m \in Unused \ {e} :
            /\ entry'[e] = AsPosted(row)
            /\ entry'[m] = AsPosted(MirrorDraft(e, row))
            /\ \A y \in Entry \ {e, m} : entry'[y] = entry[y]
    BY <1>4, PostedRows
  <2>2. MirrorDraft(e, row) \in EntryRow
    BY <1>4, MirrorFields
  <2>3. /\ AsPosted(MirrorDraft(e, row)).date = MirrorDraft(e, row).date
        /\ AsPosted(MirrorDraft(e, row)).status = "posted"
    BY <2>2 DEF AsPosted, EntryRow
  <2>4. MirrorDraft(e, row).date \notin PeriodDays[p]
    BY <1>4 DEF PostRow, MayPost, PostingLocked, AccountantLocked
  <2> QED
    BY <1>1, <1>2, <2>1, <2>3, <2>4 DEF SealedFor, Posts, Leaves, Posted, Unused
<1> QED
  BY <1>3, <1>4

LEMMA VoidingSealed ==
    ASSUME TypeOK, NEW p \in Period, period[p] = "locked", NEW x \in Entry,
           NEW doomed \in SUBSET Entry, NEW override \in BOOLEAN, MarkVoid(doomed, override),
           \A m \in doomed : ~AccountantLocked(entry[m].date) \/ override
    PROVE  SealedFor(p, x)
<1>1. /\ entry'[x].date = entry[x].date
      /\ entry'[x].status = IF x \in doomed THEN "void" ELSE entry[x].status
      /\ override => doomed \subseteq forced'
  BY DEF MarkVoid, TypeOK, EntryRow
<1>2. x \in doomed /\ entry[x].date \in PeriodDays[p] => override
  BY DEF AccountantLocked
<1> QED
  BY <1>1, <1>2 DEF SealedFor, Posts, Leaves

LEMMA StepSealed ==
    ASSUME TypeOK, [Next]_vars, NEW p \in Period, period[p] = "locked", NEW x \in Entry
    PROVE  SealedFor(p, x)
<1> USE JournalAssumption
<1>1. ASSUME NEW e \in Entry, NEW date \in Date, NEW lines \in LineSet, NEW origin \in Origin,
             NEW reverseOn \in Date \cup {NoDate}, JournalCreate(e, date, lines, origin, reverseOn)
      PROVE  SealedFor(p, x)
  <2>1. NewDraft(date, lines, origin, reverseOn).status = "draft"
    BY DEF NewDraft, Draft
  <2> QED
    BY <1>1, <2>1 DEF JournalCreate, SealedFor, Posts, Leaves, Posted, Unused, TypeOK
<1>2. ASSUME NEW e \in Entry, NEW date \in Date, NEW lines \in LineSet, NEW origin \in Origin,
             NEW reverseOn \in Date \cup {NoDate}, JournalCreateAndPost(e, date, lines, origin, reverseOn)
      PROVE  SealedFor(p, x)
  <2>1. NewDraft(date, lines, origin, reverseOn) \in EntryRow
    BY NewDraftIsRow
  <2> QED
    BY <1>2, <2>1, PostingSealed DEF JournalCreateAndPost, Unused
<1>3. ASSUME NEW e \in Entry, NEW date \in Date, NEW lines \in LineSet, NEW origin \in Origin,
             NEW reverseOn \in Date \cup {NoDate}, JournalUpdate(e, date, lines, origin, reverseOn)
      PROVE  SealedFor(p, x)
  BY <1>3 DEF JournalUpdate, SealedFor, Posts, Leaves, Posted, TypeOK, EntryRow
<1>4. ASSUME NEW e \in Entry, JournalPost(e)
      PROVE  SealedFor(p, x)
  <2>1. entry[e] \in EntryRow
    BY DEF TypeOK
  <2> QED
    BY <1>4, <2>1, PostingSealed DEF JournalPost
<1>5. ASSUME NEW e \in Entry, JournalDelete(e)
      PROVE  SealedFor(p, x)
  BY <1>5 DEF JournalDelete, SealedFor, Posts, Leaves, Posted, TypeOK, EntryRow
<1>6. ASSUME NEW e \in Entry, NEW tick \in BOOLEAN, BankReconciliationToggleLine(e, tick)
      PROVE  SealedFor(p, x)
  BY <1>6 DEF BankReconciliationToggleLine, SealedFor, Posts, Leaves, Posted, TypeOK, EntryRow
<1>7. ASSUME NEW e \in Entry, NEW date \in Date, JournalUpdateDate(e, date)
      PROVE  SealedFor(p, x)
  <2>1. entry[e].date \notin PeriodDays[p] /\ date \notin PeriodDays[p]
    BY <1>7 DEF JournalUpdateDate, AccountantLocked
  <2> QED
    BY <1>7, <2>1 DEF JournalUpdateDate, SealedFor, Posts, Leaves, Posted, TypeOK, EntryRow
<1>8. ASSUME NEW e \in Entry, NEW tax \in TaxKind, JournalSetLineTaxCode(e, tax)
      PROVE  SealedFor(p, x)
  BY <1>8 DEF JournalSetLineTaxCode, SealedFor, Posts, Leaves, Posted, TypeOK, EntryRow
<1>9. ASSUME NEW e \in Entry, NEW to \in Approval, JournalSetApproval(e, to)
      PROVE  SealedFor(p, x)
  BY <1>9 DEF JournalSetApproval, SealedFor, Posts, Leaves, Posted, TypeOK, EntryRow
<1>10. ASSUME NEW e \in Entry, NEW override \in BOOLEAN, JournalVoid(e, override)
       PROVE  SealedFor(p, x)
  <2>1. \A m \in VoidReach(e, override) : ~AccountantLocked(entry[m].date) \/ override
    BY <1>10 DEF JournalVoid, VoidReach, MayVoid, PostingLocked
  <2>2. VoidReach(e, override) \in SUBSET Entry
    BY DEF VoidReach, PostedMirrors, Mirrors, Posted
  <2> QED
    BY <1>10, <2>1, <2>2, VoidingSealed DEF JournalVoid
<1>11. ASSUME NEW e \in Entry, NEW q \in Quarter, NEW date \in Date, HstFilingsCreate(e, q, date)
       PROVE  SealedFor(p, x)
  <2>1. NewDraft(date, ClearingLines, ByReference, NoDate) \in EntryRow
    BY NewDraftIsRow DEF ClearingLines, ByReference, Lines, TaxKind, Origins
  <2> QED
    BY <1>11, <2>1, PostingSealed DEF HstFilingsCreate, Unused
<1>12. ASSUME NEW q \in Quarter, HstFilingsVoid(q)
       PROVE  UNCHANGED entry
  BY <1>12 DEF HstFilingsVoid, vars
<1>13. ASSUME UNCHANGED entry PROVE SealedFor(p, x)
  BY <1>13 DEF SealedFor, Posts, Leaves
<1>14. ASSUME NEW r \in Period \cup Quarter,
              FiscalPeriodsCreate(r) \/ FiscalPeriodsLock(r) \/ FiscalPeriodsUnlock(r)
       PROVE  UNCHANGED entry
  BY <1>14 DEF FiscalPeriodsCreate, FiscalPeriodsLock, FiscalPeriodsUnlock
<1>15. ASSUME NEW t \in Threshold, CompanySave(t) PROVE UNCHANGED entry
  BY <1>15 DEF CompanySave
<1>16. CASE UNCHANGED vars
  BY <1>13, <1>16 DEF vars
<1> QED
  BY <1>1, <1>2, <1>3, <1>4, <1>5, <1>6, <1>7, <1>8, <1>9, <1>10, <1>11, <1>12, <1>13,
     <1>14, <1>15, <1>16 DEF Next

\* While a period stays locked nothing dated in it enters the ledger, nothing moves
\* into or out of it, and nothing leaves it but by the confirmed override: for any
\* entries, mirrors, periods and dates, and whatever else is going on.
THEOREM LockSeals == Spec => LockedPeriodSealed
<1>1. TypeOK /\ [Next]_vars =>
        [\A p \in Period, e \in Entry : period[p] = "locked" /\ period'[p] = "locked" =>
            /\ (Posts(e) => entry'[e].date \notin PeriodDays[p])
            /\ (Leaves(e) /\ entry[e].date \in PeriodDays[p] => e \in forced')
            /\ (e \in Posted /\ entry'[e].date # entry[e].date =>
                    /\ entry[e].date \notin PeriodDays[p]
                    /\ entry'[e].date \notin PeriodDays[p])]_vars
  BY StepSealed DEF SealedFor
<1> QED
  BY <1>1, TypeCorrect, PTL DEF Spec, LockedPeriodSealed

-----------------------------------------------------------------------------
(* What a single handler may do to entries that are on a filed return, ticked *)
(* in a reconciliation or waiting for approval; filed returns stay backed     *)

(* Every handler posts, voids, or does neither *)

\* Nothing enters or leaves the ledger, and ticked entries in it stay as they are.
Neither ==
    \A x \in Entry :
        /\ ~Posts(x) /\ ~Leaves(x)
        /\ x \in Posted /\ entry[x].cleared /\ entry'[x].cleared =>
               /\ entry'[x].date = entry[x].date
               /\ entry'[x].lines.dr = entry[x].lines.dr
               /\ entry'[x].lines.cr = entry[x].lines.cr

\* Any of several entries leaves the ledger, each by the checks of a void.
VoidingChecked ==
    \E doomed \in SUBSET Entry, override \in BOOLEAN :
        /\ MarkVoid(doomed, override)
        /\ \A m \in doomed : /\ m \in Posted
                             /\ ~entry[m].cleared
                             /\ \/ override
                                \/ ~AffectsReturn(entry[m].lines)
                                \/ ~ReturnFiled(entry[m].date)

LEMMA StepKind ==
    ASSUME Inductive, [Next]_vars
    PROVE  Neither \/ Posting \/ VoidingChecked
<1> USE JournalAssumption DEF Inductive
<1>1. ASSUME NEW e \in Entry, NEW date \in Date, NEW lines \in LineSet, NEW origin \in Origin,
             NEW reverseOn \in Date \cup {NoDate}, JournalCreate(e, date, lines, origin, reverseOn)
      PROVE  Neither
  <2>1. NewDraft(date, lines, origin, reverseOn).status = "draft"
    BY DEF NewDraft, Draft
  <2> QED
    BY <1>1, <2>1 DEF JournalCreate, Neither, Posts, Leaves, Posted, Unused, TypeOK
<1>2. ASSUME NEW e \in Entry, NEW date \in Date, NEW lines \in LineSet, NEW origin \in Origin,
             NEW reverseOn \in Date \cup {NoDate}, JournalCreateAndPost(e, date, lines, origin, reverseOn)
      PROVE  Posting
  <2>1. NewDraft(date, lines, origin, reverseOn) \in EntryRow
    BY NewDraftIsRow
  <2>2. NewDraft(date, lines, origin, reverseOn).reverses = NoEntry
    BY DEF NewDraft, Draft
  <2> QED
    BY <1>2, <2>1, <2>2 DEF JournalCreateAndPost, Posting, Unused
<1>3. ASSUME NEW e \in Entry, NEW date \in Date, NEW lines \in LineSet, NEW origin \in Origin,
             NEW reverseOn \in Date \cup {NoDate}, JournalUpdate(e, date, lines, origin, reverseOn)
      PROVE  Neither
  BY <1>3 DEF JournalUpdate, Neither, Posts, Leaves, Posted, TypeOK, EntryRow
<1>4. ASSUME NEW e \in Entry, JournalPost(e)
      PROVE  Posting
  <2>1. entry[e] \in EntryRow /\ entry[e].reverses = NoEntry
    BY <1>4 DEF JournalPost, TypeOK, MirrorBelongs, Stored
  <2> QED
    BY <1>4, <2>1 DEF JournalPost, Posting
<1>5. ASSUME NEW e \in Entry, JournalDelete(e)
      PROVE  Neither
  BY <1>5 DEF JournalDelete, Neither, Posts, Leaves, Posted, TypeOK, EntryRow
<1>6. ASSUME NEW e \in Entry, NEW tick \in BOOLEAN, BankReconciliationToggleLine(e, tick)
      PROVE  Neither
  BY <1>6 DEF BankReconciliationToggleLine, Neither, Posts, Leaves, Posted, TypeOK, EntryRow
<1>7. ASSUME NEW e \in Entry, NEW date \in Date, JournalUpdateDate(e, date)
      PROVE  Neither
  BY <1>7 DEF JournalUpdateDate, Neither, Posts, Leaves, Posted, TypeOK, EntryRow
<1>8. ASSUME NEW e \in Entry, NEW tax \in TaxKind, JournalSetLineTaxCode(e, tax)
      PROVE  Neither
  BY <1>8 DEF JournalSetLineTaxCode, Neither, Posts, Leaves, Posted, TypeOK, EntryRow, Lines
<1>9. ASSUME NEW e \in Entry, NEW to \in Approval, JournalSetApproval(e, to)
      PROVE  Neither
  BY <1>9 DEF JournalSetApproval, Neither, Posts, Leaves, Posted, TypeOK, EntryRow
<1>10. ASSUME NEW e \in Entry, NEW override \in BOOLEAN, JournalVoid(e, override)
       PROVE  VoidingChecked
  <2>1. \A m \in VoidReach(e, override) : m \in Entry /\ MayVoid(m, override)
    BY <1>10 DEF JournalVoid, VoidReach, PostedMirrors, Mirrors, Posted
  <2>2. \A m \in VoidReach(e, override) :
            /\ m \in Posted
            /\ ~entry[m].cleared
            /\ \/ override
               \/ ~AffectsReturn(entry[m].lines)
               \/ ~ReturnFiled(entry[m].date)
    BY <2>1 DEF MayVoid, PostingLocked, Posted
  <2> QED
    BY <1>10, <2>1, <2>2 DEF JournalVoid, VoidingChecked
<1>11. ASSUME NEW e \in Entry, NEW q \in Quarter, NEW date \in Date, HstFilingsCreate(e, q, date)
       PROVE  Posting
  <2>1. NewDraft(date, ClearingLines, ByReference, NoDate) \in EntryRow
    BY NewDraftIsRow DEF ClearingLines, ByReference, Lines, TaxKind, Origins
  <2>2. NewDraft(date, ClearingLines, ByReference, NoDate).reverses = NoEntry
    BY DEF NewDraft, Draft
  <2> QED
    BY <1>11, <2>1, <2>2 DEF HstFilingsCreate, Posting, Unused
<1>12. ASSUME NEW q \in Quarter, HstFilingsVoid(q)
       PROVE  UNCHANGED entry
  BY <1>12 DEF HstFilingsVoid, vars
<1>13. ASSUME UNCHANGED entry PROVE Neither
  BY <1>13 DEF Neither, Posts, Leaves
<1>14. ASSUME NEW p \in Period \cup Quarter,
              FiscalPeriodsCreate(p) \/ FiscalPeriodsLock(p) \/ FiscalPeriodsUnlock(p)
       PROVE  UNCHANGED entry
  BY <1>14 DEF FiscalPeriodsCreate, FiscalPeriodsLock, FiscalPeriodsUnlock
<1>15. ASSUME NEW t \in Threshold, CompanySave(t) PROVE UNCHANGED entry
  BY <1>15 DEF CompanySave
<1>16. CASE UNCHANGED vars
  BY <1>13, <1>16 DEF vars
<1> QED
  BY <1>1, <1>2, <1>3, <1>4, <1>5, <1>6, <1>7, <1>8, <1>9, <1>10, <1>11, <1>12,
     <1>13, <1>14, <1>15, <1>16 DEF Next

\* What posting writes: one entry that passed the gate, or one and its mirror.
LEMMA PostingWrites ==
    ASSUME Inductive, Posting, NEW x \in Entry
    PROVE  \/ entry'[x] = entry[x]
           \/ /\ x \notin Posted
              /\ \E row \in EntryRow :
                    /\ MayPost(row)
                    /\ entry'[x] = AsPosted(row)
                    /\ row.reverseOn # NoDate =>
                          \E m \in Unused : /\ entry'[m].status = "posted"
                                            /\ entry'[m].reverses = x
                                            /\ entry'[m].date = row.reverseOn
<1>1. PICK e \in Entry, row \in EntryRow :
          entry[e].status \in {"absent", "draft"} /\ PostRow(e, row)
  BY DEF Posting
<1>2. MayPost(row) /\ e \notin Posted
  BY <1>1 DEF PostRow, Posted
<1>3. CASE row.reverseOn = NoDate
  <2>1. entry' = [entry EXCEPT ![e] = AsPosted(row)]
    BY <1>1, <1>3 DEF PostRow
  <2> QED
    BY <1>2, <1>3, <2>1 DEF Inductive, TypeOK
<1>4. CASE row.reverseOn # NoDate
  <2>1. PICK m \in Unused \ {e} :
            /\ entry'[e] = AsPosted(row)
            /\ entry'[m] = AsPosted(MirrorDraft(e, row))
            /\ \A y \in Entry \ {e, m} : entry'[y] = entry[y]
    BY <1>1, <1>4, PostedRows DEF Inductive
  <2>2. MirrorDraft(e, row) \in EntryRow /\ MayPost(MirrorDraft(e, row))
    BY <1>1, <1>4, MirrorFields DEF PostRow
  <2>3. /\ MirrorDraft(e, row).reverses = e
        /\ MirrorDraft(e, row).date = row.reverseOn
        /\ MirrorDraft(e, row).reverseOn = NoDate
    BY DEF MirrorDraft, Draft
  <2>4. m \notin Posted
    BY DEF Unused, Posted
  <2>5. /\ entry'[m].status = "posted"
        /\ entry'[m].reverses = e
        /\ entry'[m].date = row.reverseOn
    BY <2>1, <2>2, <2>3 DEF AsPosted, EntryRow
  <2>6. CASE x = e
    BY <1>2, <2>1, <2>5, <2>6
  <2>7. CASE x = m
    BY <2>1, <2>2, <2>3, <2>4, <2>7
  <2> QED
    BY <2>1, <2>6, <2>7
<1> QED
  BY <1>3, <1>4

\* What a checked void does to one entry.
LEMMA VoidingTakes ==
    ASSUME Inductive, VoidingChecked, NEW x \in Entry
    PROVE  \/ entry'[x] = entry[x]
           \/ /\ entry'[x] = [entry[x] EXCEPT !.status = "void"]
              /\ ~entry[x].cleared
              /\ \/ x \in forced'
                 \/ ~AffectsReturn(entry[x].lines)
                 \/ ~ReturnFiled(entry[x].date)
<1>1. PICK doomed \in SUBSET Entry, override \in BOOLEAN :
          /\ MarkVoid(doomed, override)
          /\ \A m \in doomed : /\ ~entry[m].cleared
                               /\ \/ override
                                  \/ ~AffectsReturn(entry[m].lines)
                                  \/ ~ReturnFiled(entry[m].date)
  BY DEF VoidingChecked
<1>2. override => doomed \subseteq forced'
  BY <1>1 DEF MarkVoid
<1>3. entry'[x] = IF x \in doomed THEN [entry[x] EXCEPT !.status = "void"] ELSE entry[x]
  BY <1>1 DEF MarkVoid
<1> QED
  BY <1>1, <1>2, <1>3

-----------------------------------------------------------------------------
(* The theorems about single steps *)

\* A return's lock comes with its record and goes with neither an unlock nor a void.
LEMMA StepLocksMatch ==
    ASSUME TypeOK, LocksMatch, [Next]_vars
    PROVE  LocksMatch'
<1> USE JournalAssumption
<1>1. ASSUME UNCHANGED <<period, filing>> PROVE LocksMatch'
  BY <1>1 DEF LocksMatch, Filed
<1>2. ASSUME NEW e \in Entry, NEW date \in Date, NEW lines \in LineSet, NEW origin \in Origin,
             NEW reverseOn \in Date \cup {NoDate},
             \/ JournalCreate(e, date, lines, origin, reverseOn)
             \/ JournalCreateAndPost(e, date, lines, origin, reverseOn)
             \/ JournalUpdate(e, date, lines, origin, reverseOn)
      PROVE  UNCHANGED <<period, filing>>
  BY <1>2 DEF JournalCreate, JournalCreateAndPost, JournalUpdate
<1>3. ASSUME NEW e \in Entry, JournalPost(e) \/ JournalDelete(e)
      PROVE  UNCHANGED <<period, filing>>
  BY <1>3 DEF JournalPost, JournalDelete
<1>4. ASSUME NEW e \in Entry, NEW tick \in BOOLEAN,
             BankReconciliationToggleLine(e, tick) \/ JournalVoid(e, tick)
      PROVE  UNCHANGED <<period, filing>>
  BY <1>4 DEF BankReconciliationToggleLine, JournalVoid
<1>5. ASSUME NEW e \in Entry,
             \/ \E date \in Date : JournalUpdateDate(e, date)
             \/ \E tax \in TaxKind : JournalSetLineTaxCode(e, tax)
             \/ \E to \in Approval : JournalSetApproval(e, to)
      PROVE  UNCHANGED <<period, filing>>
  BY <1>5 DEF JournalUpdateDate, JournalSetLineTaxCode, JournalSetApproval
<1>6. ASSUME NEW e \in Entry, NEW q \in Quarter, NEW date \in Date, HstFilingsCreate(e, q, date)
      PROVE  LocksMatch'
  <2>1. /\ period' = [period EXCEPT ![q] = "locked"]
        /\ filing' = [filing EXCEPT ![q] = e]
        /\ period \in [Period \cup Quarter -> {"absent", "open", "locked"}]
        /\ filing \in [Quarter -> Entry \cup {NoEntry}]
    BY <1>6 DEF HstFilingsCreate, TypeOK
  <2>2. Filed' = Filed \cup {q}
    BY <2>1 DEF Filed
  <2> QED
    BY <2>1, <2>2 DEF LocksMatch
<1>7. ASSUME NEW q \in Quarter, HstFilingsVoid(q)
      PROVE  UNCHANGED <<period, filing>>
  BY <1>7 DEF HstFilingsVoid, vars
<1>8. ASSUME NEW p \in Period \cup Quarter,
             FiscalPeriodsCreate(p) \/ FiscalPeriodsLock(p) \/ FiscalPeriodsUnlock(p)
      PROVE  LocksMatch'
  <2>1. Filed' = Filed
    BY <1>8 DEF FiscalPeriodsCreate, FiscalPeriodsLock, FiscalPeriodsUnlock, Filed
  <2>2. ASSUME NEW q \in Quarter PROVE period'[q] = period[q]
    BY <1>8, <2>2 DEF FiscalPeriodsCreate, FiscalPeriodsLock, FiscalPeriodsUnlock, LocksMatch,
                      TypeOK
  <2> QED
    BY <2>1, <2>2 DEF LocksMatch
<1>9. ASSUME NEW t \in Threshold, CompanySave(t) PROVE UNCHANGED <<period, filing>>
  BY <1>9 DEF CompanySave
<1>10. CASE UNCHANGED vars
  BY <1>1, <1>10 DEF vars
<1> QED
  BY <1>1, <1>2, <1>3, <1>4, <1>5, <1>6, <1>7, <1>8, <1>9, <1>10 DEF Next

\* A filed return has its lock and no other return has one, whatever the accountant
\* unlocks and however often a void is tried.
THEOREM LocksAlwaysMatch == Spec => []LocksMatch
<1>1. Init => LocksMatch
  BY DEF Init, LocksMatch, Filed
<1> QED
  BY <1>1, TypeCorrect, StepLocksMatch, PTL DEF Spec

\* What FiledReturnSealed says of one entry and one filed return.
ReturnSealedFor(q, x) ==
    /\ x \in Reported(q)' /\ x \notin Reported(q) => x \in Posted
    /\ x \in Reported(q) /\ x \notin Reported(q)' => x \in Posted' \cup forced'

LEMMA StepReturnSealed ==
    ASSUME Inductive, LocksMatch, [Next]_vars, NEW q \in Filed, NEW x \in Entry
    PROVE  ReturnSealedFor(q, x)
<1>0. \A date \in QuarterDays[q] : ReturnFiled(date)
  BY DEF LocksMatch, ReturnFiled, Filed
<1>1. CASE Neither
  BY <1>1 DEF Neither, ReturnSealedFor, Reported, Posts, Leaves, Posted
<1>2. CASE Posting
  <2>1. CASE entry'[x] = entry[x]
    BY <2>1 DEF ReturnSealedFor, Reported, Posted
  <2>2. ASSUME x \notin Posted, NEW row \in EntryRow, MayPost(row), entry'[x] = AsPosted(row)
        PROVE  ReturnSealedFor(q, x)
    <3>1. row.date \in QuarterDays[q] => row.lines.tax = "none"
      BY <1>0, <2>2 DEF MayPost, PostingLocked, AffectsReturn
    <3>2. AsPosted(row).date = row.date /\ AsPosted(row).lines = row.lines
      BY DEF AsPosted, EntryRow
    <3> QED
      BY <2>2, <3>1, <3>2 DEF ReturnSealedFor, Reported, Posted
  <2> QED
    BY <1>2, <2>1, <2>2, PostingWrites
<1>3. CASE VoidingChecked
  <2>1. entry[x] \in EntryRow
    BY DEF Inductive, TypeOK
  <2>2. \/ entry'[x] = entry[x]
        \/ /\ entry'[x] = [entry[x] EXCEPT !.status = "void"]
           /\ \/ x \in forced'
              \/ entry[x].lines.tax = "none"
              \/ entry[x].date \notin QuarterDays[q]
    BY <1>0, <1>3, VoidingTakes DEF AffectsReturn
  <2> QED
    BY <2>1, <2>2 DEF ReturnSealedFor, Reported, Posted, EntryRow
<1> QED
  BY <1>1, <1>2, <1>3, StepKind

\* Once a return is filed no entry is posted onto it and none on it is voided but by
\* the confirmed override, whatever day its own entry is dated: its lock stands.
THEOREM ReturnSeals == Spec => FiledReturnSealed
<1>1. ASSUME Inductive, LocksMatch, [Next]_vars, NEW q \in Filed
      PROVE  /\ Reported(q)' \ Reported(q) \subseteq Posted
             /\ Reported(q) \ Reported(q)' \subseteq Posted' \cup forced'
  <2>1. Reported(q) \subseteq Entry /\ Reported(q)' \subseteq Entry
    BY DEF Reported, Posted
  <2>2. \A x \in Entry : ReturnSealedFor(q, x)
    BY <1>1, StepReturnSealed
  <2> QED
    BY <2>1, <2>2 DEF ReturnSealedFor
<1>2. Inductive /\ LocksMatch /\ [Next]_vars =>
        [\A q \in Filed :
            /\ Reported(q)' \ Reported(q) \subseteq Posted
            /\ Reported(q) \ Reported(q)' \subseteq Posted' \cup forced']_vars
  BY <1>1
<1> QED
  BY <1>2, InitInductive, StepInductive, LocksAlwaysMatch, PTL DEF Spec, FiledReturnSealed

LEMMA StepPostsWhole ==
    ASSUME Inductive, [Next]_vars, NEW x \in Entry, Posts(x)
    PROVE  /\ entry'[x].approval \in {"notRequired", "approved"}
           /\ entry'[x].reverseOn # NoDate =>
                 \E m \in Entry : /\ Posts(m)
                                  /\ entry'[m].reverses = x
                                  /\ entry'[m].date = entry'[x].reverseOn
<1>1. CASE Neither
  BY <1>1 DEF Neither
<1>2. CASE Posting
  <2>1. PICK row \in EntryRow :
            /\ MayPost(row)
            /\ entry'[x] = AsPosted(row)
            /\ row.reverseOn # NoDate =>
                  \E m \in Unused : /\ entry'[m].status = "posted"
                                    /\ entry'[m].reverses = x
                                    /\ entry'[m].date = row.reverseOn
    BY <1>2, PostingWrites DEF Posts
  <2>2. AsPosted(row).approval = row.approval /\ AsPosted(row).reverseOn = row.reverseOn
    BY DEF AsPosted, EntryRow
  <2>3. row.approval \in {"notRequired", "approved"}
    BY <2>1 DEF MayPost, ApprovalBlocks, EntryRow, Approval
  <2> QED
    BY <2>1, <2>2, <2>3 DEF Posts, Unused
<1>3. CASE VoidingChecked
  <2>1. entry[x] \in EntryRow
    BY DEF Inductive, TypeOK
  <2> QED
    BY <1>3, <2>1, VoidingTakes DEF Posts, EntryRow
<1> QED
  BY <1>1, <1>2, <1>3, StepKind

\* Nothing is posted against an outstanding or negative decision, and a reversing
\* entry never without its mirror, whatever was edited or approved before.
THEOREM PostingIsWhole == Spec => PostsWhole
<1>1. Inductive /\ [Next]_vars =>
        [\A e \in Entry : Posts(e) =>
            /\ entry'[e].approval \in {"notRequired", "approved"}
            /\ (entry'[e].reverseOn # NoDate =>
                    \E m \in Entry : /\ Posts(m)
                                     /\ entry'[m].reverses = e
                                     /\ entry'[m].date = entry'[e].reverseOn)]_vars
  BY StepPostsWhole
<1> QED
  BY <1>1, InitInductive, StepInductive, PTL DEF Spec, PostsWhole

LEMMA StepReconciled ==
    ASSUME Inductive, [Next]_vars, NEW x \in Posted, entry[x].cleared, entry'[x].cleared
    PROVE  /\ entry'[x].status = "posted"
           /\ entry'[x].date = entry[x].date
           /\ entry'[x].lines.dr = entry[x].lines.dr
           /\ entry'[x].lines.cr = entry[x].lines.cr
<1>1. x \in Entry /\ entry[x].status = "posted"
  BY DEF Posted
<1>2. CASE Neither
  BY <1>1, <1>2 DEF Neither, Leaves
<1>3. CASE Posting
  BY <1>1, <1>3, PostingWrites
<1>4. CASE VoidingChecked
  BY <1>1, <1>4, VoidingTakes
<1> QED
  BY <1>2, <1>3, <1>4, StepKind

\* A ticked line's entry stays in the ledger as it was ticked, whichever entry the
\* void, move or edit was aimed at.
THEOREM ReconciledKept == Spec => ReconciledStays
<1>1. Inductive /\ [Next]_vars =>
        [\A e \in Posted : entry[e].cleared /\ entry'[e].cleared =>
            /\ entry'[e].status = "posted"
            /\ entry'[e].date = entry[e].date
            /\ entry'[e].lines.dr = entry[e].lines.dr
            /\ entry'[e].lines.cr = entry[e].lines.cr]_vars
  BY StepReconciled
<1> QED
  BY <1>1, InitInductive, StepInductive, PTL DEF Spec, ReconciledStays

-----------------------------------------------------------------------------
(* The entries of filed returns *)

\* The inductive form: a filing's entry undoes nothing, so that no void of another
\* entry reaches it.
FilingHeld ==
    /\ FilingBacked
    /\ \A q \in Filed : entry[filing[q]].reverses = NoEntry

\* What has to stay of the entry of a filed return.
Untouched(x) ==
    /\ entry'[x].status = entry[x].status
    /\ entry'[x].lines.tax = entry[x].lines.tax
    /\ entry'[x].date = entry[x].date
    /\ entry'[x].reverses = entry[x].reverses

LEMMA HeldWhenUntouched ==
    ASSUME Inductive, FilingHeld, LocksMatch', filing' = filing,
           \A q \in Filed : Untouched(filing[q])
    PROVE  FilingHeld'
<1>1. Filed' = Filed
  BY DEF Filed
<1>2. \A q \in Filed : filing'[q] \in Posted'
  BY DEF FilingHeld, FilingBacked, Untouched, Posted
<1> QED
  BY <1>1, <1>2 DEF FilingHeld, FilingBacked, Untouched

\* Posting writes drafts and unused rows only.
LEMMA PostingTouchesNoFiling ==
    ASSUME Inductive, FilingHeld, Posting, NEW q \in Filed
    PROVE  Untouched(filing[q])
<1>1. filing[q] \in Posted /\ filing[q] \in Entry
  BY DEF FilingHeld, FilingBacked, Posted
<1>2. entry'[filing[q]] = entry[filing[q]]
  BY <1>1, PostingWrites
<1> QED
  BY <1>2 DEF Untouched

\* A void of other entries leaves the entry of a filed return alone.
LEMMA VoidTouchesNoFiling ==
    ASSUME Inductive, FilingHeld, NEW q \in Filed,
           NEW doomed \in SUBSET Entry, NEW override \in BOOLEAN,
           MarkVoid(doomed, override), filing[q] \notin doomed
    PROVE  Untouched(filing[q])
<1>1. filing[q] \in Entry
  BY DEF FilingHeld, FilingBacked, Posted
<1>2. entry'[filing[q]] = entry[filing[q]]
  BY <1>1 DEF MarkVoid
<1> QED
  BY <1>2 DEF Untouched

LEMMA StepFilingHeld == Inductive /\ FilingHeld /\ [Next]_vars => FilingHeld'
<1> SUFFICES ASSUME Inductive, FilingHeld, [Next]_vars, LocksMatch' PROVE FilingHeld'
  BY StepLocksMatch DEF Inductive, FilingHeld, FilingBacked
<1> USE JournalAssumption
<1>0. \A q \in Filed : /\ filing[q] \in Entry
                       /\ entry[filing[q]].status = "posted"
                       /\ entry[filing[q]].lines.tax = "clearing"
  BY DEF FilingHeld, FilingBacked, Posted
<1>1. ASSUME NEW e \in Entry, NEW date \in Date, NEW lines \in LineSet, NEW origin \in Origin,
             NEW reverseOn \in Date \cup {NoDate}, JournalCreate(e, date, lines, origin, reverseOn)
      PROVE  FilingHeld'
  <2>1. entry[e].status = "absent" /\ \A x \in Entry \ {e} : entry'[x] = entry[x]
    BY <1>1 DEF JournalCreate, Unused, Inductive, TypeOK
  <2>2. \A q \in Filed : Untouched(filing[q])
    BY <1>0, <2>1 DEF Untouched
  <2> QED
    BY <1>1, <2>2, HeldWhenUntouched DEF JournalCreate
<1>2. ASSUME Posting, UNCHANGED filing PROVE FilingHeld'
  BY <1>2, PostingTouchesNoFiling, HeldWhenUntouched
<1>3. ASSUME NEW e \in Entry, NEW date \in Date, NEW lines \in LineSet, NEW origin \in Origin,
             NEW reverseOn \in Date \cup {NoDate}, JournalCreateAndPost(e, date, lines, origin, reverseOn)
      PROVE  FilingHeld'
  <2>1. NewDraft(date, lines, origin, reverseOn) \in EntryRow
    BY NewDraftIsRow
  <2>2. NewDraft(date, lines, origin, reverseOn).reverses = NoEntry
    BY DEF NewDraft, Draft
  <2> QED
    BY <1>2, <1>3, <2>1, <2>2 DEF JournalCreateAndPost, Posting, Unused
<1>4. ASSUME NEW e \in Entry, NEW date \in Date, NEW lines \in LineSet, NEW origin \in Origin,
             NEW reverseOn \in Date \cup {NoDate}, JournalUpdate(e, date, lines, origin, reverseOn)
      PROVE  FilingHeld'
  <2>1. entry[e].status = "draft" /\ \A x \in Entry \ {e} : entry'[x] = entry[x]
    BY <1>4 DEF JournalUpdate, Inductive, TypeOK
  <2>2. \A q \in Filed : Untouched(filing[q])
    BY <1>0, <2>1 DEF Untouched
  <2> QED
    BY <1>4, <2>2, HeldWhenUntouched DEF JournalUpdate
<1>5. ASSUME NEW e \in Entry, JournalPost(e)
      PROVE  FilingHeld'
  <2>1. entry[e] \in EntryRow /\ entry[e].reverses = NoEntry
    BY <1>5 DEF JournalPost, Inductive, TypeOK, MirrorBelongs, Stored
  <2> QED
    BY <1>2, <1>5, <2>1 DEF JournalPost, Posting
<1>6. ASSUME NEW e \in Entry, JournalDelete(e)
      PROVE  FilingHeld'
  <2>1. entry[e].status \in {"draft", "void"} /\ \A x \in Entry \ {e} : entry'[x] = entry[x]
    BY <1>6 DEF JournalDelete, Inductive, TypeOK
  <2>2. \A q \in Filed : Untouched(filing[q])
    BY <1>0, <2>1 DEF Untouched
  <2> QED
    BY <1>6, <2>2, HeldWhenUntouched DEF JournalDelete
<1>7. ASSUME NEW e \in Entry, NEW tick \in BOOLEAN, BankReconciliationToggleLine(e, tick)
      PROVE  FilingHeld'
  <2>1. \A q \in Filed : Untouched(filing[q])
    BY <1>0, <1>7 DEF BankReconciliationToggleLine, Untouched, Inductive, TypeOK, EntryRow
  <2> QED
    BY <1>7, <2>1, HeldWhenUntouched DEF BankReconciliationToggleLine
<1>8. ASSUME NEW e \in Entry, NEW date \in Date, JournalUpdateDate(e, date)
      PROVE  FilingHeld'
  <2>1. \A q \in Filed : filing[q] = e => date = entry[e].date
    BY <1>8 DEF JournalUpdateDate, FilingEntries
  <2>2. \A q \in Filed : Untouched(filing[q])
    BY <1>0, <1>8, <2>1 DEF JournalUpdateDate, Untouched, Inductive, TypeOK, EntryRow
  <2> QED
    BY <1>8, <2>2, HeldWhenUntouched DEF JournalUpdateDate
<1>9. ASSUME NEW e \in Entry, NEW tax \in TaxKind, JournalSetLineTaxCode(e, tax)
      PROVE  FilingHeld'
  <2>1. entry[e].lines.tax # "clearing" /\ \A x \in Entry \ {e} : entry'[x] = entry[x]
    BY <1>9 DEF JournalSetLineTaxCode, Inductive, TypeOK
  <2>2. \A q \in Filed : Untouched(filing[q])
    BY <1>0, <2>1 DEF Untouched
  <2> QED
    BY <1>9, <2>2, HeldWhenUntouched DEF JournalSetLineTaxCode
<1>10. ASSUME NEW e \in Entry, NEW to \in Approval, JournalSetApproval(e, to)
       PROVE  FilingHeld'
  <2>1. \A q \in Filed : Untouched(filing[q])
    BY <1>0, <1>10 DEF JournalSetApproval, Untouched, Inductive, TypeOK, EntryRow
  <2> QED
    BY <1>10, <2>1, HeldWhenUntouched DEF JournalSetApproval
<1>11. ASSUME NEW e \in Entry, NEW override \in BOOLEAN, JournalVoid(e, override)
       PROVE  FilingHeld'
  <2>1. \A q \in Filed : filing[q] \notin VoidReach(e, override)
    BY <1>11 DEF JournalVoid, FilingEntries, FilingHeld, VoidReach, PostedMirrors, Mirrors
  <2>2. VoidReach(e, override) \in SUBSET Entry
    BY DEF VoidReach, PostedMirrors, Mirrors, Posted
  <2>3. \A q \in Filed : Untouched(filing[q])
    BY <1>11, <2>1, <2>2, VoidTouchesNoFiling DEF JournalVoid
  <2> QED
    BY <1>11, <2>3, HeldWhenUntouched DEF JournalVoid
<1>12. ASSUME NEW e \in Entry, NEW q \in Quarter, NEW date \in Date, HstFilingsCreate(e, q, date)
       PROVE  FilingHeld'
  <2> DEFINE row == NewDraft(date, ClearingLines, ByReference, NoDate)
  <2>1. row \in EntryRow
    BY NewDraftIsRow DEF ClearingLines, ByReference, Lines, TaxKind, Origins
  <2>2. /\ row.reverses = NoEntry /\ row.reverseOn = NoDate
        /\ row.lines.tax = "clearing" /\ row.date = date
    BY DEF NewDraft, Draft, ClearingLines
  <2> HIDE DEF row
  <2>3. PostRow(e, row) /\ e \in Unused
    BY <1>12 DEF HstFilingsCreate, row
  <2>4. Posting
    BY <2>1, <2>2, <2>3 DEF Posting, Unused
  <2>5. \A r \in Filed : Untouched(filing[r]) /\ filing[r] # e
    BY <1>0, <2>3, <2>4, PostingTouchesNoFiling DEF Unused
  <2>6. entry' = [entry EXCEPT ![e] = AsPosted(row)]
    BY <2>2, <2>3 DEF PostRow
  <2>7. /\ entry'[e].status = "posted" /\ entry'[e].lines.tax = "clearing"
        /\ entry'[e].date = date /\ entry'[e].reverses = NoEntry
    BY <2>1, <2>2, <2>6 DEF AsPosted, EntryRow, Inductive, TypeOK
  <2>8. /\ filing' = [filing EXCEPT ![q] = e]
        /\ \A r \in Filed : QuarterDays[q] \cap QuarterDays[r] = {}
        /\ \A d \in QuarterDays[q] : d <= date
        /\ filing \in [Quarter -> Entry \cup {NoEntry}]
    BY <1>12 DEF HstFilingsCreate, Inductive, TypeOK
  <2>9. \A r \in Filed' : r = q \/ (r \in Filed /\ filing'[r] = filing[r])
    BY <2>8 DEF Filed
  <2>10. filing'[q] = e
    BY <2>8
  <2>11. \A r \in Filed \ {q} : /\ entry'[filing[r]].status = "posted"
                                /\ entry'[filing[r]].lines.tax = "clearing"
                                /\ entry'[filing[r]].date = entry[filing[r]].date
                                /\ entry'[filing[r]].reverses = NoEntry
    BY <1>0, <2>5 DEF Untouched, FilingHeld
  <2>12. \A r \in Filed' : filing'[r] \in Posted'
    BY <1>0, <2>7, <2>9, <2>10, <2>11 DEF Posted
  <2>13. \A r \in Filed' : /\ entry'[filing'[r]].lines.tax = "clearing"
                           /\ entry'[filing'[r]].reverses = NoEntry
    BY <2>7, <2>9, <2>10, <2>11
  <2>14. \A r \in Filed' : \A d \in QuarterDays[r] : d <= entry'[filing'[r]].date
    BY <2>7, <2>8, <2>9, <2>10, <2>11 DEF FilingHeld, FilingBacked
  <2>15. \A r \in Filed' : \A s \in Filed' \ {r} : /\ filing'[s] # filing'[r]
                                                  /\ QuarterDays[s] \cap QuarterDays[r] = {}
    BY <2>5, <2>8, <2>9, <2>10 DEF FilingHeld, FilingBacked
  <2> QED
    BY <2>12, <2>13, <2>14, <2>15 DEF FilingHeld, FilingBacked
<1>13. ASSUME NEW q \in Quarter, HstFilingsVoid(q)
       PROVE  UNCHANGED <<entry, filing>>
  BY <1>13 DEF HstFilingsVoid, vars
<1>14. ASSUME UNCHANGED <<entry, filing>> PROVE FilingHeld'
  BY <1>14, HeldWhenUntouched DEF Untouched
<1>15. ASSUME NEW p \in Period \cup Quarter,
              FiscalPeriodsCreate(p) \/ FiscalPeriodsLock(p) \/ FiscalPeriodsUnlock(p)
       PROVE  UNCHANGED <<entry, filing>>
  BY <1>15 DEF FiscalPeriodsCreate, FiscalPeriodsLock, FiscalPeriodsUnlock
<1>16. ASSUME NEW t \in Threshold, CompanySave(t) PROVE UNCHANGED <<entry, filing>>
  BY <1>16 DEF CompanySave
<1>17. CASE UNCHANGED vars
  BY <1>14, <1>17 DEF vars
<1> QED
  BY <1>1, <1>3, <1>4, <1>5, <1>6, <1>7, <1>8, <1>9, <1>10, <1>11, <1>12,
     <1>13, <1>14, <1>15, <1>16, <1>17 DEF Next

\* Whatever the journal screen, the filing screen and the accountant do in whatever
\* order, a filed return keeps its lock and its posted clearing entry, dated no earlier
\* than the days it closes; there is no lock without a filed return, and no day is on
\* two of them.
THEOREM FilingsBacked == Spec => []FilingBacked
<1>1. Init => FilingHeld
  BY DEF Init, FilingHeld, FilingBacked, LocksMatch, Filed
<1>2. FilingHeld => FilingBacked
  BY DEF FilingHeld
<1> QED
  BY <1>1, <1>2, InitInductive, StepInductive, StepFilingHeld, PTL DEF Spec
=============================================================================
