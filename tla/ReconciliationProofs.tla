-------------------------- MODULE ReconciliationProofs --------------------------
(***************************************************************************)
(* Proofs about Reconciliation: statements follow each other from balance  *)
(* to balance, and what was signed off stays, for any number of lines,     *)
(* statements, windows and days.                                           *)
(*                                                                         *)
(* StatementsChain speaks of the greatest id before a statement.  That     *)
(* there is one cannot be shown from the sets alone, which may be          *)
(* infinite; it is part of the invariant (HasLast): a statement is started *)
(* after all others and only the last one can be abandoned.                *)
(***************************************************************************)
EXTENDS Reconciliation, TLAPS

Before(r) == {o \in Kept : o < r}

HasLast(S) == S = {} \/ \E m \in S : \A o \in S : o <= m

\* The chain without Max: whoever is the last before a statement.
Linked ==
    \A r \in Kept :
        /\ Before(r) = {} => recon[r].start = 0
        /\ \A m \in Before(r) : (\A o \in Before(r) : o <= m) => recon[r].start = recon[m].end
        /\ \A o \in Before(r) : recon[o].date < recon[r].date /\ o \in Completed

Lasts == HasLast(Kept) /\ \A r \in Kept : HasLast(Before(r))

\* AUTOINCREMENT: ids are used up in order.
IdsInOrder ==
    \A r, o \in Recon : o < r /\ recon[r].status # "absent" => recon[o].status # "absent"

\* A tick belongs to a statement that counts, on a line that is there.
TicksKept == \A l \in Line : Ticked(l) => line[l].owner \in Kept /\ l \in Present

\* What a window shows as ticked has since been unticked, or ticked again on the
\* same statement or on a later one.
ShownTicks ==
    \A w \in Window, l \in Line :
        /\ shown[w].recon \in Kept
        /\ l \in shown[w].cleared
        /\ Ticked(l)
        => line[l].owner >= shown[w].recon

Chained == TypeOK /\ Linked /\ Lasts /\ IdsInOrder

\* What a window shows has been started.
ShownStarted ==
    \A w \in Window : shown[w].recon \in Recon => recon[shown[w].recon].status # "absent"

Signed == Chained /\ TicksKept /\ ShownTicks /\ ShownStarted

-----------------------------------------------------------------------------
(* The last of a set *)

\* Max returns the element that is not below any other.
LEMMA MaxIsLast ==
    ASSUME NEW S \in SUBSET Nat, NEW m \in S, \A o \in S : o <= m
    PROVE  Max(S) = m
<1>1. \A y \in S : m >= y
  OBVIOUS
<1>2. Max(S) \in S /\ \A y \in S : Max(S) >= y
  BY <1>1 DEF Max
<1>3. m \in Nat /\ Max(S) \in Nat /\ m >= Max(S) /\ Max(S) >= m
  BY <1>1, <1>2
<1> QED
  BY <1>3

\* With no statement open, the latest completed one is the last of all.
LEMMA LatestIsLast ==
    ASSUME Chained, Open = {}, NEW m \in Kept, \A o \in Kept : o <= m
    PROVE  Completed = Kept /\ LatestCompleted = m
<1> USE ReconciliationAssumption
<1>1. Completed = Kept
  BY DEF Completed, Kept, Open
<1>2. \A r \in Kept : recon[r].date \in Nat /\ r \in Nat
  BY DEF Chained, TypeOK, ReconRow, Kept
<1>3. \A o \in Kept : o # m => recon[o].date < recon[m].date
  BY <1>2 DEF Chained, Linked, Before
<1>4. \A o \in Completed : recon[o].date <= recon[m].date
  BY <1>1, <1>2, <1>3
<1>5. LatestCompleted \in Completed /\ \A o \in Completed : recon[o].date <= recon[LatestCompleted].date
  BY <1>1, <1>4 DEF LatestCompleted
<1>6. recon[m].date <= recon[LatestCompleted].date
  BY <1>1, <1>5
<1> QED
  BY <1>1, <1>2, <1>3, <1>5, <1>6

\* A statement in progress is the last one.
LEMMA OpenIsLast ==
    ASSUME Chained, NEW r \in Open
    PROVE  r \in Kept /\ \A o \in Kept : o <= r
<1> USE ReconciliationAssumption
<1>1. r \in Kept /\ r \notin Completed
  BY DEF Open, Kept, Completed
<1>2. ASSUME NEW o \in Kept, ~(o <= r) PROVE FALSE
  <2>1. r < o
    BY <1>2 DEF Open, Kept
  <2> QED
    BY <1>1, <2>1 DEF Chained, Linked, Before
<1> QED
  BY <1>1, <1>2

\* What a statement starts from is a balance.
LEMMA StartIsInt ==
    ASSUME Chained, Open = {}
    PROVE  DefaultStart \in Int
<1>1. CASE Completed = {}
  BY <1>1 DEF DefaultStart
<1>2. CASE Completed # {}
  <2>1. Kept # {}
    BY <1>2 DEF Completed, Kept
  <2>2. PICK m \in Kept : \A o \in Kept : o <= m
    BY <2>1 DEF Chained, Lasts, HasLast
  <2>3. LatestCompleted = m
    BY <2>2, LatestIsLast
  <2>4. recon[m].end \in Int
    BY DEF Chained, TypeOK, ReconRow, Kept
  <2> QED
    BY <1>2, <2>3, <2>4 DEF DefaultStart
<1> QED
  BY <1>1, <1>2

-----------------------------------------------------------------------------
(* One lemma per kind of step *)

\* A step that leaves the statements alone leaves the chain as it is.
LEMMA SameStatements ==
    ASSUME Chained, TypeOK', UNCHANGED recon
    PROVE  Chained'
BY DEF Chained, Linked, Lasts, HasLast, IdsInOrder, Before, Kept, Completed

\* A detail just loaded is well typed.
LEMMA DetailTyped ==
    ASSUME TypeOK, NEW r \in Recon
    PROVE  BankReconciliationGet(r) \in Detail
<1>1. ClearedLines(r) \in SUBSET Line
  BY DEF ClearedLines, Present
<1>2. (IF r \in Open THEN UnclearedPostedLines(recon[r].date) ELSE {}) \in SUBSET Line
  BY DEF UnclearedPostedLines, Posted
<1> QED
  BY <1>1, <1>2 DEF BankReconciliationGet, Detail

\* A new statement comes after all others and starts where the last one ended.
LEMMA StartChains ==
    ASSUME Chained, NEW w \in Window, NEW r \in Recon, NEW date \in Day, NEW ending \in Ending,
           BankReconciliationStart(w, r, date, ending), TypeOK'
    PROVE  Chained' /\ Kept' = Kept \cup {r} /\ Completed' = Completed /\ r \notin Kept
<1> USE ReconciliationAssumption DEF BankReconciliationStart
<1>1. Started(date, ending) = [status |-> "inProgress", date |-> date, start |-> DefaultStart,
                               end |-> ending]
  BY DEF Started
<1>2. recon'[r] = Started(date, ending) /\ \A o \in Recon \ {r} : recon'[o] = recon[o]
  BY DEF Chained, TypeOK
<1>3. /\ Kept' = Kept \cup {r}
      /\ Completed' = Completed
      /\ r \notin Kept
      /\ Kept = Completed
  BY <1>1, <1>2 DEF Kept, Completed, Open, NextRecon
<1>4. \A o \in Kept : o < r
  <2> SUFFICES ASSUME NEW o \in Kept PROVE o < r
    OBVIOUS
  <2>1. o \in Recon /\ recon[o].status # "absent" /\ o # r
    BY <1>3 DEF Kept
  <2>2. ~(r < o)
    BY <2>1 DEF Chained, IdsInOrder, NextRecon
  <2> QED
    BY <2>1, <2>2
<1>5. Before(r)' = Kept
  BY <1>3, <1>4 DEF Before
<1>6. \A o \in Kept : Before(o)' = Before(o)
  BY <1>3, <1>4 DEF Before, Kept
<1>7. Linked'
  <2> SUFFICES ASSUME NEW x \in Kept'
               PROVE  (/\ Before(x) = {} => recon[x].start = 0
                       /\ \A m \in Before(x) : (\A o \in Before(x) : o <= m)
                              => recon[x].start = recon[m].end
                       /\ \A o \in Before(x) : recon[o].date < recon[x].date /\ o \in Completed)'
    BY DEF Linked
  <2>1. CASE x \in Kept
    <3>1. Before(x)' = Before(x) /\ x # r /\ r \notin Before(x)
      BY <2>1, <1>6, <1>3 DEF Before
    <3>2. recon'[x] = recon[x] /\ \A o \in Before(x) : recon'[o] = recon[o]
      BY <2>1, <3>1, <1>2 DEF Before, Kept
    <3> QED
      BY <2>1, <3>1, <3>2, <1>3 DEF Chained, Linked
  <2>2. CASE x = r
    <3>1. recon'[r].start = DefaultStart /\ recon'[r].date = date
      BY <1>1, <1>2
    <3>2. \A o \in Kept : recon'[o] = recon[o]
      BY <1>2, <1>3 DEF Kept
    <3>3. CASE Kept = {}
      BY <3>1, <3>3, <2>2, <1>3, <1>5 DEF DefaultStart
    <3>4. CASE Kept # {}
      <4>1. ASSUME NEW m \in Kept, \A o \in Kept : o <= m
            PROVE  recon'[r].start = recon'[m].end
        <5>1. LatestCompleted = m
          BY <4>1, LatestIsLast
        <5> QED
          BY <5>1, <3>1, <3>2, <3>4, <1>3 DEF DefaultStart
      <4>2. PICK m \in Kept : \A o \in Kept : o <= m
        BY <3>4 DEF Chained, Lasts, HasLast
      <4>3. LatestCompleted = m /\ date > recon[m].date
        BY <4>2, <3>4, <1>3, LatestIsLast
      <4>4. \A o \in Kept : recon[o].date <= recon[m].date /\ recon[o].date \in Nat
        <5>1. \A o \in Kept : o # m => o \in Before(m)
          BY <4>2 DEF Before, Kept
        <5>2. \A o \in Kept : recon[o].date \in Nat
          BY DEF Chained, TypeOK, ReconRow, Kept
        <5> QED
          BY <5>1, <5>2 DEF Chained, Linked
      <4>5. \A o \in Kept : recon'[o].date < date /\ date \in Nat
        BY <4>3, <4>4, <3>2
      <4> QED
        BY <4>1, <4>5, <3>1, <3>4, <2>2, <1>3, <1>5
    <3> QED
      BY <3>3, <3>4
  <2> QED
    BY <2>1, <2>2, <1>3
<1>8. Lasts'
  <2>1. \A o \in Kept' : o <= r
    BY <1>3, <1>4 DEF Kept
  <2>2. HasLast(Kept)'
    BY <2>1, <1>3 DEF HasLast
  <2>3. HasLast(Before(r))'
    BY <1>5 DEF Chained, Lasts, HasLast
  <2>4. \A o \in Kept : HasLast(Before(o))'
    BY <1>6 DEF Chained, Lasts, HasLast
  <2> QED
    BY <2>2, <2>3, <2>4, <1>3 DEF Lasts
<1>9. IdsInOrder'
  BY <1>1, <1>2 DEF Chained, IdsInOrder, NextRecon
<1> QED
  BY <1>3, <1>7, <1>8, <1>9 DEF Chained

\* Completing keeps ids, dates and balances.
LEMMA CompleteChains ==
    ASSUME Chained, NEW w \in Window, NEW r \in Recon, BankReconciliationComplete(w, r), TypeOK'
    PROVE  Chained' /\ Kept' = Kept
<1> USE DEF BankReconciliationComplete
<1>1. /\ recon'[r] = [recon[r] EXCEPT !.status = "completed"]
      /\ \A o \in Recon \ {r} : recon'[o] = recon[o]
  BY DEF Chained, TypeOK
<1>2. \A o \in Recon : /\ recon'[o].date = recon[o].date
                       /\ recon'[o].start = recon[o].start
                       /\ recon'[o].end = recon[o].end
  BY <1>1 DEF Chained, TypeOK, ReconRow
<1>3. recon'[r].status = "completed"
  BY <1>1 DEF Chained, TypeOK, ReconRow
<1>4. Kept' = Kept /\ Completed \subseteq Completed'
  BY <1>1, <1>3 DEF Kept, Completed, Open
<1>5. \A o \in Recon : Before(o)' = Before(o)
  BY <1>4 DEF Before
<1>6. Linked'
  BY <1>2, <1>4, <1>5 DEF Chained, Linked, Kept, Before
<1>7. Lasts'
  BY <1>4, <1>5 DEF Chained, Lasts, HasLast, Kept
<1>8. IdsInOrder'
  BY <1>1, <1>3 DEF Chained, IdsInOrder, Open
<1> QED
  BY <1>4, <1>6, <1>7, <1>8 DEF Chained

\* Only the last statement is reopened.
LEMMA ReopenChains ==
    ASSUME Chained, NEW w \in Window, NEW r \in Recon, BankReconciliationReopen(w, r), TypeOK'
    PROVE  Chained' /\ Kept' = Kept /\ Completed' \subseteq Completed
<1> USE ReconciliationAssumption DEF BankReconciliationReopen
<1>1. /\ recon'[r] = [recon[r] EXCEPT !.status = "inProgress"]
      /\ \A o \in Recon \ {r} : recon'[o] = recon[o]
  BY DEF Chained, TypeOK
<1>2. \A o \in Recon : /\ recon'[o].date = recon[o].date
                       /\ recon'[o].start = recon[o].start
                       /\ recon'[o].end = recon[o].end
  BY <1>1 DEF Chained, TypeOK, ReconRow
<1>3. recon'[r].status = "inProgress"
  BY <1>1 DEF Chained, TypeOK, ReconRow
<1>4. /\ Kept' = Kept
      /\ Completed' = Completed \ {r}
  BY <1>1, <1>3 DEF Kept, Completed
<1>5. \A o \in Recon : Before(o)' = Before(o)
  BY <1>4 DEF Before
<1>6. \A o \in Kept : r \notin Before(o)
  <2> SUFFICES ASSUME NEW o \in Kept, r \in Before(o) PROVE FALSE
    OBVIOUS
  <2>1. r < o /\ recon[r].date < recon[o].date
    BY DEF Before, Chained, Linked
  <2>2. o \in Recon /\ recon[o].date \in Nat /\ recon[r].date \in Nat
    BY DEF Kept, Chained, TypeOK, ReconRow
  <2> QED
    BY <2>1, <2>2
<1>7. Linked'
  BY <1>2, <1>4, <1>5, <1>6 DEF Chained, Linked, Kept, Before
<1>8. Lasts'
  BY <1>4, <1>5 DEF Chained, Lasts, HasLast, Kept
<1>9. IdsInOrder'
  BY <1>1, <1>3 DEF Chained, IdsInOrder, Completed
<1> QED
  BY <1>4, <1>7, <1>8, <1>9 DEF Chained

\* A statement in progress is the last one, so abandoning it leaves those before it.
LEMMA AbandonChains ==
    ASSUME Chained, NEW w \in Window, NEW r \in Recon, BankReconciliationAbandon(w, r), TypeOK'
    PROVE  Chained' /\ Kept' = Kept \ {r} /\ Completed' = Completed
<1> USE ReconciliationAssumption DEF BankReconciliationAbandon
<1>1. /\ recon'[r] = [recon[r] EXCEPT !.status = "abandoned"]
      /\ \A o \in Recon \ {r} : recon'[o] = recon[o]
  BY DEF Chained, TypeOK
<1>2. recon'[r].status = "abandoned"
  BY <1>1 DEF Chained, TypeOK, ReconRow
<1>3. Kept' = Kept \ {r} /\ Completed' = Completed
  BY <1>1, <1>2 DEF Kept, Completed, Open
<1>4. r \in Kept /\ \A o \in Kept : o <= r
  BY OpenIsLast
<1>5. Kept' = Before(r)
  <2>1. r \in Nat /\ \A o \in Kept : o \in Nat
    BY DEF Kept
  <2> HIDE ReconciliationAssumption
  <2>2. \A o \in Kept : o # r <=> o < r
    BY <1>4, <2>1
  <2> QED
    BY <1>3, <2>2 DEF Before
<1>6. \A o \in Kept' : Before(o)' = Before(o) /\ recon'[o] = recon[o]
  BY <1>1, <1>3, <1>4 DEF Before, Kept
<1>7. \A x \in Kept' : \A o \in Before(x) : recon'[o] = recon[o]
  BY <1>6, <1>1, <1>3 DEF Before, Kept
<1>8. Linked'
  BY <1>3, <1>6, <1>7 DEF Chained, Linked
<1>9. Lasts'
  <2>1. HasLast(Kept)'
    BY <1>4, <1>5 DEF Chained, Lasts, HasLast
  <2>2. \A x \in Kept' : HasLast(Before(x))'
    BY <1>3, <1>6 DEF Chained, Lasts, HasLast
  <2> QED
    BY <2>1, <2>2 DEF Lasts
<1>10. IdsInOrder'
  BY <1>1, <1>2 DEF Chained, IdsInOrder, Open
<1> QED
  BY <1>3, <1>8, <1>9, <1>10 DEF Chained

-----------------------------------------------------------------------------
(* Types *)

\* What toggling leaves behind: one line ticked on r, or unticked.
LEMMA ToggleRows ==
    ASSUME TypeOK, NEW w \in Window, NEW r \in Recon, NEW l \in Line,
           BankReconciliationToggleLine(w, r, l)
    PROVE  \E o \in {r, NoRecon} : line' = [line EXCEPT ![l].owner = o]
BY DEF BankReconciliationToggleLine

\* A detail loaded after a step, in a well-typed state, keeps the windows typed.
LEMMA RefreshTyped ==
    ASSUME TypeOK, line' \in [Line -> LineRow], recon' \in [Recon -> ReconRow],
           NEW w \in Window, NEW r \in Recon, Refresh(w, r)
    PROVE  TypeOK'
<1>1. ClearedLines(r)' \in SUBSET Line
  BY DEF ClearedLines, Present
<1>2. (IF r \in Open THEN UnclearedPostedLines(recon[r].date) ELSE {})' \in SUBSET Line
  BY DEF UnclearedPostedLines, Posted
<1>3. BankReconciliationGet(r)' \in Detail
  BY <1>1, <1>2 DEF BankReconciliationGet, Detail
<1> QED
  BY <1>3 DEF TypeOK, Refresh

LEMMA NothingShownTyped == NothingShown \in Detail
BY DEF NothingShown, Detail

\* Every step keeps rows and details well typed; a statement starts from an
\* integer because there is a last one to start from.
LEMMA TypeStep ==
    ASSUME Chained, [Next]_vars
    PROVE  TypeOK'
<1> USE ReconciliationAssumption DEF Chained
<1>1. ASSUME NEW w \in Window, BankReconciliationList(w) PROVE TypeOK'
  BY <1>1, NothingShownTyped DEF BankReconciliationList, TypeOK
<1>2. ASSUME NEW w \in Window, NEW r \in Recon, BankReconciliationOpen(w, r) PROVE TypeOK'
  <2>1. BankReconciliationGet(r) \in Detail
    BY DetailTyped
  <2> QED
    BY <1>2, <2>1 DEF BankReconciliationOpen, TypeOK
<1>3. ASSUME NEW w \in Window, NEW r \in Recon, NEW date \in Day, NEW ending \in Ending,
             BankReconciliationStart(w, r, date, ending)
      PROVE  TypeOK'
  <2>1. DefaultStart \in Int
    BY <1>3, StartIsInt DEF BankReconciliationStart
  <2>2. Started(date, ending) \in ReconRow
    BY <2>1 DEF Started, ReconRow
  <2>3. recon' \in [Recon -> ReconRow] /\ line' \in [Line -> LineRow]
    BY <1>3, <2>2 DEF BankReconciliationStart, TypeOK
  <2> QED
    BY <1>3, <2>3, RefreshTyped DEF BankReconciliationStart
<1>4. ASSUME NEW w \in Window, NEW r \in Recon, NEW l \in Line, BankReconciliationToggleLine(w, r, l)
      PROVE  TypeOK'
  <2>1. PICK o \in {r, NoRecon} : line' = [line EXCEPT ![l].owner = o]
    BY <1>4, ToggleRows
  <2>2. line' \in [Line -> LineRow]
    BY <2>1 DEF TypeOK, LineRow
  <2> QED
    BY <1>4, <2>2, RefreshTyped DEF BankReconciliationToggleLine, TypeOK
<1>5. ASSUME NEW w \in Window, NEW r \in Recon, BankReconciliationComplete(w, r) PROVE TypeOK'
  <2>1. recon' \in [Recon -> ReconRow]
    BY <1>5 DEF BankReconciliationComplete, TypeOK, ReconRow
  <2> QED
    BY <1>5, <2>1, RefreshTyped DEF BankReconciliationComplete, TypeOK
<1>6. ASSUME NEW w \in Window, NEW r \in Recon, BankReconciliationReopen(w, r) PROVE TypeOK'
  <2>1. recon' \in [Recon -> ReconRow]
    BY <1>6 DEF BankReconciliationReopen, TypeOK, ReconRow
  <2> QED
    BY <1>6, <2>1, RefreshTyped DEF BankReconciliationReopen, TypeOK
<1>7. ASSUME NEW w \in Window, NEW r \in Recon, BankReconciliationAbandon(w, r) PROVE TypeOK'
  <2>1. recon' \in [Recon -> ReconRow]
    BY <1>7 DEF BankReconciliationAbandon, TypeOK, ReconRow
  <2>2. line' \in [Line -> LineRow]
    BY <1>7 DEF BankReconciliationAbandon, TypeOK, LineRow
  <2> QED
    BY <1>7, <2>1, <2>2, NothingShownTyped DEF BankReconciliationAbandon, TypeOK
<1>8. ASSUME NEW l \in Line, NEW date \in Day, NEW net \in Net, JournalCreateAndPost(l, date, net)
      PROVE  TypeOK'
  BY <1>8 DEF JournalCreateAndPost, TypeOK, LineRow
<1>9. ASSUME NEW l \in Line, NEW date \in Day, JournalUpdateDate(l, date) PROVE TypeOK'
  BY <1>9 DEF JournalUpdateDate, TypeOK, LineRow
<1>10. ASSUME NEW l \in Line, JournalVoid(l) PROVE TypeOK'
  BY <1>10 DEF JournalVoid, TypeOK, LineRow
<1>11. ASSUME NEW l \in Line, JournalDelete(l) PROVE TypeOK'
  BY <1>11 DEF JournalDelete, TypeOK, LineRow
<1>12. CASE UNCHANGED vars
  BY <1>12 DEF vars, TypeOK
<1> QED
  BY <1>1, <1>2, <1>3, <1>4, <1>5, <1>6, <1>7, <1>8, <1>9, <1>10, <1>11, <1>12 DEF Next

LEMMA ChainedStart == Init => Chained
<1> SUFFICES ASSUME Init PROVE Chained
  OBVIOUS
<1> USE ReconciliationAssumption
<1>1. AnyDay \in Day
  BY DEF AnyDay
<1>2. TypeOK
  BY <1>1, NothingShownTyped DEF Init, TypeOK, LineRow, ReconRow
<1>3. Kept = {}
  BY DEF Init, Kept
<1>4. IdsInOrder
  BY DEF Init, IdsInOrder
<1> QED
  BY <1>2, <1>3, <1>4 DEF Chained, Linked, Lasts, HasLast

LEMMA ChainedStep ==
    ASSUME Chained, [Next]_vars
    PROVE  Chained'
<1>1. TypeOK'
  BY TypeStep
<1>2. CASE UNCHANGED recon
  BY <1>1, <1>2, SameStatements DEF Chained
<1>3. ASSUME NEW w \in Window, NEW r \in Recon, NEW date \in Day, NEW ending \in Ending,
             BankReconciliationStart(w, r, date, ending)
      PROVE  Chained'
  BY <1>1, <1>3, StartChains
<1>4. ASSUME NEW w \in Window, NEW r \in Recon, BankReconciliationComplete(w, r) PROVE Chained'
  BY <1>1, <1>4, CompleteChains
<1>5. ASSUME NEW w \in Window, NEW r \in Recon, BankReconciliationReopen(w, r) PROVE Chained'
  BY <1>1, <1>5, ReopenChains
<1>6. ASSUME NEW w \in Window, NEW r \in Recon, BankReconciliationAbandon(w, r) PROVE Chained'
  BY <1>1, <1>6, AbandonChains
<1> QED
  BY <1>2, <1>3, <1>4, <1>5, <1>6 DEF Next, vars, BankReconciliationList, BankReconciliationOpen,
     BankReconciliationToggleLine, JournalCreateAndPost, JournalUpdateDate, JournalVoid, JournalDelete

\* The chain as the property states it.
LEMMA ChainedIsChain == Chained => StatementsChain
<1> SUFFICES ASSUME Chained, NEW r \in Kept
             PROVE  /\ recon[r].start = IF Before(r) = {} THEN 0 ELSE recon[Max(Before(r))].end
                    /\ \A o \in Before(r) : recon[o].date < recon[r].date /\ o \in Completed
  BY DEF StatementsChain, Before
<1>1. CASE Before(r) = {}
  BY <1>1 DEF Chained, Linked
<1>2. CASE Before(r) # {}
  <2>1. PICK m \in Before(r) : \A o \in Before(r) : o <= m
    BY <1>2 DEF Chained, Lasts, HasLast
  <2>2. Before(r) \in SUBSET Nat
    BY ReconciliationAssumption DEF Before, Kept
  <2>3. Max(Before(r)) = m
    BY <2>1, <2>2, MaxIsLast
  <2> QED
    BY <1>2, <2>1, <2>3 DEF Chained, Linked
<1> QED
  BY <1>1, <1>2

\* Every reachable state of the reconciliation is well typed
\* (bank_reconciliations, journal_lines, and what the windows hold).
THEOREM ReconciliationTyped == Spec => []TypeOK
<1>1. Chained => TypeOK
  BY DEF Chained
<1> QED
  BY <1>1, ChainedStart, ChainedStep, PTL DEF Spec

\* Statements follow each other from balance to balance, later ids with later
\* dates and only the last one open (bankReconciliationStart and
\* bankReconciliationReopen), for any number of statements and windows.
THEOREM StatementsFollow == Spec => []StatementsChain
BY ChainedIsChain, ChainedStart, ChainedStep, PTL DEF Spec

-----------------------------------------------------------------------------
(* Ticks *)

\* A page that shows ticks of the statement in progress shows lines that are
\* unticked or ticked on that very statement: nothing later exists.
LEMMA OpenOwnsItsTicks ==
    ASSUME Signed, NEW w \in Window, NEW l \in Line, shown[w].recon \in Open,
           l \in shown[w].cleared
    PROVE  line[l].owner \in {NoRecon, shown[w].recon}
<1> USE ReconciliationAssumption
<1>1. CASE Ticked(l)
  <2>1. line[l].owner >= shown[w].recon /\ line[l].owner \in Kept
    BY <1>1 DEF Signed, ShownTicks, TicksKept, Open, Kept
  <2>2. line[l].owner <= shown[w].recon
    BY <2>1, OpenIsLast DEF Signed
  <2>3. line[l].owner \in Nat /\ shown[w].recon \in Nat
    BY <2>1 DEF Kept, Open
  <2> QED
    BY <2>1, <2>2, <2>3
<1>2. CASE ~Ticked(l)
  BY <1>2 DEF Ticked
<1> QED
  BY <1>1, <1>2

\* A window that has just loaded r shows what is ticked on r, and the others
\* show what they did.
LEMMA RefreshShows ==
    ASSUME TypeOK, NEW w \in Window, NEW r \in Recon, Refresh(w, r)
    PROVE  /\ shown'[w].recon = r
           /\ shown'[w].cleared = ClearedLines(r)'
           /\ \A v \in Window \ {w} : shown'[v] = shown[v]
BY DEF Refresh, TypeOK, BankReconciliationGet

\* Ticks stay as they were while a window loads a statement that counts.
LEMMA RefreshSigned ==
    ASSUME Signed, TypeOK', NEW w \in Window, NEW r \in Recon, Refresh(w, r), UNCHANGED line,
           Kept \subseteq Kept', \A o \in Kept' : o \in Kept \/ recon[o].status = "absent",
           recon'[r].status # "absent",
           \A o \in Recon : recon[o].status # "absent" => recon'[o].status # "absent"
    PROVE  TicksKept' /\ ShownTicks' /\ ShownStarted'
<1> USE ReconciliationAssumption
<1>1. TicksKept'
  BY DEF Signed, TicksKept, Ticked, Present
<1>2. shown'[w].recon = r /\ shown'[w].cleared = ClearedLines(r)'
      /\ \A u \in Window \ {w} : shown'[u] = shown[u]
  BY RefreshShows DEF Signed, Chained
<1>3. ASSUME NEW v \in Window, NEW l \in Line, shown'[v].recon \in Kept', l \in shown'[v].cleared,
             Ticked(l)'
      PROVE  line'[l].owner >= shown'[v].recon
  <2>1. CASE v = w
    BY <1>2, <1>3, <2>1 DEF ClearedLines
  <2>2. CASE v # w
    <3>1. shown[v].recon \in Kept
      BY <1>2, <1>3, <2>2 DEF Signed, ShownStarted, Kept
    <3> QED
      BY <1>2, <1>3, <2>2, <3>1 DEF Signed, ShownTicks, Ticked
  <2> QED
    BY <2>1, <2>2
<1>4. ShownTicks'
  BY <1>3 DEF ShownTicks
<1>5. ShownStarted'
  BY <1>2 DEF Signed, ShownStarted
<1> QED
  BY <1>1, <1>4, <1>5

\* A tick or an untick is on the statement in progress, which is the last one.
LEMMA ToggleSigned ==
    ASSUME Signed, Chained', NEW w \in Window, NEW r \in Recon, NEW l \in Line,
           BankReconciliationToggleLine(w, r, l)
    PROVE  /\ TicksKept' /\ ShownTicks' /\ ShownStarted'
           /\ line[l].owner \in {NoRecon, r} /\ line'[l].owner \in {NoRecon, r}
           /\ l \in Present
           /\ \A k \in Line \ {l} : line'[k] = line[k]
           /\ line'[l].status = line[l].status /\ line'[l].date = line[l].date
<1> USE ReconciliationAssumption
<1>1. /\ shown[w].recon = r /\ r \in Open /\ l \in Present /\ UNCHANGED recon /\ Refresh(w, r)
  BY DEF BankReconciliationToggleLine
<1>2. line[l].owner \in {NoRecon, r}
  <2>1. CASE l \in shown[w].uncleared /\ line[l].owner \in {NoRecon, r}
    BY <2>1
  <2>2. CASE l \in shown[w].cleared
    BY <1>1, <2>2, OpenOwnsItsTicks
  <2> QED
    BY <2>1, <2>2 DEF BankReconciliationToggleLine
<1>3. PICK o \in {r, NoRecon} : line' = [line EXCEPT ![l].owner = o]
  BY ToggleRows DEF Signed, Chained
<1>4. /\ line'[l].owner = o
      /\ line'[l].status = line[l].status
      /\ line'[l].date = line[l].date
      /\ \A k \in Line \ {l} : line'[k] = line[k]
  BY <1>3 DEF Signed, Chained, TypeOK, LineRow
<1>5. r \in Kept /\ Kept' = Kept /\ Present' = Present /\ \A x \in Kept : x <= r
  <2>1. r \in Kept /\ \A x \in Kept : x <= r
    BY <1>1, OpenIsLast DEF Signed
  <2>2. Kept' = Kept
    BY <1>1 DEF Kept
  <2>3. Present' = Present
    BY <1>4 DEF Present
  <2> QED
    BY <2>1, <2>2, <2>3
<1>6. TicksKept'
  BY <1>1, <1>4, <1>5 DEF Signed, TicksKept, Ticked
<1>7. shown'[w].recon = r /\ shown'[w].cleared = ClearedLines(r)'
      /\ \A u \in Window \ {w} : shown'[u] = shown[u]
  BY <1>1, RefreshShows DEF Signed, Chained
<1>8. ASSUME NEW v \in Window, NEW k \in Line, shown'[v].recon \in Kept', k \in shown'[v].cleared,
             Ticked(k)'
      PROVE  line'[k].owner >= shown'[v].recon
  <2>1. CASE v = w
    BY <1>7, <1>8, <2>1 DEF ClearedLines
  <2>2. CASE v # w /\ k # l
    BY <1>4, <1>5, <1>7, <1>8, <2>2 DEF Signed, ShownTicks, Ticked
  <2>3. CASE v # w /\ k = l
    <3>1. line'[k].owner = r /\ shown'[v].recon <= r
      BY <1>4, <1>5, <1>8, <2>3 DEF Ticked
    <3> QED
      BY <3>1, <1>5, <1>8 DEF Kept
  <2> QED
    BY <2>1, <2>2, <2>3
<1>9. ShownTicks'
  BY <1>8 DEF ShownTicks
<1>10. ShownStarted'
  BY <1>1, <1>7 DEF Signed, ShownStarted, Open
<1> QED
  BY <1>1, <1>2, <1>4, <1>6, <1>9, <1>10

\* Abandoning takes the ticks of the last statement, and only those.
LEMMA AbandonSigned ==
    ASSUME Signed, Chained', NEW w \in Window, NEW r \in Recon, BankReconciliationAbandon(w, r)
    PROVE  TicksKept' /\ ShownTicks' /\ ShownStarted'
<1> USE ReconciliationAssumption
<1>1. Kept' = Kept \ {r}
  BY AbandonChains DEF Signed, Chained
<1>2. \A l \in Line : /\ line[l].owner = r => line'[l].owner = NoRecon
                      /\ line[l].owner # r => line'[l] = line[l]
                      /\ line'[l].status = line[l].status
  BY DEF BankReconciliationAbandon, Signed, Chained, TypeOK, LineRow
<1>3. TicksKept'
  BY <1>1, <1>2 DEF Signed, TicksKept, Ticked, Present
<1>4. shown'[w] = NothingShown /\ \A v \in Window \ {w} : shown'[v] = shown[v]
  BY DEF BankReconciliationAbandon, Signed, Chained, TypeOK
<1>5. ShownTicks'
  BY <1>1, <1>2, <1>4 DEF Signed, ShownTicks, Ticked, NothingShown
<1>6. \A o \in Recon : recon[o].status # "absent" => recon'[o].status # "absent"
  BY DEF BankReconciliationAbandon, Signed, Chained, TypeOK, ReconRow
<1>7. ShownStarted'
  <2>1. shown'[w].recon \notin Recon
    BY <1>4 DEF NothingShown
  <2>2. \A v \in Window \ {w} : shown'[v].recon \in Recon => recon'[shown'[v].recon].status # "absent"
    BY <1>4, <1>6 DEF Signed, ShownStarted
  <2> QED
    BY <2>1, <2>2 DEF ShownStarted
<1> QED
  BY <1>3, <1>5, <1>7

\* The journal adds no tick; it takes an entry away only unticked, or void.
LEMMA JournalSigned ==
    ASSUME Signed, UNCHANGED <<recon, shown>>,
           \A l \in Line : \/ line'[l] = line[l]
                           \/ line'[l].owner = NoRecon
    PROVE  TicksKept' /\ ShownTicks' /\ ShownStarted'
<1>1. Kept' = Kept
  BY DEF Kept
<1>2. TicksKept'
  BY <1>1 DEF Signed, TicksKept, Ticked, Present
<1>3. ShownTicks'
  BY <1>1 DEF Signed, ShownTicks, Ticked
<1>4. ShownStarted'
  BY DEF Signed, ShownStarted
<1> QED
  BY <1>2, <1>3, <1>4

LEMMA SignedStart == Init => Signed
<1> SUFFICES ASSUME Init PROVE Signed
  OBVIOUS
<1>1. Chained
  BY ChainedStart
<1>2. TicksKept
  BY DEF Init, TicksKept, Ticked
<1>3. ShownTicks
  BY DEF Init, ShownTicks, NothingShown
<1>4. ShownStarted
  BY ReconciliationAssumption DEF Init, ShownStarted, NothingShown
<1> QED
  BY <1>1, <1>2, <1>3, <1>4 DEF Signed

\* A line that is not ticked, or whose entry is created, has no tick to lose.
LEMMA JournalLines ==
    ASSUME Signed, NEW l \in Line,
           \/ \E date \in Day, net \in Net : JournalCreateAndPost(l, date, net)
           \/ \E date \in Day : JournalUpdateDate(l, date)
           \/ JournalVoid(l)
           \/ JournalDelete(l)
    PROVE  /\ UNCHANGED <<recon, shown>>
           /\ \A k \in Line \ {l} : line'[k] = line[k]
           /\ line'[l].owner = NoRecon
           /\ Ticked(l) => line[l].status = "void" /\ line'[l].status = "deleted"
<1>1. l \notin Present => ~Ticked(l)
  BY DEF Signed, TicksKept
<1>2. ASSUME NEW date \in Day, NEW net \in Net, JournalCreateAndPost(l, date, net)
      PROVE  /\ UNCHANGED <<recon, shown>>
             /\ \A k \in Line \ {l} : line'[k] = line[k]
             /\ line'[l].owner = NoRecon
             /\ ~Ticked(l)
  BY <1>1, <1>2 DEF JournalCreateAndPost, Present, Signed, Chained, TypeOK
<1>3. ASSUME NEW date \in Day, JournalUpdateDate(l, date)
      PROVE  /\ UNCHANGED <<recon, shown>>
             /\ \A k \in Line \ {l} : line'[k] = line[k]
             /\ line'[l].owner = NoRecon
             /\ ~Ticked(l)
  BY <1>3 DEF JournalUpdateDate, Ticked, Signed, Chained, TypeOK, LineRow
<1>4. ASSUME JournalVoid(l)
      PROVE  /\ UNCHANGED <<recon, shown>>
             /\ \A k \in Line \ {l} : line'[k] = line[k]
             /\ line'[l].owner = NoRecon
             /\ ~Ticked(l)
  BY <1>4 DEF JournalVoid, Ticked, Signed, Chained, TypeOK, LineRow
<1>5. ASSUME JournalDelete(l)
      PROVE  /\ UNCHANGED <<recon, shown>>
             /\ \A k \in Line \ {l} : line'[k] = line[k]
             /\ line'[l].owner = NoRecon
             /\ line[l].status = "void" /\ line'[l].status = "deleted"
  BY <1>5 DEF JournalDelete, Signed, Chained, TypeOK, LineRow
<1> QED
  BY <1>2, <1>3, <1>4, <1>5

LEMMA SignedStep ==
    ASSUME Signed, [Next]_vars
    PROVE  Signed'
<1> USE ReconciliationAssumption
<1>0. Chained' /\ TypeOK' /\ Chained /\ TypeOK
  BY ChainedStep DEF Signed, Chained
<1>1. ASSUME NEW w \in Window, BankReconciliationList(w) PROVE TicksKept' /\ ShownTicks' /\ ShownStarted'
  <2>1. /\ Kept' = Kept /\ shown'[w] = NothingShown
        /\ \A v \in Window \ {w} : shown'[v] = shown[v]
        /\ UNCHANGED <<line, recon>>
    BY <1>0, <1>1 DEF BankReconciliationList, Kept, TypeOK
  <2>2. TicksKept'
    BY <2>1 DEF Signed, TicksKept, Ticked, Present
  <2>3. ShownTicks'
    BY <2>1 DEF Signed, ShownTicks, Ticked, NothingShown
  <2>4. shown'[w].recon \notin Recon
    BY <2>1 DEF NothingShown
  <2>5. ShownStarted'
    BY <2>1, <2>4 DEF Signed, ShownStarted
  <2> QED
    BY <2>2, <2>3, <2>5
<1>2. ASSUME NEW w \in Window, NEW r \in Recon, BankReconciliationOpen(w, r)
      PROVE  TicksKept' /\ ShownTicks' /\ ShownStarted'
  <2>1. UNCHANGED <<line, recon>> /\ Kept' = Kept /\ r \in Kept
    BY <1>2 DEF BankReconciliationOpen, Kept
  <2>2. BankReconciliationGet(r)' = BankReconciliationGet(r)
    BY <2>1 DEF BankReconciliationGet, ClearedLines, Open, UnclearedPostedLines, Present, Posted,
       Ticked
  <2>3. Refresh(w, r)
    BY <1>2, <2>2 DEF BankReconciliationOpen, Refresh
  <2>4. recon'[r].status # "absent"
    BY <2>1 DEF Kept
  <2> QED
    BY <1>0, <2>1, <2>3, <2>4, RefreshSigned
<1>3. ASSUME NEW w \in Window, NEW r \in Recon, NEW date \in Day, NEW ending \in Ending,
             BankReconciliationStart(w, r, date, ending)
      PROVE  TicksKept' /\ ShownTicks' /\ ShownStarted'
  <2>1. Kept' = Kept \cup {r}
    BY <1>0, <1>3, StartChains
  <2>2. recon[r].status = "absent" /\ UNCHANGED line /\ Refresh(w, r)
    BY <1>3 DEF BankReconciliationStart, NextRecon
  <2>3. /\ recon'[r].status # "absent"
        /\ \A o \in Recon : recon[o].status # "absent" => recon'[o].status # "absent"
    BY <1>0, <1>3 DEF BankReconciliationStart, TypeOK, Started
  <2> QED
    BY <1>0, <2>1, <2>2, <2>3, RefreshSigned
<1>4. ASSUME NEW w \in Window, NEW r \in Recon, NEW l \in Line, BankReconciliationToggleLine(w, r, l)
      PROVE  TicksKept' /\ ShownTicks' /\ ShownStarted'
  BY <1>0, <1>4, ToggleSigned
<1>5. ASSUME NEW w \in Window, NEW r \in Recon, BankReconciliationComplete(w, r)
      PROVE  TicksKept' /\ ShownTicks' /\ ShownStarted'
  <2>1. Kept' = Kept
    BY <1>0, <1>5, CompleteChains
  <2>2. UNCHANGED line /\ Refresh(w, r)
    BY <1>5 DEF BankReconciliationComplete
  <2>3. /\ recon'[r].status # "absent"
        /\ \A o \in Recon : recon[o].status # "absent" => recon'[o].status # "absent"
    BY <1>0, <1>5 DEF BankReconciliationComplete, TypeOK, ReconRow
  <2> QED
    BY <1>0, <2>1, <2>2, <2>3, RefreshSigned
<1>6. ASSUME NEW w \in Window, NEW r \in Recon, BankReconciliationReopen(w, r)
      PROVE  TicksKept' /\ ShownTicks' /\ ShownStarted'
  <2>1. Kept' = Kept
    BY <1>0, <1>6, ReopenChains
  <2>2. UNCHANGED line /\ Refresh(w, r)
    BY <1>6 DEF BankReconciliationReopen
  <2>3. /\ recon'[r].status # "absent"
        /\ \A o \in Recon : recon[o].status # "absent" => recon'[o].status # "absent"
    BY <1>0, <1>6 DEF BankReconciliationReopen, TypeOK, ReconRow
  <2> QED
    BY <1>0, <2>1, <2>2, <2>3, RefreshSigned
<1>7. ASSUME NEW w \in Window, NEW r \in Recon, BankReconciliationAbandon(w, r)
      PROVE  TicksKept' /\ ShownTicks' /\ ShownStarted'
  BY <1>0, <1>7, AbandonSigned
<1>8. CASE UNCHANGED vars
  <2>1. UNCHANGED <<recon, shown>> /\ \A k \in Line : line'[k] = line[k]
    BY <1>8 DEF vars
  <2> QED
    BY <1>0, <2>1, JournalSigned DEF Signed
<1>9. ASSUME NEW l \in Line,
              \/ \E date \in Day, net \in Net : JournalCreateAndPost(l, date, net)
              \/ \E date \in Day : JournalUpdateDate(l, date)
              \/ JournalVoid(l)
              \/ JournalDelete(l)
       PROVE  Signed'
  <2>1. /\ UNCHANGED <<recon, shown>>
        /\ \A k \in Line \ {l} : line'[k] = line[k]
        /\ line'[l].owner = NoRecon
    BY <1>9, JournalLines
  <2>2. \A k \in Line : line'[k] = line[k] \/ line'[k].owner = NoRecon
    BY <2>1
  <2>3. TicksKept' /\ ShownTicks' /\ ShownStarted'
    BY <2>1, <2>2, JournalSigned
  <2> QED
    BY <1>0, <2>3 DEF Signed
<1>10. ASSUME NEW w \in Window, NEW r \in Recon,
              \/ BankReconciliationOpen(w, r)
              \/ \E date \in Day, ending \in Ending : BankReconciliationStart(w, r, date, ending)
              \/ \E l \in Line : BankReconciliationToggleLine(w, r, l)
              \/ BankReconciliationComplete(w, r)
              \/ BankReconciliationReopen(w, r)
              \/ BankReconciliationAbandon(w, r)
       PROVE  Signed'
  BY <1>0, <1>2, <1>3, <1>4, <1>5, <1>6, <1>7, <1>10 DEF Signed
<1>11. ASSUME NEW w \in Window, BankReconciliationList(w) PROVE Signed'
  BY <1>0, <1>1, <1>11 DEF Signed
<1> QED
  BY <1>8, <1>9, <1>10, <1>11 DEF Next

-----------------------------------------------------------------------------
(* What a step may do to ticks *)

LEMMA SignedOffStep ==
    ASSUME Signed, [Next]_vars, NEW r \in Completed, NEW l \in Line, r \in Completed',
           (line[l].owner = r) # (line'[l].owner = r)
    PROVE  line[l].status = "void" /\ line'[l].status = "deleted"
<1> USE ReconciliationAssumption
<1>0. Signed' /\ r \in Kept /\ r # NoRecon /\ line'[l] # line[l] /\ r \notin Open
  BY SignedStep DEF Kept, Completed, Open
<1>1. ASSUME NEW w \in Window, NEW q \in Recon, NEW k \in Line, BankReconciliationToggleLine(w, q, k)
      PROVE  FALSE
  <2>1. q \in Open
    BY <1>1 DEF BankReconciliationToggleLine
  <2>2. /\ line[k].owner \in {NoRecon, q} /\ line'[k].owner \in {NoRecon, q}
        /\ \A j \in Line \ {k} : line'[j] = line[j]
    BY <1>0, <1>1, ToggleSigned DEF Signed
  <2> QED
    BY <1>0, <2>1, <2>2
<1>2. ASSUME NEW w \in Window, NEW q \in Recon, BankReconciliationAbandon(w, q)
      PROVE  FALSE
  <2>1. q \in Open /\ line'[l] = IF line[l].owner = q THEN [line[l] EXCEPT !.owner = NoRecon]
                                 ELSE line[l]
    BY <1>2 DEF BankReconciliationAbandon
  <2>2. line[l].owner = q /\ line'[l].owner = NoRecon
    BY <1>0, <2>1 DEF Signed, Chained, TypeOK, LineRow
  <2> QED
    BY <1>0, <2>1, <2>2
<1>3. ASSUME NEW k \in Line,
             \/ \E date \in Day, net \in Net : JournalCreateAndPost(k, date, net)
             \/ \E date \in Day : JournalUpdateDate(k, date)
             \/ JournalVoid(k)
             \/ JournalDelete(k)
      PROVE  line[l].status = "void" /\ line'[l].status = "deleted"
  <2>1. /\ \A j \in Line \ {k} : line'[j] = line[j]
        /\ line'[k].owner = NoRecon
        /\ Ticked(k) => line[k].status = "void" /\ line'[k].status = "deleted"
    BY <1>3, JournalLines
  <2> QED
    BY <1>0, <2>1 DEF Ticked
<1> QED
  BY <1>0, <1>1, <1>2, <1>3 DEF Next, vars, BankReconciliationList, BankReconciliationOpen,
     BankReconciliationStart, BankReconciliationComplete, BankReconciliationReopen

LEMMA TickedStep ==
    ASSUME Signed, [Next]_vars, NEW l \in Posted, Ticked(l), line'[l].owner # NoRecon
    PROVE  line'[l].status = "posted" /\ line'[l].date = line[l].date
<1> USE ReconciliationAssumption
<1>0. Chained' /\ l \in Line /\ line[l].status = "posted"
  BY ChainedStep DEF Signed, Posted
<1>1. ASSUME NEW w \in Window, NEW q \in Recon, NEW k \in Line, BankReconciliationToggleLine(w, q, k)
      PROVE  line'[l].status = "posted" /\ line'[l].date = line[l].date
  <2>1. /\ \A j \in Line \ {k} : line'[j] = line[j]
        /\ line'[k].status = line[k].status /\ line'[k].date = line[k].date
    BY <1>0, <1>1, ToggleSigned
  <2> QED
    BY <1>0, <2>1
<1>2. ASSUME NEW w \in Window, NEW q \in Recon, BankReconciliationAbandon(w, q)
      PROVE  line'[l].status = "posted" /\ line'[l].date = line[l].date
  <2>1. line'[l] = IF line[l].owner = q THEN [line[l] EXCEPT !.owner = NoRecon] ELSE line[l]
    BY <1>0, <1>2 DEF BankReconciliationAbandon
  <2> QED
    BY <1>0, <2>1 DEF Signed, Chained, TypeOK, LineRow
<1>3. ASSUME NEW k \in Line,
             \/ \E date \in Day, net \in Net : JournalCreateAndPost(k, date, net)
             \/ \E date \in Day : JournalUpdateDate(k, date)
             \/ JournalVoid(k)
             \/ JournalDelete(k)
      PROVE  line'[l].status = "posted" /\ line'[l].date = line[l].date
  <2>1. /\ \A j \in Line \ {k} : line'[j] = line[j]
        /\ line'[k].owner = NoRecon
    BY <1>3, JournalLines
  <2> QED
    BY <1>0, <2>1
<1> QED
  BY <1>0, <1>1, <1>2, <1>3 DEF Next, vars, BankReconciliationList, BankReconciliationOpen,
     BankReconciliationStart, BankReconciliationComplete, BankReconciliationReopen

\* No window, however stale its lists, puts a line on a completed statement or
\* takes one off (bankReconciliationToggleLine): only a void entry's deletion does.
THEOREM SignedOffStays == Spec => SignedOffTicks
<1>1. Signed /\ [Next]_vars =>
          [\A r \in Completed, l \in Line :
              /\ r \in Completed'
              /\ (line[l].owner = r) # (line'[l].owner = r)
              => line[l].status = "void" /\ line'[l].status = "deleted"]_vars
  BY SignedOffStep
<1> QED
  BY <1>1, SignedStart, SignedStep, PTL DEF Spec, SignedOffTicks

\* The entry of a ticked line neither leaves the ledger nor moves to another day
\* while the tick is there (hasReconciledLines in the journal's handlers).
THEOREM TickHolds == Spec => TickedStays
<1>1. Signed /\ [Next]_vars =>
          [\A l \in Posted : Ticked(l) /\ line'[l].owner # NoRecon =>
              /\ line'[l].status = "posted"
              /\ line'[l].date = line[l].date]_vars
  BY TickedStep
<1> QED
  BY <1>1, SignedStart, SignedStep, PTL DEF Spec, TickedStays
=============================================================================
