-------------------------- MODULE CloudLedgerProofs --------------------------
(***************************************************************************)
(* Proofs about CloudLedger, for any number of requests, keys, documents   *)
(* and days, and for anything the requests may ask.                        *)
(***************************************************************************)
EXTENDS CloudReceivables, TLAPS

\* A request that has begun carries a key and something to do.
Asked == \A r \in Request : tx[r].pc # "idle" => tx[r].key \in Key /\ tx[r].body \in Body

\* A document row is locked by one request, which still may do what it asked.
RowsLocked ==
    \A d \in Doc : \A r \in DocumentHolders(d) :
        /\ Allowed(tx[r].body)
        /\ \A s \in DocumentHolders(d) : s = r

Sound == TypeOK /\ Asked /\ RowsLocked /\ SubledgerAgrees

\* The steps that end a request without a write.
Ends(r) == Replay(r) \/ RejectReuse(r) \/ RefuseDocument(r) \/ RefuseSupplier(r) \/ Fail(r)

\* The steps of a request that write: each is a commit.
Writes(r) ==
    \/ \E d \in Doc : CreateDocument(r, d)
    \/ CreatePayment(r)
    \/ \E today \in Day : VoidDocument(r, today)
    \/ CreateEntry(r)

\* A step is one of these.
LEMMA StepCases ==
    ASSUME [Next]_vars
    PROVE  \/ UNCHANGED vars
           \/ \E k \in Key : KeyExpires(k)
           \/ \E r \in Request :
                  \/ \E k \in Key, b \in Body : Begin(r, k, b)
                  \/ Reserve(r)
                  \/ TakeNumber(r)
                  \/ LockDocument(r)
                  \/ \E a \in Account : LockAccount(r, a)
                  \/ Ends(r)
                  \/ Writes(r)
BY DEF Next, Advance, Ends, Writes, AllAnswered, BreakCircle

-----------------------------------------------------------------------------
(* Type correctness, locks and balances *)

LEMMA InitSound == Init => Sound
<1> SUFFICES ASSUME Init PROVE Sound
  OBVIOUS
<1>1. AnyDay \in Day
  BY CloudLedgerAssumption DEF AnyDay
<1>2. TypeOK
  BY <1>1, CloudLedgerAssumption
     DEF Init, TypeOK, TxRow, Progress, Answer, DocumentRow, KeyRow
<1>3. SubledgerAgrees
  BY DEF Init, SubledgerAgrees
<1> QED
  BY <1>2, <1>3 DEF Init, Sound, Asked, RowsLocked, DocumentHolders

\* A step of one request that writes nothing, and takes no document's row but one
\* that is free and allows what was asked.
LEMMA MoveSound ==
    ASSUME Sound, NEW r \in Request, NEW row \in TxRow,
           tx' = [tx EXCEPT ![r] = row],
           UNCHANGED <<document, sequence, keyRow, written, ledger, byDay>>,
           row.pc # "idle" => row.key \in Key /\ row.body \in Body,
           (row.pc = "held" /\ row.body.op \in {"pay", "void"})
               => Allowed(row.body) /\ DocumentHolders(row.body.doc) = {}
    PROVE  Sound'
<1> USE DEF Sound
<1>1. TypeOK'
  BY DEF TypeOK
<1>2. Asked'
  BY DEF TypeOK, Asked
<1>3. RowsLocked'
  BY DEF TypeOK, RowsLocked, DocumentHolders, Allowed
<1>4. SubledgerAgrees'
  BY DEF SubledgerAgrees
<1> QED
  BY <1>1, <1>2, <1>3, <1>4

LEMMA AnswersSound ==
    ASSUME Sound, NEW r \in Request, tx[r].pc # "idle",
           NEW answer \in Answer, NEW effect \in Request \cup {NoRequest},
           Answers(r, answer, effect)
    PROVE  Sound'
<1> DEFINE row == [tx[r] EXCEPT !.pc = "done", !.accounts = {}, !.answer = answer, !.effect = effect]
<1>1. tx[r] \in TxRow /\ tx[r].key \in Key /\ tx[r].body \in Body
  BY DEF Sound, TypeOK, Asked
<1>2. row \in TxRow /\ row.pc = "done" /\ row.key = tx[r].key /\ row.body = tx[r].body
  BY <1>1 DEF TxRow, Progress
<1>3. tx' = [tx EXCEPT ![r] = row]
  BY DEF Answers
<1> QED
  BY <1>1, <1>2, <1>3, MoveSound DEF Answers

LEMMA EndsSound ==
    ASSUME Sound, NEW r \in Request, Ends(r)
    PROVE  Sound'
<1>1. CASE Replay(r)
  <2>1. tx[r].key \in Key
    BY <1>1 DEF Replay, Sound, Asked
  <2>2. keyRow[tx[r].key].by \in Request \cup {NoRequest}
    BY <2>1 DEF Sound, TypeOK, KeyRow
  <2> QED
    BY <1>1, <2>2, AnswersSound DEF Replay, Answer
<1>2. CASE RejectReuse(r) \/ RefuseDocument(r) \/ RefuseSupplier(r) \/ Fail(r)
  BY <1>2, AnswersSound DEF RejectReuse, RefuseDocument, RefuseSupplier, Fail, Answer
<1> QED
  BY <1>1, <1>2 DEF Ends

LEMMA BeginSound ==
    ASSUME Sound, NEW r \in Request, NEW k \in Key, NEW b \in Body, Begin(r, k, b)
    PROVE  Sound'
<1> DEFINE stale == IF keyRow[k].expired THEN keyRow[k].by ELSE NoRequest
           row == [tx[r] EXCEPT !.pc = "begun", !.key = k, !.body = b, !.stale = stale]
<1>1. tx[r] \in TxRow /\ stale \in Request \cup {NoRequest}
  BY DEF Sound, TypeOK, KeyRow
<1> HIDE DEF stale
<1>2. row \in TxRow /\ row.pc = "begun" /\ row.key = k /\ row.body = b
  BY <1>1 DEF TxRow, Progress
<1>3. tx' = [tx EXCEPT ![r] = row]
  BY DEF Begin, stale
<1>4. UNCHANGED <<document, sequence, keyRow, written, ledger, byDay>>
  BY DEF Begin
<1> HIDE DEF row
<1> QED
  BY <1>2, <1>3, <1>4, MoveSound

LEMMA ReserveSound ==
    ASSUME Sound, NEW r \in Request, Reserve(r)
    PROVE  Sound'
<1> DEFINE pc == IF Free(r) THEN "reserved" ELSE "taken"
           row == [tx[r] EXCEPT !.pc = pc]
<1>1. tx[r] \in TxRow /\ tx[r].key \in Key /\ tx[r].body \in Body
  BY DEF Reserve, Sound, TypeOK, Asked
<1>2. pc \in {"reserved", "taken"}
  OBVIOUS
<1> HIDE DEF pc
<1>3. row \in TxRow /\ row.pc = pc /\ row.key = tx[r].key /\ row.body = tx[r].body
  BY <1>1, <1>2 DEF TxRow, Progress
<1>4. tx' = [tx EXCEPT ![r] = row]
  BY DEF Reserve, pc
<1> QED
  BY <1>1, <1>2, <1>3, <1>4, MoveSound DEF Reserve

LEMMA TakeNumberSound ==
    ASSUME Sound, NEW r \in Request, TakeNumber(r)
    PROVE  Sound'
<1> DEFINE number == sequence[tx[r].body.kind]
           row == [tx[r] EXCEPT !.pc = "held", !.number = number]
<1>1. tx[r] \in TxRow /\ tx[r].key \in Key /\ tx[r].body \in Body
  BY DEF TakeNumber, Sound, TypeOK, Asked
<1>2. number \in Nat
  BY <1>1, CloudLedgerAssumption DEF TakeNumber, Sound, TypeOK
<1> HIDE DEF number
<1>3. row \in TxRow /\ row.pc = "held" /\ row.key = tx[r].key /\ row.body = tx[r].body
  BY <1>1, <1>2 DEF TxRow, Progress
<1>4. tx' = [tx EXCEPT ![r] = row]
  BY DEF TakeNumber, number
<1> QED
  BY <1>1, <1>3, <1>4, MoveSound DEF TakeNumber

LEMMA LockDocumentSound ==
    ASSUME Sound, NEW r \in Request, LockDocument(r)
    PROVE  Sound'
<1> DEFINE row == [tx[r] EXCEPT !.pc = "held"]
<1>1. tx[r] \in TxRow /\ tx[r].key \in Key /\ tx[r].body \in Body
  BY DEF LockDocument, Sound, TypeOK, Asked
<1>2. row \in TxRow /\ row.pc = "held" /\ row.key = tx[r].key /\ row.body = tx[r].body
  BY <1>1 DEF TxRow, Progress
<1>3. tx' = [tx EXCEPT ![r] = row]
  BY DEF LockDocument
<1> QED
  BY <1>1, <1>2, <1>3, MoveSound DEF LockDocument

LEMMA LockAccountSound ==
    ASSUME Sound, NEW r \in Request, NEW a \in Account, LockAccount(r, a)
    PROVE  Sound'
<1> DEFINE accounts == tx[r].accounts \cup {a}
           row == [tx[r] EXCEPT !.accounts = accounts]
<1>1. tx[r] \in TxRow /\ accounts \in SUBSET Account
  BY DEF Sound, TypeOK, TxRow
<1> HIDE DEF accounts
<1>2. row \in TxRow /\ row.pc = tx[r].pc /\ row.key = tx[r].key /\ row.body = tx[r].body
  BY <1>1 DEF TxRow
<1>3. tx' = [tx EXCEPT ![r] = row] /\ UNCHANGED <<document, sequence, keyRow, written, ledger, byDay>>
  BY DEF LockAccount, accounts
<1> HIDE DEF row
<1>4. TypeOK'
  BY <1>2, <1>3 DEF Sound, TypeOK
<1>5. \A s \in Request : tx'[s].pc = tx[s].pc /\ tx'[s].key = tx[s].key /\ tx'[s].body = tx[s].body
  BY <1>2, <1>3 DEF Sound, TypeOK
<1>6. Asked' /\ RowsLocked'
  BY <1>3, <1>5 DEF Sound, Asked, RowsLocked, DocumentHolders, Allowed
<1>7. SubledgerAgrees'
  BY <1>3 DEF Sound, SubledgerAgrees
<1> QED
  BY <1>4, <1>6, <1>7 DEF Sound

LEMMA KeyExpiresSound ==
    ASSUME Sound, NEW k \in Key, KeyExpires(k)
    PROVE  Sound'
<1> USE DEF Sound, KeyExpires
<1>1. TypeOK'
  BY DEF TypeOK, KeyRow
<1>2. Asked'
  BY DEF Asked
<1>3. RowsLocked'
  BY DEF RowsLocked, DocumentHolders, Allowed
<1>4. SubledgerAgrees'
  BY DEF SubledgerAgrees
<1> QED
  BY <1>1, <1>2, <1>3, <1>4
-----------------------------------------------------------------------------
(* The commits *)

LEMMA BodyFacts ==
    ASSUME NEW b \in Body
    PROVE  /\ b.amount \in Nat \ {0}
           /\ b.date \in Day
           /\ b.supplier \in Supplier \cup {"none"}
           /\ b.op \in Op
           /\ b.op = "issue" => b.kind \in Kind
           /\ b.op \in {"pay", "void"} => b.kind \in Kind /\ b.doc \in Doc
BY CloudLedgerAssumption DEF BodyRow

\* A commit ends its request, which keeps its key and body, and holds nothing more.
LEMMA CommitsEnd ==
    ASSUME Sound, NEW r \in Request, tx[r].pc # "idle", Commits(r)
    PROVE  /\ tx' \in [Request -> TxRow]
           /\ keyRow' \in [Key -> KeyRow]
           /\ written' \subseteq Request
           /\ Asked'
           /\ tx'[r].pc = "done" /\ tx'[r].key = tx[r].key /\ tx'[r].body = tx[r].body
           /\ \A s \in Request \ {r} : tx'[s] = tx[s]
           /\ keyRow' = [keyRow EXCEPT ![tx[r].key] = [by |-> r, body |-> tx[r].body, expired |-> FALSE]]
           /\ \A d \in Doc : DocumentHolders(d)' = DocumentHolders(d) \ {r}
<1>1. tx[r] \in TxRow /\ tx[r].key \in Key /\ tx[r].body \in Body
  BY DEF Sound, TypeOK, Asked
<1>2. PICK answer \in {"ok", "failed"} :
          tx' = [tx EXCEPT ![r].pc = "done", ![r].accounts = {}, ![r].answer = answer,
                           ![r].effect = IF answer = "ok" THEN r ELSE NoRequest]
  BY DEF Commits
<1> DEFINE effect == IF answer = "ok" THEN r ELSE NoRequest
           row == [tx[r] EXCEPT !.pc = "done", !.accounts = {}, !.answer = answer, !.effect = effect]
<1>3. effect \in Request \cup {NoRequest}
  OBVIOUS
<1>4. tx' = [tx EXCEPT ![r] = row]
  BY <1>2
<1> HIDE DEF effect
<1>5. row \in TxRow /\ row.pc = "done" /\ row.key = tx[r].key /\ row.body = tx[r].body
  BY <1>1, <1>3 DEF TxRow, Progress, Answer
<1> HIDE DEF row
<1>6. /\ tx' \in [Request -> TxRow]
      /\ tx'[r] = row
      /\ \A s \in Request \ {r} : tx'[s] = tx[s]
  BY <1>4, <1>5 DEF Sound, TypeOK
<1>7. keyRow' \in [Key -> KeyRow] /\ written' \subseteq Request
  BY <1>1 DEF Commits, Sound, TypeOK, KeyRow
<1>8. Asked'
  BY <1>1, <1>5, <1>6 DEF Sound, Asked
<1>9. ASSUME NEW d \in Doc PROVE DocumentHolders(d)' = DocumentHolders(d) \ {r}
  BY <1>5, <1>6 DEF DocumentHolders
<1>10. keyRow' = [keyRow EXCEPT ![tx[r].key] = [by |-> r, body |-> tx[r].body, expired |-> FALSE]]
  BY DEF Commits
<1> QED
  BY <1>5, <1>6, <1>7, <1>8, <1>9, <1>10

\* A commit that touches one document, which nobody else has locked, leaves the
\* other requests what they may still do.
LEMMA CommitsLocks ==
    ASSUME Sound, NEW r \in Request, tx[r].pc # "idle", Commits(r), NEW d \in Doc,
           DocumentHolders(d) \subseteq {r},
           \A x \in Doc \ {d} : document'[x] = document[x]
    PROVE  RowsLocked'
<1>1. \A x \in Doc : DocumentHolders(x)' = DocumentHolders(x) \ {r}
  BY CommitsEnd
<1>2. \A s \in Request \ {r} : tx'[s] = tx[s]
  BY CommitsEnd
<1>3. ASSUME NEW x \in Doc, NEW s \in DocumentHolders(x)'
      PROVE  Allowed(tx[s].body)' /\ \A t \in DocumentHolders(x)' : t = s
  <2>1. x # d /\ s \in DocumentHolders(x) /\ s # r
    BY <1>1, <1>3
  <2>2. Allowed(tx[s].body) /\ \A t \in DocumentHolders(x) : t = s
    BY <2>1 DEF Sound, RowsLocked
  <2>3. tx'[s] = tx[s] /\ tx[s].body.doc = x
    BY <1>2, <2>1 DEF DocumentHolders
  <2> QED
    BY <1>1, <2>1, <2>2, <2>3 DEF Allowed
<1> QED
  BY <1>3 DEF RowsLocked

LEMMA CreateDocumentSound ==
    ASSUME Sound, NEW r \in Request, NEW d \in Doc, CreateDocument(r, d)
    PROVE  Sound'
<1> DEFINE b == tx[r].body
<1>1. /\ tx[r] \in TxRow
      /\ b \in Body
      /\ b.op = "issue"
      /\ tx[r].pc = "held"
      /\ Commits(r)
  BY DEF Sound, TypeOK, Asked, CreateDocument
<1>2. /\ b.amount \in Nat \ {0}
      /\ b.kind \in Kind
      /\ b.date \in Day
      /\ b.supplier \in Supplier \cup {"none"}
      /\ tx[r].number \in Nat
  BY <1>1, BodyFacts DEF TxRow
<1>3. /\ document' = [document EXCEPT ![d] = IssuedBy(r)]
      /\ sequence' = [sequence EXCEPT ![b.kind] = tx[r].number + 1]
      /\ ledger' = [ledger EXCEPT ![d].owed = @ + b.amount]
      /\ byDay' = [byDay EXCEPT ![b.date].posted = @ + b.amount, ![b.date].taxed = @ + b.amount]
      /\ document[d].status = "absent"
  BY DEF CreateDocument, NextDoc, Present
<1>4. /\ IssuedBy(r) \in DocumentRow
      /\ IssuedBy(r).balance = b.amount
      /\ IssuedBy(r).total = b.amount
      /\ IssuedBy(r).status = "posted"
  BY <1>2 DEF IssuedBy, DocumentRow
<1> HIDE DEF b
<1>5. TypeOK'
  <2>1. document' \in [Doc -> DocumentRow]
    BY <1>3, <1>4 DEF Sound, TypeOK
  <2>2. \A x \in Doc : document'[x].balance <= document'[x].total
    BY <1>2, <1>3, <1>4 DEF Sound, TypeOK
  <2>3. sequence' \in [Kind -> Nat]
    BY <1>2, <1>3 DEF Sound, TypeOK
  <2>4. ledger' \in [Doc -> [owed: Int, paid: Nat]]
    BY <1>2, <1>3 DEF Sound, TypeOK
  <2>5. byDay' \in [Day -> [posted: Int, taxed: Int]]
    BY <1>2, <1>3 DEF Sound, TypeOK
  <2> QED
    BY <1>1, <2>1, <2>2, <2>3, <2>4, <2>5, CommitsEnd DEF TypeOK
<1>6. RowsLocked'
  <2>1. DocumentHolders(d) = {}
    BY <1>3 DEF Sound, RowsLocked, DocumentHolders, Allowed, Payable, Voidable
  <2>2. \A x \in Doc \ {d} : document'[x] = document[x]
    BY <1>3 DEF Sound, TypeOK
  <2> QED
    BY <1>1, <2>1, <2>2, CommitsLocks
<1>7. SubledgerAgrees'
  <2>1. ledger'[d].owed = b.amount /\ ledger'[d].paid = 0
    BY <1>2, <1>3 DEF Sound, TypeOK, SubledgerAgrees
  <2>2. \A x \in Doc \ {d} : document'[x] = document[x] /\ ledger'[x] = ledger[x]
    BY <1>3 DEF Sound, TypeOK
  <2>3. document'[d] = IssuedBy(r)
    BY <1>3 DEF Sound, TypeOK
  <2> QED
    BY <1>4, <2>1, <2>2, <2>3 DEF Sound, SubledgerAgrees
<1> QED
  BY <1>1, <1>5, <1>6, <1>7, CommitsEnd DEF Sound

LEMMA SettledRow ==
    ASSUME NEW row \in DocumentRow, NEW balance \in Nat,
           NEW status \in {"posted", "partially_paid", "paid", "voided"}
    PROVE  [row EXCEPT !.balance = balance, !.status = status] \in DocumentRow
BY DEF DocumentRow

LEMMA PaidRow ==
    ASSUME NEW row \in [owed: Int, paid: Nat], NEW amount \in Nat
    PROVE  [row EXCEPT !.owed = @ - amount, !.paid = @ + amount] \in [owed: Int, paid: Nat]
<1>1. row.owed - amount \in Int /\ row.paid + amount \in Nat
  OBVIOUS
<1>2. ASSUME NEW x \in Int, NEW y \in Nat
      PROVE  [row EXCEPT !.owed = x, !.paid = y] \in [owed: Int, paid: Nat]
  OBVIOUS
<1> QED
  BY <1>1, <1>2

\* What a request that pays or voids finds when it commits.
LEMMA HeldRow ==
    ASSUME Sound, NEW r \in Request, tx[r].pc = "held", tx[r].body.op \in {"pay", "void"}
    PROVE  /\ tx[r].body \in Body
           /\ tx[r].body.doc \in Doc
           /\ document[tx[r].body.doc] \in DocumentRow
           /\ Allowed(tx[r].body)
           /\ DocumentHolders(tx[r].body.doc) = {r}
<1>1. tx[r].body \in Body
  BY DEF Sound, Asked
<1>2. tx[r].body.doc \in Doc
  BY <1>1, BodyFacts
<1>3. r \in DocumentHolders(tx[r].body.doc)
  BY DEF DocumentHolders
<1> QED
  BY <1>1, <1>2, <1>3 DEF Sound, TypeOK, RowsLocked

LEMMA CreatePaymentSound ==
    ASSUME Sound, NEW r \in Request, CreatePayment(r)
    PROVE  Sound'
<1> DEFINE b == tx[r].body
           d == b.doc
           balance == document[d].balance - b.amount
<1>1. tx[r].pc = "held" /\ b.op = "pay" /\ Commits(r)
  BY DEF CreatePayment
<1>2. /\ b.amount \in Nat \ {0}
      /\ d \in Doc
      /\ document[d] \in DocumentRow
      /\ Payable(document[d], b)
      /\ DocumentHolders(d) = {r}
  BY <1>1, HeldRow, BodyFacts DEF Allowed
<1>3. /\ document' = [document EXCEPT ![d].balance = balance, ![d].status = StatusAfter(balance)]
      /\ ledger' = [ledger EXCEPT ![d].owed = @ - b.amount, ![d].paid = @ + b.amount]
      /\ UNCHANGED <<sequence, byDay>>
  BY DEF CreatePayment
<1>4. \A x \in Doc \ {d} : document'[x] = document[x] /\ ledger'[x] = ledger[x]
  BY <1>3 DEF Sound, TypeOK
<1>5. /\ document'[d] = [document[d] EXCEPT !.balance = balance, !.status = StatusAfter(balance)]
      /\ ledger'[d].owed = ledger[d].owed - b.amount
      /\ ledger'[d].paid = ledger[d].paid + b.amount
  BY <1>2, <1>3 DEF Sound, TypeOK
<1>6. /\ document[d].balance \in Nat /\ document[d].total \in Nat
      /\ document[d].balance <= document[d].total
      /\ document[d].status \in {"posted", "partially_paid"}
      /\ b.amount <= document[d].balance
      /\ ledger[d].owed = document[d].balance
      /\ ledger[d].paid = document[d].total - document[d].balance
  BY <1>2 DEF Sound, TypeOK, DocumentRow, Payable, SubledgerAgrees
<1> HIDE DEF b, d
<1>7. /\ balance \in Nat /\ balance < document[d].balance
      /\ ledger'[d].owed = balance
      /\ ledger'[d].paid = document[d].total - balance
  BY <1>2, <1>5, <1>6
<1> HIDE DEF balance
<1>8. TypeOK'
  <2>0. StatusAfter(balance) \in {"partially_paid", "paid"}
    BY DEF StatusAfter
  <2>1. document'[d] \in DocumentRow /\ document'[d].balance <= document'[d].total
    <3>1. document[d] \in DocumentRow /\ balance \in Nat
      BY <1>2, <1>7
    <3>2. [document[d] EXCEPT !.balance = balance, !.status = StatusAfter(balance)] \in DocumentRow
      BY <3>1, <2>0, SettledRow
    <3>3. document'[d].balance = balance /\ document'[d].total = document[d].total
      BY <3>1, <1>5 DEF DocumentRow
    <3> QED
      BY <1>5, <1>6, <1>7, <3>2, <3>3
  <2>2. document' \in [Doc -> DocumentRow]
    BY <1>3, <1>4, <2>1 DEF Sound, TypeOK
  <2>3. \A x \in Doc : document'[x].balance <= document'[x].total
    BY <1>4, <2>1 DEF Sound, TypeOK
  <2>4. ledger' \in [Doc -> [owed: Int, paid: Nat]]
    <3>1. [ledger[d] EXCEPT !.owed = @ - b.amount, !.paid = @ + b.amount] \in [owed: Int, paid: Nat]
      BY <1>2, PaidRow DEF Sound, TypeOK
    <3> QED
      BY <1>3, <3>1 DEF Sound, TypeOK
  <2> QED
    BY <1>1, <1>3, <2>2, <2>3, <2>4, CommitsEnd DEF Sound, TypeOK
<1>9. RowsLocked'
  BY <1>1, <1>2, <1>4, CommitsLocks
<1>10. SubledgerAgrees'
  <2>1. /\ document'[d].status = (IF balance = 0 THEN "paid" ELSE "partially_paid")
        /\ document'[d].balance = balance
        /\ document'[d].total = document[d].total
    BY <1>2, <1>5 DEF DocumentRow, StatusAfter
  <2> QED
    BY <1>4, <1>6, <1>7, <2>1 DEF Sound, SubledgerAgrees
<1> QED
  BY <1>1, <1>8, <1>9, <1>10, CommitsEnd DEF Sound

LEMMA VoidDocumentSound ==
    ASSUME Sound, NEW r \in Request, NEW today \in Day, VoidDocument(r, today)
    PROVE  Sound'
<1> DEFINE b == tx[r].body
           d == b.doc
           total == document[d].total
<1>1. tx[r].pc = "held" /\ b.op = "void" /\ Commits(r)
  BY DEF VoidDocument
<1>2. /\ d \in Doc
      /\ document[d] \in DocumentRow
      /\ Voidable(document[d], b)
      /\ DocumentHolders(d) = {r}
  BY <1>1, HeldRow DEF Allowed
<1>3. /\ document' = [document EXCEPT ![d].balance = 0, ![d].status = "voided"]
      /\ ledger' = [ledger EXCEPT ![d].owed = @ - total]
      /\ byDay' = [x \in Day |->
                     [posted |-> byDay[x].posted - (IF x = b.date THEN total ELSE 0),
                      taxed |-> byDay[x].taxed - (IF x = today THEN total ELSE 0)]]
      /\ UNCHANGED sequence
  BY DEF VoidDocument
<1>4. \A x \in Doc \ {d} : document'[x] = document[x] /\ ledger'[x] = ledger[x]
  BY <1>3 DEF Sound, TypeOK
<1>5. /\ document'[d] = [document[d] EXCEPT !.balance = 0, !.status = "voided"]
      /\ ledger'[d].owed = ledger[d].owed - total
      /\ ledger'[d].paid = ledger[d].paid
  BY <1>2, <1>3 DEF Sound, TypeOK
<1>6. total \in Nat /\ ledger[d].owed = total /\ ledger[d].paid = 0
  BY <1>2 DEF Sound, SubledgerAgrees, Voidable, DocumentRow
<1> HIDE DEF b, d, total
<1>7. TypeOK'
  <2>1. document'[d] \in DocumentRow /\ document'[d].balance <= document'[d].total
    <3>1. [document[d] EXCEPT !.balance = 0, !.status = "voided"] \in DocumentRow
      BY <1>2, SettledRow
    <3>2. document'[d].balance = 0 /\ document'[d].total \in Nat
      BY <1>2, <1>5 DEF DocumentRow
    <3> QED
      BY <1>5, <3>1, <3>2
  <2>2. document' \in [Doc -> DocumentRow]
    BY <1>3, <1>4, <2>1 DEF Sound, TypeOK
  <2>3. \A x \in Doc : document'[x].balance <= document'[x].total
    BY <1>4, <2>1 DEF Sound, TypeOK
  <2>4. ledger' \in [Doc -> [owed: Int, paid: Nat]]
    BY <1>2, <1>3, <1>6 DEF Sound, TypeOK
  <2>5. byDay' \in [Day -> [posted: Int, taxed: Int]]
    BY <1>3, <1>6 DEF Sound, TypeOK
  <2> QED
    BY <1>1, <1>3, <2>2, <2>3, <2>4, <2>5, CommitsEnd DEF Sound, TypeOK
<1>8. RowsLocked'
  BY <1>1, <1>2, <1>4, CommitsLocks
<1>9. SubledgerAgrees'
  <2>1. document'[d].status = "voided" /\ document'[d].balance = 0
    BY <1>2, <1>5 DEF DocumentRow
  <2>2. ledger'[d].owed = 0 /\ ledger'[d].paid = 0
    BY <1>5, <1>6
  <2> QED
    BY <1>4, <2>1, <2>2 DEF Sound, SubledgerAgrees
<1> QED
  BY <1>1, <1>7, <1>8, <1>9, CommitsEnd DEF Sound

LEMMA CreateEntrySound ==
    ASSUME Sound, NEW r \in Request, CreateEntry(r)
    PROVE  Sound'
<1>1. /\ tx[r].pc = "reserved"
      /\ Commits(r)
      /\ UNCHANGED <<document, sequence, ledger, byDay>>
  BY DEF CreateEntry
<1>2. TypeOK'
  BY <1>1, CommitsEnd DEF Sound, TypeOK
<1>3. RowsLocked'
  <2>1. \A x \in Doc : DocumentHolders(x)' = DocumentHolders(x) \ {r}
    BY <1>1, CommitsEnd
  <2>2. \A s \in Request \ {r} : tx'[s] = tx[s]
    BY <1>1, CommitsEnd
  <2> QED
    BY <1>1, <2>1, <2>2 DEF Sound, RowsLocked, DocumentHolders, Allowed
<1>4. SubledgerAgrees'
  BY <1>1 DEF Sound, SubledgerAgrees
<1> QED
  BY <1>1, <1>2, <1>3, <1>4, CommitsEnd DEF Sound

LEMMA WritesSound ==
    ASSUME Sound, NEW r \in Request, Writes(r)
    PROVE  Sound'
BY CreateDocumentSound, CreatePaymentSound, VoidDocumentSound, CreateEntrySound DEF Writes

LEMMA StepSound == Sound /\ [Next]_vars => Sound'
<1> SUFFICES ASSUME Sound, [Next]_vars PROVE Sound'
  OBVIOUS
<1>1. CASE UNCHANGED vars
  BY <1>1 DEF vars, Sound, TypeOK, Asked, RowsLocked, DocumentHolders, Allowed, SubledgerAgrees
<1>2. CASE \E k \in Key : KeyExpires(k)
  BY <1>2, KeyExpiresSound
<1>3. ASSUME NEW r \in Request, \E k \in Key, b \in Body : Begin(r, k, b) PROVE Sound'
  BY <1>3, BeginSound
<1>4. ASSUME NEW r \in Request, Reserve(r) PROVE Sound'
  BY <1>4, ReserveSound
<1>5. ASSUME NEW r \in Request, TakeNumber(r) PROVE Sound'
  BY <1>5, TakeNumberSound
<1>6. ASSUME NEW r \in Request, LockDocument(r) PROVE Sound'
  BY <1>6, LockDocumentSound
<1>7. ASSUME NEW r \in Request, Ends(r) PROVE Sound'
  BY <1>7, EndsSound
<1>8. ASSUME NEW r \in Request, Writes(r) PROVE Sound'
  BY <1>8, WritesSound
<1>9. ASSUME NEW r \in Request, \E a \in Account : LockAccount(r, a) PROVE Sound'
  BY <1>9, LockAccountSound
<1> QED
  BY <1>1, <1>2, <1>3, <1>4, <1>5, <1>6, <1>7, <1>8, <1>9, StepCases

LEMMA AlwaysSound == Spec => []Sound
BY InitSound, StepSound, PTL DEF Spec

\* Every reachable state is well typed, and no document owes less than nothing or
\* more than its total: for any requests, in any interleaving of their statements.
THEOREM CloudTypeCorrect == Spec => []TypeOK
<1>1. Sound => TypeOK
  BY DEF Sound
<1> QED
  BY <1>1, AlwaysSound, PTL

\* However many payments and voids race, fail and are retried, the balance and the
\* status of a document are what the entries on the control account say.
THEOREM SubledgerHolds == Spec => []SubledgerAgrees
<1>1. Sound => SubledgerAgrees
  BY DEF Sound
<1> QED
  BY <1>1, AlwaysSound, PTL

-----------------------------------------------------------------------------
(* Idempotency keys: a success is real, and nothing is written twice under a  *)
(* key that lives                                                             *)

\* The row of a key names the request that wrote it, with what it asked.
Remembered ==
    \A k \in Key : keyRow[k].by # NoRequest =>
        LET r == keyRow[k].by
        IN r \in written /\ tx[r].key = k /\ tx[r].body = keyRow[k].body

\* One request at a time is past its key, and it found the key free, or expired.
OneHolder ==
    \A r \in Request : tx[r].pc \in {"reserved", "held"} =>
        /\ \A s \in KeyHolders(tx[r].key) : s = r
        /\ keyRow[tx[r].key].by \in {NoRequest, tx[r].stale}

\* The key row a request found expired was written, and stays expired.
StaleStays ==
    \A r \in Request : tx[r].stale # NoRequest =>
        /\ tx[r].stale \in written
        /\ tx[r].pc # "idle"
        /\ keyRow[tx[r].key].by = tx[r].stale => keyRow[tx[r].key].expired

\* A request has an answer, or writes, only when it is done.
OnlyDone ==
    \A r \in Request : tx[r].pc # "done" => tx[r].answer = "none" /\ r \notin written

Keyed == Remembered /\ OneHolder /\ StaleStays /\ OnlyDone /\ OkMeansDone

LEMMA InitKeyed == Init => Keyed
<1> SUFFICES ASSUME Init PROVE Keyed
  OBVIOUS
<1> QED
  BY DEF Init, Keyed, Remembered, OneHolder, StaleStays, OnlyDone, OkMeansDone

\* A step of one request that writes nothing.
LEMMA MoveKeyed ==
    ASSUME Sound, Keyed, NEW r \in Request, NEW row \in TxRow, tx[r].pc # "done",
           tx' = [tx EXCEPT ![r] = row],
           UNCHANGED <<keyRow, written>>,
           row.pc # "idle",
           row.pc # "done" => row.answer = "none",
           row.pc \in {"reserved", "held"} =>
               /\ \A s \in KeyHolders(row.key) : s = r
               /\ keyRow[row.key].by \in {NoRequest, row.stale},
           row.stale # NoRequest =>
               /\ row.stale \in written
               /\ keyRow[row.key].by = row.stale => keyRow[row.key].expired,
           row.answer = "ok" =>
               /\ row.effect \in written
               /\ tx[row.effect].key = row.key
               /\ tx[row.effect].body = row.body
    PROVE  Keyed'
<1>1. tx'[r] = row /\ \A s \in Request \ {r} : tx'[s] = tx[s]
  BY DEF Sound, TypeOK
<1>2. r \notin written /\ written \subseteq Request
  BY DEF Sound, TypeOK, Keyed, OnlyDone
<1>3. Remembered'
  BY <1>1, <1>2 DEF Keyed, Remembered
<1>4. OneHolder'
  <2>1. ASSUME NEW s \in Request \ {r}, tx[s].pc \in {"reserved", "held"},
               row.pc \in {"reserved", "held"}
        PROVE  row.key # tx[s].key
    BY <2>1 DEF KeyHolders
  <2>2. ASSUME NEW s \in Request, tx'[s].pc \in {"reserved", "held"}
        PROVE  /\ \A t \in KeyHolders(tx[s].key)' : t = s
               /\ keyRow[tx'[s].key].by \in {NoRequest, tx'[s].stale}
    BY <1>1, <2>1, <2>2 DEF Keyed, OneHolder, KeyHolders
  <2> QED
    BY <2>2 DEF OneHolder
<1>5. StaleStays'
  BY <1>1 DEF Keyed, StaleStays
<1>6. OnlyDone'
  BY <1>1, <1>2 DEF Keyed, OnlyDone
<1>7. OkMeansDone'
  BY <1>1, <1>2 DEF Keyed, OkMeansDone
<1> QED
  BY <1>3, <1>4, <1>5, <1>6, <1>7 DEF Keyed

LEMMA AnswersKeyed ==
    ASSUME Sound, Keyed, NEW r \in Request, tx[r].pc \notin {"idle", "done"},
           NEW answer \in Answer, NEW effect \in Request \cup {NoRequest},
           Answers(r, answer, effect),
           answer = "ok" =>
               /\ effect \in written
               /\ tx[effect].key = tx[r].key
               /\ tx[effect].body = tx[r].body
    PROVE  Keyed'
<1> DEFINE row == [tx[r] EXCEPT !.pc = "done", !.accounts = {}, !.answer = answer, !.effect = effect]
<1>1. tx[r] \in TxRow
  BY DEF Sound, TypeOK
<1>2. /\ row \in TxRow /\ row.pc = "done" /\ row.answer = answer /\ row.effect = effect
      /\ row.key = tx[r].key /\ row.body = tx[r].body /\ row.stale = tx[r].stale
  BY <1>1 DEF TxRow, Progress
<1>3. tx' = [tx EXCEPT ![r] = row] /\ UNCHANGED <<keyRow, written>>
  BY DEF Answers
<1>4. row.stale # NoRequest =>
          /\ row.stale \in written
          /\ keyRow[row.key].by = row.stale => keyRow[row.key].expired
  BY <1>2 DEF Keyed, StaleStays
<1> HIDE DEF row
<1> QED
  BY <1>2, <1>3, <1>4, MoveKeyed

LEMMA EndsKeyed ==
    ASSUME Sound, Keyed, NEW r \in Request, Ends(r)
    PROVE  Keyed'
<1>1. CASE Replay(r)
  <2>1. /\ tx[r].key \in Key
        /\ keyRow[tx[r].key].by # NoRequest
        /\ keyRow[tx[r].key].body = tx[r].body
        /\ tx[r].pc = "taken"
    BY <1>1 DEF Replay, SameRequest, Sound, Asked
  <2>2. keyRow[tx[r].key].by \in Request \cup {NoRequest}
    BY <2>1 DEF Sound, TypeOK, KeyRow
  <2>3. /\ keyRow[tx[r].key].by \in written
        /\ tx[keyRow[tx[r].key].by].key = tx[r].key
        /\ tx[keyRow[tx[r].key].by].body = tx[r].body
    BY <2>1 DEF Keyed, Remembered
  <2> QED
    BY <1>1, <2>1, <2>2, <2>3, AnswersKeyed DEF Replay, Answer
<1>2. CASE RejectReuse(r) \/ RefuseDocument(r) \/ RefuseSupplier(r) \/ Fail(r)
  BY <1>2, AnswersKeyed DEF RejectReuse, RefuseDocument, RefuseSupplier, Fail, Answer
<1> QED
  BY <1>1, <1>2 DEF Ends

LEMMA BeginKeyed ==
    ASSUME Sound, Keyed, NEW r \in Request, NEW k \in Key, NEW b \in Body, Begin(r, k, b)
    PROVE  Keyed'
<1> DEFINE stale == IF keyRow[k].expired THEN keyRow[k].by ELSE NoRequest
           row == [tx[r] EXCEPT !.pc = "begun", !.key = k, !.body = b, !.stale = stale]
<1>1. tx[r] \in TxRow /\ stale \in Request \cup {NoRequest} /\ tx[r].pc = "idle"
  BY DEF Sound, TypeOK, KeyRow, Begin
<1>2. stale # NoRequest => stale \in written /\ keyRow[k].expired
  BY DEF Keyed, Remembered
<1>3. tx' = [tx EXCEPT ![r] = row] /\ UNCHANGED <<keyRow, written>>
  BY DEF Begin
<1> HIDE DEF stale
<1>4. /\ row \in TxRow /\ row.pc = "begun" /\ row.key = k /\ row.stale = stale
      /\ row.answer = tx[r].answer
  BY <1>1 DEF TxRow, Progress
<1>5. row.answer = "none"
  BY <1>1, <1>4 DEF Keyed, OnlyDone
<1> HIDE DEF row
<1> QED
  BY <1>1, <1>2, <1>3, <1>4, <1>5, MoveKeyed

\* A request that goes on with the key it has.
LEMMA AdvanceKeyed ==
    ASSUME Sound, Keyed, NEW r \in Request, NEW row \in TxRow,
           tx[r].pc \notin {"idle", "done"}, row.pc \notin {"idle", "done"},
           row.key = tx[r].key, row.stale = tx[r].stale, row.answer = tx[r].answer,
           tx' = [tx EXCEPT ![r] = row],
           UNCHANGED <<keyRow, written>>,
           row.pc \in {"reserved", "held"} =>
               \/ tx[r].pc \in {"reserved", "held"}
               \/ KeyHolders(row.key) = {} /\ keyRow[row.key].by \in {NoRequest, row.stale}
    PROVE  Keyed'
<1>1. row.answer = "none"
  BY DEF Keyed, OnlyDone
<1>2. row.stale # NoRequest =>
          /\ row.stale \in written
          /\ keyRow[row.key].by = row.stale => keyRow[row.key].expired
  BY DEF Keyed, StaleStays
<1>3. row.pc \in {"reserved", "held"} =>
          /\ \A s \in KeyHolders(row.key) : s = r
          /\ keyRow[row.key].by \in {NoRequest, row.stale}
  BY DEF Keyed, OneHolder
<1> QED
  BY <1>1, <1>2, <1>3, MoveKeyed

LEMMA ReserveKeyed ==
    ASSUME Sound, Keyed, NEW r \in Request, Reserve(r)
    PROVE  Keyed'
<1> DEFINE pc == IF Free(r) THEN "reserved" ELSE "taken"
           row == [tx[r] EXCEPT !.pc = pc]
<1>1. tx[r] \in TxRow /\ tx[r].pc = "begun" /\ KeyHolders(tx[r].key) = {}
  BY DEF Reserve, Sound, TypeOK
<1>2. pc \in {"reserved", "taken"} /\ (pc = "reserved" => Free(r))
  OBVIOUS
<1>3. tx' = [tx EXCEPT ![r] = row] /\ UNCHANGED <<keyRow, written>>
  BY DEF Reserve
<1> HIDE DEF pc
<1>4. /\ row \in TxRow /\ row.pc = pc /\ row.key = tx[r].key
      /\ row.stale = tx[r].stale /\ row.answer = tx[r].answer
  BY <1>1, <1>2 DEF TxRow, Progress
<1> HIDE DEF row
<1> QED
  BY <1>1, <1>2, <1>3, <1>4, AdvanceKeyed DEF Free

LEMMA TakeNumberKeyed ==
    ASSUME Sound, Keyed, NEW r \in Request, TakeNumber(r)
    PROVE  Keyed'
<1> DEFINE number == sequence[tx[r].body.kind]
           row == [tx[r] EXCEPT !.pc = "held", !.number = number]
<1>1. tx[r] \in TxRow /\ tx[r].body \in Body /\ tx[r].pc = "reserved"
  BY DEF TakeNumber, Sound, TypeOK, Asked
<1>2. number \in Nat
  BY <1>1, BodyFacts DEF TakeNumber, Sound, TypeOK
<1>3. tx' = [tx EXCEPT ![r] = row] /\ UNCHANGED <<keyRow, written>>
  BY DEF TakeNumber
<1> HIDE DEF number
<1>4. /\ row \in TxRow /\ row.pc = "held" /\ row.key = tx[r].key
      /\ row.stale = tx[r].stale /\ row.answer = tx[r].answer
  BY <1>1, <1>2 DEF TxRow, Progress
<1> HIDE DEF row
<1> QED
  BY <1>1, <1>3, <1>4, AdvanceKeyed

LEMMA LockDocumentKeyed ==
    ASSUME Sound, Keyed, NEW r \in Request, LockDocument(r)
    PROVE  Keyed'
<1> DEFINE row == [tx[r] EXCEPT !.pc = "held"]
<1>1. tx[r] \in TxRow /\ tx[r].pc = "reserved"
  BY DEF LockDocument, Sound, TypeOK
<1>2. tx' = [tx EXCEPT ![r] = row] /\ UNCHANGED <<keyRow, written>>
  BY DEF LockDocument
<1>3. /\ row \in TxRow /\ row.pc = "held" /\ row.key = tx[r].key
      /\ row.stale = tx[r].stale /\ row.answer = tx[r].answer
  BY <1>1 DEF TxRow, Progress
<1> HIDE DEF row
<1> QED
  BY <1>1, <1>2, <1>3, AdvanceKeyed

LEMMA LockAccountKeyed ==
    ASSUME Sound, Keyed, NEW r \in Request, NEW a \in Account, LockAccount(r, a)
    PROVE  Keyed'
<1> DEFINE accounts == tx[r].accounts \cup {a}
           row == [tx[r] EXCEPT !.accounts = accounts]
<1>1. tx[r] \in TxRow /\ tx[r].pc \in {"reserved", "held"} /\ accounts \in SUBSET Account
  BY DEF LockAccount, Posting, Sound, TypeOK, TxRow
<1>2. tx' = [tx EXCEPT ![r] = row] /\ UNCHANGED <<keyRow, written>>
  BY DEF LockAccount
<1> HIDE DEF accounts
<1>3. /\ row \in TxRow /\ row.pc = tx[r].pc /\ row.key = tx[r].key
      /\ row.stale = tx[r].stale /\ row.answer = tx[r].answer
  BY <1>1 DEF TxRow
<1> HIDE DEF row
<1> QED
  BY <1>1, <1>2, <1>3, AdvanceKeyed

LEMMA KeyExpiresKeyed ==
    ASSUME Sound, Keyed, NEW k \in Key, KeyExpires(k)
    PROVE  Keyed'
<1>1. \A x \in Key : /\ keyRow'[x].by = keyRow[x].by
                     /\ keyRow'[x].body = keyRow[x].body
                     /\ keyRow[x].expired => keyRow'[x].expired
  BY DEF KeyExpires, Sound, TypeOK, KeyRow
<1>2. UNCHANGED <<tx, written>>
  BY DEF KeyExpires
<1>3. \A r \in Request : tx[r].pc # "idle" => tx[r].key \in Key
  BY DEF Sound, Asked
<1>4. Remembered'
  BY <1>1, <1>2 DEF Keyed, Remembered
<1>5. OneHolder'
  BY <1>1, <1>2, <1>3 DEF Keyed, OneHolder, KeyHolders
<1>6. StaleStays'
  BY <1>1, <1>2, <1>3 DEF Keyed, StaleStays
<1>7. OnlyDone' /\ OkMeansDone'
  BY <1>2 DEF Keyed, OnlyDone, OkMeansDone
<1> QED
  BY <1>4, <1>5, <1>6, <1>7 DEF Keyed

\* Every commit is made by a request that is past its key.
LEMMA WritesCommit ==
    ASSUME NEW r \in Request, Writes(r)
    PROVE  Commits(r) /\ tx[r].pc \in {"reserved", "held"}
BY DEF Writes, CreateDocument, CreatePayment, VoidDocument, CreateEntry

LEMMA CommitsKeyed ==
    ASSUME Sound, Keyed, NEW r \in Request, Commits(r), tx[r].pc \in {"reserved", "held"}
    PROVE  Keyed'
<1>1. PICK answer \in {"ok", "failed"} :
          tx' = [tx EXCEPT ![r].pc = "done", ![r].accounts = {}, ![r].answer = answer,
                           ![r].effect = IF answer = "ok" THEN r ELSE NoRequest]
  BY DEF Commits
<1>2. /\ tx[r] \in TxRow /\ tx[r].key \in Key /\ tx[r].body \in Body
      /\ r # NoRequest /\ r \notin written /\ written \subseteq Request
  BY CloudLedgerAssumption DEF Sound, TypeOK, Asked, Keyed, OnlyDone
<1>3. /\ tx'[r].pc = "done" /\ tx'[r].key = tx[r].key /\ tx'[r].body = tx[r].body
      /\ tx'[r].stale = tx[r].stale
      /\ tx'[r].answer = "ok" => tx'[r].effect = r
  BY <1>1, <1>2 DEF Sound, TypeOK, TxRow
<1>4. \A s \in Request \ {r} : tx'[s] = tx[s]
  BY <1>1 DEF Sound, TypeOK
<1>5. /\ written' = written \cup {r}
      /\ keyRow'[tx[r].key] = [by |-> r, body |-> tx[r].body, expired |-> FALSE]
      /\ \A k \in Key \ {tx[r].key} : keyRow'[k] = keyRow[k]
  BY <1>2 DEF Commits, Sound, TypeOK
<1>6. ASSUME NEW s \in Request \ {r}, tx[s].pc \in {"reserved", "held"}
      PROVE  tx[s].key # tx[r].key
  BY <1>6 DEF Keyed, OneHolder, KeyHolders
<1>7. Remembered'
  BY <1>2, <1>3, <1>4, <1>5 DEF Keyed, Remembered
<1>8. OneHolder'
  <2>1. ASSUME NEW s \in Request, tx'[s].pc \in {"reserved", "held"}
        PROVE  /\ \A t \in KeyHolders(tx[s].key)' : t = s
               /\ keyRow'[tx'[s].key].by \in {NoRequest, tx'[s].stale}
    <3>1. s # r /\ tx'[s] = tx[s] /\ tx[s].key \in Key
      BY <1>3, <1>4, <2>1 DEF Sound, Asked
    <3>2. tx[s].key # tx[r].key
      BY <1>6, <2>1, <3>1
    <3>3. keyRow'[tx[s].key] = keyRow[tx[s].key]
      BY <1>5, <3>1, <3>2
    <3>4. KeyHolders(tx[s].key)' \subseteq KeyHolders(tx[s].key)
      BY <1>3, <1>4, <3>1 DEF KeyHolders
    <3> QED
      BY <2>1, <3>1, <3>3, <3>4 DEF Keyed, OneHolder
  <2> QED
    BY <2>1 DEF OneHolder
<1>9. StaleStays'
  <2>1. ASSUME NEW s \in Request, tx'[s].stale # NoRequest
        PROVE  /\ tx'[s].stale \in written'
               /\ tx'[s].pc # "idle"
               /\ keyRow'[tx'[s].key].by = tx'[s].stale => keyRow'[tx'[s].key].expired
    <3>1. tx'[s].stale = tx[s].stale /\ tx'[s].key = tx[s].key /\ tx'[s].pc # "idle"
      BY <1>3, <1>4, <2>1 DEF Keyed, StaleStays
    <3>2. tx[s].stale \in written /\ tx[s].pc # "idle" /\ tx[s].stale # r
      BY <1>2, <2>1, <3>1 DEF Keyed, StaleStays
    <3>3. tx[s].key \in Key
      BY <3>2 DEF Sound, Asked
    <3> QED
      BY <1>2, <1>5, <2>1, <3>1, <3>2, <3>3 DEF Keyed, StaleStays
  <2> QED
    BY <2>1 DEF StaleStays
<1>10. OnlyDone'
  BY <1>3, <1>4, <1>5 DEF Keyed, OnlyDone
<1>11. OkMeansDone'
  BY <1>2, <1>3, <1>4, <1>5 DEF Keyed, OkMeansDone
<1> QED
  BY <1>7, <1>8, <1>9, <1>10, <1>11 DEF Keyed

LEMMA StepKeyed == Sound /\ Keyed /\ [Next]_vars => Keyed'
<1> SUFFICES ASSUME Sound, Keyed, [Next]_vars PROVE Keyed'
  OBVIOUS
<1>1. CASE UNCHANGED vars
  BY <1>1 DEF vars, Keyed, Remembered, OneHolder, KeyHolders, StaleStays, OnlyDone, OkMeansDone
<1>2. CASE \E k \in Key : KeyExpires(k)
  BY <1>2, KeyExpiresKeyed
<1>3. ASSUME NEW r \in Request, \E k \in Key, b \in Body : Begin(r, k, b) PROVE Keyed'
  BY <1>3, BeginKeyed
<1>4. ASSUME NEW r \in Request, Reserve(r) PROVE Keyed'
  BY <1>4, ReserveKeyed
<1>5. ASSUME NEW r \in Request, TakeNumber(r) PROVE Keyed'
  BY <1>5, TakeNumberKeyed
<1>6. ASSUME NEW r \in Request, LockDocument(r) PROVE Keyed'
  BY <1>6, LockDocumentKeyed
<1>7. ASSUME NEW r \in Request, Ends(r) PROVE Keyed'
  BY <1>7, EndsKeyed
<1>8. ASSUME NEW r \in Request, Writes(r) PROVE Keyed'
  BY <1>8, WritesCommit, CommitsKeyed
<1>9. ASSUME NEW r \in Request, \E a \in Account : LockAccount(r, a) PROVE Keyed'
  BY <1>9, LockAccountKeyed
<1> QED
  BY <1>1, <1>2, <1>3, <1>4, <1>5, <1>6, <1>7, <1>8, <1>9, StepCases

LEMMA AlwaysKeyed == Spec => [](Sound /\ Keyed)
BY InitSound, StepSound, InitKeyed, StepKeyed, PTL DEF Spec

\* Whoever is told of a success has it: what was asked is in the ledger, written
\* under that very key, by this request or by an earlier one that asked the same.
THEOREM SuccessIsReal == Spec => []OkMeansDone
<1>1. Keyed => OkMeansDone
  BY DEF Keyed
<1> QED
  BY <1>1, AlwaysKeyed, PTL

\* What a step writes is written by one request, past its key.
LEMMA StepOnce ==
    ASSUME Sound, Keyed, [Next]_vars, NEW r \in written' \ written
    PROVE  keyRow[tx[r].key].by = NoRequest \/ keyRow[tx[r].key].expired
<1>1. PICK s \in Request : Writes(s)
  <2>1. ASSUME NEW s \in Request, Ends(s) PROVE written' = written
    BY <2>1 DEF Ends, Answers, Replay, RejectReuse, RefuseDocument, RefuseSupplier, Fail
  <2>2. ASSUME NEW s \in Request,
               \/ \E k \in Key, b \in Body : Begin(s, k, b)
               \/ Reserve(s) \/ TakeNumber(s) \/ LockDocument(s)
               \/ \E a \in Account : LockAccount(s, a)
        PROVE  written' = written
    BY <2>2 DEF Begin, Reserve, TakeNumber, LockDocument, LockAccount
  <2>3. ASSUME (\E k \in Key : KeyExpires(k)) \/ UNCHANGED vars PROVE written' = written
    BY <2>3 DEF KeyExpires, vars
  <2> QED
    BY <2>1, <2>2, <2>3, StepCases
<1>2. Commits(s) /\ tx[s].pc \in {"reserved", "held"}
  BY <1>1, WritesCommit
<1>3. r = s
  BY <1>2 DEF Commits
<1> QED
  BY <1>2, <1>3 DEF Keyed, OneHolder, StaleStays

\* However often a caller repeats a request, and however its repeats race, one is
\* written while the row of its key lives.
THEOREM WrittenOncePerKey == Spec => OncePerKey
<1>1. Sound /\ Keyed /\ [Next]_vars =>
        [\A r \in written' \ written :
            keyRow[tx[r].key].by = NoRequest \/ keyRow[tx[r].key].expired]_vars
  BY StepOnce
<1> QED
  BY <1>1, AlwaysKeyed, PTL DEF Spec, OncePerKey

-----------------------------------------------------------------------------
(* Who waits for whom                                                         *)

\* A request locks accounts when it holds everything else it needs.
LinesLast == \A r \in Request : tx[r].accounts # {} => Posting(r)

LEMMA InitLinesLast == Init => LinesLast
BY DEF Init, LinesLast

LEMMA StepLinesLast == Sound /\ LinesLast /\ [Next]_vars => LinesLast'
<1> SUFFICES ASSUME Sound, LinesLast, [Next]_vars PROVE LinesLast'
  OBVIOUS
<1> USE DEF LinesLast, Posting
<1>1. CASE UNCHANGED vars \/ \E k \in Key : KeyExpires(k)
  BY <1>1 DEF vars, KeyExpires
<1>2. ASSUME NEW r \in Request,
             tx' = [tx EXCEPT ![r] = tx'[r]], tx'[r].accounts # {} => Posting(r)'
      PROVE  LinesLast'
  BY <1>2 DEF Sound, TypeOK
<1>3. ASSUME NEW r \in Request, tx[r].accounts = {}, tx' = [tx EXCEPT ![r] = tx'[r]],
             tx'[r].accounts = tx[r].accounts
      PROVE  LinesLast'
  BY <1>2, <1>3
<1>4. ASSUME NEW r \in Request, \E k \in Key, b \in Body : Begin(r, k, b) PROVE LinesLast'
  BY <1>3, <1>4 DEF Begin, Sound, TypeOK, TxRow
<1>5. ASSUME NEW r \in Request, Reserve(r) PROVE LinesLast'
  BY <1>3, <1>5 DEF Reserve, Sound, TypeOK, TxRow
<1>6. ASSUME NEW r \in Request, TakeNumber(r) PROVE LinesLast'
  BY <1>3, <1>6 DEF TakeNumber, Entry, Sound, TypeOK, TxRow
<1>7. ASSUME NEW r \in Request, LockDocument(r) PROVE LinesLast'
  BY <1>3, <1>7 DEF LockDocument, Entry, Sound, TypeOK, TxRow
<1>8. ASSUME NEW r \in Request, \E a \in Account : LockAccount(r, a) PROVE LinesLast'
  BY <1>2, <1>8 DEF LockAccount, Sound, TypeOK, TxRow
<1>9. ASSUME NEW r \in Request, Ends(r) PROVE LinesLast'
  BY <1>2, <1>9 DEF Ends, Answers, Replay, RejectReuse, RefuseDocument, RefuseSupplier, Fail,
                    Sound, TypeOK, TxRow
<1>10. ASSUME NEW r \in Request, Writes(r) PROVE LinesLast'
  <2>1. PICK answer \in {"ok", "failed"} :
            tx' = [tx EXCEPT ![r].pc = "done", ![r].accounts = {}, ![r].answer = answer,
                             ![r].effect = IF answer = "ok" THEN r ELSE NoRequest]
    BY <1>10, WritesCommit DEF Commits
  <2>2. tx \in [Request -> TxRow]
    BY DEF Sound, TypeOK
  <2>3. tx'[r].accounts = {}
    BY <2>1, <2>2 DEF TxRow
  <2>4. tx' = [tx EXCEPT ![r] = tx'[r]]
    BY <2>1, <2>2
  <2> QED
    BY <1>2, <2>3, <2>4
<1> QED
  BY <1>1, <1>4, <1>5, <1>6, <1>7, <1>8, <1>9, <1>10, StepCases

\* Everyone in a circle is waited for by one in it: without one whom nobody waits
\* for, the others would be stuck as well.
LEMMA CircleWaited ==
    ASSUME NEW C \in SUBSET Request, Circle(C), NEW r \in C
    PROVE  \E s \in C : r \in WaitsFor(s)
<1> SUFFICES ASSUME \A s \in C : r \notin WaitsFor(s) PROVE FALSE
  OBVIOUS
<1>1. PICK s \in C : s \in WaitsFor(r)
  BY DEF Circle, Stuck
<1>2. s \in C \ {r}
  BY <1>1
<1>3. \A t \in C \ {r} : WaitsFor(t) \cap (C \ {r}) # {}
  BY DEF Circle, Stuck
<1>4. Stuck(C \ {r})
  BY <1>2, <1>3 DEF Stuck
<1> QED
  BY <1>4 DEF Circle

LEMMA CirclesAtLines == LinesLast => CirclesNeedTransfer
<1> SUFFICES ASSUME LinesLast, NEW C \in SUBSET Request, Circle(C)
             PROVE  /\ \A r \in C : Posting(r)
                    /\ \E r \in C : tx[r].body.op = "transfer"
  BY DEF CirclesNeedTransfer
<1>1. ASSUME NEW r \in Request, NEW s \in WaitsFor(r)
      PROVE  /\ tx[s].pc \in {"reserved", "held"}
             /\ tx[r].pc # "begun" => Posting(s)
  BY DEF WaitsFor, KeyHolders, SequenceHolders, DocumentHolders, InTheWay, AccountHolders,
         LinesLast, Posting
<1>2. \A r \in C : Posting(r)
  <2>1. \A r \in C : tx[r].pc \in {"reserved", "held"}
    BY <1>1, CircleWaited
  <2> QED
    BY <1>1, <2>1, CircleWaited
<1>3. \E r \in C : tx[r].body.op = "transfer"
  <2>1. PICK r \in C, s \in C : s \in WaitsFor(r)
    BY DEF Circle, Stuck
  <2>2. PICK a \in tx[r].body.accounts : s \in InTheWay(r, a)
    BY <1>2, <2>1 DEF WaitsFor, Posting, Entry
  <2> QED
    BY <2>2 DEF InTheWay
<1> QED
  BY <1>2, <1>3

\* Requests wait for each other in a circle only where a bank transfer is among them,
\* all of them at their journal lines: keys, numbers, documents and the lines of
\* everything else never make one, for any number of requests.
THEOREM CirclesOfTransfers == Spec => []CirclesNeedTransfer
BY InitSound, StepSound, InitLinesLast, StepLinesLast, CirclesAtLines, PTL DEF Spec

-----------------------------------------------------------------------------
(* The ledger implements Receivables                                          *)

\* A row has a kind exactly when there is a document.
KindsKnown ==
    \A d \in Doc : IF document[d].status = "absent" THEN document[d].kind = "none"
                                                    ELSE document[d].kind \in Kind

OfKind(k) == {d \in Doc : document[d].kind = k}
Taken == [k \in Kind |-> {document[d].number : d \in OfKind(k)}]

\* The numbers taken are 1, 2, ... up to the one before the next.
SequenceFollows ==
    \A k \in Kind : sequence[k] > 0 /\ Taken[k] = 1..(sequence[k] - 1)

\* A number is taken by one request, and it is still the next one.
NumbersLocked ==
    \A r \in Request : tx[r].pc = "held" /\ tx[r].body.op = "issue" =>
        /\ tx[r].number = sequence[tx[r].body.kind]
        /\ \A s \in SequenceHolders(tx[r].body.kind) : s = r

Numbered == KindsKnown /\ SequenceFollows /\ NumbersLocked

-----------------------------------------------------------------------------
(* Numbers *)

LEMMA InitNumbered == Init => Numbered
<1> SUFFICES ASSUME Init PROVE Numbered
  OBVIOUS
<1>1. KindsKnown
  BY DEF Init, KindsKnown
<1>2. SequenceFollows
  BY CloudLedgerAssumption DEF Init, SequenceFollows, Taken, OfKind
<1>3. NumbersLocked
  BY DEF Init, NumbersLocked
<1> QED
  BY <1>1, <1>2, <1>3 DEF Numbered

\* Steps after which nobody holds a number who did not hold it before.
LEMMA QuietNumbered ==
    ASSUME Numbered, UNCHANGED <<document, sequence>>,
           \A r \in Request : tx'[r].pc = "held" /\ tx'[r].body.op = "issue" =>
               tx[r].pc = "held" /\ tx'[r].body = tx[r].body /\ tx'[r].number = tx[r].number
    PROVE  Numbered'
<1>1. KindsKnown' /\ SequenceFollows'
  BY DEF Numbered, KindsKnown, SequenceFollows, Taken, OfKind
<1>2. NumbersLocked'
  BY DEF Numbered, NumbersLocked, SequenceHolders
<1> QED
  BY <1>1, <1>2 DEF Numbered

LEMMA TakeNumberNumbered ==
    ASSUME Sound, Numbered, NEW r \in Request, TakeNumber(r)
    PROVE  Numbered'
<1> DEFINE number == sequence[tx[r].body.kind]
<1>1. tx' = [tx EXCEPT ![r].pc = "held", ![r].number = number] /\ UNCHANGED <<document, sequence>>
  BY DEF TakeNumber
<1>2. /\ tx[r] \in TxRow
      /\ tx[r].body.op = "issue"
      /\ SequenceHolders(tx[r].body.kind) = {}
  BY DEF TakeNumber, Sound, TypeOK
<1>3. /\ tx'[r].pc = "held" /\ tx'[r].number = number /\ tx'[r].body = tx[r].body
      /\ \A s \in Request \ {r} : tx'[s] = tx[s]
  BY <1>1, <1>2 DEF Sound, TypeOK, TxRow
<1>4. KindsKnown' /\ SequenceFollows'
  BY <1>1 DEF Numbered, KindsKnown, SequenceFollows, Taken, OfKind
<1>5. NumbersLocked'
  <2>1. ASSUME NEW s \in Request, tx'[s].pc = "held", tx'[s].body.op = "issue"
        PROVE  /\ tx'[s].number = sequence'[tx'[s].body.kind]
               /\ \A t \in SequenceHolders(tx[s].body.kind)' : t = s
    <3>1. CASE s = r
      <4>1. ASSUME NEW t \in SequenceHolders(tx[r].body.kind)', t # r PROVE FALSE
        <5>1. t \in Request \ {r} /\ tx'[t] = tx[t]
          BY <1>3, <4>1 DEF SequenceHolders
        <5>2. t \in SequenceHolders(tx[r].body.kind)
          BY <1>2, <1>3, <4>1, <5>1 DEF SequenceHolders
        <5> QED
          BY <1>2, <5>2
      <4>2. tx'[r].number = sequence'[tx'[r].body.kind]
        BY <1>1, <1>3
      <4> QED
        BY <3>1, <4>1, <4>2
    <3>2. CASE s # r
      <4>1. tx'[s] = tx[s] /\ tx[s].body.kind # tx[r].body.kind
        BY <1>2, <1>3, <2>1, <3>2 DEF SequenceHolders
      <4>2. SequenceHolders(tx[s].body.kind)' \subseteq SequenceHolders(tx[s].body.kind)
        BY <1>3, <4>1 DEF SequenceHolders
      <4>3. sequence' = sequence
        BY <1>1
      <4> QED
        BY <2>1, <4>1, <4>2, <4>3 DEF Numbered, NumbersLocked
    <3> QED
      BY <3>1, <3>2
  <2> QED
    BY <2>1 DEF NumbersLocked
<1> QED
  BY <1>4, <1>5 DEF Numbered

LEMMA CreateDocumentNumbered ==
    ASSUME Sound, Numbered, NEW r \in Request, NEW d \in Doc, CreateDocument(r, d)
    PROVE  Numbered'
<1> DEFINE b == tx[r].body
           n == tx[r].number
<1>1. /\ b \in Body /\ b.kind \in Kind /\ b.op = "issue" /\ tx[r].pc = "held" /\ Commits(r)
      /\ n = sequence[b.kind]
  BY BodyFacts DEF CreateDocument, Sound, Asked, Numbered, NumbersLocked
<1>2. /\ document' = [document EXCEPT ![d] = IssuedBy(r)]
      /\ sequence' = [sequence EXCEPT ![b.kind] = n + 1]
      /\ document[d].status = "absent"
      /\ IssuedBy(r).kind = b.kind /\ IssuedBy(r).status = "posted" /\ IssuedBy(r).number = n
  BY DEF CreateDocument, NextDoc, Present, IssuedBy
<1>3. document'[d] = IssuedBy(r) /\ \A x \in Doc \ {d} : document'[x] = document[x]
  BY <1>2 DEF Sound, TypeOK
<1>4. tx'[r].pc = "done" /\ \A s \in Request \ {r} : tx'[s] = tx[s]
  BY <1>1, CommitsEnd
<1>5. KindsKnown'
  BY <1>1, <1>2, <1>3 DEF Numbered, KindsKnown
<1>6. SequenceFollows'
  <2>1. n \in Nat
    BY <1>1 DEF Sound, TypeOK
  <2>2. ASSUME NEW k \in Kind, k # b.kind
        PROVE  sequence'[k] > 0 /\ Taken'[k] = 1..(sequence'[k] - 1)
    <3>1. Taken'[k] = Taken[k]
      BY <1>2, <1>3, <2>2, CloudLedgerAssumption DEF Taken, OfKind, Numbered, KindsKnown
    <3> QED
      BY <1>2, <2>2, <3>1 DEF Sound, TypeOK, Numbered, SequenceFollows
  <2>3. ASSUME NEW k \in Kind, k = b.kind
        PROVE  sequence'[k] > 0 /\ Taken'[k] = 1..(sequence'[k] - 1)
    <3> DEFINE old == OfKind(k)
    <3>1. document[d].kind # k
      BY <1>1, <1>2, <2>3, CloudLedgerAssumption DEF Numbered, KindsKnown
    <3>2. OfKind(k)' = old \cup {d}
      BY <1>2, <1>3, <2>3 DEF OfKind
    <3>3. document'[d].number = n /\ \A x \in old : document'[x].number = document[x].number
      BY <1>2, <1>3, <3>1 DEF OfKind
    <3>4. Taken'[k] = {document'[x].number : x \in old \cup {d}}
      BY <3>2 DEF Taken
    <3>5. Taken[k] = {document[x].number : x \in old}
      BY DEF Taken
    <3> HIDE DEF old
    <3>6. Taken'[k] = Taken[k] \cup {n}
      BY <3>3, <3>4, <3>5
    <3>7. n > 0 /\ Taken[k] = 1..(n - 1)
      BY <1>1, <2>3 DEF Numbered, SequenceFollows
    <3>8. sequence'[k] = n + 1
      BY <1>1, <1>2, <2>3 DEF Sound, TypeOK
    <3> QED
      BY <2>1, <3>6, <3>7, <3>8
  <2> QED
    BY <2>2, <2>3 DEF SequenceFollows
<1>7. NumbersLocked'
  <2>1. ASSUME NEW s \in Request, tx'[s].pc = "held", tx'[s].body.op = "issue"
        PROVE  /\ tx'[s].number = sequence'[tx'[s].body.kind]
               /\ \A t \in SequenceHolders(tx[s].body.kind)' : t = s
    <3>1. s # r /\ tx'[s] = tx[s]
      BY <1>4, <2>1
    <3>2. tx[s].body.kind # b.kind
      BY <1>1, <2>1, <3>1 DEF Numbered, NumbersLocked, SequenceHolders
    <3>3. sequence'[tx[s].body.kind] = sequence[tx[s].body.kind]
      <4>1. tx[s].body.kind \in Kind
        BY <2>1, <3>1, BodyFacts DEF Sound, Asked
      <4> QED
        BY <1>2, <3>2, <4>1 DEF Sound, TypeOK
    <3> QED
      BY <1>4, <2>1, <3>1, <3>3 DEF Numbered, NumbersLocked, SequenceHolders
  <2> QED
    BY <2>1 DEF NumbersLocked
<1> QED
  BY <1>5, <1>6, <1>7 DEF Numbered

\* A payment or a void keeps the kind of its document and lets go of no number.
LEMMA SettleNumbered ==
    ASSUME Sound, Numbered, NEW r \in Request,
           CreatePayment(r) \/ \E today \in Day : VoidDocument(r, today)
    PROVE  Numbered'
<1> DEFINE d == tx[r].body.doc
<1>1. tx[r].pc = "held" /\ tx[r].body.op \in {"pay", "void"} /\ Commits(r)
  BY DEF CreatePayment, VoidDocument
<1>2. d \in Doc /\ document[d] \in DocumentRow /\ document[d].status # "absent"
  BY <1>1, HeldRow DEF Allowed, Payable, Voidable
<1>3. PICK balance, status :
          /\ document' = [document EXCEPT ![d].balance = balance, ![d].status = status]
          /\ status \in {"paid", "partially_paid", "voided"}
          /\ sequence' = sequence
  BY DEF CreatePayment, VoidDocument, StatusAfter
<1>4. /\ document'[d] = [document[d] EXCEPT !.balance = balance, !.status = status]
      /\ \A x \in Doc \ {d} : document'[x] = document[x]
  BY <1>2, <1>3 DEF Sound, TypeOK
<1>5. /\ document'[d].kind = document[d].kind /\ document'[d].number = document[d].number
      /\ document'[d].status = status
  BY <1>2, <1>4 DEF DocumentRow
<1>6. \A x \in Doc : document'[x].kind = document[x].kind /\ document'[x].number = document[x].number
  BY <1>4, <1>5
<1>7. tx'[r].pc = "done" /\ \A s \in Request \ {r} : tx'[s] = tx[s]
  BY <1>1, CommitsEnd
<1>8. KindsKnown'
  <2>1. document'[d].status # "absent" /\ document'[d].kind \in Kind
    BY <1>2, <1>3, <1>5 DEF Numbered, KindsKnown
  <2> QED
    BY <1>4, <2>1 DEF Numbered, KindsKnown
<1>9. SequenceFollows'
  <2>1. ASSUME NEW k \in Kind
        PROVE  Taken'[k] = Taken[k]
    BY <1>6 DEF Taken, OfKind
  <2> QED
    BY <1>3, <2>1 DEF Numbered, SequenceFollows
<1>10. NumbersLocked'
  BY <1>3, <1>7 DEF Numbered, NumbersLocked, SequenceHolders
<1> QED
  BY <1>8, <1>9, <1>10 DEF Numbered

\* The steps of a request in which it neither takes nor uses a number, nor settles.
Waits(r) ==
    \/ \E k \in Key, b \in Body : Begin(r, k, b)
    \/ Reserve(r)
    \/ LockDocument(r)
    \/ \E a \in Account : LockAccount(r, a)
    \/ Ends(r)
    \/ CreateEntry(r)

LEMMA WaitsQuiet ==
    ASSUME Sound, NEW r \in Request, Waits(r)
    PROVE  /\ UNCHANGED <<document, sequence, ledger>>
           /\ \A s \in Request : tx'[s].pc = "held" /\ tx'[s].body.op = "issue" =>
                  tx[s].pc = "held" /\ tx'[s].body = tx[s].body /\ tx'[s].number = tx[s].number
<1>1. tx[r] \in TxRow
  BY DEF Sound, TypeOK
<1>2. CASE \E k \in Key, b \in Body : Begin(r, k, b)
  BY <1>1, <1>2 DEF Begin, Sound, TypeOK, TxRow
<1>3. CASE Reserve(r)
  BY <1>1, <1>3 DEF Reserve, Sound, TypeOK, TxRow
<1>4. CASE LockDocument(r)
  BY <1>1, <1>4 DEF LockDocument, Sound, TypeOK, TxRow
<1>5. CASE Ends(r)
  BY <1>1, <1>5 DEF Ends, Replay, RejectReuse, RefuseDocument, RefuseSupplier, Fail, Answers,
                    Sound, TypeOK, TxRow
<1>6. CASE CreateEntry(r)
  <2>1. tx'[r].pc = "done" /\ \A s \in Request \ {r} : tx'[s] = tx[s]
    BY <1>6, CommitsEnd DEF CreateEntry
  <2> QED
    BY <1>6, <2>1 DEF CreateEntry
<1>7. CASE \E a \in Account : LockAccount(r, a)
  BY <1>1, <1>7 DEF LockAccount, Sound, TypeOK, TxRow
<1> QED
  BY <1>2, <1>3, <1>4, <1>5, <1>6, <1>7 DEF Waits

LEMMA WaitsCases ==
    ASSUME [Next]_vars
    PROVE  \/ UNCHANGED <<tx, document, sequence, ledger>>
           \/ \E r \in Request :
                  \/ Waits(r)
                  \/ TakeNumber(r)
                  \/ \E d \in Doc : CreateDocument(r, d)
                  \/ CreatePayment(r)
                  \/ \E today \in Day : VoidDocument(r, today)
BY StepCases DEF vars, KeyExpires, Waits, Writes

LEMMA StepNumbered == Sound /\ Numbered /\ [Next]_vars => Numbered'
<1> SUFFICES ASSUME Sound, Numbered, [Next]_vars PROVE Numbered'
  OBVIOUS
<1>1. CASE UNCHANGED <<tx, document, sequence, ledger>>
  BY <1>1, QuietNumbered
<1>2. ASSUME NEW r \in Request, Waits(r) PROVE Numbered'
  BY <1>2, WaitsQuiet, QuietNumbered
<1>3. ASSUME NEW r \in Request, TakeNumber(r) PROVE Numbered'
  BY <1>3, TakeNumberNumbered
<1>4. ASSUME NEW r \in Request, \E d \in Doc : CreateDocument(r, d) PROVE Numbered'
  BY <1>4, CreateDocumentNumbered
<1>5. ASSUME NEW r \in Request, CreatePayment(r) \/ \E today \in Day : VoidDocument(r, today)
      PROVE  Numbered'
  BY <1>5, SettleNumbered
<1> QED
  BY <1>1, <1>2, <1>3, <1>4, <1>5, WaitsCases

-----------------------------------------------------------------------------
(* The refinement *)

LEMMA InitReceivables == Init => Promised!Init
BY DEF Init, Promised!Init, KindOf, NumberOf, OwedOf, PaidOf, Voided

LEMMA QuietReceivables ==
    ASSUME UNCHANGED <<document, ledger>>
    PROVE  UNCHANGED <<KindOf, NumberOf, OwedOf, PaidOf, Voided>>
BY DEF KindOf, NumberOf, OwedOf, PaidOf, Voided

LEMMA CreateDocumentIssues ==
    ASSUME Sound, Numbered, NEW r \in Request, NEW d \in Doc, CreateDocument(r, d)
    PROVE  Promised!Next
<1> DEFINE b == tx[r].body
           n == tx[r].number
<1>1. /\ b \in Body /\ b.kind \in Kind /\ b.amount \in Nat \ {0}
      /\ n = sequence[b.kind]
  BY BodyFacts DEF CreateDocument, Sound, Asked, Numbered, NumbersLocked
<1>2. /\ document' = [document EXCEPT ![d] = IssuedBy(r)]
      /\ ledger' = [ledger EXCEPT ![d].owed = @ + b.amount]
      /\ document[d].status = "absent"
      /\ IssuedBy(r).kind = b.kind /\ IssuedBy(r).status = "posted" /\ IssuedBy(r).number = n
  BY DEF CreateDocument, NextDoc, Present, IssuedBy
<1>3. /\ document'[d].kind = b.kind /\ document'[d].status = "posted" /\ document'[d].number = n
      /\ ledger'[d].owed = ledger[d].owed + b.amount /\ ledger'[d].paid = ledger[d].paid
      /\ \A x \in Doc \ {d} : document'[x] = document[x] /\ ledger'[x] = ledger[x]
  BY <1>2 DEF Sound, TypeOK
<1>4. ledger[d].owed = 0
  BY <1>2 DEF Sound, TypeOK, SubledgerAgrees
<1> HIDE DEF b, n
<1>5. KindOf[d] = "none"
  BY <1>2 DEF KindOf, Numbered, KindsKnown
<1>6. KindOf' = [KindOf EXCEPT ![d] = b.kind]
  BY <1>3 DEF KindOf
<1>7. NumberOf'[d] = n /\ NumberOf' = [NumberOf EXCEPT ![d] = NumberOf'[d]]
  BY <1>3 DEF NumberOf
<1>8. n > 0 /\ {NumberOf[x] : x \in {o \in Doc : KindOf[o] = b.kind}} = 1..(n - 1)
  <2>1. {o \in Doc : KindOf[o] = b.kind} = OfKind(b.kind)
    BY DEF KindOf, OfKind
  <2>2. \A x \in OfKind(b.kind) : NumberOf[x] = document[x].number
    BY DEF NumberOf, OfKind
  <2>3. Taken[b.kind] = {document[x].number : x \in OfKind(b.kind)}
    BY <1>1 DEF Taken
  <2>4. {NumberOf[x] : x \in {o \in Doc : KindOf[o] = b.kind}} = Taken[b.kind]
    BY <2>1, <2>2, <2>3
  <2> QED
    BY <1>1, <2>4 DEF Numbered, SequenceFollows
<1>9. OwedOf'[d] > 0
  BY <1>1, <1>3, <1>4 DEF OwedOf
<1>10. OwedOf' = [OwedOf EXCEPT ![d] = OwedOf'[d]]
  BY <1>3 DEF OwedOf
<1>11. PaidOf' = PaidOf /\ Voided' = Voided
  BY <1>2, <1>3 DEF PaidOf, Voided
<1>12. Promised!Issue(d, b.kind)
  BY <1>5, <1>6, <1>7, <1>8, <1>9, <1>10, <1>11 DEF Promised!Issue, Promised!Issued, Promised!Numbers
<1> QED
  BY <1>1, <1>12 DEF Promised!Next

LEMMA CreatePaymentPays ==
    ASSUME Sound, Numbered, NEW r \in Request, CreatePayment(r)
    PROVE  Promised!Next
<1> DEFINE b == tx[r].body
           d == b.doc
           balance == document[d].balance - b.amount
<1>1. tx[r].pc = "held" /\ b.op = "pay"
  BY DEF CreatePayment
<1>2. /\ b.amount \in Nat \ {0}
      /\ d \in Doc
      /\ document[d] \in DocumentRow
      /\ Payable(document[d], b)
  BY <1>1, HeldRow, BodyFacts DEF Allowed
<1>3. /\ document' = [document EXCEPT ![d].balance = balance, ![d].status = StatusAfter(balance)]
      /\ ledger' = [ledger EXCEPT ![d].owed = @ - b.amount, ![d].paid = @ + b.amount]
  BY DEF CreatePayment
<1>4. /\ document'[d] = [document[d] EXCEPT !.balance = balance, !.status = StatusAfter(balance)]
      /\ ledger'[d].owed = ledger[d].owed - b.amount
      /\ ledger'[d].paid = ledger[d].paid + b.amount
      /\ \A x \in Doc \ {d} : document'[x] = document[x] /\ ledger'[x] = ledger[x]
  BY <1>2, <1>3 DEF Sound, TypeOK
<1>5. /\ ledger[d].owed = document[d].balance
      /\ ledger[d].owed \in Nat /\ ledger[d].paid \in Nat
      /\ b.amount <= ledger[d].owed
      /\ document[d].status \in {"posted", "partially_paid"}
      /\ document[d].kind \in Kind
  BY <1>2 DEF Sound, TypeOK, DocumentRow, Payable, SubledgerAgrees, Numbered, KindsKnown
<1>6. /\ document'[d].kind = document[d].kind /\ document'[d].number = document[d].number
      /\ document'[d].status \in {"paid", "partially_paid"}
  BY <1>2, <1>4 DEF DocumentRow, StatusAfter
<1> HIDE DEF b, d, balance
<1>7. KindOf[d] # "none" /\ d \notin Voided
  BY <1>2, <1>5, CloudLedgerAssumption DEF KindOf, Voided
<1>8. KindOf' = KindOf /\ NumberOf' = NumberOf /\ Voided' = Voided
  BY <1>2, <1>4, <1>5, <1>6 DEF KindOf, NumberOf, Voided
<1>9. /\ OwedOf'[d] = ledger[d].owed - b.amount
      /\ OwedOf' = [OwedOf EXCEPT ![d] = OwedOf'[d]]
  BY <1>2, <1>4 DEF OwedOf
<1>10. OwedOf'[d] \in 0..(OwedOf[d] - 1)
  BY <1>2, <1>5, <1>9 DEF OwedOf
<1>11. PaidOf' = [PaidOf EXCEPT ![d] = PaidOf[d] + OwedOf[d] - OwedOf'[d]]
  <2>1. PaidOf[d] + OwedOf[d] - OwedOf'[d] = ledger[d].paid + b.amount
    BY <1>2, <1>5, <1>9 DEF PaidOf, OwedOf
  <2>2. PaidOf' = [PaidOf EXCEPT ![d] = ledger[d].paid + b.amount]
    BY <1>2, <1>4 DEF PaidOf
  <2> QED
    BY <2>1, <2>2
<1>12. Promised!Pay(d)
  BY <1>2, <1>7, <1>8, <1>9, <1>10, <1>11 DEF Promised!Pay, Promised!Issued
<1> QED
  BY <1>2, <1>12 DEF Promised!Next

LEMMA VoidDocumentVoids ==
    ASSUME Sound, Numbered, NEW r \in Request, NEW today \in Day, VoidDocument(r, today)
    PROVE  Promised!Next
<1> DEFINE d == tx[r].body.doc
           total == document[d].total
<1>1. tx[r].pc = "held" /\ tx[r].body.op = "void"
  BY DEF VoidDocument
<1>2. d \in Doc /\ document[d] \in DocumentRow /\ Voidable(document[d], tx[r].body)
  BY <1>1, HeldRow DEF Allowed
<1>3. /\ document' = [document EXCEPT ![d].balance = 0, ![d].status = "voided"]
      /\ ledger' = [ledger EXCEPT ![d].owed = @ - total]
  BY DEF VoidDocument
<1>4. /\ document'[d] = [document[d] EXCEPT !.balance = 0, !.status = "voided"]
      /\ ledger'[d].owed = ledger[d].owed - total
      /\ ledger'[d].paid = ledger[d].paid
      /\ \A x \in Doc \ {d} : document'[x] = document[x] /\ ledger'[x] = ledger[x]
  BY <1>2, <1>3 DEF Sound, TypeOK
<1>5. /\ ledger[d].owed = total /\ total \in Nat /\ ledger[d].paid = 0
      /\ document[d].status = "posted" /\ document[d].kind \in Kind
  BY <1>2 DEF Sound, DocumentRow, Voidable, SubledgerAgrees, Numbered, KindsKnown
<1>6. /\ document'[d].kind = document[d].kind /\ document'[d].number = document[d].number
      /\ document'[d].status = "voided"
  BY <1>2, <1>4 DEF DocumentRow
<1> HIDE DEF d, total
<1>7. ledger'[d].owed = 0
  BY <1>4, <1>5
<1>8. KindOf[d] # "none" /\ d \notin Voided /\ PaidOf[d] = 0
  BY <1>2, <1>5, CloudLedgerAssumption DEF KindOf, Voided, PaidOf
<1>9. KindOf' = KindOf /\ NumberOf' = NumberOf /\ PaidOf' = PaidOf
  BY <1>2, <1>4, <1>6 DEF KindOf, NumberOf, PaidOf
<1>10. OwedOf' = [OwedOf EXCEPT ![d] = 0]
  BY <1>2, <1>4, <1>7 DEF OwedOf
<1>11. Voided' = Voided \cup {d}
  BY <1>2, <1>4, <1>6 DEF Voided
<1>12. Promised!Void(d)
  BY <1>2, <1>8, <1>9, <1>10, <1>11 DEF Promised!Void, Promised!Issued
<1> QED
  BY <1>2, <1>12 DEF Promised!Next

LEMMA StepReceivables ==
    Sound /\ Numbered /\ [Next]_vars =>
        [Promised!Next]_<<KindOf, NumberOf, OwedOf, PaidOf, Voided>>
<1> SUFFICES ASSUME Sound, Numbered, [Next]_vars
             PROVE  [Promised!Next]_<<KindOf, NumberOf, OwedOf, PaidOf, Voided>>
  OBVIOUS
<1>1. CASE UNCHANGED <<tx, document, sequence, ledger>>
  BY <1>1, QuietReceivables
<1>2. ASSUME NEW r \in Request, Waits(r) \/ TakeNumber(r)
      PROVE  UNCHANGED <<KindOf, NumberOf, OwedOf, PaidOf, Voided>>
  BY <1>2, WaitsQuiet, QuietReceivables DEF TakeNumber
<1> QED
  BY <1>1, <1>2, WaitsCases, CreateDocumentIssues, CreatePaymentPays, VoidDocumentVoids

\* Whatever requests do, seen from the documents and the ledger it is one whole
\* document issued under the next number, paid down or voided at a time: for any
\* number of requests and documents, any interleaving, failure and retry.
THEOREM ImplementsReceivables == Spec => KeepsReceivables
<1>1. Sound /\ Numbered /\ [Next]_vars => [Promised!Next]_Promised!receivables
  BY StepReceivables DEF Promised!receivables
<1> QED
  BY <1>1, InitSound, StepSound, InitNumbered, StepNumbered, InitReceivables, PTL
     DEF Spec, KeepsReceivables, Promised!Spec
=============================================================================
