----------------------------- MODULE CloudLedger -----------------------------
(***************************************************************************)
(* Invoices, bills, payments and voids of one company in the cloud         *)
(* (cloud/api/src/db.ts on PostgreSQL).                                    *)
(*                                                                         *)
(* Every request is one READ COMMITTED transaction on a connection of its  *)
(* own, and the statements of different requests interleave.  What a       *)
(* request writes is seen by others when it commits; until then the others *)
(* only meet its locks: the idempotency key it inserted, the sequence row  *)
(* it updated, the document row it selected for update, and the rows of    *)
(* the accounts its journal lines refer to, which the foreign key shares   *)
(* between requests and a bank transfer takes for itself.  A step below is *)
(* one such meeting; the writes of a request, which nobody can see before, *)
(* are made in the step of its commit.                                     *)
(*                                                                         *)
(* Left out: the row of the signed-in user, which makes the requests of    *)
(* one user wait for each other before anything below (the requests here   *)
(* are of different users), and the reasons other than a document's own    *)
(* state for which a request is refused (access, plan, accounts, locked    *)
(* period), which are the step Fail.                                       *)
(*                                                                         *)
(* An operator named Slip... is no part of the model: it is a definition   *)
(* with one mistake in it, that some property has to notice.               *)
(***************************************************************************)
EXTENDS Integers

CONSTANTS
    Request,   \* requests reaching the server, a retry being another one
    Key,       \* idempotency keys
    Body,      \* what requests ask for: its hash stands for it
    Doc,       \* ids of documents, given out in order: 1, 2, ...
    Kind,      \* document types
    Supplier,  \* supplier invoice numbers
    Day,       \* days, in order
    Account,   \* accounts with money, which a bank transfer may be between
    NoRequest,
    NoKey,
    NoDoc,
    NoBody

VARIABLES
    tx,        \* the transaction of each request
    document,  \* committed sales_invoices and vendor_bills
    sequence,  \* committed company_document_sequences.next_number
    keyRow,    \* committed idempotency_keys
    written,   \* requests whose journal entry is in the ledger
    ledger,    \* what the posted entries add up to, per document
    byDay      \* revenue and expense posted on each day, and reported for tax

vars == <<tx, document, sequence, keyRow, written, ledger, byDay>>

Entry == {"journal", "transfer"}
Op == {"issue", "pay", "void"} \cup Entry
BodyRow == [op: Op, kind: Kind \cup {"none"}, doc: Doc \cup {NoDoc}, amount: Nat,
            date: Day, supplier: Supplier \cup {"none"}, accounts: SUBSET Account]

ASSUME CloudLedgerAssumption ==
    /\ Doc \subseteq Nat
    /\ Day \subseteq Nat
    /\ Day # {}
    /\ "none" \notin Kind \cup Supplier
    /\ Body \subseteq BodyRow
    /\ NoRequest \notin Request
    /\ NoKey \notin Key
    /\ NoDoc \notin Doc
    /\ NoBody \notin Body
    /\ \A b \in Body :
        /\ b.amount > 0
        /\ b.op = "issue" => b.kind \in Kind
        /\ b.op \in {"pay", "void"} => b.kind \in Kind /\ b.doc \in Doc

Progress == {"idle", "begun", "taken", "reserved", "held", "done"}
Answer == {"none", "ok", "conflict", "refused", "failed"}

TxRow == [pc: Progress, key: Key \cup {NoKey}, body: Body \cup {NoBody}, stale: Request \cup {NoRequest},
          number: Nat, accounts: SUBSET Account, answer: Answer,
          effect: Request \cup {NoRequest}]
DocumentRow == [kind: Kind \cup {"none"}, number: Nat, supplier: Supplier \cup {"none"},
                total: Nat, balance: Nat, date: Day,
                status: {"absent", "posted", "partially_paid", "paid", "voided"}]
KeyRow == [by: Request \cup {NoRequest}, body: Body \cup {NoBody}, expired: BOOLEAN]

Present == {d \in Doc : document[d].status # "absent"}

-----------------------------------------------------------------------------
(* Locks: who holds what until its transaction ends *)

SlipNeverReleased(k) ==
    {r \in Request : /\ tx[r].key = k
                     /\ \/ tx[r].pc \in {"reserved", "held"}
                        \/ tx[r].answer = "failed"}

SlipKeyUnlocked(k) == {}

KeyHolders(k) == {r \in Request : tx[r].key = k /\ tx[r].pc \in {"reserved", "held"}}

SlipNumbersUnlocked(k) == {}

SequenceHolders(k) ==
    {r \in Request : tx[r].pc = "held" /\ tx[r].body.op = "issue" /\ tx[r].body.kind = k}

DocumentHolders(d) ==
    {r \in Request : tx[r].pc = "held" /\ tx[r].body.op \in {"pay", "void"} /\ tx[r].body.doc = d}

AccountHolders(a) == {r \in Request : a \in tx[r].accounts}

SlipLinesLockAlone(r, a) == AccountHolders(a) \ {r}

\* Lines share the row of their account; only a transfer selects it for update.
InTheWay(r, a) ==
    {s \in AccountHolders(a) \ {r} : "transfer" \in {tx[r].body.op, tx[s].body.op}}

\* A request whose entry is in the making: the lines come after every other lock.
Posting(r) == \/ tx[r].pc = "held"
              \/ tx[r].pc = "reserved" /\ tx[r].body.op \in Entry

\* Whom a request waits for, or will have to before it can commit.
WaitsFor(r) ==
    {s \in Request :
        \/ tx[r].pc = "begun" /\ s \in KeyHolders(tx[r].key)
        \/ tx[r].pc = "reserved" /\ tx[r].body.op = "issue" /\ s \in SequenceHolders(tx[r].body.kind)
        \/ tx[r].pc = "reserved" /\ tx[r].body.op \in {"pay", "void"} /\ s \in DocumentHolders(tx[r].body.doc)
        \/ Posting(r) /\ \E a \in tx[r].body.accounts \ tx[r].accounts : s \in InTheWay(r, a)}

Stuck(C) == C # {} /\ \A r \in C : WaitsFor(r) \cap C # {}

Circle(C) == Stuck(C) /\ \A D \in SUBSET C : Stuck(D) => D = C

-----------------------------------------------------------------------------
(* A request up to its writes *)

\* now() is the time the transaction began: a key that expires later is alive for it.
Begin(r, k, b) ==
    /\ tx[r].pc = "idle"
    /\ tx' = [tx EXCEPT ![r].pc = "begun", ![r].key = k, ![r].body = b,
                        ![r].stale = IF keyRow[k].expired THEN keyRow[k].by ELSE NoRequest]
    /\ UNCHANGED <<document, sequence, keyRow, written, ledger, byDay>>

\* The row is gone, or expired when the transaction began and is deleted now.
Free(r) == keyRow[tx[r].key].by \in {NoRequest, tx[r].stale}

\* insert ... on conflict do nothing waits for whoever inserted the same key.
Reserve(r) ==
    /\ tx[r].pc = "begun"
    /\ KeyHolders(tx[r].key) = {}
    /\ tx' = [tx EXCEPT ![r].pc = IF Free(r) THEN "reserved" ELSE "taken"]
    /\ UNCHANGED <<document, sequence, keyRow, written, ledger, byDay>>

\* The transaction ends without a write.
Answers(r, answer, effect) ==
    /\ tx' = [tx EXCEPT ![r].pc = "done", ![r].accounts = {}, ![r].answer = answer,
                        ![r].effect = effect]
    /\ UNCHANGED <<document, sequence, keyRow, written, ledger, byDay>>

SlipAnyBody(r) == keyRow[tx[r].key].by # NoRequest

SameRequest(r) == /\ keyRow[tx[r].key].by # NoRequest
                  /\ keyRow[tx[r].key].body = tx[r].body

Replay(r) ==
    /\ tx[r].pc = "taken"
    /\ SameRequest(r)
    /\ Answers(r, "ok", keyRow[tx[r].key].by)

RejectReuse(r) ==
    /\ tx[r].pc = "taken"
    /\ ~SameRequest(r)
    /\ Answers(r, "conflict", NoRequest)

\* The row of the sequence is updated, so the next request for a number waits.
TakeNumber(r) ==
    /\ tx[r].pc = "reserved"
    /\ tx[r].body.op = "issue"
    /\ SequenceHolders(tx[r].body.kind) = {}
    /\ tx' = [tx EXCEPT ![r].pc = "held", ![r].number = sequence[tx[r].body.kind]]
    /\ UNCHANGED <<document, sequence, keyRow, written, ledger, byDay>>

SlipPayable(row, b) ==
    /\ row.status \in {"posted", "partially_paid"}
    /\ b.date >= row.date

Payable(row, b) ==
    /\ row.status \in {"posted", "partially_paid"}
    /\ b.amount <= row.balance
    /\ b.date >= row.date

SlipVoidable(row, b) ==
    /\ row.status \in {"posted", "partially_paid"}
    /\ b.date >= row.date

Voidable(row, b) ==
    /\ row.status = "posted"
    /\ row.balance = row.total
    /\ b.date >= row.date

Allowed(b) == /\ document[b.doc].kind = b.kind
              /\ \/ b.op = "pay" /\ Payable(document[b.doc], b)
                 \/ b.op = "void" /\ Voidable(document[b.doc], b)

\* select ... for update waits for whoever has the row, then sees what it left.
LockDocument(r) ==
    /\ tx[r].pc = "reserved"
    /\ tx[r].body.op \in {"pay", "void"}
    /\ DocumentHolders(tx[r].body.doc) = {}
    /\ Allowed(tx[r].body)
    /\ tx' = [tx EXCEPT ![r].pc = "held"]
    /\ UNCHANGED <<document, sequence, keyRow, written, ledger, byDay>>

RefuseDocument(r) ==
    /\ tx[r].pc = "reserved"
    /\ tx[r].body.op \in {"pay", "void"}
    /\ DocumentHolders(tx[r].body.doc) = {}
    /\ ~Allowed(tx[r].body)
    /\ Answers(r, "refused", NoRequest)

\* A supplier's invoice number is unique for good, also after a void.
SupplierTaken(b) ==
    /\ b.supplier # "none"
    /\ \E d \in Present : document[d].kind = b.kind /\ document[d].supplier = b.supplier

RefuseSupplier(r) ==
    /\ tx[r].pc = "held"
    /\ tx[r].body.op = "issue"
    /\ SupplierTaken(tx[r].body)
    /\ Answers(r, "refused", NoRequest)

\* The foreign key of a line has the row of its account locked, line by line; a
\* transfer locks its two rows before it writes its lines, in no particular order.
LockAccount(r, a) ==
    /\ Posting(r)
    /\ tx[r].body.op = "issue" => ~SupplierTaken(tx[r].body)
    /\ a \in tx[r].body.accounts \ tx[r].accounts
    /\ InTheWay(r, a) = {}
    /\ tx' = [tx EXCEPT ![r].accounts = @ \cup {a}]
    /\ UNCHANGED <<document, sequence, keyRow, written, ledger, byDay>>

\* A statement fails or times out, access is denied, the period is locked, the
\* server stops: everything is rolled back.
Fail(r) ==
    /\ tx[r].pc \in {"begun", "taken", "reserved", "held"}
    /\ Answers(r, "failed", NoRequest)

\* The database finds requests that wait for each other, and fails one of them.
BreakCircle(r) ==
    /\ WaitsFor(r) # {}
    /\ \E C \in SUBSET Request : r \in C /\ Circle(C)
    /\ Fail(r)

-----------------------------------------------------------------------------
(* The writes of a request, and its commit *)

\* The answer may be lost on its way, or replaced by an error the commit ran into
\* after it was made: the caller cannot tell it from a failure.
Commits(r) ==
    /\ tx[r].accounts = tx[r].body.accounts
    /\ \E answer \in {"ok", "failed"} :
        tx' = [tx EXCEPT ![r].pc = "done", ![r].accounts = {}, ![r].answer = answer,
                         ![r].effect = IF answer = "ok" THEN r ELSE NoRequest]
    /\ keyRow' = [keyRow EXCEPT ![tx[r].key] = [by |-> r, body |-> tx[r].body, expired |-> FALSE]]
    /\ written' = written \cup {r}

IssuedBy(r) ==
    LET b == tx[r].body
    IN [kind |-> b.kind, number |-> tx[r].number, supplier |-> b.supplier, total |-> b.amount,
        balance |-> b.amount, date |-> b.date, status |-> "posted"]

NextDoc(d) == d \notin Present /\ \A o \in Doc : o < d => o \in Present

CreateDocument(r, d) ==
    LET b == tx[r].body
    IN /\ tx[r].pc = "held"
       /\ b.op = "issue"
       /\ ~SupplierTaken(b)
       /\ NextDoc(d)
       /\ document' = [document EXCEPT ![d] = IssuedBy(r)]
       /\ sequence' = [sequence EXCEPT ![b.kind] = tx[r].number + 1]
       /\ ledger' = [ledger EXCEPT ![d].owed = @ + b.amount]
       /\ byDay' = [byDay EXCEPT ![b.date].posted = @ + b.amount, ![b.date].taxed = @ + b.amount]
       /\ Commits(r)

StatusAfter(balance) == IF balance = 0 THEN "paid" ELSE "partially_paid"

CreatePayment(r) ==
    LET b == tx[r].body
        balance == document[b.doc].balance - b.amount
    IN /\ tx[r].pc = "held"
       /\ b.op = "pay"
       /\ document' = [document EXCEPT ![b.doc].balance = balance,
                                       ![b.doc].status = StatusAfter(balance)]
       /\ ledger' = [ledger EXCEPT ![b.doc].owed = @ - b.amount, ![b.doc].paid = @ + b.amount]
       /\ UNCHANGED <<sequence, byDay>>
       /\ Commits(r)

\* The reversal takes back the lines of the document's own entry on the day asked
\* for; the tax event takes them back on the day of the request, whichever that is.
VoidDocument(r, today) ==
    LET b == tx[r].body
        total == document[b.doc].total
    IN /\ tx[r].pc = "held"
       /\ b.op = "void"
       /\ document' = [document EXCEPT ![b.doc].balance = 0, ![b.doc].status = "voided"]
       /\ ledger' = [ledger EXCEPT ![b.doc].owed = @ - total]
       /\ byDay' = [d \in Day |->
                      [posted |-> byDay[d].posted - (IF d = b.date THEN total ELSE 0),
                       taxed |-> byDay[d].taxed - (IF d = today THEN total ELSE 0)]]
       /\ UNCHANGED sequence
       /\ Commits(r)

\* A journal, an Essentials transaction or a bank transfer: no document is touched.
CreateEntry(r) ==
    /\ tx[r].pc = "reserved"
    /\ tx[r].body.op \in Entry
    /\ UNCHANGED <<document, sequence, ledger, byDay>>
    /\ Commits(r)

-----------------------------------------------------------------------------
(* Time *)

\* 24 hours after it was inserted.
KeyExpires(k) ==
    /\ keyRow[k].by # NoRequest
    /\ ~keyRow[k].expired
    /\ keyRow' = [keyRow EXCEPT ![k].expired = TRUE]
    /\ UNCHANGED <<tx, document, sequence, written, ledger, byDay>>

AllAnswered ==
    /\ \A r \in Request : tx[r].pc = "done"
    /\ UNCHANGED vars

-----------------------------------------------------------------------------
AnyDay == CHOOSE d \in Day : TRUE

Init ==
    /\ tx = [r \in Request |-> [pc |-> "idle", key |-> NoKey, body |-> NoBody,
                               stale |-> NoRequest, number |-> 0, accounts |-> {}, answer |-> "none",
                               effect |-> NoRequest]]
    /\ document = [d \in Doc |-> [kind |-> "none", number |-> 0, supplier |-> "none", total |-> 0,
                                  balance |-> 0, date |-> AnyDay, status |-> "absent"]]
    /\ sequence = [k \in Kind |-> 1]
    /\ keyRow = [k \in Key |-> [by |-> NoRequest, body |-> NoBody, expired |-> FALSE]]
    /\ written = {}
    /\ ledger = [d \in Doc |-> [owed |-> 0, paid |-> 0]]
    /\ byDay = [d \in Day |-> [posted |-> 0, taxed |-> 0]]

\* What becomes of a request by itself, once it has begun.
Advance(r) ==
    \/ Reserve(r)
    \/ Replay(r)
    \/ RejectReuse(r)
    \/ TakeNumber(r)
    \/ LockDocument(r)
    \/ RefuseDocument(r)
    \/ RefuseSupplier(r)
    \/ \E a \in Account : LockAccount(r, a)
    \/ \E d \in Doc : CreateDocument(r, d)
    \/ CreatePayment(r)
    \/ \E today \in Day : VoidDocument(r, today)
    \/ CreateEntry(r)
    \/ BreakCircle(r)

Next ==
    \/ \E r \in Request :
        \/ \E k \in Key, b \in Body : Begin(r, k, b)
        \/ Advance(r)
        \/ Fail(r)
    \/ \E k \in Key : KeyExpires(k)
    \/ AllAnswered

Spec == Init /\ [][Next]_vars

\* The database runs the statements sent to it and grants locks in the order they
\* were asked for, and its deadlock check fails a request of each circle; nothing
\* forces a caller to send, a key to expire or any other failure.
FairSpec == Spec /\ \A r \in Request : WF_vars(Advance(r))

-----------------------------------------------------------------------------
(* Properties *)

\* Sanity of the state: among others, a balance below zero or above its total
\* is not a document.
TypeOK ==
    /\ tx \in [Request -> TxRow]
    /\ document \in [Doc -> DocumentRow]
    /\ \A d \in Doc : document[d].balance <= document[d].total
    /\ sequence \in [Kind -> Nat]
    /\ keyRow \in [Key -> KeyRow]
    /\ written \subseteq Request
    /\ ledger \in [Doc -> [owed: Int, paid: Nat]]
    /\ byDay \in [Day -> [posted: Int, taxed: Int]]

\* The balance and the status of an invoice or bill, which payments and voids
\* update next to the journal entries they post (createCustomerPayment,
\* createVendorPayment, voidSalesInvoice, voidVendorBill), are what the entries
\* on the control account add up to, however payments and voids of it race.
SubledgerAgrees ==
    \A d \in Doc :
        LET row == document[d]
        IN /\ ledger[d].owed = row.balance
           /\ row.status = "posted" => ledger[d].paid = 0 /\ row.balance = row.total
           /\ row.status = "partially_paid" =>
                /\ row.balance \in 1..(row.total - 1)
                /\ ledger[d].paid = row.total - row.balance
           /\ row.status = "paid" => row.balance = 0 /\ ledger[d].paid = row.total
           /\ row.status \in {"absent", "voided"} => row.balance = 0 /\ ledger[d].paid = 0

\* A request answered with success was done: by itself, or by the earlier request
\* with its key, and that one asked for exactly the same (the idempotency_keys
\* row and its request_hash).
OkMeansDone ==
    \A r \in Request : tx[r].answer = "ok" =>
        /\ tx[r].effect \in written
        /\ tx[tx[r].effect].key = tx[r].key
        /\ tx[tx[r].effect].body = tx[r].body

\* While the row of a key lives, nothing more is written under that key, whatever
\* was answered, lost or retried, and however the requests that carry it race.
OncePerKey ==
    [][\A r \in written' \ written :
        keyRow[tx[r].key].by = NoRequest \/ keyRow[tx[r].key].expired]_vars

\* Keys, numbers and documents are taken in an order in which requests cannot come
\* to wait for each other in a circle, nor can their journal lines, which share the
\* rows of accounts: a circle takes a bank transfer, which locks such rows alone, and
\* all the requests in it are at their lines.
CirclesNeedTransfer ==
    \A C \in SUBSET Request : Circle(C) =>
        /\ \A r \in C : Posting(r)
        /\ \E r \in C : tx[r].body.op = "transfer"

\* No lock outlives the request that took it, and no waiting goes on for good, the
\* circles of bank transfers being broken by the database: requests being finitely
\* many, each one that begins ends when none is under way again and again.
Answered == []<>(\A r \in Request : tx[r].pc \in {"idle", "done"})

\* "A void adds a negative event on the void date" (SALES-INVOICES.md): so what is
\* reported for tax on a day is what the ledger has on that day.
TaxFollowsLedger == \A d \in Day : byDay[d].taxed = byDay[d].posted
=============================================================================
