--------------------------- MODULE WebSessionsProofs ---------------------------
(***************************************************************************)
(* Proofs about WebSessions, for any people, names, number of files and    *)
(* of requests in flight.                                                  *)
(*                                                                         *)
(* A request is followed through the steps it is made of: Leads says what  *)
(* these keep of the invariant Inv.  What requests reach needs to know in  *)
(* addition that a session's saved company is taken up by its first        *)
(* request only (Waiting), for a request that waited looks its session up  *)
(* again.                                                                  *)
(***************************************************************************)
EXTENDS WebSessions, TLAPS

(* Types of what the requests are made of *)

Rows == [Token -> Path \cup {Null, NoRow}]
Disk == [Path -> Place]

LEMMA Apart == Null \notin Path /\ NoRow \notin Path /\ Null # NoRow
BY WebSessionsAssumption DEF Path, Folder

LEMMA OpenPathType ==
    ASSUME NEW s \in Session
    PROVE  OpenPath(s) \in Path \cup {Null}
BY DEF OpenPath, Session, Connection

LEMMA TouchType ==
    ASSUME NEW rows \in Rows, NEW t \in Token, NEW path \in Path \cup {Null}
    PROVE  /\ Touch(rows, t, path) \in Rows
           /\ \A u \in Token : Touch(rows, t, path)[u] = NoRow <=> rows[u] = NoRow
BY Apart DEF Touch, Rows

LEMMA PersistType ==
    ASSUME NEW rows \in Rows, NEW t \in Token, NEW s \in Session
    PROVE  /\ Persist(rows, t, s) \in Rows
           /\ \A u \in Token : Persist(rows, t, s)[u] = NoRow <=> rows[u] = NoRow
BY OpenPathType, TouchType DEF Persist

LEMMA OpenedType ==
    ASSUME NEW s \in Session, NEW d \in Disk, NEW p \in Path, d[p].file # 0
    PROVE  /\ Opened(s, d, p) \in Session
           /\ Opened(s, d, p).company = [path |-> p, file |-> d[p].file]
           /\ Opened(s, d, p).company.path = p
<1>1. d[p].file \in 1..MaxFile
  BY WebSessionsAssumption DEF Disk, Place
<1>2. [path |-> p, file |-> d[p].file] \in Connection
  BY <1>1 DEF Connection
<1> QED
  BY <1>2 DEF Opened, Session

LEMMA ClosedType ==
    ASSUME NEW s \in Session
    PROVE  /\ [s EXCEPT !.company = Null] \in Session
           /\ [s EXCEPT !.company = Null].company = Null
BY DEF Session

LEMMA UpgradedType ==
    ASSUME NEW d \in Disk, NEW p \in Path
    PROVE  /\ Upgraded(d, p) \in Disk
           /\ \A q \in Path : /\ Upgraded(d, p)[q].file = d[q].file
                              /\ Upgraded(d, p)[q].whole = d[q].whole
                              /\ Upgraded(d, p)[q].old = (q # p /\ d[q].old)
<1>1. d[p] \in Place
  BY DEF Disk
<1>2. [d[p] EXCEPT !.old = FALSE] \in Place
  BY <1>1 DEF Place
<1>3. Upgraded(d, p) \in Disk
  BY <1>2 DEF Upgraded, Disk
<1> QED
  BY <1>3 DEF Upgraded, Disk, Place

LEMMA CopyingType ==
    ASSUME NEW d \in Disk, NEW p \in Path
    PROVE  /\ Copying(d, p) \in Disk
           /\ \A q \in Path : /\ Copying(d, p)[q].file = d[q].file
                              /\ Copying(d, p)[q].old = d[q].old
                              /\ Copying(d, p)[q].whole = d[q].whole
<1>1. d[p] \in Place
  BY DEF Disk
<1>2. [d[p] EXCEPT !.copy = d[p].file] \in Place
  BY <1>1 DEF Place
<1>3. Copying(d, p) \in Disk
  BY <1>2 DEF Copying, Disk
<1> QED
  BY <1>3 DEF Copying, Disk, Place

LEMMA RemovedType ==
    ASSUME NEW d \in Disk, NEW gone \in Path
    PROVE  /\ Removed(d, gone) \in Disk
           /\ \A q \in Path : /\ Removed(d, gone)[q].file = IF q = gone THEN 0 ELSE d[q].file
                              /\ Removed(d, gone)[q].old = (q # gone /\ d[q].old)
<1>1. ASSUME NEW q \in Path
      PROVE  [file |-> IF q = gone THEN 0 ELSE d[q].file,
              old  |-> q # gone /\ d[q].old,
              copy |-> IF FolderOf(q) = FolderOf(gone) THEN 0 ELSE d[q].copy,
              whole |-> FolderOf(q) # FolderOf(gone) /\ d[q].whole] \in Place
  <2>1. d[q] \in Place
    BY DEF Disk
  <2>2. d[q].file \in 0..MaxFile /\ d[q].copy \in 0..MaxFile /\ 0 \in 0..MaxFile
    BY <2>1, WebSessionsAssumption DEF Place
  <2> QED
    BY <2>2 DEF Place
<1> QED
  BY <1>1 DEF Removed, Disk

LEMMA WaitType ==
    ASSUME NEW t \in Token, NEW p \in Path, NEW next \in Ask \cup {Null}
    PROVE  WaitFor(t, p, next) \in Upgrade /\ WaitFor(t, p, next).path = p
BY DEF WaitFor, Upgrade

LEMMA WithoutCopiesType ==
    ASSUME NEW waits \in SUBSET Upgrade, NEW gone \in Path
    PROVE  /\ WithoutCopies(waits, gone) \in SUBSET Upgrade
           /\ \A u \in WithoutCopies(waits, gone) : \E v \in waits : u.path = v.path
<1>1. ASSUME NEW v \in waits
      PROVE  /\ [v EXCEPT !.lost = @ \/ FolderOf(v.path) = FolderOf(gone)] \in Upgrade
             /\ [v EXCEPT !.lost = @ \/ FolderOf(v.path) = FolderOf(gone)].path = v.path
  BY DEF Upgrade
<1> QED
  BY <1>1 DEF WithoutCopies

LEMMA SessionType ==
    ASSUME TypeOK, NEW t \in Token
    PROVE  SessionOf(t) \in Session
<1>1. CASE t \in Live
  BY <1>1 DEF SessionOf, Live, TypeOK, Session
<1>2. CASE t \notin Live
  BY <1>2 DEF SessionOf, Restored, TypeOK, Session
<1> QED
  BY <1>1, <1>2

LEMMA PlaceFilled ==
    ASSUME NEW place \in Place, NEW n \in 1..MaxFile
    PROVE  /\ [place EXCEPT !.file = n, !.old = FALSE] \in Place
           /\ [place EXCEPT !.file = n, !.old = FALSE, !.whole = TRUE] \in Place
<1>1. MaxFile \in Nat
  BY WebSessionsAssumption
<1>2. n \in 0..MaxFile
  BY <1>1
<1> QED
  BY <1>2 DEF Place

-----------------------------------------------------------------------------
(* The inductive invariant *)

\* The file behind the session's connection is on disk d, or was deleted.
Backed(s, d, er) ==
    s.company # Null => d[s.company.path].file = s.company.file \/ s.company.file \in er

\* Before the business has taken its books out, its own folder is not used.
ClientUnused(s, d, waits) ==
    ~moved => /\ \A p \in Path : FolderOf(p) = "client" => d[p].file = 0
              /\ s.company # Null => FolderOf(s.company.path) # "client"
              /\ \A u \in waits : FolderOf(u.path) # "client"

\* The state in the middle of a request of t: s is its session so far, d the disk
\* and waits the requests that wait; the other sessions are as they were.
World(t, s, d, waits, er) ==
    /\ s \in Session /\ d \in Disk /\ waits \in SUBSET Upgrade /\ er \in SUBSET (1..MaxFile)
    /\ Backed(s, d, er)
    /\ \A u \in Live \ {t} : sessions[u] \in Session /\ Backed(sessions[u], d, er)
    /\ \A p \in Path : d[p].old => d[p].file # 0
    /\ ClientUnused(s, d, waits)

Ended == \A t \in Token : row[t] = NoRow => sessions[t] = Null

Inv ==
    /\ TypeOK
    /\ Ended
    /\ OpenIsOnDisk
    /\ \A p \in Path : disk[p].old => disk[p].file # 0
    /\ ~moved => /\ \A p \in Path : FolderOf(p) = "client" => disk[p].file = 0
                 /\ \A t \in Live : sessions[t].company # Null
                        => FolderOf(sessions[t].company.path) # "client"
                 /\ \A u \in upgrades : FolderOf(u.path) # "client"

LEMMA WorldOfState ==
    ASSUME Inv, NEW t \in Token, NEW s \in Session,
           \/ t \in Live /\ s.company = sessions[t].company
           \/ s.company = Null
    PROVE  World(t, s, disk, upgrades, erased)
<1>1. /\ disk \in Disk /\ upgrades \in SUBSET Upgrade /\ erased \in SUBSET (1..MaxFile)
      /\ Live \subseteq Token
  BY DEF Inv, TypeOK, Disk, Live
<1>2. /\ Backed(s, disk, erased)
      /\ \A u \in Live \ {t} : sessions[u] \in Session /\ Backed(sessions[u], disk, erased)
  BY DEF Inv, TypeOK, Live, OpenIsOnDisk, Backed
<1>3. ClientUnused(s, disk, upgrades)
  BY DEF Inv, ClientUnused
<1>4. \A p \in Path : disk[p].old => disk[p].file # 0
  BY DEF Inv
<1> QED
  BY <1>1, <1>2, <1>3, <1>4 DEF World

\* A session without a company, or with another request, is as good as it was.
LEMMA WorldClosed ==
    ASSUME NEW t \in Token, NEW s, NEW d, NEW waits, NEW er, World(t, s, d, waits, er)
    PROVE  World(t, [s EXCEPT !.company = Null], d, waits, er)
<1>1. /\ [s EXCEPT !.company = Null] \in Session
      /\ [s EXCEPT !.company = Null].company = Null
  BY ClosedType DEF World
<1>2. Backed([s EXCEPT !.company = Null], d, er)
  BY <1>1 DEF Backed
<1>3. ClientUnused([s EXCEPT !.company = Null], d, waits)
  BY <1>1 DEF World, ClientUnused
<1> QED
  BY <1>1, <1>2, <1>3 DEF World

\* A new wait for a file that is there.
LEMMA WorldCopying ==
    ASSUME NEW t \in Token, NEW s, NEW d, NEW waits, NEW er, World(t, s, d, waits, er),
           NEW p \in Path, d[p].file # 0, NEW next \in Ask \cup {Null}
    PROVE  World(t, s, Copying(d, p), waits \cup {WaitFor(t, p, next)}, er)
<1>1. /\ Copying(d, p) \in Disk
      /\ \A q \in Path : /\ Copying(d, p)[q].file = d[q].file
                         /\ Copying(d, p)[q].old = d[q].old
  BY CopyingType DEF World
<1>2. WaitFor(t, p, next) \in Upgrade /\ WaitFor(t, p, next).path = p
  BY WaitType
<1>3. ASSUME NEW x \in Session, Backed(x, d, er) PROVE Backed(x, Copying(d, p), er)
  BY <1>1, <1>3 DEF Backed, Session, Connection
<1>4. Backed(s, Copying(d, p), er)
  BY <1>3 DEF World
<1>5. \A u \in Live \ {t} : sessions[u] \in Session /\ Backed(sessions[u], Copying(d, p), er)
  BY <1>3 DEF World
<1>6. ClientUnused(s, Copying(d, p), waits \cup {WaitFor(t, p, next)})
  BY <1>1, <1>2 DEF World, ClientUnused
<1> QED
  BY <1>1, <1>2, <1>4, <1>5, <1>6 DEF World

\* An upgrade changes no file.
LEMMA WorldUpgraded ==
    ASSUME NEW t \in Token, NEW s, NEW d, NEW waits, NEW er, World(t, s, d, waits, er),
           NEW p \in Path
    PROVE  World(t, s, Upgraded(d, p), waits, er)
<1>1. /\ Upgraded(d, p) \in Disk
      /\ \A q \in Path : /\ Upgraded(d, p)[q].file = d[q].file
                         /\ Upgraded(d, p)[q].old => d[q].old
  BY UpgradedType DEF World
<1>2. ASSUME NEW x \in Session, Backed(x, d, er) PROVE Backed(x, Upgraded(d, p), er)
  BY <1>1, <1>2 DEF Backed, Session, Connection
<1>3. Backed(s, Upgraded(d, p), er)
  BY <1>2 DEF World
<1>4. \A u \in Live \ {t} : sessions[u] \in Session /\ Backed(sessions[u], Upgraded(d, p), er)
  BY <1>2 DEF World
<1>5. ClientUnused(s, Upgraded(d, p), waits)
  BY <1>1 DEF World, ClientUnused
<1> QED
  BY <1>1, <1>3, <1>4, <1>5 DEF World

\* The session opens a file that is there.
LEMMA WorldOpened ==
    ASSUME NEW t \in Token, NEW s, NEW d, NEW waits, NEW er, World(t, s, d, waits, er),
           NEW p \in Path, d[p].file # 0
    PROVE  World(t, Opened(s, d, p), d, waits, er)
<1>1. /\ Opened(s, d, p) \in Session
      /\ Opened(s, d, p).company = [path |-> p, file |-> d[p].file]
  BY OpenedType DEF World
<1>2. Backed(Opened(s, d, p), d, er)
  BY <1>1 DEF Backed
<1>3. ClientUnused(Opened(s, d, p), d, waits)
  BY <1>1 DEF World, ClientUnused
<1> QED
  BY <1>1, <1>2, <1>3 DEF World

\* A file is put where there was none: a connection to the place is to a file that
\* was deleted.
LEMMA WorldFilled ==
    ASSUME NEW t \in Token, NEW s, NEW d, NEW waits, NEW er, World(t, s, d, waits, er),
           NEW p \in Path, d[p].file = 0, moved \/ FolderOf(p) # "client",
           NEW e \in Disk, e[p].file # 0,
           \A q \in Path \ {p} : e[q].file = d[q].file /\ e[q].old = d[q].old
    PROVE  World(t, s, e, waits, er)
<1>1. ASSUME NEW x \in Session, Backed(x, d, er) PROVE Backed(x, e, er)
  <2>1. CASE x.company = Null
    BY <2>1 DEF Backed
  <2>2. CASE x.company # Null
    <3>1. x.company.path \in Path /\ x.company.file \in 1..MaxFile
      BY <2>2 DEF Session, Connection
    <3> QED
      BY <1>1, <3>1, WebSessionsAssumption DEF Backed
  <2> QED
    BY <2>1, <2>2
<1>2. Backed(s, e, er)
  BY <1>1 DEF World
<1>3. \A u \in Live \ {t} : sessions[u] \in Session /\ Backed(sessions[u], e, er)
  BY <1>1 DEF World
<1>4. ClientUnused(s, e, waits)
  BY DEF World, ClientUnused
<1>5. \A q \in Path : e[q].old => e[q].file # 0
  BY DEF World
<1> QED
  BY <1>2, <1>3, <1>4, <1>5 DEF World

\* company:deleteCurrent: whoever else has the file open has a deleted one.
LEMMA WorldRemoved ==
    ASSUME NEW t \in Token, NEW s, NEW d, NEW waits, NEW er, World(t, s, d, waits, er),
           NEW gone \in Path
    PROVE  World(t, s, Removed(d, gone), WithoutCopies(waits, gone),
                 er \cup ({d[gone].file} \ {0}))
<1> DEFINE e == Removed(d, gone)
           more == er \cup ({d[gone].file} \ {0})
           fewer == WithoutCopies(waits, gone)
<1>1. /\ e \in Disk
      /\ \A q \in Path : /\ e[q].file = IF q = gone THEN 0 ELSE d[q].file
                         /\ e[q].old = (q # gone /\ d[q].old)
  BY RemovedType DEF World
<1>2. /\ fewer \in SUBSET Upgrade
      /\ \A u \in fewer : \E v \in waits : u.path = v.path
  BY WithoutCopiesType DEF World
<1>3. d[gone].file \in 0..MaxFile
  BY DEF World, Disk, Place
<1>4. more \in SUBSET (1..MaxFile)
  <2>1. d[gone].file = 0 \/ d[gone].file \in 1..MaxFile
    BY <1>3, WebSessionsAssumption
  <2>2. {d[gone].file} \ {0} \subseteq 1..MaxFile
    BY <2>1
  <2>3. er \subseteq 1..MaxFile
    BY DEF World
  <2> QED
    BY <2>2, <2>3
<1> HIDE DEF e, fewer
<1>5. ASSUME NEW x \in Session, Backed(x, d, er) PROVE Backed(x, e, more)
  <2>1. CASE x.company = Null
    BY <2>1 DEF Backed
  <2>2. CASE x.company # Null
    <3>1. x.company.path \in Path /\ x.company.file \in 1..MaxFile
      BY <2>2 DEF Session, Connection
    <3>2. x.company.file # 0
      BY <3>1, WebSessionsAssumption
    <3>3. \/ d[x.company.path].file = x.company.file
          \/ x.company.file \in er
      BY <1>5, <2>2 DEF Backed
    <3> QED
      BY <1>1, <3>1, <3>2, <3>3 DEF Backed
  <2> QED
    BY <2>1, <2>2
<1>6. Backed(s, e, more)
  BY <1>5 DEF World
<1>7. \A u \in Live \ {t} : sessions[u] \in Session /\ Backed(sessions[u], e, more)
  BY <1>5 DEF World
<1>8. ClientUnused(s, e, fewer)
  BY <1>1, <1>2 DEF World, ClientUnused
<1>9. \A q \in Path : e[q].old => e[q].file # 0
  BY <1>1 DEF World
<1>10. World(t, s, e, fewer, more)
  BY <1>1, <1>2, <1>4, <1>6, <1>7, <1>8, <1>9 DEF World
<1> QED
  BY <1>10 DEF e, fewer

-----------------------------------------------------------------------------
(* A request keeps the invariant *)

\* What a request of t that started from those rows comes to.
Leads(t, rows) ==
    /\ \E s \in Session : /\ World(t, s, disk', upgrades', erased')
                          /\ sessions' = [sessions EXCEPT ![t] = s]
    /\ row' \in Rows
    /\ \A u \in Token : row'[u] = NoRow <=> rows[u] = NoRow

LEMMA AnswerLeads ==
    ASSUME NEW t \in Token, NEW s, NEW d, NEW waits, NEW rows \in Rows, NEW ask \in Ask,
           World(t, s, d, waits, erased'), Answer(t, s, d, waits, rows, ask)
    PROVE  Leads(t, rows)
<1>1. s \in Session
  BY DEF World
<1>2. row' \in Rows /\ \A u \in Token : row'[u] = NoRow <=> rows[u] = NoRow
  BY <1>1, PersistType DEF Answer
<1>3. disk' = d /\ upgrades' = waits /\ sessions' = [sessions EXCEPT ![t] = s]
  BY DEF Answer
<1> QED
  BY <1>1, <1>2, <1>3 DEF Leads

LEMMA OpenLeads ==
    ASSUME NEW t \in Token, NEW s, NEW d, NEW waits, NEW rows \in Rows, NEW ask \in Ask,
           World(t, s, d, waits, erased), UNCHANGED erased,
           ask.do = "open", Open(t, s, d, waits, rows, ask)
    PROVE  Leads(t, rows)
<1>0. ask.path \in Path
  BY DEF Ask
<1>1. CASE /\ disk' = Copying(d, ask.path)
           /\ upgrades' = waits \cup {WaitFor(t, ask.path, Null)}
           /\ sessions' = [sessions EXCEPT ![t] = s]
           /\ row' = rows
           /\ NeedsCopy(d[ask.path])
  <2>1. d[ask.path].file # 0
    BY <1>1 DEF NeedsCopy
  <2>2. World(t, s, disk', upgrades', erased')
    BY <1>0, <1>1, <2>1, WorldCopying
  <2>3. s \in Session
    BY DEF World
  <2> QED
    BY <1>1, <2>2, <2>3 DEF Leads
<1>2. CASE /\ Answer(t, Opened(s, d, ask.path), Upgraded(d, ask.path), waits, rows, ask)
           /\ Ready(d[ask.path])
  <2>1. d[ask.path].file # 0
    BY <1>2 DEF Ready
  <2>2. World(t, Opened(s, d, ask.path), d, waits, erased)
    BY <1>0, <2>1, WorldOpened
  <2>3. World(t, Opened(s, d, ask.path), Upgraded(d, ask.path), waits, erased')
    BY <1>0, <2>2, WorldUpgraded
  <2> QED
    BY <1>2, <2>3, AnswerLeads
<1>3. CASE Answer(t, s, d, waits, rows, ask)
  BY <1>3, AnswerLeads
<1> QED
  BY <1>1, <1>2, <1>3 DEF Open

LEMMA CreateLeads ==
    ASSUME NEW t \in Token, NEW s, NEW d, NEW waits, NEW rows \in Rows, NEW ask \in Ask,
           World(t, s, d, waits, erased), UNCHANGED erased,
           ask.do = "create", Create(t, s, d, waits, rows, ask)
    PROVE  Leads(t, rows)
<1> DEFINE p == <<"firm", ask.name>>
<1>0. p \in Path /\ FolderOf(p) # "client"
  BY DEF Ask, Path, Folder, FolderOf
<1>1. CASE /\ d[p].file = 0
           /\ \E n \in Fresh(d) :
                LET made == [d EXCEPT ![p].file = n, ![p].old = FALSE]
                IN  Answer(t, Opened(s, made, p), made, waits, rows, ask)
  <2>1. PICK n \in Fresh(d) :
            Answer(t, Opened(s, [d EXCEPT ![p].file = n, ![p].old = FALSE], p),
                   [d EXCEPT ![p].file = n, ![p].old = FALSE], waits, rows, ask)
    BY <1>1
  <2> DEFINE made == [d EXCEPT ![p].file = n, ![p].old = FALSE]
  <2>2. n \in 1..MaxFile /\ n # 0
    BY WebSessionsAssumption DEF Fresh
  <2>3. d \in Disk
    BY DEF World
  <2> HIDE DEF p
  <2>4. d[p] \in Place
    BY <1>0, <2>3 DEF Disk
  <2>5. [d[p] EXCEPT !.file = n, !.old = FALSE] \in Place
    BY <2>2, <2>4, PlaceFilled
  <2>6. made \in Disk
    BY <1>0, <2>3, <2>5 DEF Disk
  <2>7. made[p].file = n /\ \A q \in Path \ {p} : made[q] = d[q]
    BY <1>0, <2>3, <2>4 DEF Disk, Place
  <2> HIDE DEF made
  <2>8. World(t, s, made, waits, erased')
    BY <1>0, <1>1, <2>2, <2>6, <2>7, WorldFilled
  <2>9. World(t, Opened(s, made, p), made, waits, erased')
    BY <1>0, <2>2, <2>7, <2>8, WorldOpened
  <2>10. Answer(t, Opened(s, made, p), made, waits, rows, ask)
    BY <2>1 DEF made
  <2> QED
    BY <2>9, <2>10, AnswerLeads
<1>2. CASE Answer(t, s, d, waits, rows, ask)
  BY <1>2, AnswerLeads
<1> QED
  BY <1>1, <1>2 DEF Create

LEMMA DeleteLeads ==
    ASSUME NEW t \in Token, NEW s, NEW d, NEW waits, NEW rows \in Rows, NEW ask \in Ask,
           World(t, s, d, waits, erased), Delete(t, s, d, waits, rows, ask)
    PROVE  Leads(t, rows)
<1>1. CASE s.company = Null
  BY <1>1, AnswerLeads DEF Delete
<1>2. CASE s.company # Null
  <2> DEFINE p == s.company.path
  <2>1. p \in Path
    BY <1>2 DEF World, Session, Connection
  <2>2. /\ Answer(t, [s EXCEPT !.company = Null], Removed(d, p),
                  WithoutCopies(waits, p), rows, ask)
        /\ erased' = erased \cup ({d[p].file} \ {0})
    BY <1>2 DEF Delete
  <2> HIDE DEF p
  <2>3. World(t, s, Removed(d, p), WithoutCopies(waits, p), erased')
    BY <2>1, <2>2, WorldRemoved
  <2>4. World(t, [s EXCEPT !.company = Null], Removed(d, p), WithoutCopies(waits, p), erased')
    BY <2>3, WorldClosed
  <2> QED
    BY <2>2, <2>4, AnswerLeads
<1> QED
  BY <1>1, <1>2

LEMMA HandleLeads ==
    ASSUME NEW t \in Token, NEW s0, NEW d, NEW waits, NEW rows \in Rows, NEW ask \in Ask,
           World(t, s0, d, waits, erased), Handle(t, s0, d, waits, rows, ask)
    PROVE  Leads(t, rows) /\ UNCHANGED <<store, issued>>
<1> DEFINE s == Allowed(s0)
<1>1. World(t, s, d, waits, erased)
  BY WorldClosed DEF Allowed
<1> HIDE DEF s
<1>2. ASSUME ask.do = "use", Answer(t, s, d, waits, rows, ask), UNCHANGED erased
      PROVE  Leads(t, rows)
  BY <1>1, <1>2, AnswerLeads
<1>3. ASSUME ask.do = "close", UNCHANGED erased,
             Answer(t, [s EXCEPT !.company = Null], d, waits, rows, ask)
      PROVE  Leads(t, rows)
  <2>1. World(t, [s EXCEPT !.company = Null], d, waits, erased')
    BY <1>1, <1>3, WorldClosed
  <2> QED
    BY <1>3, <2>1, AnswerLeads
<1>4. ASSUME ask.do = "open", Open(t, s, d, waits, rows, ask), UNCHANGED erased
      PROVE  Leads(t, rows)
  BY <1>1, <1>4, OpenLeads
<1>5. ASSUME ask.do = "create", Create(t, s, d, waits, rows, ask), UNCHANGED erased
      PROVE  Leads(t, rows)
  BY <1>1, <1>5, CreateLeads
<1>6. ASSUME ask.do = "delete", Delete(t, s, d, waits, rows, ask)
      PROVE  Leads(t, rows)
  BY <1>1, <1>6, DeleteLeads
<1>7. UNCHANGED <<store, issued>>
  BY DEF Handle
<1> QED
  BY <1>2, <1>3, <1>4, <1>5, <1>6, <1>7 DEF Handle, s

LEMMA InvOfLeads ==
    ASSUME Inv, NEW t \in Token, NEW rows \in Rows, Leads(t, rows),
           UNCHANGED store, issued' \subseteq Token,
           rows[t] # NoRow,
           \A u \in Token \ {t} : rows[u] = NoRow => row[u] = NoRow
    PROVE  Inv'
<1>1. PICK s \in Session : /\ World(t, s, disk', upgrades', erased')
                           /\ sessions' = [sessions EXCEPT ![t] = s]
  BY DEF Leads
<1>2. sessions \in [Token -> Session \cup {Null}]
  BY DEF Inv, TypeOK
<1>3. sessions'[t] = s /\ \A u \in Token \ {t} : sessions'[u] = sessions[u]
  BY <1>1, <1>2
<1>4. TypeOK'
  <2>1. /\ row' \in Rows /\ sessions' \in [Token -> Session \cup {Null}]
        /\ disk' \in Disk /\ upgrades' \in SUBSET Upgrade /\ erased' \subseteq 1..MaxFile
    BY <1>1, <1>2 DEF Leads, World
  <2>2. /\ scope' \in [Token -> Scope] /\ active' \in [Token -> BOOLEAN]
        /\ linked' \in BOOLEAN /\ moved' \in BOOLEAN
    BY DEF store, Inv, TypeOK
  <2> QED
    BY <2>1, <2>2 DEF TypeOK, Rows, Disk
<1>5. Ended'
  BY <1>3 DEF Ended, Inv, Leads
<1>6. \A u \in Token : sessions'[u] # Null => Backed(sessions'[u], disk', erased')
  BY <1>1, <1>3 DEF World, Live
<1>7. OpenIsOnDisk'
  BY <1>6 DEF OpenIsOnDisk, Backed, Live
<1>8. ~moved' => /\ \A p \in Path : FolderOf(p) = "client" => disk'[p].file = 0
                 /\ \A u \in Token : sessions'[u] # Null /\ sessions'[u].company # Null
                        => FolderOf(sessions'[u].company.path) # "client"
                 /\ \A u \in upgrades' : FolderOf(u.path) # "client"
  BY <1>1, <1>3 DEF World, ClientUnused, Inv, Live, store
<1>9. \A p \in Path : disk'[p].old => disk'[p].file # 0
  BY <1>1 DEF World
<1> QED
  BY <1>4, <1>5, <1>7, <1>8, <1>9 DEF Inv, Live

-----------------------------------------------------------------------------
(* The steps *)

LEMMA RequestLeads ==
    ASSUME Inv, NEW t \in Token, NEW ask \in Ask, Request(t, ask)
    PROVE  /\ Leads(t, Persist(row, t, SessionOf(t)))
           /\ UNCHANGED <<store, issued>>
<1> DEFINE s == SessionOf(t)
           rows == Persist(row, t, s)
           p == s.pending
           ready == [s EXCEPT !.pending = Null]
           wanted == p # Null /\ p \in Reach(s.user) /\ ~At(s, p)
<1>1. s \in Session
  BY SessionType DEF Inv
<1>2. t \in Live => s.company = sessions[t].company
  BY DEF SessionOf, Inv, TypeOK, Session, Live
<1>3. t \notin Live => s.company = Null
  BY DEF SessionOf, Restored
<1>4. row \in Rows
  BY DEF Inv, TypeOK, Rows
<1> HIDE DEF s
<1>5. rows \in Rows
  BY <1>1, <1>4, PersistType
<1>6. ready \in Session /\ ready.company = s.company
  BY <1>1 DEF Session
<1>7. wanted => p \in Path
  BY DEF Reach
<1> HIDE DEF rows, p, ready, wanted
<1>8. World(t, ready, disk, upgrades, erased)
  BY <1>2, <1>3, <1>6, WorldOfState
<1>9. \/ /\ wanted /\ NeedsCopy(disk[p])
         /\ disk' = Copying(disk, p)
         /\ upgrades' = upgrades \cup {WaitFor(t, p, ask)}
         /\ sessions' = [sessions EXCEPT ![t] = ready]
         /\ row' = rows
         /\ UNCHANGED <<store, erased, issued>>
      \/ /\ wanted /\ Ready(disk[p])
         /\ Handle(t, Opened(ready, disk, p), Upgraded(disk, p), upgrades, rows, ask)
      \/ Handle(t, ready, disk, upgrades, rows, ask)
  BY Zenon DEF Request, s, rows, p, ready, wanted
<1>10. CASE /\ wanted /\ NeedsCopy(disk[p])
            /\ disk' = Copying(disk, p)
            /\ upgrades' = upgrades \cup {WaitFor(t, p, ask)}
            /\ sessions' = [sessions EXCEPT ![t] = ready]
            /\ row' = rows
            /\ UNCHANGED <<store, erased, issued>>
  <2>1. disk[p].file # 0
    BY <1>10 DEF NeedsCopy
  <2>2. World(t, ready, disk', upgrades', erased')
    BY <1>7, <1>8, <1>10, <2>1, WorldCopying
  <2> QED
    BY <1>5, <1>6, <1>10, <2>2 DEF Leads, rows, s
<1>11. CASE /\ wanted /\ Ready(disk[p])
            /\ Handle(t, Opened(ready, disk, p), Upgraded(disk, p), upgrades, rows, ask)
  <2>1. disk[p].file # 0
    BY <1>11 DEF Ready
  <2>2. World(t, Opened(ready, disk, p), disk, upgrades, erased)
    BY <1>7, <1>8, <1>11, <2>1, WorldOpened
  <2>3. World(t, Opened(ready, disk, p), Upgraded(disk, p), upgrades, erased)
    BY <1>7, <1>11, <2>2, WorldUpgraded
  <2> QED
    BY <1>5, <1>11, <2>3, HandleLeads DEF rows, s
<1>12. CASE Handle(t, ready, disk, upgrades, rows, ask)
  BY <1>5, <1>8, <1>12, HandleLeads DEF rows, s
<1> QED
  BY <1>9, <1>10, <1>11, <1>12

\* The disk once the company of a wait is open.
Finished(u, n) == [disk EXCEPT ![u.path].file = n, ![u.path].old = FALSE, ![u.path].whole = TRUE]

LEMMA FinishedFacts ==
    ASSUME Inv, NEW u \in upgrades,
           NEW n \in IF disk[u.path].file = 0 THEN Fresh(disk) ELSE {disk[u.path].file}
    PROVE  /\ u \in Upgrade /\ u.path \in Path /\ u.token \in Token
           /\ n \in 1..MaxFile /\ n # 0
           /\ disk[u.path].file # 0 => n = disk[u.path].file
           /\ Finished(u, n) \in Disk
           /\ Finished(u, n)[u.path].file = n
           /\ ~Finished(u, n)[u.path].old /\ Finished(u, n)[u.path].whole
           /\ \A q \in Path \ {u.path} : Finished(u, n)[q] = disk[q]
<1>1. u \in Upgrade /\ u.path \in Path /\ u.token \in Token
  BY DEF Inv, TypeOK, Upgrade
<1>2. disk \in Disk /\ disk[u.path] \in Place
  BY <1>1 DEF Inv, TypeOK, Disk
<1>3. n \in 1..MaxFile /\ n # 0
  BY <1>2, WebSessionsAssumption DEF Fresh, Place
<1>4. [disk[u.path] EXCEPT !.file = n, !.old = FALSE, !.whole = TRUE] \in Place
  BY <1>2, <1>3, PlaceFilled
<1> QED
  BY <1>1, <1>2, <1>3, <1>4 DEF Finished, Disk, Place

\* Whoever had an upgraded file open still has it.
LEMMA FinishedKeeps ==
    ASSUME Inv, NEW u \in upgrades,
           NEW n \in IF disk[u.path].file = 0 THEN Fresh(disk) ELSE {disk[u.path].file},
           NEW x \in Session, Backed(x, disk, erased)
    PROVE  Backed(x, Finished(u, n), erased)
<1>1. /\ u.path \in Path
      /\ disk[u.path].file # 0 => n = disk[u.path].file
      /\ Finished(u, n)[u.path].file = n
      /\ \A q \in Path \ {u.path} : Finished(u, n)[q] = disk[q]
  BY FinishedFacts
<1>2. CASE x.company = Null
  BY <1>2 DEF Backed
<1>3. CASE x.company # Null
  <2>1. x.company.path \in Path /\ x.company.file \in 1..MaxFile /\ x.company.file # 0
    BY <1>3, WebSessionsAssumption DEF Session, Connection
  <2>2. disk[x.company.path].file = x.company.file \/ x.company.file \in erased
    BY <1>3 DEF Backed
  <2>3. \/ Finished(u, n)[x.company.path].file = x.company.file
        \/ x.company.file \in erased
    BY <1>1, <2>1, <2>2
  <2> QED
    BY <2>3 DEF Backed
<1> QED
  BY <1>2, <1>3

\* With the company of the wait open, the world is sound for the waiting session.
LEMMA WorldFinished ==
    ASSUME Inv, NEW u \in upgrades, u.token \in Live,
           NEW n \in IF disk[u.path].file = 0 THEN Fresh(disk) ELSE {disk[u.path].file}
    PROVE  World(u.token, Opened(sessions[u.token], Finished(u, n), u.path), Finished(u, n),
                 upgrades \ {u}, erased)
<1> DEFINE d == Finished(u, n)
           s == sessions[u.token]
<1>1. /\ u.path \in Path /\ u.token \in Token
      /\ n # 0 /\ d \in Disk /\ d[u.path].file = n /\ ~d[u.path].old
      /\ \A q \in Path \ {u.path} : d[q] = disk[q]
  BY FinishedFacts
<1>2. s \in Session
  BY <1>1 DEF Inv, TypeOK, Live
<1>3. World(u.token, s, disk, upgrades, erased)
  BY <1>1, <1>2, WorldOfState
<1>4. \A x \in Session : Backed(x, disk, erased) => Backed(x, d, erased)
  BY FinishedKeeps
<1>5. ~moved => FolderOf(u.path) # "client"
  BY DEF Inv
<1> HIDE DEF d, s
<1>6. ClientUnused(s, d, upgrades \ {u})
  BY <1>1, <1>3, <1>5 DEF World, ClientUnused
<1>7. \A q \in Path : d[q].old => d[q].file # 0
  BY <1>1, <1>3 DEF World
<1>8. World(u.token, s, d, upgrades \ {u}, erased)
  BY <1>1, <1>3, <1>4, <1>6, <1>7 DEF World
<1> QED
  BY <1>1, <1>8, WorldOpened DEF d, s

LEMMA ResumeLeads ==
    ASSUME Inv, NEW u \in upgrades, NEW s, NEW d, World(u.token, s, d, upgrades \ {u}, erased),
           Resume(u, s, d, upgrades \ {u})
    PROVE  Leads(u.token, row) /\ UNCHANGED <<store, issued>>
<1>1. /\ u.token \in Token /\ u.path \in Path /\ u.next \in Ask \cup {Null}
      /\ row \in Rows
  BY DEF Inv, TypeOK, Upgrade, Rows
<1>2. CASE u.next = Null
  <2>1. [do |-> "open", path |-> u.path] \in Ask
    BY <1>1 DEF Ask
  <2>2. /\ Answer(u.token, s, d, upgrades \ {u}, row, [do |-> "open", path |-> u.path])
        /\ UNCHANGED <<store, erased, issued>>
    BY <1>2 DEF Resume
  <2>3. World(u.token, s, d, upgrades \ {u}, erased')
    BY <2>2
  <2> QED
    BY <1>1, <2>1, <2>2, <2>3, AnswerLeads
<1>3. CASE u.next # Null
  <2>1. Handle(u.token, s, d, upgrades \ {u}, row, u.next)
    BY <1>3 DEF Resume
  <2>2. u.next \in Ask
    BY <1>1, <1>3
  <2> QED
    BY <1>1, <2>1, <2>2, HandleLeads
<1> QED
  BY <1>2, <1>3

\* A step that opens nothing.
LEMMA QuietKeepsInv ==
    ASSUME Inv, row' \in Rows, disk' \in Disk, upgrades' \subseteq upgrades,
           scope' \in [Token -> Scope], active' \in [Token -> BOOLEAN],
           linked' \in BOOLEAN, moved' \in BOOLEAN, UNCHANGED <<erased, issued>>,
           sessions' \in [Token -> Session \cup {Null}],
           \A t \in Token : sessions'[t] # Null
                => /\ sessions'[t] = sessions[t] /\ row'[t] # NoRow
                   /\ Backed(sessions[t], disk', erased),
           \A p \in Path : disk'[p].old => disk'[p].file # 0,
           ~moved' => ~moved /\ \A p \in Path : FolderOf(p) = "client" => disk'[p].file = 0
    PROVE  Inv'
<1>1. TypeOK'
  BY DEF Inv, TypeOK, Rows, Disk
<1>2. Ended'
  BY DEF Ended
<1>3. \A t \in Live' : t \in Live /\ sessions'[t] = sessions[t]
  BY DEF Live
<1>4. OpenIsOnDisk'
  BY <1>3 DEF OpenIsOnDisk, Backed, Live
<1>5. ~moved' => /\ \A t \in Live' : sessions'[t].company # Null
                       => FolderOf(sessions'[t].company.path) # "client"
                 /\ \A u \in upgrades' : FolderOf(u.path) # "client"
  BY <1>3 DEF Inv
<1> QED
  BY <1>1, <1>2, <1>4, <1>5 DEF Inv

\* The answer to a request whose session has ended.
LEMMA AbandonKeepsInv ==
    ASSUME Inv, NEW u \in upgrades, NEW d \in Disk, Abandon(u, d, upgrades \ {u}),
           \A x \in Session : Backed(x, disk, erased) => Backed(x, d, erased),
           \A p \in Path : d[p].old => d[p].file # 0,
           ~moved => \A p \in Path : FolderOf(p) = "client" => d[p].file = 0
    PROVE  Inv'
<1>1. /\ u.token \in Token /\ u.path \in Path \cup {Null} /\ row \in Rows
      /\ sessions \in [Token -> Session \cup {Null}]
  BY DEF Inv, TypeOK, Upgrade, Rows
<1>2. row' \in Rows /\ \A t \in Token : row'[t] = NoRow <=> row[t] = NoRow
  BY <1>1, TouchType DEF Abandon
<1>3. \A t \in Token : sessions[t] # Null => row[t] # NoRow /\ sessions[t] \in Session
                                             /\ Backed(sessions[t], disk, erased)
  BY <1>1 DEF Inv, Ended, OpenIsOnDisk, Backed, Live
<1>4. /\ disk' = d /\ upgrades' = upgrades \ {u}
      /\ UNCHANGED <<scope, active, linked, moved, erased, issued, sessions>>
  BY DEF Abandon, store
<1>5. /\ scope' \in [Token -> Scope] /\ active' \in [Token -> BOOLEAN]
      /\ linked' \in BOOLEAN /\ moved' \in BOOLEAN
  BY <1>4 DEF Inv, TypeOK
<1>6. \A t \in Token : sessions'[t] # Null
                => /\ sessions'[t] = sessions[t] /\ row'[t] # NoRow
                   /\ Backed(sessions[t], disk', erased)
  BY <1>2, <1>3, <1>4
<1> QED
  BY <1>1, <1>2, <1>4, <1>5, <1>6, QuietKeepsInv

LEMMA FinishKeepsInv ==
    ASSUME Inv, NEW u \in upgrades, FinishUpgrade(u)
    PROVE  Inv'
<1>1. PICK n \in IF disk[u.path].file = 0 THEN Fresh(disk) ELSE {disk[u.path].file} :
          IF u.token \in Live
          THEN Resume(u, Opened(sessions[u.token], Finished(u, n), u.path), Finished(u, n),
                      upgrades \ {u})
          ELSE Abandon(u, Finished(u, n), upgrades \ {u})
  BY DEF FinishUpgrade, Finished
<1>2. /\ u.path \in Path /\ u.token \in Token
      /\ n # 0 /\ Finished(u, n) \in Disk /\ Finished(u, n)[u.path].file = n
      /\ ~Finished(u, n)[u.path].old
      /\ \A q \in Path \ {u.path} : Finished(u, n)[q] = disk[q]
  BY FinishedFacts
<1>3. row \in Rows
  BY DEF Inv, TypeOK, Rows
<1>4. CASE u.token \in Live
  <2>1. World(u.token, Opened(sessions[u.token], Finished(u, n), u.path), Finished(u, n),
              upgrades \ {u}, erased)
    BY <1>4, WorldFinished
  <2>2. Leads(u.token, row) /\ UNCHANGED <<store, issued>>
    BY <1>1, <1>4, <2>1, ResumeLeads
  <2>3. row[u.token] # NoRow
    BY <1>2, <1>4 DEF Inv, Ended, Live
  <2>4. issued' \subseteq Token
    BY <2>2 DEF Inv, TypeOK
  <2> QED
    BY <1>2, <1>3, <2>2, <2>3, <2>4, InvOfLeads
<1>5. CASE u.token \notin Live
  <2>1. \A x \in Session : Backed(x, disk, erased) => Backed(x, Finished(u, n), erased)
    BY FinishedKeeps
  <2>2. \A p \in Path : Finished(u, n)[p].old => Finished(u, n)[p].file # 0
    BY <1>2 DEF Inv
  <2>3. ~moved => \A p \in Path : FolderOf(p) = "client" => Finished(u, n)[p].file = 0
    BY <1>2 DEF Inv
  <2> QED
    BY <1>1, <1>2, <1>5, <2>1, <2>2, <2>3, AbandonKeepsInv
<1> QED
  BY <1>4, <1>5

LEMMA FailKeepsInv ==
    ASSUME Inv, NEW u \in upgrades, FailUpgrade(u)
    PROVE  Inv'
<1>1. /\ u.token \in Token /\ row \in Rows /\ disk \in Disk
  BY DEF Inv, TypeOK, Upgrade, Rows, Disk
<1>2. CASE u.token \in Live
  <2>1. sessions[u.token] \in Session
    BY <1>1, <1>2 DEF Inv, TypeOK, Live
  <2>2. World(u.token, sessions[u.token], disk, upgrades, erased)
    BY <1>1, <1>2, <2>1, WorldOfState
  <2>3. World(u.token, sessions[u.token], disk, upgrades \ {u}, erased)
    BY <2>2 DEF World, ClientUnused
  <2>4. Resume(u, sessions[u.token], disk, upgrades \ {u})
    BY <1>2 DEF FailUpgrade
  <2>5. Leads(u.token, row) /\ UNCHANGED <<store, issued>>
    BY <2>3, <2>4, ResumeLeads
  <2>6. row[u.token] # NoRow
    BY <1>1, <1>2 DEF Inv, Ended, Live
  <2>7. issued' \subseteq Token
    BY <2>5 DEF Inv, TypeOK
  <2> QED
    BY <1>1, <2>5, <2>6, <2>7, InvOfLeads
<1>3. CASE u.token \notin Live
  <2>1. Abandon(u, disk, upgrades \ {u})
    BY <1>3 DEF FailUpgrade
  <2>2. /\ \A p \in Path : disk[p].old => disk[p].file # 0
        /\ ~moved => \A p \in Path : FolderOf(p) = "client" => disk[p].file = 0
    BY DEF Inv
  <2> QED
    BY <1>1, <2>1, <2>2, AbandonKeepsInv
<1> QED
  BY <1>2, <1>3

LEMMA SignInKeepsInv ==
    ASSUME Inv, NEW t \in Token, SignIn(t)
    PROVE  Inv'
<1> DEFINE s == [company |-> Null, pending |-> Null, user |-> scope[t]]
           rows == [row EXCEPT ![t] = Null]
<1>1. s \in Session /\ s.company = Null
  BY DEF Inv, TypeOK, Session
<1>2. rows \in Rows /\ rows[t] = Null /\ \A u \in Token \ {t} : rows[u] = row[u]
  BY DEF Inv, TypeOK, Rows
<1>3. /\ row' = rows /\ sessions' = [sessions EXCEPT ![t] = s]
      /\ issued' = issued \cup {t} /\ UNCHANGED <<store, disk, erased, upgrades>>
  BY DEF SignIn
<1> HIDE DEF s, rows
<1>4. World(t, s, disk', upgrades', erased')
  BY <1>1, <1>3, WorldOfState
<1>5. Leads(t, rows)
  BY <1>1, <1>2, <1>3, <1>4 DEF Leads
<1>6. issued' \subseteq Token
  BY <1>3 DEF Inv, TypeOK
<1> QED
  BY <1>2, <1>3, <1>5, <1>6, Apart, InvOfLeads

LEMMA RestType ==
    ASSUME TypeOK, NEW t \in Token, NEW name \in Name
    PROVE  ScopeWithout(t, name) \in Scope
BY DEF ScopeWithout, Rest, TypeOK, Scope

\* A company is moved only while nobody has it open, to a place nobody uses yet.
LEMMA ClientMoveKeepsInv ==
    ASSUME Inv, NEW name \in Name, ClientMove(name)
    PROVE  Inv'
<1> DEFINE from == <<"firm", name>>
           to == <<"client", name>>
<1>1. from \in Path /\ to \in Path /\ from # to /\ FolderOf(to) = "client"
  BY DEF Path, Folder, FolderOf
<1>2. /\ ~moved /\ moved' = TRUE /\ linked' = TRUE
      /\ disk' = [disk EXCEPT ![to].file = disk[from].file, ![to].old = disk[from].old,
                              ![from].file = 0, ![from].old = FALSE]
      /\ scope' = [t \in Token |-> ScopeWithout(t, name)]
      /\ active' = [t \in Token |-> active[t] /\ Rest(t, name) # {}]
      /\ UNCHANGED <<row, erased, issued, sessions, upgrades>>
      /\ \A t \in Live : ~At(sessions[t], from)
  BY DEF ClientMove, OpenAnywhere
<1>3. disk \in Disk /\ disk[from] \in Place /\ disk[to] \in Place
  BY <1>1 DEF Inv, TypeOK, Disk
<1>4. MaxFile \in Nat
  BY WebSessionsAssumption
<1>5. ASSUME NEW a \in Place, NEW b \in Place
      PROVE  /\ [a EXCEPT !.file = b.file, !.old = b.old] \in Place
             /\ [a EXCEPT !.file = 0, !.old = FALSE] \in Place
  <2>1. b.file \in 0..MaxFile /\ b.old \in BOOLEAN /\ 0 \in 0..MaxFile
    BY <1>4 DEF Place
  <2>2. [a EXCEPT !.file = b.file, !.old = b.old] \in Place
    BY <2>1 DEF Place
  <2>3. [a EXCEPT !.file = 0, !.old = FALSE] \in Place
    BY <2>1 DEF Place
  <2> QED
    BY <2>2, <2>3
<1> HIDE DEF from, to
<1>6. disk' \in Disk
  BY <1>1, <1>2, <1>3, <1>5 DEF Disk
<1>7. /\ disk'[from].file = 0 /\ ~disk'[from].old
      /\ disk'[to].file = disk[from].file /\ disk'[to].old = disk[from].old
      /\ \A p \in Path \ {from, to} : disk'[p] = disk[p]
  BY <1>1, <1>2, <1>3 DEF Disk, Place
<1>8. \A p \in Path : disk'[p].old => disk'[p].file # 0
  BY <1>1, <1>7 DEF Inv
<1>9. ASSUME NEW t \in Token, sessions[t] # Null
      PROVE  Backed(sessions[t], disk', erased) /\ row[t] # NoRow
  <2>1. sessions[t] \in Session /\ Backed(sessions[t], disk, erased) /\ row[t] # NoRow
    BY <1>9 DEF Inv, TypeOK, OpenIsOnDisk, Backed, Live, Ended
  <2>2. CASE sessions[t].company = Null
    BY <2>1, <2>2 DEF Backed
  <2>3. CASE sessions[t].company # Null
    <3>1. sessions[t].company.path \in Path \ {from, to}
      BY <1>1, <1>2, <1>9, <2>1, <2>3 DEF Inv, Live, At, Session, Connection
    <3> QED
      BY <1>7, <2>1, <3>1 DEF Backed
  <2> QED
    BY <2>2, <2>3
<1>10. scope' \in [Token -> Scope] /\ active' \in [Token -> BOOLEAN]
  BY <1>2, RestType DEF Inv, TypeOK
<1>11. row' \in Rows /\ sessions' \in [Token -> Session \cup {Null}]
  BY <1>2 DEF Inv, TypeOK, Rows
<1> QED
  BY <1>2, <1>6, <1>8, <1>9, <1>10, <1>11, QuietKeepsInv

LEMMA PutCompanyKeepsInv ==
    ASSUME Inv, NEW name \in Name, PutCompany(name)
    PROVE  Inv'
<1> DEFINE p == <<"firm", name>>
<1>1. p \in Path /\ FolderOf(p) # "client"
  BY DEF Path, Folder, FolderOf
<1>2. PICK n \in Fresh(disk), old \in BOOLEAN :
          /\ disk[p].file # 0 => ~OpenAnywhere(p)
          /\ disk' = [disk EXCEPT ![p].file = n, ![p].old = old]
          /\ UNCHANGED <<row, store, erased, issued, sessions, upgrades>>
  BY DEF PutCompany
<1>3. disk \in Disk /\ disk[p] \in Place
  BY <1>1 DEF Inv, TypeOK, Disk
<1>4. n \in 0..MaxFile /\ n # 0
  BY WebSessionsAssumption DEF Fresh
<1>5. ASSUME NEW a \in Place PROVE [a EXCEPT !.file = n, !.old = old] \in Place
  BY <1>4 DEF Place
<1> HIDE DEF p
<1>6. disk' \in Disk /\ disk'[p].file = n /\ \A q \in Path \ {p} : disk'[q] = disk[q]
  BY <1>1, <1>2, <1>3, <1>5 DEF Disk, Place
<1>7. \A q \in Path : disk'[q].old => disk'[q].file # 0
  BY <1>4, <1>6 DEF Inv
<1>8. ASSUME NEW t \in Token, sessions[t] # Null
      PROVE  Backed(sessions[t], disk', erased) /\ row[t] # NoRow
  <2>1. sessions[t] \in Session /\ Backed(sessions[t], disk, erased) /\ row[t] # NoRow
    BY <1>8 DEF Inv, TypeOK, OpenIsOnDisk, Backed, Live, Ended
  <2>2. CASE ~At(sessions[t], p)
    BY <1>6, <2>1, <2>2 DEF Backed, At, Session, Connection
  <2>3. CASE At(sessions[t], p)
    <3>1. disk[p].file = 0
      BY <1>2, <1>8, <2>3 DEF OpenAnywhere, Live
    <3>2. sessions[t].company.file \in 1..MaxFile /\ sessions[t].company.file # 0
      BY <2>1, <2>3, WebSessionsAssumption DEF At, Session, Connection
    <3> QED
      BY <2>1, <2>3, <3>1, <3>2 DEF Backed, At
  <2> QED
    BY <2>2, <2>3
<1>9. ~moved' => ~moved /\ \A q \in Path : FolderOf(q) = "client" => disk'[q].file = 0
  BY <1>1, <1>2, <1>6 DEF Inv, store
<1>10. /\ row' \in Rows /\ sessions' \in [Token -> Session \cup {Null}]
       /\ scope' \in [Token -> Scope] /\ active' \in [Token -> BOOLEAN]
       /\ linked' \in BOOLEAN /\ moved' \in BOOLEAN
  BY <1>2 DEF Inv, TypeOK, Rows, store
<1> QED
  BY <1>2, <1>6, <1>7, <1>8, <1>9, <1>10, QuietKeepsInv

\* The process stops: only what is on disk stays.
LEMMA StopKeepsInv ==
    ASSUME Inv, Stop, disk' \in Disk, \A p \in Path : disk'[p].file = disk[p].file,
           \A p \in Path : disk'[p].old => disk'[p].file # 0
    PROVE  Inv'
<1>1. /\ \A t \in Token : sessions'[t] = Null
      /\ sessions' \in [Token -> Session \cup {Null}] /\ upgrades' \subseteq upgrades
      /\ UNCHANGED <<row, scope, active, linked, moved, erased, issued>>
  BY DEF Stop, store
<1>2. /\ row' \in Rows /\ scope' \in [Token -> Scope] /\ active' \in [Token -> BOOLEAN]
      /\ linked' \in BOOLEAN /\ moved' \in BOOLEAN
  BY <1>1 DEF Inv, TypeOK, Rows
<1>3. ~moved' => ~moved /\ \A q \in Path : FolderOf(q) = "client" => disk'[q].file = 0
  BY <1>1 DEF Inv
<1> QED
  BY <1>1, <1>2, <1>3, QuietKeepsInv

LEMMA StepInv == Inv /\ [Next]_vars => Inv'
<1> SUFFICES ASSUME Inv, [Next]_vars PROVE Inv'
  OBVIOUS
<1>0. /\ row \in Rows /\ disk \in Disk /\ sessions \in [Token -> Session \cup {Null}]
      /\ scope \in [Token -> Scope] /\ active \in [Token -> BOOLEAN]
      /\ linked \in BOOLEAN /\ moved \in BOOLEAN /\ issued \subseteq Token
      /\ \A p \in Path : disk[p].old => disk[p].file # 0
      /\ ~moved => \A p \in Path : FolderOf(p) = "client" => disk[p].file = 0
  BY DEF Inv, TypeOK, Rows, Disk
<1>a. \A t \in Token : sessions[t] # Null
          => sessions[t] \in Session /\ row[t] # NoRow /\ Backed(sessions[t], disk, erased)
  BY <1>0 DEF Inv, Ended, OpenIsOnDisk, Backed, Live
<1>1. ASSUME NEW t \in Token, SignIn(t) PROVE Inv'
  BY <1>1, SignInKeepsInv
<1>2. ASSUME NEW t \in Token, SignOut(t) PROVE Inv'
  <2>1. /\ row' = [row EXCEPT ![t] = NoRow] /\ sessions' = [sessions EXCEPT ![t] = Null]
        /\ UNCHANGED <<scope, active, linked, moved, disk, erased, issued, upgrades>>
    BY <1>2 DEF SignOut, Forget, store
  <2>2. row' \in Rows /\ sessions' \in [Token -> Session \cup {Null}]
    BY <1>0, <2>1 DEF Rows
  <2>3. \A v \in Token : sessions'[v] # Null => v # t /\ sessions'[v] = sessions[v]
    BY <1>0, <2>1
  <2>4. \A v \in Token \ {t} : row'[v] = row[v]
    BY <2>1 DEF Rows
  <2> QED
    BY <1>0, <1>a, <2>1, <2>2, <2>3, <2>4, QuietKeepsInv
<1>3. ASSUME NEW t \in Token, IdleDrop(t) PROVE Inv'
  <2>1. /\ row' = Touch(row, t, OpenPath(sessions[t]))
        /\ sessions' = [sessions EXCEPT ![t] = Null] /\ t \in Live
        /\ UNCHANGED <<scope, active, linked, moved, disk, erased, issued, upgrades>>
    BY <1>3 DEF IdleDrop, store
  <2>2. OpenPath(sessions[t]) \in Path \cup {Null}
    BY <1>a, <2>1, OpenPathType DEF Live
  <2>3. row' \in Rows /\ \A v \in Token : row'[v] = NoRow <=> row[v] = NoRow
    BY <1>0, <2>1, <2>2, TouchType
  <2>4. /\ sessions' \in [Token -> Session \cup {Null}]
        /\ \A v \in Token : sessions'[v] # Null => sessions'[v] = sessions[v]
    BY <1>0, <2>1
  <2> QED
    BY <1>0, <1>a, <2>1, <2>3, <2>4, QuietKeepsInv
<1>4. ASSUME NEW t \in Token, NEW ask \in Ask, Request(t, ask) PROVE Inv'
  <2>1. /\ Leads(t, Persist(row, t, SessionOf(t)))
        /\ UNCHANGED <<store, issued>>
    BY <1>4, RequestLeads
  <2>2. /\ Persist(row, t, SessionOf(t)) \in Rows
        /\ \A v \in Token : Persist(row, t, SessionOf(t))[v] = NoRow <=> row[v] = NoRow
    BY <1>0, SessionType, PersistType DEF Inv
  <2>3. row[t] # NoRow
    BY <1>4, <1>a DEF Request, Known, Live
  <2>4. issued' \subseteq Token
    BY <1>0, <2>1
  <2> QED
    BY <2>1, <2>2, <2>3, <2>4, InvOfLeads
<1>5. ASSUME NEW t \in Member, NEW names \in Scope, SetUserAccess(t, names) PROVE Inv'
  <2>1. scope' \in [Token -> Scope]
    BY <1>0, <1>5 DEF SetUserAccess
  <2> QED
    BY <1>0, <1>5, <1>a, <2>1, QuietKeepsInv DEF SetUserAccess
<1>6. ASSUME NEW t \in Member, NEW on \in BOOLEAN, SetUserActive(t, on) PROVE Inv'
  <2>1. active' \in [Token -> BOOLEAN]
    BY <1>0, <1>6 DEF SetUserActive
  <2> QED
    BY <1>0, <1>6, <1>a, <2>1, QuietKeepsInv DEF SetUserActive
<1>7. ASSUME NEW u \in upgrades, FinishUpgrade(u) \/ FailUpgrade(u) PROVE Inv'
  BY <1>7, FinishKeepsInv, FailKeepsInv
<1>8. ASSUME NEW name \in Name, ClientMove(name) \/ PutCompany(name) PROVE Inv'
  BY <1>8, ClientMoveKeepsInv, PutCompanyKeepsInv
<1>9. ASSUME NEW on \in BOOLEAN, SetLinked(on) PROVE Inv'
  BY <1>0, <1>9, <1>a, QuietKeepsInv DEF SetLinked
<1>10. CASE Restart
  BY <1>0, <1>10, StopKeepsInv DEF Restart
<1>11. CASE Deploy
  <2>1. disk' = [p \in Path |-> [file |-> disk[p].file, old |-> disk[p].file # 0,
                                 copy |-> 0, whole |-> FALSE]]
    BY <1>11 DEF Deploy
  <2>2. \A p \in Path : disk[p].file \in 0..MaxFile
    BY <1>0 DEF Disk, Place
  <2>3. 0 \in 0..MaxFile
    BY WebSessionsAssumption
  <2>4. disk' \in Disk
    BY <2>1, <2>2, <2>3 DEF Disk, Place
  <2>5. \A p \in Path : disk'[p].file = disk[p].file /\ (disk'[p].old => disk'[p].file # 0)
    BY <2>1
  <2>6. Stop
    BY <1>11 DEF Deploy
  <2> QED
    BY <2>4, <2>5, <2>6, StopKeepsInv
<1>12. CASE UNCHANGED vars
  <2>1. /\ row' = row /\ sessions' = sessions /\ upgrades' = upgrades
        /\ UNCHANGED <<scope, active, linked, moved, disk, erased, issued>>
    BY <1>12 DEF vars
  <2> QED
    BY <1>0, <1>a, <2>1, QuietKeepsInv
<1> QED
  BY <1>1, <1>2, <1>3, <1>4, <1>5, <1>6, <1>7, <1>8, <1>9, <1>10, <1>11, <1>12 DEF Next

LEMMA InitInv == Init => Inv
<1> SUFFICES ASSUME Init PROVE Inv
  OBVIOUS
<1>1. 0 \in 0..MaxFile
  BY WebSessionsAssumption
<1>2. TypeOK
  BY <1>1 DEF Init, TypeOK, Place, Scope
<1>3. Live = {}
  BY DEF Init, Live
<1> QED
  BY <1>2, <1>3 DEF Init, Inv, Ended, OpenIsOnDisk

-----------------------------------------------------------------------------
(* The theorems *)

\* Every state of the server is well typed, whatever is in flight when it stops.
THEOREM TypeCorrect == Spec => []TypeOK
<1>1. Inv => TypeOK
  BY DEF Inv
<1> QED
  BY <1>1, InitInv, StepInv, PTL DEF Spec

\* No request, move, upload, upgrade or restart leaves a session with a connection
\* to a file that is neither on disk under its name nor was deleted on purpose.
THEOREM OpenOnDisk == Spec => []OpenIsOnDisk
<1>1. Inv => OpenIsOnDisk
  BY DEF Inv
<1> QED
  BY <1>1, InitInv, StepInv, PTL DEF Spec

LEMMA StepForgotten ==
    ASSUME Inv, Inv', [Next]_vars, NEW t \in issued, row[t] = NoRow
    PROVE  row'[t] = NoRow /\ sessions'[t] = Null
<1>0. /\ t \in Token /\ row \in Rows /\ sessions[t] = Null
      /\ \A u \in upgrades : u.token \in Token /\ u.path \in Path
      /\ \A v \in Token : sessions[v] # Null => sessions[v] \in Session /\ row[v] # NoRow
  BY DEF Inv, TypeOK, Rows, Ended, Upgrade
<1>1. row'[t] = NoRow => sessions'[t] = Null
  BY <1>0 DEF Inv, Ended
<1>2. ASSUME NEW v \in Token, SignIn(v) PROVE row'[t] = NoRow
  BY <1>0, <1>2 DEF SignIn, Rows
<1>3. ASSUME NEW v \in Token, SignOut(v) PROVE row'[t] = NoRow
  BY <1>0, <1>3 DEF SignOut, Forget, Rows
<1>4. ASSUME NEW v \in Token, IdleDrop(v) PROVE row'[t] = NoRow
  <2>1. OpenPath(sessions[v]) \in Path \cup {Null}
    BY <1>0, <1>4, OpenPathType DEF IdleDrop, Live
  <2> QED
    BY <1>0, <1>4, <2>1, TouchType DEF IdleDrop
<1>5. ASSUME NEW v \in Token, NEW ask \in Ask, Request(v, ask) PROVE row'[t] = NoRow
  <2>1. Leads(v, Persist(row, v, SessionOf(v)))
    BY <1>5, RequestLeads
  <2>2. Persist(row, v, SessionOf(v))[t] = NoRow
    BY <1>0, SessionType, PersistType DEF Inv
  <2> QED
    BY <1>0, <2>1, <2>2 DEF Leads
<1>6. ASSUME NEW u \in upgrades, NEW d, Abandon(u, d, upgrades \ {u}) PROVE row'[t] = NoRow
  BY <1>0, <1>6, TouchType DEF Abandon
<1>7. ASSUME NEW u \in upgrades, FinishUpgrade(u) PROVE row'[t] = NoRow
  <2>1. PICK n \in IF disk[u.path].file = 0 THEN Fresh(disk) ELSE {disk[u.path].file} :
            IF u.token \in Live
            THEN Resume(u, Opened(sessions[u.token], Finished(u, n), u.path), Finished(u, n),
                        upgrades \ {u})
            ELSE Abandon(u, Finished(u, n), upgrades \ {u})
    BY <1>7 DEF FinishUpgrade, Finished
  <2>2. CASE u.token \in Live
    <3>1. World(u.token, Opened(sessions[u.token], Finished(u, n), u.path), Finished(u, n),
                upgrades \ {u}, erased)
      BY <2>2, WorldFinished
    <3>2. Leads(u.token, row)
      BY <2>1, <2>2, <3>1, ResumeLeads
    <3> QED
      BY <1>0, <3>2 DEF Leads
  <2>3. CASE u.token \notin Live
    BY <1>6, <2>1, <2>3
  <2> QED
    BY <2>2, <2>3
<1>8. ASSUME NEW u \in upgrades, FailUpgrade(u) PROVE row'[t] = NoRow
  <2>1. CASE u.token \in Live
    <3>1. sessions[u.token] \in Session
      BY <1>0, <2>1 DEF Live
    <3>2. World(u.token, sessions[u.token], disk, upgrades, erased)
      BY <1>0, <2>1, <3>1, WorldOfState
    <3>3. World(u.token, sessions[u.token], disk, upgrades \ {u}, erased)
      BY <3>2 DEF World, ClientUnused
    <3>4. Leads(u.token, row)
      BY <1>8, <2>1, <3>3, ResumeLeads DEF FailUpgrade
    <3> QED
      BY <1>0, <3>4 DEF Leads
  <2>2. CASE u.token \notin Live
    BY <1>6, <1>8, <2>2 DEF FailUpgrade
  <2> QED
    BY <2>1, <2>2
<1>9. ASSUME UNCHANGED row PROVE row'[t] = NoRow
  BY <1>9
<1> QED
  BY <1>1, <1>2, <1>3, <1>4, <1>5, <1>7, <1>8, <1>9
  DEF Next, SetUserAccess, SetUserActive, ClientMove, PutCompany, SetLinked,
      Restart, Deploy, Stop, vars

\* A sign-in that was ended stays ended: no request in flight, wait or restart
\* brings its row or its session back.
THEOREM ForgottenForGood == Spec => ForgottenStaysOut
<1>1. Inv /\ Inv' /\ [Next]_vars =>
        [\A t \in issued : row[t] = NoRow => row'[t] = NoRow /\ sessions'[t] = Null]_vars
  BY StepForgotten
<1> QED
  BY <1>1, InitInv, StepInv, PTL DEF Spec, ForgottenStaysOut

-----------------------------------------------------------------------------
(* Upgrades *)

\* What UpgradedOnlyWithCopy says of a step that ends with disk d.
Covered(d) ==
    \A p \in Path : disk[p].old /\ ~d[p].old /\ d[p].file = disk[p].file => d[p].whole

\* The disk so far in a request: files that still need an upgrade, or that the
\* request has upgraded for the session that has them open, are all there.
SoFar(s, d) ==
    \A p \in Path : disk[p].old =>
        /\ d[p].file = disk[p].file /\ d[p].file # 0
        /\ d[p].old \/ (s.company.path = p /\ d[p].whole)

LEMMA HandleCovers ==
    ASSUME NEW t \in Token, NEW s0 \in Session, NEW d \in Disk, NEW waits, NEW rows,
           NEW ask \in Ask, SoFar(s0, d), Handle(t, s0, d, waits, rows, ask)
    PROVE  Covered(disk')
<1> DEFINE s == Allowed(s0)
<1>1. s.company # Null => s.company = s0.company
  BY DEF Allowed, Session
<1>2. s \in Session
  BY ClosedType DEF Allowed
<1> HIDE DEF s
<1>3. ASSUME disk' = d PROVE Covered(disk')
  BY <1>3 DEF Covered, SoFar
<1>4. ASSUME ask.do = "open", Open(t, s, d, waits, rows, ask) PROVE Covered(disk')
  <2>0. ask.path \in Path
    BY <1>4 DEF Ask
  <2>1. \/ disk' = Copying(d, ask.path)
        \/ disk' = Upgraded(d, ask.path) /\ Ready(d[ask.path])
        \/ disk' = d
    BY <1>4 DEF Open, Answer
  <2>2. CASE disk' = Copying(d, ask.path)
    BY <2>0, <2>2, CopyingType DEF Covered, SoFar
  <2>3. CASE disk' = Upgraded(d, ask.path) /\ Ready(d[ask.path])
    <3>1. d[ask.path].old => d[ask.path].whole
      BY <2>3 DEF Ready, CopyServes
    <3>2. \A q \in Path : /\ disk'[q].file = d[q].file
                          /\ disk'[q].whole = d[q].whole
                          /\ disk'[q].old = (q # ask.path /\ d[q].old)
      BY <2>0, <2>3, UpgradedType
    <3> QED
      BY <3>1, <3>2 DEF Covered, SoFar
  <2> QED
    BY <1>3, <2>1, <2>2, <2>3
<1>5. ASSUME ask.do = "create", Create(t, s, d, waits, rows, ask) PROVE Covered(disk')
  <2> DEFINE q == <<"firm", ask.name>>
  <2>1. CASE disk' = d
    BY <1>3, <2>1
  <2>2. CASE d[q].file = 0 /\ \A p \in Path \ {q} : disk'[p] = d[p]
    BY <2>2 DEF Covered, SoFar
  <2>3. disk' = d \/ (d[q].file = 0 /\ \A p \in Path \ {q} : disk'[p] = d[p])
    BY <1>5 DEF Create, Answer, Disk
  <2> QED
    BY <2>1, <2>2, <2>3
<1>6. ASSUME ask.do = "delete", Delete(t, s, d, waits, rows, ask) PROVE Covered(disk')
  <2>1. CASE s.company = Null
    BY <1>3, <1>6, <2>1 DEF Delete, Answer
  <2>2. CASE s.company # Null
    <3>1. s.company.path \in Path
      BY <1>2, <2>2 DEF Session, Connection
    <3>2. disk' = Removed(d, s.company.path)
      BY <1>6, <2>2 DEF Delete, Answer
    <3>3. \A q \in Path : /\ disk'[q].file = IF q = s.company.path THEN 0 ELSE d[q].file
                          /\ disk'[q].old = (q # s.company.path /\ d[q].old)
      BY <3>1, <3>2, RemovedType
    <3>4. ASSUME NEW q \in Path, disk[q].old, ~disk'[q].old PROVE disk'[q].file # disk[q].file
      <4>1. CASE q = s.company.path
        BY <3>3, <3>4, <4>1 DEF SoFar
      <4>2. CASE q # s.company.path
        <5>1. disk'[q].file = d[q].file /\ ~d[q].old
          BY <3>3, <3>4, <4>2
        <5> QED
          BY <1>1, <2>2, <3>4, <4>2, <5>1 DEF SoFar
      <4> QED
        BY <4>1, <4>2
    <3> QED
      BY <3>4 DEF Covered
  <2> QED
    BY <2>1, <2>2
<1>7. \/ disk' = d
      \/ ask.do = "open" /\ Open(t, s, d, waits, rows, ask)
      \/ ask.do = "create" /\ Create(t, s, d, waits, rows, ask)
      \/ ask.do = "delete" /\ Delete(t, s, d, waits, rows, ask)
  BY DEF Handle, Answer, s
<1> QED
  BY <1>3, <1>4, <1>5, <1>6, <1>7

LEMMA RequestCovers ==
    ASSUME Inv, NEW t \in Token, NEW ask \in Ask, Request(t, ask)
    PROVE  Covered(disk')
<1> DEFINE s == SessionOf(t)
           rows == Persist(row, t, s)
           p == s.pending
           ready == [s EXCEPT !.pending = Null]
           wanted == p # Null /\ p \in Reach(s.user) /\ ~At(s, p)
<1>1. s \in Session
  BY SessionType DEF Inv
<1>2. disk \in Disk /\ \A q \in Path : disk[q].old => disk[q].file # 0
  BY DEF Inv, TypeOK, Disk
<1> HIDE DEF s
<1>3. ready \in Session
  BY <1>1 DEF Session
<1>4. wanted => p \in Path
  BY DEF Reach
<1> HIDE DEF rows, p, ready, wanted
<1>5. \/ wanted /\ disk' = Copying(disk, p)
      \/ /\ wanted /\ Ready(disk[p])
         /\ Handle(t, Opened(ready, disk, p), Upgraded(disk, p), upgrades, rows, ask)
      \/ Handle(t, ready, disk, upgrades, rows, ask)
  BY Zenon DEF Request, s, rows, p, ready, wanted
<1>6. CASE wanted /\ disk' = Copying(disk, p)
  BY <1>2, <1>4, <1>6, CopyingType DEF Covered
<1>7. CASE /\ wanted /\ Ready(disk[p])
           /\ Handle(t, Opened(ready, disk, p), Upgraded(disk, p), upgrades, rows, ask)
  <2>1. disk[p].file # 0 /\ (disk[p].old => disk[p].whole)
    BY <1>7 DEF Ready, CopyServes
  <2> DEFINE opened == Opened(ready, disk, p)
             d == Upgraded(disk, p)
  <2>2. opened \in Session /\ opened.company.path = p
    BY <1>2, <1>3, <1>4, <1>7, <2>1, OpenedType
  <2>3. d \in Disk
    BY <1>2, <1>4, <1>7, UpgradedType
  <2>4. \A q \in Path : /\ d[q].file = disk[q].file
                        /\ d[q].whole = disk[q].whole
                        /\ d[q].old = (q # p /\ disk[q].old)
    BY <1>2, <1>4, <1>7, UpgradedType
  <2>5. Handle(t, opened, d, upgrades, rows, ask)
    BY <1>7
  <2> HIDE DEF opened, d
  <2>6. SoFar(opened, d)
    BY <1>2, <2>1, <2>2, <2>4 DEF SoFar
  <2> QED
    BY <2>2, <2>3, <2>5, <2>6, HandleCovers
<1>8. CASE Handle(t, ready, disk, upgrades, rows, ask)
  <2>1. SoFar(ready, disk)
    BY <1>2 DEF SoFar
  <2> QED
    BY <1>2, <1>3, <1>8, <2>1, HandleCovers
<1> QED
  BY <1>5, <1>6, <1>7, <1>8

LEMMA ResumeCovers ==
    ASSUME Inv, NEW u \in upgrades, NEW s \in Session, NEW d \in Disk, NEW waits,
           SoFar(s, d), Resume(u, s, d, waits)
    PROVE  Covered(disk')
<1>1. u.token \in Token /\ u.next \in Ask \cup {Null}
  BY DEF Inv, TypeOK, Upgrade
<1>2. CASE u.next = Null
  BY <1>2 DEF Resume, Answer, Covered, SoFar
<1>3. CASE u.next # Null
  BY <1>1, <1>3, HandleCovers DEF Resume
<1> QED
  BY <1>2, <1>3

LEMMA StepCovers ==
    ASSUME Inv, [Next]_vars
    PROVE  Covered(disk')
<1>0. /\ disk \in Disk /\ \A q \in Path : disk[q].old => disk[q].file # 0
      /\ \A u \in upgrades : u.token \in Token /\ u.path \in Path
      /\ sessions \in [Token -> Session \cup {Null}]
  BY DEF Inv, TypeOK, Disk, Upgrade
<1>1. ASSUME disk' = disk PROVE Covered(disk')
  BY <1>1 DEF Covered
<1>2. ASSUME NEW t \in Token, NEW ask \in Ask, Request(t, ask) PROVE Covered(disk')
  BY <1>2, RequestCovers
<1>3. ASSUME NEW u \in upgrades, FinishUpgrade(u) PROVE Covered(disk')
  <2>1. PICK n \in IF disk[u.path].file = 0 THEN Fresh(disk) ELSE {disk[u.path].file} :
            IF u.token \in Live
            THEN Resume(u, Opened(sessions[u.token], Finished(u, n), u.path), Finished(u, n),
                        upgrades \ {u})
            ELSE Abandon(u, Finished(u, n), upgrades \ {u})
    BY <1>3 DEF FinishUpgrade, Finished
  <2>2. /\ n # 0 /\ Finished(u, n) \in Disk /\ Finished(u, n)[u.path].file = n
        /\ disk[u.path].file # 0 => n = disk[u.path].file
        /\ Finished(u, n)[u.path].whole
        /\ \A q \in Path \ {u.path} : Finished(u, n)[q] = disk[q]
    BY FinishedFacts
  <2>3. CASE u.token \in Live
    <3> DEFINE s == Opened(sessions[u.token], Finished(u, n), u.path)
    <3>1. sessions[u.token] \in Session
      BY <1>0, <2>3 DEF Live
    <3>2. s \in Session /\ s.company.path = u.path
      <4> DEFINE d == Finished(u, n)
      <4>1. d \in Disk /\ d[u.path].file # 0 /\ u.path \in Path
        BY <1>0, <2>2
      <4>2. s = Opened(sessions[u.token], d, u.path)
        OBVIOUS
      <4> HIDE DEF d, s
      <4> QED
        BY <3>1, <4>1, <4>2, OpenedType
    <3> HIDE DEF s
    <3>3. SoFar(s, Finished(u, n))
      BY <1>0, <2>2, <3>2 DEF SoFar
    <3> QED
      BY <2>1, <2>2, <2>3, <3>2, <3>3, ResumeCovers DEF s
  <2>4. CASE u.token \notin Live
    BY <2>1, <2>2, <2>4 DEF Abandon, Covered
  <2> QED
    BY <2>3, <2>4
<1>4. ASSUME NEW u \in upgrades, FailUpgrade(u) PROVE Covered(disk')
  <2>1. CASE u.token \in Live
    <3>1. sessions[u.token] \in Session
      BY <1>0, <2>1 DEF Live
    <3>2. SoFar(sessions[u.token], disk)
      BY <1>0 DEF SoFar
    <3> QED
      BY <1>0, <1>4, <2>1, <3>1, <3>2, ResumeCovers DEF FailUpgrade
  <2>2. CASE u.token \notin Live
    BY <1>1, <1>4, <2>2 DEF FailUpgrade, Abandon
  <2> QED
    BY <2>1, <2>2
<1>5. ASSUME NEW name \in Name, ClientMove(name) PROVE Covered(disk')
  <2> DEFINE from == <<"firm", name>>
             to == <<"client", name>>
  <2>1. from \in Path /\ to \in Path /\ from # to /\ FolderOf(to) = "client"
    BY DEF Path, Folder, FolderOf
  <2>2. disk[to].file = 0 /\ disk[from].file # 0
    BY <1>5, <2>1 DEF Inv, ClientMove
  <2>3. disk'[from].file = 0 /\ \A q \in Path \ {from, to} : disk'[q] = disk[q]
    BY <1>0, <1>5, <2>1 DEF ClientMove, Disk, Place
  <2> QED
    BY <1>0, <2>1, <2>2, <2>3 DEF Covered
<1>6. ASSUME NEW name \in Name, PutCompany(name) PROVE Covered(disk')
  <2> DEFINE p == <<"firm", name>>
  <2>1. p \in Path
    BY DEF Path, Folder
  <2>2. PICK n \in Fresh(disk), old \in BOOLEAN :
            disk' = [disk EXCEPT ![p].file = n, ![p].old = old]
    BY <1>6 DEF PutCompany
  <2>3. n # disk[p].file
    BY <2>1 DEF Fresh
  <2>4. disk[p] \in Place
    BY <1>0, <2>1 DEF Disk
  <2> HIDE DEF p
  <2>5. disk'[p].file = n /\ \A q \in Path \ {p} : disk'[q] = disk[q]
    BY <1>0, <2>1, <2>2, <2>4 DEF Disk, Place
  <2> QED
    BY <2>3, <2>5 DEF Covered
<1>7. CASE Deploy
  BY <1>0, <1>7 DEF Deploy, Covered
<1> QED
  BY <1>1, <1>2, <1>3, <1>4, <1>5, <1>6, <1>7
  DEF Next, SignIn, SignOut, IdleDrop, SetUserAccess, SetUserActive, SetLinked, Restart, vars

\* No file is upgraded unless a copy that was finished carries its name, however
\* often the server stopped in the middle of one or the copies were deleted.
THEOREM UpgradesAreCopied == Spec => UpgradedOnlyWithCopy
<1>1. Inv /\ [Next]_vars =>
        [\A p \in Path :
            disk[p].old /\ ~disk'[p].old /\ disk'[p].file = disk[p].file
                => disk'[p].whole]_vars
  BY StepCovers DEF Covered
<1> QED
  BY <1>1, InitInv, StepInv, PTL DEF Spec, UpgradedOnlyWithCopy

-----------------------------------------------------------------------------
(* What requests reach *)

\* One request of a person at most waits for the company of its session.
Single(waits) ==
    \A u, v \in waits : u.token = v.token /\ u.next # Null /\ v.next # Null => u = v

\* A session has no company pending once its first request has come, and it is
\* that request that waits: the server is asked again only by whom it still knows.
Waiting ==
    /\ \A t \in Token : sessions[t] # Null => sessions[t].pending = Null
    /\ \A u \in upgrades : u.next # Null => sessions[u.token] # Null \/ row[u.token] = NoRow
    /\ Single(upgrades)

\* A request of a session s0 that deletes nothing ends with s: what it has open, or
\* begins to wait for, it may reach, and every file is still there.
Keeps(t, s0, s, d, waits) ==
    /\ s.company # Null => s.company.path \in Reach(s0.user)
    /\ \A p \in Path : d[p].file # 0 => disk'[p].file # 0
    /\ \/ upgrades' = waits
       \/ \E p \in Reach(s0.user) : upgrades' = waits \cup {WaitFor(t, p, Null)}

\* One that deletes a company had it open and may reach it.
Deletes(s0, s, d, waits) ==
    /\ s.company = Null
    /\ s0.company # Null /\ s0.company.path \in Reach(s0.user)
    /\ \A p \in Path : d[p].file # 0 /\ disk'[p].file = 0 => p = s0.company.path
    /\ \E gone \in Path : upgrades' = WithoutCopies(waits, gone)

Ends(t, s0, d, waits) ==
    \E s \in Session : /\ sessions' = [sessions EXCEPT ![t] = s]
                       /\ s.pending = s0.pending
                       /\ Keeps(t, s0, s, d, waits) \/ Deletes(s0, s, d, waits)

\* A request ends in one of the two ways, whatever it asks.
LEMMA HandleEnds ==
    ASSUME NEW t \in Token, NEW s0 \in Session, NEW d \in Disk, NEW waits, NEW rows,
           NEW ask \in Ask, Handle(t, s0, d, waits, rows, ask)
    PROVE  Ends(t, s0, d, waits)
<1> DEFINE s == Allowed(s0)
           closed == [s EXCEPT !.company = Null]
<1>1. /\ s \in Session /\ s.pending = s0.pending /\ s.user = s0.user
      /\ s.company # Null => s.company = s0.company /\ s.company.path \in Reach(s0.user)
  BY ClosedType DEF Allowed, Session
<1> HIDE DEF s
<1>2. /\ closed \in Session /\ closed.pending = s0.pending /\ closed.company = Null
  BY <1>1, ClosedType DEF Session
<1>3. ASSUME Answer(t, s, d, waits, rows, ask) PROVE Ends(t, s0, d, waits)
  <2>1. disk' = d /\ upgrades' = waits /\ sessions' = [sessions EXCEPT ![t] = s]
    BY <1>3 DEF Answer
  <2>2. Keeps(t, s0, s, d, waits)
    BY <1>1, <2>1 DEF Keeps
  <2> QED
    BY <1>1, <2>1, <2>2 DEF Ends
<1>4. ASSUME Answer(t, closed, d, waits, rows, ask) PROVE Ends(t, s0, d, waits)
  <2>1. disk' = d /\ upgrades' = waits /\ sessions' = [sessions EXCEPT ![t] = closed]
    BY <1>4 DEF Answer
  <2> HIDE DEF closed
  <2>2. Keeps(t, s0, closed, d, waits)
    BY <1>2, <2>1 DEF Keeps
  <2> QED
    BY <1>2, <2>1, <2>2 DEF Ends
<1>5. ASSUME ask.do = "open", Open(t, s, d, waits, rows, ask) PROVE Ends(t, s0, d, waits)
  <2> DEFINE p == ask.path
             opened == Opened(s, d, p)
  <2>1. p \in Path
    BY <1>5 DEF Ask
  <2>2. \/ /\ p \in Reach(s.user)
           /\ disk' = Copying(d, p) /\ upgrades' = waits \cup {WaitFor(t, p, Null)}
           /\ sessions' = [sessions EXCEPT ![t] = s]
        \/ /\ p \in Reach(s.user) /\ Ready(d[p])
           /\ Answer(t, opened, Upgraded(d, p), waits, rows, ask)
        \/ Answer(t, s, d, waits, rows, ask)
    BY <1>5 DEF Open
  <2> HIDE DEF p
  <2>3. CASE /\ p \in Reach(s.user)
             /\ disk' = Copying(d, p) /\ upgrades' = waits \cup {WaitFor(t, p, Null)}
             /\ sessions' = [sessions EXCEPT ![t] = s]
    <3>1. \A q \in Path : disk'[q].file = d[q].file
      BY <2>1, <2>3, CopyingType
    <3>2. Keeps(t, s0, s, d, waits)
      BY <1>1, <2>1, <2>3, <3>1 DEF Keeps
    <3> QED
      BY <1>1, <2>3, <3>2 DEF Ends
  <2>4. CASE /\ p \in Reach(s.user) /\ Ready(d[p])
             /\ Answer(t, opened, Upgraded(d, p), waits, rows, ask)
    <3>1. d[p].file # 0
      BY <2>4 DEF Ready
    <3>2. opened \in Session /\ opened.company.path = p
      BY <1>1, <2>1, <3>1, OpenedType
    <3>3. opened.pending = s0.pending
      BY <1>1 DEF Opened, Session
    <3> HIDE DEF opened
    <3>4. /\ disk' = Upgraded(d, p) /\ upgrades' = waits
          /\ sessions' = [sessions EXCEPT ![t] = opened]
      BY <2>4 DEF Answer
    <3>5. \A q \in Path : disk'[q].file = d[q].file
      BY <2>1, <3>4, UpgradedType
    <3>6. Keeps(t, s0, opened, d, waits)
      BY <1>1, <2>4, <3>2, <3>4, <3>5 DEF Keeps
    <3> QED
      BY <3>2, <3>3, <3>4, <3>6 DEF Ends
  <2> QED
    BY <1>3, <2>2, <2>3, <2>4
<1>6. ASSUME ask.do = "create", Create(t, s, d, waits, rows, ask) PROVE Ends(t, s0, d, waits)
  <2> DEFINE p == <<"firm", ask.name>>
  <2>1. p \in Path /\ FolderOf(p) = "firm"
    BY <1>6 DEF Ask, Path, Folder, FolderOf
  <2>2. \/ /\ s.user = Null
           /\ \E n \in Fresh(d) :
                Answer(t, Opened(s, [d EXCEPT ![p].file = n, ![p].old = FALSE], p),
                       [d EXCEPT ![p].file = n, ![p].old = FALSE], waits, rows, ask)
        \/ Answer(t, s, d, waits, rows, ask)
    BY <1>6 DEF Create
  <2> HIDE DEF p
  <2>3. ASSUME s.user = Null,
               NEW n \in Fresh(d),
               Answer(t, Opened(s, [d EXCEPT ![p].file = n, ![p].old = FALSE], p),
                      [d EXCEPT ![p].file = n, ![p].old = FALSE], waits, rows, ask)
        PROVE  Ends(t, s0, d, waits)
    <3> DEFINE made == [d EXCEPT ![p].file = n, ![p].old = FALSE]
               opened == Opened(s, made, p)
    <3>1. n \in 1..MaxFile /\ n # 0
      BY WebSessionsAssumption DEF Fresh
    <3>2. d[p] \in Place
      BY <2>1 DEF Disk
    <3>3. [d[p] EXCEPT !.file = n, !.old = FALSE] \in Place
      BY <3>1, <3>2, PlaceFilled
    <3>4. made \in Disk
      BY <2>1, <3>3 DEF Disk
    <3>5. made[p].file = n /\ \A q \in Path \ {p} : made[q] = d[q]
      BY <2>1, <3>2 DEF Disk, Place
    <3>6. disk' = made /\ upgrades' = waits /\ sessions' = [sessions EXCEPT ![t] = opened]
      BY <2>3 DEF Answer
    <3>7. opened.pending = s0.pending
      BY <1>1 DEF Opened, Session
    <3> HIDE DEF made
    <3>8. opened \in Session /\ opened.company.path = p
      BY <1>1, <2>1, <3>1, <3>4, <3>5, OpenedType
    <3> HIDE DEF opened
    <3>9. p \in Reach(s0.user)
      BY <1>1, <2>1, <2>3 DEF Reach
    <3>10. Keeps(t, s0, opened, d, waits)
      BY <3>1, <3>5, <3>6, <3>8, <3>9 DEF Keeps
    <3> QED
      BY <3>6, <3>7, <3>8, <3>10 DEF Ends
  <2> QED
    BY <1>3, <2>2, <2>3
<1>7. ASSUME ask.do = "delete", Delete(t, s, d, waits, rows, ask) PROVE Ends(t, s0, d, waits)
  <2>1. CASE s.company = Null
    BY <1>3, <1>7, <2>1 DEF Delete
  <2>2. CASE s.company # Null
    <3> DEFINE p == s.company.path
    <3>1. p \in Path /\ p = s0.company.path /\ p \in Reach(s0.user) /\ s0.company # Null
      BY <1>1, <2>2 DEF Session, Connection
    <3>2. /\ disk' = Removed(d, p) /\ upgrades' = WithoutCopies(waits, p)
          /\ sessions' = [sessions EXCEPT ![t] = closed]
      BY <1>7, <2>2 DEF Delete, Answer
    <3> HIDE DEF p, closed
    <3>3. \A q \in Path : disk'[q].file = IF q = p THEN 0 ELSE d[q].file
      BY <3>1, <3>2, RemovedType
    <3>4. Deletes(s0, closed, d, waits)
      BY <1>2, <3>1, <3>2, <3>3 DEF Deletes
    <3> QED
      BY <1>2, <3>2, <3>4 DEF Ends
  <2> QED
    BY <2>1, <2>2
<1>8. \/ Answer(t, s, d, waits, rows, ask)
      \/ Answer(t, closed, d, waits, rows, ask)
      \/ ask.do = "open" /\ Open(t, s, d, waits, rows, ask)
      \/ ask.do = "create" /\ Create(t, s, d, waits, rows, ask)
      \/ ask.do = "delete" /\ Delete(t, s, d, waits, rows, ask)
  BY DEF Handle, s
<1> HIDE DEF closed
<1> QED
  BY <1>3, <1>4, <1>5, <1>6, <1>7, <1>8

\* What a request finds: its company waits, as the first thing the server hears of
\* the person since it started, or the request ends with the company it had or the
\* one it had saved and still may reach.
Waits(t, ask) ==
    /\ sessions[t] = Null /\ row[t] # NoRow
    /\ \E r \in Session : /\ r.pending = Null /\ r.company = Null
                          /\ sessions' = [sessions EXCEPT ![t] = r]
    /\ \E p \in Path : p \in Reach(scope[t]) /\ upgrades' = upgrades \cup {WaitFor(t, p, ask)}
    /\ \A q \in Path : disk'[q].file = disk[q].file

Starts(t, s0, d) ==
    /\ s0 \in Session /\ s0.pending = Null /\ s0.user = scope[t]
    /\ s0.company # Null => \/ sessions[t] # Null /\ s0.company = sessions[t].company
                            \/ s0.company.path = row[t] /\ row[t] \in Reach(scope[t])
    /\ d \in Disk /\ \A q \in Path : d[q].file = disk[q].file

\* A request waits for a copy, or starts as Starts says and ends as Ends says.
LEMMA RequestEnds ==
    ASSUME Inv, Waiting, NEW t \in Token, NEW ask \in Ask, Request(t, ask)
    PROVE  Waits(t, ask) \/ \E s0, d : Starts(t, s0, d) /\ Ends(t, s0, d, upgrades)
<1> DEFINE s == SessionOf(t)
           rows == Persist(row, t, s)
           p == s.pending
           ready == [s EXCEPT !.pending = Null]
           wanted == p # Null /\ p \in Reach(s.user) /\ ~At(s, p)
<1>1. s \in Session /\ s.user = scope[t]
  <2>1. s \in Session
    BY SessionType DEF Inv
  <2>2. CASE t \in Live
    BY <2>1, <2>2 DEF SessionOf, Live, Inv, TypeOK, Session
  <2>3. CASE t \notin Live
    BY <2>1, <2>3 DEF SessionOf, Restored
  <2> QED
    BY <2>1, <2>2, <2>3
<1>2. sessions[t] # Null => s.company = sessions[t].company /\ s.pending = Null
  BY DEF SessionOf, Inv, TypeOK, Session, Live, Waiting
<1>3. sessions[t] = Null => s.company = Null /\ (s.pending # Null => s.pending = row[t])
  BY DEF SessionOf, Restored, Live
<1>4. disk \in Disk /\ (sessions[t] = Null => row[t] # NoRow)
  BY DEF Inv, TypeOK, Disk, Request, Known, Live
<1> HIDE DEF s
<1>5. /\ ready \in Session /\ ready.company = s.company /\ ready.pending = Null
      /\ ready.user = scope[t]
  BY <1>1 DEF Session
<1>6. wanted => p \in Path /\ p \in Reach(scope[t]) /\ sessions[t] = Null /\ p = row[t]
  BY <1>1, <1>2, <1>3 DEF Reach
<1> HIDE DEF rows, p, ready, wanted
<1>7. \/ /\ wanted
         /\ disk' = Copying(disk, p)
         /\ upgrades' = upgrades \cup {WaitFor(t, p, ask)}
         /\ sessions' = [sessions EXCEPT ![t] = ready]
      \/ /\ wanted /\ Ready(disk[p])
         /\ Handle(t, Opened(ready, disk, p), Upgraded(disk, p), upgrades, rows, ask)
      \/ Handle(t, ready, disk, upgrades, rows, ask)
  BY Zenon DEF Request, s, rows, p, ready, wanted
<1>8. CASE /\ wanted
           /\ disk' = Copying(disk, p)
           /\ upgrades' = upgrades \cup {WaitFor(t, p, ask)}
           /\ sessions' = [sessions EXCEPT ![t] = ready]
  <2>1. \A q \in Path : disk'[q].file = disk[q].file
    BY <1>4, <1>6, <1>8, CopyingType
  <2> QED
    BY <1>3, <1>4, <1>5, <1>6, <1>8, <2>1 DEF Waits
<1>9. CASE /\ wanted /\ Ready(disk[p])
           /\ Handle(t, Opened(ready, disk, p), Upgraded(disk, p), upgrades, rows, ask)
  <2> DEFINE s0 == Opened(ready, disk, p)
             d == Upgraded(disk, p)
  <2>1. s0 \in Session /\ s0.company.path = p
    BY <1>4, <1>5, <1>6, <1>9, OpenedType DEF Ready
  <2>2. s0.pending = Null /\ s0.user = scope[t]
    BY <1>5 DEF Opened, Session
  <2>3. d \in Disk /\ \A q \in Path : d[q].file = disk[q].file
    BY <1>4, <1>6, <1>9, UpgradedType
  <2>4. Handle(t, s0, d, upgrades, rows, ask)
    BY <1>9
  <2> HIDE DEF s0, d
  <2>5. Starts(t, s0, d)
    BY <1>6, <1>9, <2>1, <2>2, <2>3 DEF Starts
  <2>6. Ends(t, s0, d, upgrades)
    BY <2>1, <2>3, <2>4, HandleEnds
  <2> QED
    BY <2>5, <2>6
<1>10. CASE Handle(t, ready, disk, upgrades, rows, ask)
  <2>1. Starts(t, ready, disk)
    BY <1>2, <1>3, <1>4, <1>5 DEF Starts
  <2>2. Ends(t, ready, disk, upgrades)
    BY <1>4, <1>5, <1>10, HandleEnds
  <2> QED
    BY <2>1, <2>2
<1> QED
  BY <1>7, <1>8, <1>9, <1>10

\* The rest of a request that waited.
LEMMA ResumeEnds ==
    ASSUME Inv, NEW u \in upgrades, NEW s \in Session, NEW d \in Disk,
           Resume(u, s, d, upgrades \ {u})
    PROVE  \/ /\ u.next = Null
              /\ sessions' = [sessions EXCEPT ![u.token] = s]
              /\ upgrades' = upgrades \ {u} /\ disk' = d
           \/ u.next # Null /\ Ends(u.token, s, d, upgrades \ {u})
<1>1. u.token \in Token /\ u.next \in Ask \cup {Null}
  BY DEF Inv, TypeOK, Upgrade
<1>2. CASE u.next = Null
  BY <1>2 DEF Resume, Answer
<1>3. CASE u.next # Null
  BY <1>1, <1>3, HandleEnds DEF Resume
<1> QED
  BY <1>2, <1>3

\* A copy that is deleted changes no wait but by that.
LEMMA WithoutCopiesKeeps ==
    ASSUME NEW waits \in SUBSET Upgrade, NEW gone,
           NEW w \in WithoutCopies(waits, gone)
    PROVE  \E v \in waits : /\ w.token = v.token /\ w.next = v.next
                            /\ w = [v EXCEPT !.lost = @ \/ FolderOf(v.path) = FolderOf(gone)]
BY DEF WithoutCopies, Upgrade

\* A deletion marks waiting requests as having lost their file and adds none.
LEMMA SingleKept ==
    ASSUME NEW waits \in SUBSET Upgrade, NEW gone, Single(waits)
    PROVE  Single(WithoutCopies(waits, gone))
<1> SUFFICES ASSUME NEW w \in WithoutCopies(waits, gone), NEW x \in WithoutCopies(waits, gone),
                    w.token = x.token, w.next # Null, x.next # Null
             PROVE  w = x
  BY DEF Single
<1>1. PICK v \in waits : /\ w.token = v.token /\ w.next = v.next
                         /\ w = [v EXCEPT !.lost = @ \/ FolderOf(v.path) = FolderOf(gone)]
  BY WithoutCopiesKeeps
<1>2. PICK y \in waits : /\ x.token = y.token /\ x.next = y.next
                         /\ x = [y EXCEPT !.lost = @ \/ FolderOf(y.path) = FolderOf(gone)]
  BY WithoutCopiesKeeps
<1>3. v = y
  BY <1>1, <1>2 DEF Single
<1> QED
  BY <1>1, <1>2, <1>3

\* Waits after a request: fewer, one for a company:open more, or without their copies.
Fewer(t, waits) ==
    \/ upgrades' = waits
    \/ \E p \in Path : upgrades' = waits \cup {WaitFor(t, p, Null)}
    \/ \E gone \in Path : upgrades' = WithoutCopies(waits, gone)

\* Waiting holds after a step of a session that adds no request with something
\* left to ask once it has waited.
LEMMA WaitingOfFewer ==
    ASSUME Inv, Waiting, NEW t \in Token, NEW s \in Session, s.pending = Null,
           sessions' = [sessions EXCEPT ![t] = s],
           NEW waits \in SUBSET upgrades, Fewer(t, waits),
           \A v \in Token : row'[v] = NoRow <=> row[v] = NoRow
    PROVE  Waiting'
<1>1. /\ waits \in SUBSET Upgrade /\ \A u \in waits : u.token \in Token
      /\ sessions \in [Token -> Session \cup {Null}]
  BY DEF Inv, TypeOK, Upgrade
<1>2. /\ sessions'[t] = s /\ s # Null
      /\ \A v \in Token \ {t} : sessions'[v] = sessions[v]
  BY <1>1, NullIsNoSession
<1>3. \A v \in Token : sessions'[v] # Null => sessions'[v].pending = Null
  BY <1>2 DEF Waiting
<1>4. Single(waits)
  BY DEF Waiting, Single
<1>5. ASSUME NEW w \in upgrades', w.next # Null
      PROVE  \E v \in waits : w.token = v.token /\ w.next = v.next
  <2>1. CASE upgrades' = waits
    BY <1>5, <2>1
  <2>2. ASSUME NEW p \in Path, upgrades' = waits \cup {WaitFor(t, p, Null)}
        PROVE  \E v \in waits : w.token = v.token /\ w.next = v.next
    BY <1>5, <2>2 DEF WaitFor
  <2>3. ASSUME NEW gone \in Path, upgrades' = WithoutCopies(waits, gone)
        PROVE  \E v \in waits : w.token = v.token /\ w.next = v.next
    BY <1>1, <1>5, <2>3, WithoutCopiesKeeps
  <2> QED
    BY <2>1, <2>2, <2>3 DEF Fewer
<1>6. \A w \in upgrades' : w.next # Null => sessions'[w.token] # Null \/ row'[w.token] = NoRow
  <2> SUFFICES ASSUME NEW w \in upgrades', w.next # Null
               PROVE  sessions'[w.token] # Null \/ row'[w.token] = NoRow
    OBVIOUS
  <2>1. PICK v \in waits : w.token = v.token /\ w.next = v.next
    BY <1>5
  <2>2. v.token \in Token /\ (sessions[v.token] # Null \/ row[v.token] = NoRow)
    BY <1>1, <2>1 DEF Waiting
  <2> QED
    BY <1>2, <2>1, <2>2
<1>7. Single(upgrades')
  <2>1. CASE upgrades' = waits
    BY <1>4, <2>1
  <2>2. ASSUME NEW p \in Path, upgrades' = waits \cup {WaitFor(t, p, Null)}
        PROVE  Single(upgrades')
    <3>1. WaitFor(t, p, Null).next = Null
      BY DEF WaitFor
    <3> QED
      BY <1>4, <2>2, <3>1 DEF Single
  <2>3. ASSUME NEW gone \in Path, upgrades' = WithoutCopies(waits, gone)
        PROVE  Single(upgrades')
    BY <1>1, <1>4, <2>3, SingleKept
  <2> QED
    BY <2>1, <2>2, <2>3 DEF Fewer
<1> QED
  BY <1>3, <1>6, <1>7 DEF Waiting, Single

\* Waiting holds after a request has ended.
LEMMA WaitingOfEnds ==
    ASSUME Inv, Waiting, NEW t \in Token, NEW s0, s0.pending = Null, NEW d,
           NEW waits \in SUBSET upgrades, Ends(t, s0, d, waits),
           \A v \in Token : row'[v] = NoRow <=> row[v] = NoRow
    PROVE  Waiting'
<1>1. PICK s \in Session : /\ sessions' = [sessions EXCEPT ![t] = s] /\ s.pending = s0.pending
                           /\ Keeps(t, s0, s, d, waits) \/ Deletes(s0, s, d, waits)
  BY DEF Ends
<1>2. Fewer(t, waits)
  BY <1>1 DEF Keeps, Deletes, Fewer, Reach
<1> QED
  BY <1>1, <1>2, WaitingOfFewer

\* A step that ends sessions and waits at most.
LEMMA WaitingQuiet ==
    ASSUME Waiting, upgrades' \subseteq upgrades,
           \A u \in upgrades : u.token \in Token,
           \A v \in Token : \/ sessions'[v] = sessions[v]
                            \/ /\ sessions'[v] = Null
                               /\ row'[v] = NoRow \/ \A u \in upgrades' : u.token # v,
           \A v \in Token : row[v] = NoRow => row'[v] = NoRow
    PROVE  Waiting'
BY DEF Waiting, Single


\* What NothingBeyondReach says of a step.
Begins == \A u \in Begun : MayReach(u.token, u.path)

Opens ==
    \A t \in Live', p \in Path : At(sessions'[t], p) =>
        \/ MayReach(t, p)
        \/ t \in Live /\ At(sessions[t], p)
        \/ \E u \in Answered : u.token = t /\ u.path = p /\ u.next = Null

Removes ==
    \A p \in Path : disk[p].file # 0 /\ disk'[p].file = 0 /\ moved' = moved =>
        \E t \in Live' :
            /\ MayReach(t, p) /\ ~At(sessions'[t], p)
            /\ \/ row[t] = p
               \/ t \in Live /\ At(sessions[t], p)
               \/ \E u \in Answered : u.token = t /\ u.path = p

Within == Begins /\ Opens /\ Removes

\* A step that opens nothing and removes nothing.
LEMMA OpensQuiet ==
    ASSUME \A t \in Token : sessions'[t] # Null =>
               \/ sessions'[t].company = Null
               \/ sessions[t] # Null /\ sessions'[t].company = sessions[t].company,
           \A p \in Path : disk[p].file # 0 /\ disk'[p].file = 0 => moved' # moved
    PROVE  Opens /\ Removes
BY DEF Opens, Removes, Live, At

\* Nor does it begin a wait.
LEMMA ReachQuiet ==
    ASSUME \A t \in Token : sessions'[t] # Null =>
               \/ sessions'[t].company = Null
               \/ sessions[t] # Null /\ sessions'[t].company = sessions[t].company,
           \A p \in Path : disk[p].file # 0 /\ disk'[p].file = 0 => moved' # moved,
           upgrades' \subseteq upgrades
    PROVE  Within
<1>1. Begun = {}
  BY DEF Begun
<1> QED
  BY <1>1, OpensQuiet DEF Within, Begins

\* Waits after a step of a session with the user's scope read as user: what is new
\* is for a company in reach.
LEMMA BeginsInReach ==
    ASSUME Inv, NEW t, NEW user, NEW waits \in SUBSET upgrades,
           \/ upgrades' = waits
           \/ \E p \in Reach(user) : \E next : upgrades' = waits \cup {WaitFor(t, p, next)}
           \/ \E gone \in Path : upgrades' = WithoutCopies(waits, gone),
           \A p \in Reach(user) : MayReach(t, p)
    PROVE  Begins
<1>1. waits \in SUBSET Upgrade
  BY DEF Inv, TypeOK
<1>2. CASE upgrades' = waits
  BY <1>2 DEF Begins, Begun
<1>3. ASSUME NEW p \in Reach(user), NEW next, upgrades' = waits \cup {WaitFor(t, p, next)}
      PROVE  Begins
  BY <1>3 DEF Begins, Begun, WaitFor
<1>4. ASSUME NEW gone \in Path, upgrades' = WithoutCopies(waits, gone)
      PROVE  Begins
  <2>1. ASSUME NEW w \in upgrades', ~w.lost PROVE w \in upgrades
    <3>1. PICK v \in waits : w = [v EXCEPT !.lost = @ \/ FolderOf(v.path) = FolderOf(gone)]
      BY <1>1, <1>4, <2>1, WithoutCopiesKeeps
    <3>2. v \in Upgrade /\ v.lost \in BOOLEAN
      BY <1>1 DEF Upgrade
    <3>3. ~v.lost /\ w = v
      BY <2>1, <3>1, <3>2 DEF Upgrade
    <3> QED
      BY <3>3
  <2> QED
    BY <2>1 DEF Begins, Begun
<1> QED
  BY <1>2, <1>3, <1>4

\* A request that does not wait opens and removes within the reach of its person.
LEMMA RequestReaches ==
    ASSUME Inv, Waiting, NEW t \in Token, NEW ask \in Ask, Request(t, ask)
    PROVE  Within
<1>1. /\ sessions \in [Token -> Session \cup {Null}]
  BY DEF Inv, TypeOK
<1>2. CASE Waits(t, ask)
  <2>1. PICK r \in Session : r.company = Null /\ sessions' = [sessions EXCEPT ![t] = r]
    BY <1>2 DEF Waits
  <2>2. \A q \in Path : disk'[q].file = disk[q].file
    BY <1>2 DEF Waits
  <2>3. sessions'[t] = r /\ \A v \in Token \ {t} : sessions'[v] = sessions[v]
    BY <1>1, <2>1
  <2>4. \E p \in Reach(scope[t]) : \E next : upgrades' = upgrades \cup {WaitFor(t, p, next)}
    BY <1>2 DEF Waits
  <2>5. Begins
    BY <2>4, BeginsInReach DEF MayReach
  <2> QED
    BY <2>1, <2>2, <2>3, <2>5, OpensQuiet DEF Within
<1>3. ASSUME NEW s0, NEW d, Starts(t, s0, d), Ends(t, s0, d, upgrades)
      PROVE  Within
  <2>1. PICK s \in Session : /\ sessions' = [sessions EXCEPT ![t] = s]
                             /\ Keeps(t, s0, s, d, upgrades) \/ Deletes(s0, s, d, upgrades)
    BY <1>3 DEF Ends
  <2>2. /\ sessions'[t] = s /\ s # Null
        /\ \A v \in Token \ {t} : sessions'[v] = sessions[v]
    BY <1>1, <2>1, NullIsNoSession
  <2>3. /\ s0.user = scope[t] /\ \A q \in Path : d[q].file = disk[q].file
        /\ s0.company # Null => \/ sessions[t] # Null /\ s0.company = sessions[t].company
                                \/ s0.company.path = row[t] /\ row[t] \in Reach(scope[t])
    BY <1>3 DEF Starts
  <2>4. CASE Keeps(t, s0, s, d, upgrades)
    <3>1. \A p \in Path : disk[p].file # 0 => disk'[p].file # 0
      BY <2>3, <2>4 DEF Keeps
    <3>2. s.company # Null => s.company.path \in Reach(scope[t])
      BY <2>3, <2>4 DEF Keeps
    <3>3. Opens
      BY <2>2, <3>2 DEF Opens, At, Live, MayReach
    <3>4. Removes
      BY <3>1 DEF Removes
    <3>5. \/ upgrades' = upgrades
          \/ \E p \in Reach(scope[t]) : \E next : upgrades' = upgrades \cup {WaitFor(t, p, next)}
      BY <2>3, <2>4 DEF Keeps
    <3>6. Begins
      BY <3>5, BeginsInReach DEF MayReach
    <3> QED
      BY <3>3, <3>4, <3>6 DEF Within
  <2>5. CASE Deletes(s0, s, d, upgrades)
    <3>1. /\ s.company = Null /\ s0.company # Null
          /\ s0.company.path \in Reach(scope[t])
          /\ \A p \in Path : disk[p].file # 0 /\ disk'[p].file = 0 => p = s0.company.path
      BY <2>3, <2>5 DEF Deletes
    <3>2. Opens
      BY <2>2, <3>1 DEF Opens, At, Live
    <3>3. ASSUME NEW p \in Path, disk[p].file # 0, disk'[p].file = 0
          PROVE  \E v \in Live' : /\ MayReach(v, p) /\ ~At(sessions'[v], p)
                                  /\ (row[v] = p \/ (v \in Live /\ At(sessions[v], p)))
      <4>1. p = s0.company.path
        BY <3>1, <3>3
      <4>2. t \in Live' /\ MayReach(t, p) /\ ~At(sessions'[t], p)
        BY <2>2, <3>1, <4>1 DEF Live, At, MayReach
      <4>3. row[t] = p \/ (t \in Live /\ At(sessions[t], p))
        BY <2>3, <3>1, <4>1 DEF Live, At
      <4> QED
        BY <4>2, <4>3
    <3>4. Removes
      BY <3>3 DEF Removes
    <3>5. Begins
      BY <2>5, BeginsInReach DEF Deletes, MayReach
    <3> QED
      BY <3>2, <3>4, <3>5 DEF Within
  <2> QED
    BY <2>1, <2>4, <2>5
<1> QED
  BY <1>2, <1>3, RequestEnds

\* A wait that is over was answered: the step leaves none like it.
LEMMA AnsweredIfFewer ==
    ASSUME Inv, NEW u \in upgrades, NEW t,
           \/ upgrades' = upgrades \ {u}
           \/ u.next # Null /\ \E p \in Path : upgrades' = (upgrades \ {u}) \cup {WaitFor(t, p, Null)}
    PROVE  u \in Answered
<1> DEFINE lost == [u EXCEPT !.lost = TRUE]
<1>1. u \in Upgrade
  BY DEF Inv, TypeOK
<1>2. lost.lost = TRUE
  BY <1>1 DEF Upgrade
<1> HIDE DEF lost
<1>3. u \notin upgrades' /\ lost \notin upgrades' \ upgrades
  <2>1. CASE upgrades' = upgrades \ {u}
    BY <2>1
  <2>2. ASSUME u.next # Null, NEW p \in Path,
               upgrades' = (upgrades \ {u}) \cup {WaitFor(t, p, Null)}
        PROVE  u \notin upgrades' /\ lost \notin upgrades' \ upgrades
    <3>1. WaitFor(t, p, Null).next = Null /\ WaitFor(t, p, Null).lost = FALSE
      BY DEF WaitFor
    <3>2. u # WaitFor(t, p, Null) /\ lost # WaitFor(t, p, Null)
      BY <1>2, <2>2, <3>1
    <3> QED
      BY <2>2, <3>2
  <2> QED
    BY <2>1, <2>2
<1> QED
  BY <1>3 DEF Answered, lost

\* A waiting request that goes on to delete a company waits no more.
LEMMA AnsweredIfDeleted ==
    ASSUME Inv, Waiting, NEW u \in upgrades, u.next # Null, NEW gone \in Path,
           upgrades' = WithoutCopies(upgrades \ {u}, gone)
    PROVE  u \in Answered
<1> DEFINE lost == [u EXCEPT !.lost = TRUE]
<1>1. u \in Upgrade /\ upgrades \ {u} \in SUBSET Upgrade
  BY DEF Inv, TypeOK
<1>2. lost.token = u.token /\ lost.next = u.next
  BY <1>1 DEF Upgrade
<1> HIDE DEF lost
<1>3. ASSUME NEW w \in upgrades', w.token = u.token, w.next = u.next
      PROVE  FALSE
  <2>1. PICK v \in upgrades \ {u} : w.token = v.token /\ w.next = v.next
    BY <1>1, <1>3, WithoutCopiesKeeps
  <2> QED
    BY <1>3, <2>1 DEF Waiting, Single
<1>4. u \notin upgrades' /\ lost \notin upgrades'
  BY <1>2, <1>3
<1> QED
  BY <1>4 DEF Answered, lost

\* A request that waited opens what it waited for, or else opens, waits for and
\* removes within the reach its session read last.
LEMMA ResumeReaches ==
    ASSUME Inv, Waiting, NEW u \in upgrades, sessions[u.token] # Null,
           NEW s0 \in Session, NEW d \in Disk,
           s0.user = sessions[u.token].user,
           s0.company # Null => \/ s0.company = sessions[u.token].company
                                \/ s0.company.path = u.path,
           \A q \in Path : disk[q].file # 0 => d[q].file # 0,
           Resume(u, s0, d, upgrades \ {u})
    PROVE  Within
<1> DEFINE t == u.token
           user == sessions[t].user
<1>1. sessions \in [Token -> Session \cup {Null}] /\ t \in Token
  BY DEF Inv, TypeOK, Upgrade
<1>2. ASSUME u \in Answered PROVE \A p \in Reach(user) : MayReach(t, p)
  BY <1>2 DEF MayReach
<1>3. CASE /\ u.next = Null
           /\ sessions' = [sessions EXCEPT ![t] = s0]
           /\ upgrades' = upgrades \ {u} /\ disk' = d
  <2>1. u \in Answered
    BY <1>3, AnsweredIfFewer
  <2>2. sessions'[t] = s0 /\ \A v \in Token \ {t} : sessions'[v] = sessions[v]
    BY <1>1, <1>3
  <2>3. Opens
    BY <1>3, <2>1, <2>2 DEF Opens, At, Live
  <2>4. Begins
    BY <1>3 DEF Begins, Begun
  <2> QED
    BY <1>3, <2>3, <2>4 DEF Within, Removes
<1>4. CASE u.next # Null /\ Ends(t, s0, d, upgrades \ {u})
  <2>1. PICK s \in Session :
            /\ sessions' = [sessions EXCEPT ![t] = s]
            /\ Keeps(t, s0, s, d, upgrades \ {u}) \/ Deletes(s0, s, d, upgrades \ {u})
    BY <1>4 DEF Ends
  <2>2. /\ sessions'[t] = s /\ s # Null
        /\ \A v \in Token \ {t} : sessions'[v] = sessions[v]
    BY <1>1, <2>1, NullIsNoSession
  <2>3. upgrades \ {u} \in SUBSET upgrades
    OBVIOUS
  <2>4. CASE Keeps(t, s0, s, d, upgrades \ {u})
    <3>1. u \in Answered
      BY <1>4, <2>4, AnsweredIfFewer DEF Keeps, Reach
    <3>2. \A p \in Path : disk[p].file # 0 => disk'[p].file # 0
      BY <2>4 DEF Keeps
    <3>3. s.company # Null => s.company.path \in Reach(user)
      BY <2>4 DEF Keeps
    <3>4. Opens
      BY <1>2, <2>2, <3>1, <3>3 DEF Opens, At, Live
    <3>5. \/ upgrades' = upgrades \ {u}
          \/ \E p \in Reach(user) : \E next : upgrades' = (upgrades \ {u}) \cup {WaitFor(t, p, next)}
      BY <2>4 DEF Keeps
    <3>6. Begins
      BY <1>2, <2>3, <3>1, <3>5, BeginsInReach
    <3> QED
      BY <3>2, <3>4, <3>6 DEF Within, Removes
  <2>5. CASE Deletes(s0, s, d, upgrades \ {u})
    <3>1. PICK gone \in Path : upgrades' = WithoutCopies(upgrades \ {u}, gone)
      BY <2>5 DEF Deletes
    <3>2. u \in Answered
      BY <1>4, <3>1, AnsweredIfDeleted
    <3>3. /\ s0.company # Null /\ s0.company.path \in Reach(user)
          /\ \A p \in Path : disk[p].file # 0 /\ disk'[p].file = 0 => p = s0.company.path
          /\ s.company = Null
      BY <2>5 DEF Deletes
    <3>4. Opens
      BY <2>2, <3>3 DEF Opens, At, Live
    <3>5. ASSUME NEW p \in Path, p = s0.company.path
          PROVE  /\ t \in Live' /\ MayReach(t, p) /\ ~At(sessions'[t], p)
                 /\ \/ t \in Live /\ At(sessions[t], p)
                    \/ u.path = p
      <4>1. t \in Live' /\ ~At(sessions'[t], p)
        BY <1>1, <2>2, <3>3 DEF Live, At
      <4>2. MayReach(t, p)
        BY <1>2, <3>2, <3>3, <3>5
      <4>3. (t \in Live /\ At(sessions[t], p)) \/ u.path = p
        BY <1>1, <3>3, <3>5 DEF Live, At
      <4> QED
        BY <4>1, <4>2, <4>3
    <3>6. Removes
      BY <3>2, <3>3, <3>5 DEF Removes
    <3>7. Begins
      BY <1>2, <2>3, <3>1, <3>2, BeginsInReach
    <3> QED
      BY <3>4, <3>6, <3>7 DEF Within
  <2> QED
    BY <2>1, <2>4, <2>5
<1> QED
  BY <1>3, <1>4, ResumeEnds


\* Every step keeps what is known of the waits, and stays within reach.
LEMMA StepReaches ==
    ASSUME Inv, Waiting, [Next]_vars
    PROVE  Waiting' /\ Within
<1>0. /\ row \in Rows /\ disk \in Disk /\ sessions \in [Token -> Session \cup {Null}]
      /\ \A u \in upgrades : u \in Upgrade /\ u.token \in Token /\ u.path \in Path
      /\ upgrades \in SUBSET upgrades
  BY DEF Inv, TypeOK, Rows, Disk, Upgrade
<1>1. ASSUME NEW t \in Token, SignIn(t) PROVE Waiting' /\ Within
  <2>1. /\ sessions'[t] = [company |-> Null, pending |-> Null, user |-> scope[t]]
        /\ \A v \in Token \ {t} : sessions'[v] = sessions[v] /\ row'[v] = row[v]
        /\ UNCHANGED <<disk, upgrades>>
    BY <1>0, <1>1 DEF SignIn, Rows
  <2>2. sessions'[t] # Null
    <3>1. [company |-> Null, pending |-> Null, user |-> scope[t]] \in Session
      BY DEF Session, Inv, TypeOK
    <3> QED
      BY <2>1, <3>1, NullIsNoSession
  <2>3. Waiting'
    BY <1>0, <2>1, <2>2 DEF Waiting, Single
  <2>4. Within
    BY <2>1, ReachQuiet
  <2> QED
    BY <2>3, <2>4
<1>2. ASSUME NEW t \in Token, SignOut(t) PROVE Waiting' /\ Within
  <2>1. /\ sessions'[t] = Null /\ row'[t] = NoRow
        /\ \A v \in Token \ {t} : sessions'[v] = sessions[v] /\ row'[v] = row[v]
        /\ UNCHANGED <<disk, upgrades>>
    BY <1>0, <1>2 DEF SignOut, Forget, Rows
  <2> QED
    BY <1>0, <2>1, WaitingQuiet, ReachQuiet
<1>3. ASSUME NEW t \in Token, IdleDrop(t) PROVE Waiting' /\ Within
  <2>1. /\ sessions'[t] = Null /\ \A u \in upgrades : u.token # t
        /\ \A v \in Token \ {t} : sessions'[v] = sessions[v]
        /\ UNCHANGED <<disk, upgrades>>
    BY <1>0, <1>3 DEF IdleDrop
  <2>2. \A v \in Token : row[v] = NoRow => row'[v] = NoRow
    BY <1>0, <1>3 DEF IdleDrop, Touch, Rows
  <2> QED
    BY <1>0, <2>1, <2>2, WaitingQuiet, ReachQuiet
<1>4. ASSUME NEW t \in Token, NEW ask \in Ask, Request(t, ask) PROVE Waiting' /\ Within
  <2>1. \A v \in Token : row'[v] = NoRow <=> row[v] = NoRow
    <3>1. Leads(t, Persist(row, t, SessionOf(t)))
      BY <1>4, RequestLeads
    <3>2. \A v \in Token : Persist(row, t, SessionOf(t))[v] = NoRow <=> row[v] = NoRow
      BY <1>0, SessionType, PersistType DEF Inv
    <3> QED
      BY <3>1, <3>2 DEF Leads
  <2>2. CASE Waits(t, ask)
    <3>1. PICK r \in Session : r.pending = Null /\ sessions' = [sessions EXCEPT ![t] = r]
      BY <2>2 DEF Waits
    <3>2. PICK p \in Path : upgrades' = upgrades \cup {WaitFor(t, p, ask)}
      BY <2>2 DEF Waits
    <3>3. /\ sessions'[t] = r /\ r # Null /\ sessions[t] = Null /\ row[t] # NoRow
          /\ \A v \in Token \ {t} : sessions'[v] = sessions[v]
      BY <1>0, <2>2, <3>1, NullIsNoSession DEF Waits
    <3>4. \A u \in upgrades : u.next # Null => u.token # t
      BY <3>3 DEF Waiting
    <3>5. WaitFor(t, p, ask).token = t
      BY DEF WaitFor
    <3>6. Single(upgrades')
      BY <3>2, <3>4, <3>5 DEF Single, Waiting
    <3>7. \A u \in upgrades' : u.next # Null => sessions'[u.token] # Null \/ row'[u.token] = NoRow
      <4> SUFFICES ASSUME NEW u \in upgrades', u.next # Null
                   PROVE  sessions'[u.token] # Null \/ row'[u.token] = NoRow
        OBVIOUS
      <4>1. CASE u.token = t
        BY <3>3, <4>1
      <4>2. CASE u.token # t
        <5>1. u \in upgrades
          BY <3>2, <3>5, <4>2
        <5> QED
          BY <1>0, <2>1, <3>3, <4>2, <5>1 DEF Waiting
      <4> QED
        BY <4>1, <4>2
    <3>8. \A v \in Token : sessions'[v] # Null => sessions'[v].pending = Null
      BY <3>1, <3>3 DEF Waiting
    <3>9. Waiting'
      BY <3>6, <3>7, <3>8 DEF Waiting, Single
    <3> QED
      BY <1>4, <3>9, RequestReaches
  <2>3. ASSUME NEW s0, NEW d, Starts(t, s0, d), Ends(t, s0, d, upgrades)
        PROVE  Waiting'
    <3>1. s0.pending = Null
      BY <2>3 DEF Starts
    <3> QED
      BY <1>0, <2>1, <2>3, <3>1, WaitingOfEnds
  <2>4. Waiting'
    BY <1>4, <2>2, <2>3, RequestEnds
  <2> QED
    BY <1>4, <2>4, RequestReaches
<1>5. ASSUME NEW u \in upgrades, NEW d \in Disk, Abandon(u, d, upgrades \ {u}),
             \A q \in Path : disk[q].file # 0 => d[q].file # 0
      PROVE  Waiting' /\ Within
  <2>1. /\ upgrades' \subseteq upgrades /\ sessions' = sessions /\ disk' = d
        /\ \A v \in Token : row[v] = NoRow => row'[v] = NoRow
    BY <1>0, <1>5 DEF Abandon, Touch, Rows
  <2> QED
    BY <1>0, <1>5, <2>1, WaitingQuiet, ReachQuiet
<1>6. ASSUME NEW u \in upgrades, sessions[u.token] # Null,
             NEW s \in Session, s.pending = Null, s.user = sessions[u.token].user,
             s.company # Null => \/ s.company = sessions[u.token].company
                                 \/ s.company.path = u.path,
             NEW d \in Disk, \A q \in Path : disk[q].file # 0 => d[q].file # 0,
             Resume(u, s, d, upgrades \ {u}), Leads(u.token, row)
      PROVE  Waiting' /\ Within
  <2>1. \A v \in Token : row'[v] = NoRow <=> row[v] = NoRow
    BY <1>6 DEF Leads
  <2>2. upgrades \ {u} \in SUBSET upgrades /\ u.token \in Token
    BY <1>0
  <2>3. CASE /\ sessions' = [sessions EXCEPT ![u.token] = s]
             /\ upgrades' = upgrades \ {u}
    <3>1. Fewer(u.token, upgrades \ {u})
      BY <2>3 DEF Fewer
    <3> QED
      BY <1>6, <2>1, <2>2, <2>3, <3>1, WaitingOfFewer, ResumeReaches
  <2>4. CASE Ends(u.token, s, d, upgrades \ {u})
    BY <1>6, <2>1, <2>2, <2>4, WaitingOfEnds, ResumeReaches
  <2> QED
    BY <1>6, <2>3, <2>4, ResumeEnds
<1>7. ASSUME NEW u \in upgrades, FinishUpgrade(u) PROVE Waiting' /\ Within
  <2>1. PICK n \in IF disk[u.path].file = 0 THEN Fresh(disk) ELSE {disk[u.path].file} :
            IF u.token \in Live
            THEN Resume(u, Opened(sessions[u.token], Finished(u, n), u.path), Finished(u, n),
                        upgrades \ {u})
            ELSE Abandon(u, Finished(u, n), upgrades \ {u})
    BY <1>7 DEF FinishUpgrade, Finished
  <2>2. /\ n # 0 /\ Finished(u, n) \in Disk /\ Finished(u, n)[u.path].file = n
        /\ \A q \in Path \ {u.path} : Finished(u, n)[q] = disk[q]
    BY FinishedFacts
  <2>3. \A q \in Path : disk[q].file # 0 => Finished(u, n)[q].file # 0
    BY <2>2
  <2>4. CASE u.token \in Live
    <3> DEFINE s == Opened(sessions[u.token], Finished(u, n), u.path)
    <3>1. /\ sessions[u.token] \in Session /\ sessions[u.token] # Null
          /\ sessions[u.token].pending = Null
      BY <1>0, <2>4 DEF Live, Waiting
    <3>2. s \in Session /\ s.company.path = u.path
      BY <1>0, <2>2, <3>1, OpenedType
    <3>3. s.pending = Null /\ s.user = sessions[u.token].user
      BY <3>1 DEF Opened, Session
    <3>4. Resume(u, s, Finished(u, n), upgrades \ {u})
      BY <2>1, <2>4
    <3>5. World(u.token, s, Finished(u, n), upgrades \ {u}, erased)
      BY <2>4, WorldFinished
    <3> HIDE DEF s
    <3>6. Leads(u.token, row)
      BY <3>4, <3>5, ResumeLeads
    <3> QED
      BY <1>6, <2>2, <2>3, <3>1, <3>2, <3>3, <3>4, <3>6
  <2>5. CASE u.token \notin Live
    BY <1>5, <2>1, <2>2, <2>3, <2>5
  <2> QED
    BY <2>4, <2>5
<1>8. ASSUME NEW u \in upgrades, FailUpgrade(u) PROVE Waiting' /\ Within
  <2>1. CASE u.token \in Live
    <3>1. /\ sessions[u.token] \in Session /\ sessions[u.token] # Null
          /\ sessions[u.token].pending = Null
      BY <1>0, <2>1 DEF Live, Waiting
    <3>2. World(u.token, sessions[u.token], disk, upgrades, erased)
      BY <1>0, <2>1, <3>1, WorldOfState
    <3>3. World(u.token, sessions[u.token], disk, upgrades \ {u}, erased)
      BY <3>2 DEF World, ClientUnused
    <3>4. Resume(u, sessions[u.token], disk, upgrades \ {u})
      BY <1>8, <2>1 DEF FailUpgrade
    <3>5. Leads(u.token, row)
      BY <3>3, <3>4, ResumeLeads
    <3> QED
      BY <1>0, <1>6, <3>1, <3>4, <3>5
  <2>2. CASE u.token \notin Live
    BY <1>0, <1>5, <1>8, <2>2 DEF FailUpgrade
  <2> QED
    BY <2>1, <2>2
<1>9. ASSUME NEW name \in Name, ClientMove(name) PROVE Waiting' /\ Within
  <2>1. /\ moved' # moved /\ UNCHANGED <<row, sessions, upgrades>>
    BY <1>9 DEF ClientMove
  <2> QED
    BY <1>0, <2>1, WaitingQuiet, ReachQuiet
<1>10. ASSUME NEW name \in Name, PutCompany(name) PROVE Waiting' /\ Within
  <2> DEFINE p == <<"firm", name>>
  <2>1. p \in Path
    BY DEF Path, Folder
  <2>2. PICK n \in Fresh(disk), old \in BOOLEAN :
            disk' = [disk EXCEPT ![p].file = n, ![p].old = old]
    BY <1>10 DEF PutCompany
  <2>3. n # 0 /\ disk[p] \in Place /\ UNCHANGED <<row, sessions, upgrades>>
    BY <1>0, <1>10, <2>1, WebSessionsAssumption DEF Fresh, Disk, PutCompany
  <2> HIDE DEF p
  <2>4. disk'[p].file = n /\ \A q \in Path \ {p} : disk'[q] = disk[q]
    BY <1>0, <2>1, <2>2, <2>3 DEF Disk, Place
  <2> QED
    BY <1>0, <2>3, <2>4, WaitingQuiet, ReachQuiet
<1>11. CASE Restart \/ Deploy
  <2>1. /\ \A v \in Token : sessions'[v] = Null
        /\ upgrades' = {} /\ row' = row
        /\ \A q \in Path : disk'[q].file = disk[q].file
    BY <1>11 DEF Restart, Deploy, Stop
  <2> QED
    BY <1>0, <2>1, WaitingQuiet, ReachQuiet
<1>12. CASE UNCHANGED <<row, sessions, upgrades, disk>>
  BY <1>0, <1>12, WaitingQuiet, ReachQuiet
<1> QED
  BY <1>1, <1>2, <1>3, <1>4, <1>7, <1>8, <1>9, <1>10, <1>11, <1>12
  DEF Next, SetUserAccess, SetUserActive, SetLinked, vars

\* Nobody waits when the server starts for the first time.
LEMMA InitWaiting == Init => Waiting
BY DEF Init, Waiting, Single

\* No request begins to wait for a company beyond its person's reach, opens one or
\* deletes one: after a wait it opens what it waited for, or holds to what its session
\* has read since.
THEOREM ReachIsKept == Spec => NothingBeyondReach
<1>1. Inv /\ Waiting /\ [Next]_vars => Waiting'
  BY StepReaches
<1>2. Inv /\ Waiting /\ [Next]_vars =>
        [/\ \A u \in Begun : MayReach(u.token, u.path)
         /\ \A t \in Live', p \in Path : At(sessions'[t], p) =>
                \/ MayReach(t, p)
                \/ t \in Live /\ At(sessions[t], p)
                \/ \E u \in Answered : u.token = t /\ u.path = p /\ u.next = Null
         /\ \A p \in Path : disk[p].file # 0 /\ disk'[p].file = 0 /\ moved' = moved =>
                \E t \in Live' :
                    /\ MayReach(t, p) /\ ~At(sessions'[t], p)
                    /\ \/ row[t] = p
                       \/ t \in Live /\ At(sessions[t], p)
                       \/ \E u \in Answered : u.token = t /\ u.path = p]_vars
  BY StepReaches DEF Within, Begins, Opens, Removes
<1> QED
  BY <1>1, <1>2, InitInv, StepInv, InitWaiting, PTL DEF Spec, NothingBeyondReach

=============================================================================
