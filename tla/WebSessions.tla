------------------------------ MODULE WebSessions ------------------------------
(***************************************************************************)
(* The web server's sign-ins, the company file each has open, who may      *)
(* reach it, and the files on the server's disk: src/src/server/index.ts,  *)
(* admin.ts, companyAccess.ts and the opening and upgrading of a company   *)
(* file in src/src/main (companyFile.ts, db/connection.ts).                *)
(*                                                                         *)
(* The server is one Node process.  A request runs to its end in one step, *)
(* except where it waits for SQLite to copy a company that an upgrade is   *)
(* about to change: that wait is an element of upgrades, and anything may  *)
(* happen before FinishUpgrade.  The people are those of one firm; one     *)
(* business may take its books out of the firm's folder and stay linked.   *)
(***************************************************************************)
EXTENDS Integers, FiniteSets

CONSTANTS
    Token,     \* sign-ins, one person each
    Member,    \* those whose access an owner changes
    Name,      \* names of company files
    MaxFile,   \* bound on company files ever made; each has a number
    MaxWait,   \* bound on requests waiting at a time
    Null,      \* null, and undefined
    NoRow      \* no row of the table sessions

ASSUME WebSessionsAssumption ==
    /\ Member \subseteq Token
    /\ MaxFile \in Nat /\ MaxWait \in Nat
    /\ {Null, NoRow} \cap ({"firm", "client"} \X Name) = {}
    /\ Null # NoRow

VARIABLES
    row,       \* web-admin.db sessions: the company path saved
    scope,     \* web-admin.db users.company_scope
    active,    \* web-admin.db users.is_active
    linked,    \* web-admin.db referrals: the business is linked to the firm
    moved,     \* web-admin.db orgs: the business has its own organisation
    disk,      \* the company files in both folders, and their copies
    erased,    \* files removed by company:deleteCurrent
    issued,    \* tokens handed out
    sessions,  \* the Map of the process
    upgrades   \* requests waiting for the copy made before an upgrade

vars == <<row, scope, active, linked, moved, disk, erased, issued, sessions,
          upgrades>>
store == <<scope, active, linked, moved>>

-----------------------------------------------------------------------------
(* Types *)

Folder == {"firm", "client"}
Path == Folder \X Name
FolderOf(p) == p[1]
NameOf(p) == p[2]

\* file is the number of the file at a path, 0 if there is none; old says that
\* it needs an upgrade; copy is the file whose pre-upgrade copy is found under
\* the name of this one, 0 if there is none; whole says that it was finished.
Place == [file: 0..MaxFile, old: BOOLEAN, copy: 0..MaxFile, whole: BOOLEAN]
Connection == [path: Path, file: 1..MaxFile]
Scope == (SUBSET Name \ {{}}) \cup {Null}

\* user is the copy of the person's scope that the session read last.
Session == [company: Connection \cup {Null}, pending: Path \cup {Null},
            user: Scope]

ASSUME NullIsNoSession == Null \notin Session

\* What a request asks for; "use" is any handler that works on the company.
Ask == [do: {"use", "close", "delete"}] \cup [do: {"open"}, path: Path]
       \cup [do: {"create"}, name: Name]

\* A wait: for the session's own company to come back (and then what the
\* request asked), or for a company:open.  lost: its copy has been deleted.
Upgrade == [token: Token, path: Path, lost: BOOLEAN, next: Ask \cup {Null}]

TypeOK ==
    /\ row \in [Token -> Path \cup {Null, NoRow}]
    /\ scope \in [Token -> Scope]
    /\ active \in [Token -> BOOLEAN]
    /\ linked \in BOOLEAN /\ moved \in BOOLEAN
    /\ disk \in [Path -> Place]
    /\ erased \subseteq 1..MaxFile
    /\ issued \subseteq Token
    /\ sessions \in [Token -> Session \cup {Null}]
    /\ upgrades \subseteq Upgrade

Live == {t \in Token : sessions[t] # Null}
At(s, p) == s.company # Null /\ s.company.path = p
OpenPath(s) == IF s.company # Null THEN s.company.path ELSE s.pending

\* A number no file on disk, deleted file or connection carries.
Fresh(d) ==
    (1..MaxFile) \ (erased \cup {d[p].file : p \in Path}
            \cup {sessions[t].company.file :
                    t \in {u \in Live : sessions[u].company # Null}})

-----------------------------------------------------------------------------
(* Who may reach what, and what is remembered *)

\* reachFor and mayOpenCompany
Reach(names) ==
    {p \in Path : \/ FolderOf(p) = "firm" /\ (names = Null \/ NameOf(p) \in names)
                  \/ FolderOf(p) = "client" /\ names = Null /\ linked}

\* Slip: the check looks at what the sessions have saved, not at what is open.
SlipOpenAnywhere(p) == \E t \in Live : row[t] = p

\* isOpenAnywhere
OpenAnywhere(p) == \E t \in Live : At(sessions[t], p)

\* Slip: the row is written with INSERT OR REPLACE, as saveSession writes it.
SlipTouch(rows, t, path) == [rows EXCEPT ![t] = path]

\* touchSession: an UPDATE, which finds nothing once the row is gone.
Touch(rows, t, path) == [rows EXCEPT ![t] = IF @ = NoRow THEN @ ELSE path]

\* persistSession.  It skips the write for a few minutes when it would write
\* what it wrote last; the model always writes.
Persist(rows, t, s) == Touch(rows, t, OpenPath(s))

\* restoreSession: a company that is no longer on disk is not reopened.
Restored(t) ==
    LET back == IF row[t] \in Path /\ disk[row[t]].file # 0 THEN row[t] ELSE Null
    IN [company |-> Null, pending |-> back, user |-> scope[t]]

\* sessionOf, for a person who is still active, up to persistSession.
SessionOf(t) ==
    [(IF t \in Live THEN sessions[t] ELSE Restored(t)) EXCEPT !.user = scope[t]]

Known(t) == t \in Live \/ row[t] # NoRow

\* endSession when the person signs out or is no longer active.
Forget(t) ==
    /\ row' = [row EXCEPT ![t] = NoRow]
    /\ sessions' = [sessions EXCEPT ![t] = Null]

-----------------------------------------------------------------------------
(* Opening a company: createPreMigrationBackupIfNeeded, openCompanyDatabase *)

\* Slip: a copy found by name is used without being checked.
SlipCopyServes(place) == place.copy # 0

\* An existing copy is taken for the copy only if it passes the check.
CopyServes(place) == place.whole

Ready(place) == place.file # 0 /\ (place.old => CopyServes(place))
NeedsCopy(place) == place.file # 0 /\ place.old /\ place.copy = 0

Upgraded(d, p) == [d EXCEPT ![p].old = FALSE]
Opened(s, d, p) == [s EXCEPT !.company = [path |-> p, file |-> d[p].file]]

WaitFor(t, p, next) == [token |-> t, path |-> p, lost |-> FALSE, next |-> next]
Copying(d, p) == [d EXCEPT ![p].copy = d[p].file]

\* The request ends: company: channels write the row again.
Answer(t, s, d, waits, rows, ask) ==
    /\ disk' = d
    /\ upgrades' = waits
    /\ sessions' = [sessions EXCEPT ![t] = s]
    /\ row' = IF ask.do = "use" THEN rows ELSE Persist(rows, t, s)

-----------------------------------------------------------------------------
(* What a request does once its session's company is back *)

\* Slip: a file that needs an upgrade is copied before the reach is looked at.
SlipOpen(t, s, d, waits, rows, ask) ==
    LET p == ask.path
    IN  IF ~At(s, p) /\ NeedsCopy(d[p])
        THEN /\ Cardinality(waits) < MaxWait
             /\ disk' = Copying(d, p)
             /\ upgrades' = waits \cup {WaitFor(t, p, Null)}
             /\ sessions' = [sessions EXCEPT ![t] = s]
             /\ row' = rows
        ELSE IF p \in Reach(s.user) /\ ~At(s, p) /\ Ready(d[p])
        THEN Answer(t, Opened(s, d, p), Upgraded(d, p), waits, rows, ask)
        ELSE Answer(t, s, d, waits, rows, ask)

\* openCompany after the reach check of company:open.  With nothing to copy
\* the upgrade runs at once; an incomplete copy makes the open fail.
Open(t, s, d, waits, rows, ask) ==
    LET p == ask.path
    IN  IF p \in Reach(s.user) /\ ~At(s, p) /\ NeedsCopy(d[p])
        THEN /\ Cardinality(waits) < MaxWait
             /\ disk' = Copying(d, p)
             /\ upgrades' = waits \cup {WaitFor(t, p, Null)}
             /\ sessions' = [sessions EXCEPT ![t] = s]
             /\ row' = rows
        ELSE IF p \in Reach(s.user) /\ ~At(s, p) /\ Ready(d[p])
        THEN Answer(t, Opened(s, d, p), Upgraded(d, p), waits, rows, ask)
        ELSE Answer(t, s, d, waits, rows, ask)

\* deleteCompanyAndData: the file, and the Backups folder it shares with every
\* company of its folder.
Removed(d, gone) ==
    [p \in Path |-> [file |-> IF p = gone THEN 0 ELSE d[p].file,
                     old  |-> p # gone /\ d[p].old,
                     copy |-> IF FolderOf(p) = FolderOf(gone) THEN 0 ELSE d[p].copy,
                     whole |-> FolderOf(p) # FolderOf(gone) /\ d[p].whole]]
WithoutCopies(waits, gone) ==
    {[u EXCEPT !.lost = @ \/ FolderOf(u.path) = FolderOf(gone)] : u \in waits}

Delete(t, s, d, waits, rows, ask) ==
    IF s.company = Null
    THEN Answer(t, s, d, waits, rows, ask) /\ UNCHANGED erased
    ELSE LET p == s.company.path
         IN  /\ Answer(t, [s EXCEPT !.company = Null], Removed(d, p),
                       WithoutCopies(waits, p), rows, ask)
             /\ erased' = erased \cup ({d[p].file} \ {0})

\* company:create, for the people who are not limited to named companies.
Create(t, s, d, waits, rows, ask) ==
    LET p == <<"firm", ask.name>>
    IN  IF s.user = Null /\ d[p].file = 0
        THEN \E n \in Fresh(d) :
             LET made == [d EXCEPT ![p].file = n, ![p].old = FALSE]
             IN  Answer(t, Opened(s, made, p), made, waits, rows, ask)
        ELSE Answer(t, s, d, waits, rows, ask)

\* A company the person may no longer reach is closed before the handler runs.
Allowed(s) ==
    IF s.company # Null /\ s.company.path \notin Reach(s.user)
    THEN [s EXCEPT !.company = Null] ELSE s

Handle(t, s0, d, waits, rows, ask) ==
    LET s == Allowed(s0)
    IN  /\ \/ ask.do = "use" /\ Answer(t, s, d, waits, rows, ask)
           \/ /\ ask.do = "close"
              /\ Answer(t, [s EXCEPT !.company = Null], d, waits, rows, ask)
           \/ ask.do = "open" /\ Open(t, s, d, waits, rows, ask)
           \/ ask.do = "create" /\ Create(t, s, d, waits, rows, ask)
           \/ ask.do = "delete" /\ Delete(t, s, d, waits, rows, ask)
        /\ ask.do # "delete" => UNCHANGED erased
        /\ UNCHANGED <<store, issued>>

-----------------------------------------------------------------------------
(* Requests *)

\* newSession
SignIn(t) ==
    /\ t \notin issued /\ active[t]
    /\ issued' = issued \cup {t}
    /\ row' = [row EXCEPT ![t] = Null]
    /\ sessions' = [sessions EXCEPT ![t] =
            [company |-> Null, pending |-> Null, user |-> scope[t]]]
    /\ UNCHANGED <<store, disk, erased, upgrades>>

\* The /api/:channel route.  The company pending from before a restart is
\* forgotten first, then reopened if it is still in reach.
Request(t, ask) ==
    /\ Known(t) /\ active[t]
    /\ LET s == SessionOf(t)
           rows == Persist(row, t, s)
           p == s.pending
           ready == [s EXCEPT !.pending = Null]
           wanted == p # Null /\ p \in Reach(s.user) /\ ~At(s, p)
       IN  \/ /\ wanted /\ NeedsCopy(disk[p]) /\ Cardinality(upgrades) < MaxWait
              /\ disk' = Copying(disk, p)
              /\ upgrades' = upgrades \cup {WaitFor(t, p, ask)}
              /\ sessions' = [sessions EXCEPT ![t] = ready]
              /\ row' = rows
              /\ UNCHANGED <<store, erased, issued>>
           \/ /\ wanted /\ Ready(disk[p])
              /\ Handle(t, Opened(ready, disk, p), Upgraded(disk, p), upgrades, rows, ask)
           \/ /\ ~(wanted /\ (NeedsCopy(disk[p]) \/ Ready(disk[p])))
              /\ Handle(t, ready, disk, upgrades, rows, ask)

\* The rest of the request that waited.  The session may have ended by now;
\* what the request still does with a connection no session has is left out.
Resume(u, s, d, waits) ==
    IF u.next = Null
    THEN /\ Answer(u.token, s, d, waits, row, [do |-> "open", path |-> u.path])
         /\ UNCHANGED <<store, erased, issued>>
    ELSE Handle(u.token, s, d, waits, row, u.next)

Abandon(u, d, waits) ==
    /\ disk' = d
    /\ upgrades' = waits
    /\ row' = IF u.next = Null THEN Touch(row, u.token, u.path) ELSE row
    /\ UNCHANGED <<store, erased, issued, sessions>>

\* The copy is done.  Opening makes the file if there is none by now.
FinishUpgrade(u) ==
    LET p == u.path
        waits == upgrades \ {u}
    IN  /\ u \in upgrades /\ ~u.lost
        /\ \E n \in IF disk[p].file = 0 THEN Fresh(disk) ELSE {disk[p].file} :
           LET d == [disk EXCEPT ![p].file = n, ![p].old = FALSE, ![p].whole = TRUE]
           IN  IF u.token \in Live
               THEN Resume(u, Opened(sessions[u.token], d, p), d, waits)
               ELSE Abandon(u, d, waits)

\* The copy was deleted meanwhile: its check fails and nothing is opened.
FailUpgrade(u) ==
    LET waits == upgrades \ {u}
    IN  /\ u \in upgrades /\ u.lost
        /\ IF u.token \in Live
           THEN Resume(u, sessions[u.token], disk, waits)
           ELSE Abandon(u, disk, waits)

\* A request of a person who has been made inactive, a sign-out, or a reset of
\* the password.
SignOut(t) ==
    /\ Known(t)
    /\ Forget(t)
    /\ UNCHANGED <<store, disk, erased, issued, upgrades>>

\* Two hours without a request: no wait of the session lasts that long.
IdleDrop(t) ==
    /\ t \in Live
    /\ \A u \in upgrades : u.token # t
    /\ row' = Touch(row, t, OpenPath(sessions[t]))
    /\ sessions' = [sessions EXCEPT ![t] = Null]
    /\ UNCHANGED <<store, disk, erased, issued, upgrades>>

-----------------------------------------------------------------------------
(* What owners and the platform administrator do *)

SetUserAccess(t, names) ==
    /\ scope' = [scope EXCEPT ![t] = names]
    /\ UNCHANGED <<row, active, linked, moved, disk, erased, issued, sessions, upgrades>>

SetUserActive(t, on) ==
    /\ active' = [active EXCEPT ![t] = on]
    /\ UNCHANGED <<row, scope, linked, moved, disk, erased, issued, sessions, upgrades>>

\* The list of a person limited to a company the firm gives away.
Rest(t, name) == IF scope[t] = Null THEN Null ELSE scope[t] \ {name}

\* Slip: a list that ends empty is stored, and the person stays active.
SlipScopeWithout(t, name) == Rest(t, name)

ScopeWithout(t, name) == IF Rest(t, name) = {} THEN scope[t] ELSE Rest(t, name)

\* POST /api/org/clients and createClientSubscription: the file moves, its
\* copy does not, and people limited to it lose it.
ClientMove(name) ==
    LET from == <<"firm", name>>
        to == <<"client", name>>
    IN  /\ ~moved /\ disk[from].file # 0 /\ ~OpenAnywhere(from)
        /\ moved' = TRUE /\ linked' = TRUE
        /\ disk' = [disk EXCEPT ![to].file = disk[from].file, ![to].old = disk[from].old,
                                ![from].file = 0, ![from].old = FALSE]
        /\ scope' = [t \in Token |-> ScopeWithout(t, name)]
        /\ active' = [t \in Token |-> active[t] /\ Rest(t, name) # {}]
        /\ UNCHANGED <<row, erased, issued, sessions, upgrades>>

\* startReferral and endReferral
SetLinked(on) ==
    /\ moved /\ linked # on
    /\ linked' = on
    /\ UNCHANGED <<row, scope, active, moved, disk, erased, issued, sessions, upgrades>>

\* PUT /api/org/companies?replace=1, of a file of this or an older version,
\* into the firm's own folder (orgForFiles).
PutCompany(name) ==
    LET p == <<"firm", name>>
    IN  /\ disk[p].file # 0 => ~OpenAnywhere(p)
        /\ \E n \in Fresh(disk), old \in BOOLEAN :
               disk' = [disk EXCEPT ![p].file = n, ![p].old = old]
        /\ UNCHANGED <<row, store, erased, issued, sessions, upgrades>>

-----------------------------------------------------------------------------
(* The process *)

\* Only the two databases on disk survive; a copy being made stays half made.
Stop ==
    /\ sessions' = [t \in Token |-> Null]
    /\ upgrades' = {}
    /\ UNCHANGED <<row, store, erased, issued>>

Restart == Stop /\ UNCHANGED disk

\* A new version: every file needs an upgrade, whose copy has a new name.
Deploy ==
    /\ Stop
    /\ disk' = [p \in Path |-> [file |-> disk[p].file, old |-> disk[p].file # 0,
                                copy |-> 0, whole |-> FALSE]]

Init ==
    /\ row = [t \in Token |-> NoRow]
    /\ scope = [t \in Token |-> Null]
    /\ active = [t \in Token |-> TRUE]
    /\ linked = FALSE /\ moved = FALSE
    /\ disk = [p \in Path |-> [file |-> 0, old |-> FALSE, copy |-> 0, whole |-> FALSE]]
    /\ erased = {} /\ issued = {}
    /\ sessions = [t \in Token |-> Null]
    /\ upgrades = {}

Next ==
    \/ \E t \in Token : \/ SignIn(t) \/ SignOut(t) \/ IdleDrop(t)
                        \/ \E ask \in Ask : Request(t, ask)
    \/ \E t \in Member : \/ \E names \in Scope : SetUserAccess(t, names)
                         \/ \E on \in BOOLEAN : SetUserActive(t, on)
    \/ \E u \in upgrades : FinishUpgrade(u) \/ FailUpgrade(u)
    \/ \E name \in Name : ClientMove(name) \/ PutCompany(name)
    \/ \E on \in BOOLEAN : SetLinked(on)
    \/ Restart \/ Deploy

Spec == Init /\ [][Next]_vars

-----------------------------------------------------------------------------
(* Properties *)

\* A sign-in that was ended never comes back: no request still in flight, and
\* no restart, saves its row again (endSession with forget, index.ts, and
\* touchSession, admin.ts).
ForgottenStaysOut ==
    [][\A t \in issued : row[t] = NoRow => row'[t] = NoRow /\ sessions'[t] = Null]_vars

\* The file behind a session's connection is the one on disk under that name,
\* unless company:deleteCurrent removed it: no upload, move to a client's own
\* folder, or upgrade that waited pulls it from under the session
\* (isOpenAnywhere, index.ts).
OpenIsOnDisk ==
    \A t \in Live : LET c == sessions[t].company IN
        c # Null => disk[c.path].file = c.file \/ c.file \in erased

\* The waits a step answers, and those it begins: a wait whose copy is deleted
\* goes on.
Answered == {u \in upgrades \ upgrades' :
                [u EXCEPT !.lost = TRUE] \notin upgrades' \ upgrades}
Begun == {u \in upgrades' \ upgrades : ~u.lost}

\* A person's reach as a request comes in, when sessionOf reads it; a request that
\* has waited finds what its session has read since.
MayReach(t, p) ==
    \/ p \in Reach(scope[t])
    \/ \E u \in Answered : u.token = t /\ p \in Reach(sessions[t].user)

\* No request waits to open, opens or deletes a company beyond its person's reach.
\* What a company:open that waited opens was in reach when it began to wait; what else
\* a request opens or deletes after a wait is held to what its session has read since
\* (sessionOf, reachFor, the checks of company:open and of the /api/:channel route).
NothingBeyondReach ==
    [][/\ \A u \in Begun : MayReach(u.token, u.path)
       /\ \A t \in Live', p \in Path : At(sessions'[t], p) =>
              \/ MayReach(t, p)
              \/ t \in Live /\ At(sessions[t], p)
              \/ \E u \in Answered : u.token = t /\ u.path = p /\ u.next = Null
       /\ \A p \in Path : disk[p].file # 0 /\ disk'[p].file = 0 /\ moved' = moved =>
              \E t \in Live' :
                  /\ MayReach(t, p) /\ ~At(sessions'[t], p)
                  /\ \/ row[t] = p
                     \/ t \in Live /\ At(sessions[t], p)
                     \/ \E u \in Answered : u.token = t /\ u.path = p]_vars

\* A company file is upgraded only once a whole copy of its folder's Backups
\* carries its name, through crashes in the middle of copying, deleted copies
\* and several people opening it (createPreMigrationBackupIfNeeded).
UpgradedOnlyWithCopy ==
    [][\A p \in Path :
         disk[p].old /\ ~disk'[p].old /\ disk'[p].file = disk[p].file
             => disk'[p].whole]_vars

=============================================================================
