-------------------------- MODULE OAuthRepository --------------------------
(***************************************************************************)
(* The OAuth store of a production server: the methods of the PostgreSQL   *)
(* OAuthRepository as transactions at READ COMMITTED, where OAuthStore is  *)
(* the in-memory store behind one mutex.  A statement sees the rows that   *)
(* were committed when it began and its own writes; it locks the rows it   *)
(* writes one by one, waits for a transaction that holds one, and looks at *)
(* the row again once it has it.  A row that another transaction inserted  *)
(* meanwhile it does not see.                                              *)
(***************************************************************************)
EXTENDS Naturals, Sequences, FiniteSets

CONSTANTS
    Codes, AccessTokens, RefreshTokens, Devices,   \* rows, named by their hash
    Txs,           \* requests, one transaction each; the refresh token that a
                   \* request puts in the place of another has its name
    Clients, Users, Sessions, Families,
    None,          \* NULL
    Workload       \* bound: what is stored at first and what is asked together

\* The rows of oauth_consents: one for a user and a client.
Consents == Users \X Clients

Refreshes == RefreshTokens \union Txs
Ids == Codes \union AccessTokens \union Refreshes \union Devices \union Consents

\* One shape for the rows of all tables; a column a table has not is None,
\* FALSE or "".  consumed and revoked are the timestamps that may be NULL.
Row ==
    [client : Clients \union {None}, user : Users \union {None},
     session : Sessions \union {None}, family : Families \union {None},
     consumed : BOOLEAN, revoked : BOOLEAN,
     status : {"", "pending", "approved", "denied", "consumed"}]

Ops == {"consume", "rotate", "revokeRefresh", "revokeAccess", "decide", "poll",
        "session", "user", "client", "grant", "deleteConsent", "cleanup"}

\* What a request asks for.  wide: a refresh asks for more than it had;
\* early: a poll comes before its interval is over.
Task ==
    [op : Ops, row : Ids \union {None}, client : Clients \union {None},
     user : Users \union {None}, session : Sessions \union {None},
     approve : BOOLEAN, wide : BOOLEAN, early : BOOLEAN]

\* A request names a row of the table of its method; who decides a device and
\* who consents is known, and an approval is for the client of the device
\* (RETURNING client_id).
WellAsked(w, task) ==
    /\ task.op = "consume" => task.row \in Codes
    /\ task.op = "revokeAccess" => task.row \in AccessTokens
    /\ task.op \in {"rotate", "revokeRefresh"} => task.row \in Refreshes
    /\ task.op \in {"decide", "poll"} => task.row \in Devices
    /\ task.op \in {"decide", "grant", "deleteConsent"} =>
         task.user \in Users /\ task.client \in Clients
    /\ task.op = "decide" /\ w.rows[task.row] # None =>
         w.rows[task.row].client = task.client

Unspent(row) == row # None /\ ~row.consumed /\ ~row.revoked

\* What is stored at first or will be saved.  A family starts with one token, a
\* device is saved pending, and one that was approved has a user and a consent.
WellStored(w) ==
    /\ w.rows \in [Ids -> Row \union {None}]
    /\ w.unsaved \subseteq Ids \ (Consents \union Txs) /\ w.lapsing \subseteq Ids
    /\ \A t \in Txs : w.rows[t] = None
    /\ \A i, j \in RefreshTokens :
         Unspent(w.rows[i]) /\ Unspent(w.rows[j]) /\ w.rows[i].family = w.rows[j].family
           => i = j
    /\ \A d \in Devices : w.rows[d] # None =>
         /\ w.rows[d].client \in Clients
         /\ w.rows[d].status \in {"approved", "consumed"} => w.rows[d].user \in Users
         /\ w.rows[d].status = "approved" =>
              w.rows[<<w.rows[d].user, w.rows[d].client>>] # None
         /\ d \in w.unsaved => w.rows[d].status = "pending"

\* Every table names its rows for itself.
ASSUME RepositoryAssumption ==
    /\ None \notin Ids \union Clients \union Users \union Sessions \union Families \union Row
    /\ Codes \intersect (AccessTokens \union Refreshes \union Devices \union Consents) = {}
    /\ AccessTokens \intersect (Refreshes \union Devices \union Consents) = {}
    /\ Refreshes \intersect (Devices \union Consents) = {}
    /\ Devices \intersect Consents = {} /\ RefreshTokens \intersect Txs = {}
    /\ \A n \in DOMAIN Workload :
         /\ WellStored(Workload[n]) /\ Workload[n].tasks \subseteq Task
         /\ \A task \in Workload[n].tasks : WellAsked(Workload[n], task)

VARIABLES
    db,        \* the committed rows
    own,       \* the rows a transaction holds, as it has written them
    tx,        \* what each transaction is doing
    unsaved,   \* rows still to be saved by the requests that issue them
    expired,   \* rows whose expires_at is over
    aged,      \* rows consumed, revoked or denied more than an hour ago
    granted,   \* history: commits that gave something for a row
    dead,      \* history: rows that a committed revocation reached for
    load       \* the name of the workload

vars == <<db, own, tx, unsaved, expired, aged, granted, dead, load>>
historyVars == <<granted, dead>>
timeVars == <<unsaved, expired, aged, load>>

-----------------------------------------------------------------------------
(***************************************************************************)
(* Statements.  where says which values of a column qualify, set which     *)
(* columns are written; a statement that must hit ends the method with     *)
(* ErrGrantNotFound or ErrConsentNotFound when no row qualifies.           *)
(***************************************************************************)
NoColumns == [f \in {} |-> None]

Statement(kind, rows, where, set, must) ==
    [kind |-> kind, rows |-> rows, where |-> where, set |-> set, must |-> must]

Update(rows, set, where) == Statement("update", rows, where, set, FALSE)
UpdateFound(rows, set, where) == Statement("update", rows, where, set, TRUE)
Select(row, where) == Statement("read", {row}, where, NoColumns, TRUE)
SelectForUpdate(row, where) == Statement("lock", {row}, where, NoColumns, TRUE)
Insert(row, values) == Statement("insert", {row}, NoColumns, values, FALSE)
DeleteFrom(rows, where) == Statement("delete", rows, where, NoColumns, TRUE)
Sweep(rows, where) == Statement("sweep", rows, where, NoColumns, FALSE)

Reads == {"read", "lock"}

Revoked == [revoked |-> TRUE]
Denied == [status |-> "denied"]

Written(row, set) ==
    [f \in DOMAIN row |-> IF f \in DOMAIN set THEN set[f] ELSE row[f]]

\* The state of the database as transaction t sees it.
View(t) == [i \in Ids |-> IF i \in DOMAIN own[t] THEN own[t][i] ELSE db[i]]

\* A sweep takes a row that had expired, or was settled an hour before, when
\* the cleanup began.
Qualifies(t, s, i) ==
    LET row == View(t)[i] IN
    /\ row # None
    /\ IF s.kind = "sweep"
          THEN \/ i \in tx[t].past
               \/ i \in tx[t].old /\ \E f \in DOMAIN s.where : row[f] \in s.where[f]
          ELSE \A f \in DOMAIN s.where : row[f] \in s.where[f]

-----------------------------------------------------------------------------
(***************************************************************************)
(* Transactions.                                                           *)
(***************************************************************************)
NoTask == [op |-> "none", row |-> None, client |-> None, user |-> None,
           session |-> None, approve |-> FALSE, wide |-> FALSE, early |-> FALSE]

\* plan: the statements still to run, the running one first; todo: the rows it
\* has still to lock; targets: rows the transaction means to revoke.
Idle == [phase |-> "idle", task |-> NoTask, plan |-> <<>>, todo |-> {},
         hit |-> FALSE, seen |-> None, targets |-> {}, past |-> {}, old |-> {},
         grants |-> FALSE]

Ended == [Idle EXCEPT !.phase = "ended"]

Init ==
    /\ load \in DOMAIN Workload
    /\ unsaved = Workload[load].unsaved
    /\ db = [i \in Ids |-> IF i \in unsaved THEN None ELSE Workload[load].rows[i]]
    /\ own = [t \in Txs |-> NoColumns]
    /\ tx = [t \in Txs |-> Idle]
    /\ expired = {} /\ aged = {} /\ dead = {}
    /\ granted = [i \in Ids |-> 0]

\* Where the transaction stands once a statement has no row left to lock.  The
\* method reads the row it has locked before it goes on.
Advance(x) ==
    LET s == Head(x.plan) IN
    CASE x.todo # {} -> x
      [] x.todo = {} /\ s.must /\ ~x.hit -> Ended
      [] x.todo = {} /\ (x.hit \/ ~s.must) ->
           [x EXCEPT !.plan = Tail(@), !.hit = FALSE,
                     !.phase = IF s.kind \in Reads THEN "branch"
                               ELSE IF Len(x.plan) = 1 THEN "commit" ELSE "next"]

\* Locks are given up with the transaction.
SetTx(t, x, rows) ==
    /\ tx' = [tx EXCEPT ![t] = x]
    /\ own' = [own EXCEPT ![t] = IF x.phase = "ended" THEN NoColumns ELSE rows]

Begin(t, task, plan) ==
    /\ tx[t].phase = "idle"
    /\ SetTx(t, [Idle EXCEPT !.phase = "next", !.task = task, !.plan = plan,
                             !.past = expired, !.old = aged,
                             !.grants = (task.op = "consume")], NoColumns)
    /\ UNCHANGED <<db, timeVars, historyVars>>

\* A statement begins: its snapshot decides which rows it will write.
Execute(t) ==
    LET s == Head(tx[t].plan)
        rows == IF s.kind = "insert" THEN s.rows
                ELSE {i \in s.rows : Qualifies(t, s, i)}
        aims == IF s.kind = "update" /\ s.set \in {Revoked, Denied} THEN rows ELSE {}
    IN  /\ tx[t].phase = "next"
        /\ SetTx(t, Advance([tx[t] EXCEPT !.phase = "run", !.todo = rows,
                                          !.targets = @ \union aims]), own[t])
        /\ UNCHANGED <<db, timeVars, historyVars>>

\* It takes one of them when no other transaction holds it, and writes it if it
\* still qualifies.  An INSERT ... ON CONFLICT DO UPDATE finds the row or makes
\* it, whatever its snapshot was; a plain SELECT neither waits nor holds.
LockRow(t, i) ==
    LET s == Head(tx[t].plan)
        here == View(t)[i]
        after == CASE s.kind = "insert" -> s.set
                   [] s.kind \in {"delete", "sweep"} -> None
                   [] OTHER -> Written(here, s.set)
        ok == s.kind = "insert" \/ Qualifies(t, s, i)
        takes == ok /\ s.kind # "read"
    IN  /\ tx[t].phase = "run" /\ i \in tx[t].todo
        /\ s.kind # "read" => \A u \in Txs \ {t} : i \notin DOMAIN own[u]
        /\ SetTx(t,
                 Advance([tx[t] EXCEPT !.todo = @ \ {i}, !.hit = @ \/ ok,
                                       !.seen = IF s.kind \in Reads THEN here ELSE @]),
                 IF takes THEN [j \in DOMAIN own[t] \union {i} |->
                                  IF j = i THEN after ELSE own[t][j]]
                          ELSE own[t])
        /\ UNCHANGED <<db, timeVars, historyVars>>

Commit(t) ==
    /\ tx[t].phase = "commit"
    /\ db' = View(t)
    /\ granted' = [i \in Ids |-> granted[i] +
                      IF tx[t].grants /\ i = tx[t].task.row THEN 1 ELSE 0]
    /\ dead' = dead \union tx[t].targets
    /\ SetTx(t, Ended, NoColumns)
    /\ UNCHANGED timeVars

\* The deferred Rollback of a method that returns early.
Rollback(t) ==
    /\ SetTx(t, Ended, NoColumns)
    /\ UNCHANGED <<db, timeVars, historyVars>>

\* The connection is lost, the request is cancelled, or PostgreSQL picks the
\* transaction to end a deadlock.  A failure shows at a statement or the commit.
Fail(t) == tx[t].phase \in {"run", "commit"} /\ Rollback(t)

\* The method goes on after SELECT ... FOR UPDATE: more statements, an early
\* return that rolls back, or the commit.
Continue(t, plan, grants) ==
    /\ SetTx(t, [tx[t] EXCEPT !.phase = IF plan = <<>> THEN "commit" ELSE "next",
                              !.plan = plan, !.grants = grants], own[t])
    /\ UNCHANGED <<db, timeVars, historyVars>>

-----------------------------------------------------------------------------
(***************************************************************************)
(* Codes and tokens.                                                       *)
(***************************************************************************)
\* One INSERT.
Save(i) ==
    /\ i \in unsaved
    /\ db' = [db EXCEPT ![i] = Workload[load].rows[i]]
    /\ unsaved' = unsaved \ {i}
    /\ UNCHANGED <<own, tx, expired, aged, load, historyVars>>

SaveAuthorizationCode(i) == i \in Codes /\ Save(i)
SaveAccessToken(i) == i \in AccessTokens /\ Save(i)
SaveRefreshToken(i) == i \in RefreshTokens /\ Save(i)
SaveDeviceAuthorization(i) == i \in Devices /\ Save(i)

\* Mutant: a code that has been exchanged passes again.
ConsumeAgain(t, task) ==
    /\ task.op = "consume"
    /\ Begin(t, task,
             <<UpdateFound({task.row} \ expired, [consumed |-> TRUE],
                           [client |-> {task.client}, revoked |-> {FALSE}])>>)

ConsumeAuthorizationCode(t, task) ==
    /\ task.op = "consume"
    /\ Begin(t, task,
             <<UpdateFound({task.row} \ expired, [consumed |-> TRUE],
                           [client |-> {task.client}, consumed |-> {FALSE},
                            revoked |-> {FALSE}])>>)

RevokeAccessToken(t, task) ==
    /\ task.op = "revokeAccess"
    /\ Begin(t, task, <<UpdateFound({task.row}, Revoked, [client |-> {task.client}])>>)

LockRefreshToken(hash) == SelectForUpdate(hash, NoColumns)

\* The tokens of a family, then its access tokens.
RevokeFamily(where) ==
    <<Update(Refreshes, Revoked, where),
      Update(AccessTokens, Revoked, [family |-> where.family])>>

RotateRefreshToken(t, task) ==
    /\ task.op = "rotate"
    /\ Begin(t, task, <<LockRefreshToken(task.row)>>)

Replacement(row) == [row EXCEPT !.consumed = FALSE, !.revoked = FALSE]

\* Mutant: the token that was presented is left as it was.
InsertOnly(t, hash, row) == <<Insert(t, Replacement(row))>>

Rotation(t, hash, row) ==
    <<UpdateFound({hash}, [consumed |-> TRUE], NoColumns), Insert(t, Replacement(row))>>

RotateLocked(t) ==
    LET task == tx[t].task
        current == tx[t].seen
        reused == current.consumed \/ current.revoked
        refused == \/ current.client # task.client
                   \/ ~reused /\ (task.row \in tx[t].past \/ task.wide)
    IN  /\ tx[t].phase = "branch" /\ task.op = "rotate"
        /\ \/ /\ ~refused /\ reused
              /\ Continue(t, RevokeFamily([family |-> {current.family}]), FALSE)
           \/ /\ ~refused /\ ~reused
              /\ Continue(t, Rotation(t, task.row, current), TRUE)
           \/ refused /\ Rollback(t)

RevokeRefreshToken(t, task) ==
    /\ task.op = "revokeRefresh"
    /\ Begin(t, task, <<SelectForUpdate(task.row, [client |-> {task.client}])>>)

\* The UPDATE finds at least the row that is locked, so the error for no row at all
\* never comes.
RevokeLocked(t) ==
    /\ tx[t].phase = "branch" /\ tx[t].task.op = "revokeRefresh"
    /\ Continue(t, RevokeFamily([family |-> {tx[t].seen.family},
                                 client |-> {tx[t].task.client}]), FALSE)

-----------------------------------------------------------------------------
(***************************************************************************)
(* Device authorizations and consents.                                     *)
(***************************************************************************)
Blank == [client |-> None, user |-> None, session |-> None, family |-> None,
          consumed |-> FALSE, revoked |-> FALSE, status |-> ""]

\* Scopes are merged in the row of a consent; here it is there or not.
GrantOf(user, client) == [Blank EXCEPT !.user = user, !.client = client]

\* Mutant: the decision without the person.
StatusOnly(task) == [status |-> IF task.approve THEN "approved" ELSE "denied"]

Decision(task) ==
    [user |-> task.user, status |-> IF task.approve THEN "approved" ELSE "denied"]

DecideDeviceAuthorization(t, task) ==
    /\ task.op = "decide"
    /\ Begin(t, task,
             <<UpdateFound({task.row} \ expired, Decision(task),
                           [status |-> {"pending"}])>>
             \o (IF task.approve
                   THEN <<Insert(<<task.user, task.client>>,
                                 GrantOf(task.user, task.client))>>
                   ELSE <<>>))

\* Mutant: the device is read without FOR UPDATE.
ReadDevice(task) == Select(task.row, [client |-> {task.client}])

LockDevice(task) == SelectForUpdate(task.row, [client |-> {task.client}])

PollDeviceAuthorization(t, task) ==
    /\ task.op = "poll"
    /\ Begin(t, task, <<LockDevice(task)>>)

\* Too early, pending and denied only record the time of the poll.
PollLocked(t) ==
    LET task == tx[t].task
        status == tx[t].seen.status
        over == task.row \in tx[t].past
    IN  /\ tx[t].phase = "branch" /\ task.op = "poll"
        /\ \/ over /\ Rollback(t)
           \/ ~over /\ ~task.early /\ status = "consumed" /\ Rollback(t)
           \/ /\ ~over /\ (task.early \/ status \in {"pending", "denied"})
              /\ Continue(t, <<>>, FALSE)
           \/ /\ ~over /\ ~task.early /\ status = "approved"
              /\ Continue(t, <<Update({task.row}, [status |-> "consumed"], NoColumns)>>,
                          TRUE)

GrantConsent(t, task) ==
    /\ task.op = "grant"
    /\ Begin(t, task, <<Insert(<<task.user, task.client>>,
                               GrantOf(task.user, task.client))>>)

-----------------------------------------------------------------------------
(***************************************************************************)
(* Revocations, table after table in one transaction.                      *)
(***************************************************************************)
RevokeTables(where) ==
    <<Update(Codes, Revoked, where), Update(AccessTokens, Revoked, where),
      Update(Refreshes, Revoked, where)>>

RevokeSessionTokens(t, task) ==
    /\ task.op = "session"
    /\ Begin(t, task, RevokeTables([user |-> {task.user}, session |-> {task.session}]))

\* A session that is NULL is distinct from the one to keep.
RevokeUserTokens(t, task) ==
    LET others == (Sessions \union {None}) \ ({task.session} \ {None}) IN
    /\ task.op = "user"
    /\ Begin(t, task,
             RevokeTables([user |-> {task.user}, session |-> others])
             \o <<Update(Devices, Denied, [user |-> {task.user},
                                          status |-> {"approved"}])>>)

RevokeClientTokens(t, task) ==
    /\ task.op = "client"
    /\ Begin(t, task,
             RevokeTables([client |-> {task.client}])
             \o <<Update(Devices, Denied, [client |-> {task.client},
                                          status |-> {"pending", "approved"}])>>)

\* Mutant: the consent last instead of first.
ConsentLast(task, pair) ==
    RevokeTables(pair)
    \o <<Update(Devices, Denied, [user |-> pair.user, client |-> pair.client,
                                 status |-> {"approved"}]),
         DeleteFrom({<<task.user, task.client>>}, NoColumns)>>

DeleteConsentPlan(task, pair) ==
    <<DeleteFrom({<<task.user, task.client>>}, NoColumns)>> \o RevokeTables(pair)
    \o <<Update(Devices, Denied, [user |-> pair.user, client |-> pair.client,
                                 status |-> {"approved"}])>>

DeleteConsent(t, task) ==
    /\ task.op = "deleteConsent"
    /\ Begin(t, task, DeleteConsentPlan(task, [user |-> {task.user},
                                               client |-> {task.client}]))

-----------------------------------------------------------------------------
(***************************************************************************)
(* Time, and the maintenance that runs every so often.                     *)
(***************************************************************************)
\* Of the tables of the OAuth store.  The DELETE of old sessions, a later statement of
\* the transaction, only takes away more of their rows, by its cascade.
Cleanup(t, task) ==
    /\ task.op = "cleanup"
    /\ Begin(t, task,
             <<Sweep(Codes, [consumed |-> {TRUE}]),
               Sweep(Devices, [status |-> {"consumed", "denied"}]),
               Sweep(AccessTokens, [revoked |-> {TRUE}]),
               Sweep(Refreshes, [revoked |-> {TRUE}, consumed |-> {TRUE}])>>)

Expire(i) ==
    /\ i \in Workload[load].lapsing \ expired
    /\ expired' = expired \union {i}
    /\ UNCHANGED <<db, own, tx, unsaved, aged, load, historyVars>>

Settled(row) == row.consumed \/ row.revoked \/ row.status \in {"denied", "consumed"}

Age(i) ==
    /\ i \in Workload[load].lapsing \ aged
    /\ db[i] # None /\ Settled(db[i])
    /\ aged' = aged \union {i}
    /\ UNCHANGED <<db, own, tx, unsaved, expired, load, historyVars>>

Request(t, task) ==
    \/ ConsumeAuthorizationCode(t, task) \/ RevokeAccessToken(t, task)
    \/ RotateRefreshToken(t, task) \/ RevokeRefreshToken(t, task)
    \/ DecideDeviceAuthorization(t, task) \/ PollDeviceAuthorization(t, task)
    \/ GrantConsent(t, task) \/ DeleteConsent(t, task)
    \/ RevokeSessionTokens(t, task) \/ RevokeUserTokens(t, task)
    \/ RevokeClientTokens(t, task) \/ Cleanup(t, task)

AllEnded ==
    /\ \A t \in Txs : tx[t].phase = "ended"
    /\ UNCHANGED vars

Next ==
    \/ \E t \in Txs :
          \/ \E task \in Workload[load].tasks : Request(t, task)
          \/ Execute(t) \/ \E i \in Ids : LockRow(t, i)
          \/ RotateLocked(t) \/ RevokeLocked(t) \/ PollLocked(t)
          \/ Commit(t) \/ Fail(t)
    \/ \E i \in Ids :
          \/ SaveAuthorizationCode(i) \/ SaveAccessToken(i)
          \/ SaveRefreshToken(i) \/ SaveDeviceAuthorization(i)
          \/ Expire(i) \/ Age(i)
    \/ AllEnded

Spec == Init /\ [][Next]_vars

-----------------------------------------------------------------------------
(***************************************************************************)
(* Properties.                                                             *)
(***************************************************************************)
Usable(i) == Unspent(db[i])

\* Rows are well formed, a decided device names who decided, and two
\* transactions never hold the same row.
TypeOK ==
    /\ db \in [Ids -> Row \union {None}]
    /\ \A d \in Devices : db[d] # None /\ db[d].status \in {"approved", "consumed"} =>
          db[d].user # None
    /\ \A t \in Txs :
          /\ tx[t].phase \in {"idle", "next", "run", "branch", "commit", "ended"}
          /\ tx[t].todo \subseteq Ids /\ tx[t].targets \subseteq Ids
          /\ \A i \in DOMAIN own[t] : own[t][i] \in Row \union {None}
          /\ \A u \in Txs \ {t} : DOMAIN own[t] \intersect DOMAIN own[u] = {}
    /\ granted \in [Ids -> Nat] /\ dead \subseteq Ids
    /\ expired \subseteq Ids /\ aged \subseteq Ids /\ unsaved \subseteq Ids

\* However many rotations, replays, revocations and cleanups overlap, one refresh
\* token of a family can be exchanged (the row lock of RotateRefreshToken).
OneUsablePerFamily ==
    \A f \in Families :
        Cardinality({i \in Refreshes : Usable(i) /\ db[i].family = f}) <= 1

\* A code, a refresh token or a device code is worth one grant: no two
\* transactions commit one for the same row.
GrantedOnce == \A i \in Ids : granted[i] <= 1

\* What a committed revocation reached for, be it the rows of a session, a user, a
\* client, a consent or a family that were there when its statement began, is not
\* exchanged afterwards by a transaction that was already under way.
NothingGrantedAfterRevocation ==
    [][\A i \in Ids : granted'[i] > granted[i] => i \notin dead]_vars

\* A device that was approved and not redeemed has the consent of the user: an
\* approval and a withdrawal of the consent that overlap end as if one came first.
ApprovedHasConsent ==
    \A d \in Devices :
        db[d] # None /\ db[d].status = "approved" =>
            db[<<db[d].user, db[d].client>>] # None

\* The guide (docs/auth-center-guide.md) on a replayed refresh token: the whole
\* family is revoked and the user has to log in again.
RevokedFamilyUnusable ==
    \A i, j \in Refreshes :
        db[i] # None /\ db[i].revoked /\ Usable(j) => db[j].family # db[i].family
=============================================================================
