----------------------- MODULE OAuthRepositoryProofs -----------------------
(***************************************************************************)
(* The PostgreSQL store of codes, tokens, devices and consents, for any    *)
(* number of rows and of transactions that overlap.                        *)
(*                                                                         *)
(* A row only grows later: once consumed, revoked, denied or deleted it    *)
(* stays so, and what a revocation selects by does not change.  A          *)
(* transaction holds the rows it has written until it ends, so nobody      *)
(* else changes them; of the rows it has still to take it knows that they  *)
(* qualify or are settled already.                                         *)
(***************************************************************************)
EXTENDS OAuthRepository, FiniteSetTheorems, SequenceTheorems, TLAPS

Value == Row \union {None}
Pair(task) == <<task.user, task.client>>

\* What a code, a token or a device is worth once it was exchanged, once it was
\* revoked, and before either.
Spent(i, row) ==
    \/ row = None
    \/ IF i \in Devices THEN row.status = "consumed" ELSE row.consumed

Dead(i, row) ==
    \/ row = None
    \/ IF i \in Devices THEN row.status \in {"denied", "consumed"} ELSE row.revoked

Live(i, row) ==
    /\ row # None
    /\ IF i \in Devices THEN row.status = "approved" ELSE ~row.consumed /\ ~row.revoked

\* What may become of a row (a consent apart, which comes and goes).
Later(i, old, new) ==
    \/ new = None
    \/ /\ old # None
       /\ new.client = old.client /\ new.session = old.session /\ new.family = old.family
       /\ old.consumed => new.consumed
       /\ old.revoked => new.revoked
       /\ i \notin Devices => new.user = old.user
       /\ i \in Devices =>
            \/ old.status = "pending" /\ new.status # ""
            \/ new.user = old.user /\ new.status = old.status
            \/ /\ new.user = old.user
               /\ old.status = "approved" /\ new.status \in {"denied", "consumed"}

\* A device that was decided names who decided, and has the client it came with.
DeviceOK(d, row) ==
    row # None => /\ Workload[load].rows[d] # None
                  /\ row.client = Workload[load].rows[d].client
                  /\ row.status \in {"approved", "consumed"} => row.user \in Users

\* The row is there, or was: nobody will insert it any more.
Stored(i) == i \notin unsaved /\ (i \in Txs => tx[i].phase = "ended")

-----------------------------------------------------------------------------
(***************************************************************************)
(* The statements of transaction t.                                        *)
(***************************************************************************)
Consumed == [consumed |-> TRUE]
Redeemed == [status |-> "consumed"]

Meets(s, row) == row # None /\ \A f \in DOMAIN s.where : row[f] \in s.where[f]

\* The columns that revocations select rows by do not change under them.
Revoking(s) ==
    /\ s.kind = "update" /\ ~s.must
    /\ \/ /\ s.set = Revoked /\ s.rows \subseteq Codes \union AccessTokens \union Refreshes
          /\ DOMAIN s.where \subseteq {"client", "user", "session", "family"}
       \/ /\ s.set = Denied /\ s.rows \subseteq Devices
          /\ DOMAIN s.where \subseteq {"client", "user", "status"} /\ "status" \in DOMAIN s.where
          /\ \/ s.where["status"] = {"approved"}
             \/ s.where["status"] = {"pending", "approved"} /\ "user" \notin DOMAIN s.where

\* UPDATE ... SET revoked_at of one access token, which must be there.
RevokesOne(task, s) ==
    /\ task.op = "revokeAccess" /\ s.kind = "update" /\ s.must /\ s.set = Revoked
    /\ s.rows = {task.row} /\ DOMAIN s.where = {"client"}

Consuming(task, s) ==
    /\ task.op \in {"consume", "rotate"} /\ s.kind = "update" /\ s.must
    /\ s.set = Consumed /\ s.rows \subseteq {task.row}

Deciding(task, s) ==
    /\ task.op = "decide" /\ s.kind = "update" /\ s.must
    /\ s.set = Decision(task) /\ s.rows \subseteq {task.row}
    /\ s.where = [status |-> {"pending"}]

Redeeming(x, s) ==
    /\ x.task.op = "poll" /\ x.grants /\ s = Update({x.task.row}, Redeemed, NoColumns)

Consenting(task, s) ==
    /\ task.op \in {"decide", "grant"}
    /\ s = Insert(Pair(task), GrantOf(task.user, task.client))

Replacing(t, x, s) ==
    /\ x.task.op = "rotate" /\ x.grants /\ s = Insert(t, Replacement(x.seen))

Withdrawing(task, s) ==
    task.op = "deleteConsent" /\ s = DeleteFrom({Pair(task)}, NoColumns)

Locking(task, s) ==
    /\ task.op \in {"rotate", "revokeRefresh", "poll"}
    /\ s.kind = "lock" /\ s.rows = {task.row} /\ s.set = NoColumns /\ s.must

Sweeping(s) ==
    /\ s.kind = "sweep" /\ ~s.must
    /\ s.rows \subseteq Codes \union AccessTokens \union Refreshes \union Devices

StatementOK(t, x, s) ==
    \/ Revoking(s) \/ RevokesOne(x.task, s) \/ Sweeping(s)
    \/ Consuming(x.task, s) \/ Deciding(x.task, s) \/ Redeeming(x, s)
    \/ Consenting(x.task, s) \/ Replacing(t, x, s) \/ Withdrawing(x.task, s)
    \/ Locking(x.task, s)

-----------------------------------------------------------------------------
(***************************************************************************)
(* What transaction t knows.                                               *)
(***************************************************************************)
Phases == {"idle", "next", "run", "branch", "commit", "ended"}

TxRecord(S) ==
    [phase : Phases, task : Workload[load].tasks \union {NoTask}, plan : Seq(S),
     todo : SUBSET Ids, hit : BOOLEAN, seen : Value, targets : SUBSET Ids,
     past : SUBSET Ids, old : SUBSET Ids, grants : BOOLEAN]

ShapeOK(t, x) ==
    /\ x.phase \in {"idle", "ended"} => DOMAIN own[t] = {} /\ x.targets = {} /\ ~x.grants
    /\ x.phase \notin {"idle", "ended"} => x.task \in Workload[load].tasks
    /\ x.phase \in {"next", "run"} <=> x.plan # <<>>
    /\ x.phase = "run" <=> x.todo # {}
    /\ x.phase # "run" => ~x.hit
    /\ x.phase = "run" => x.todo \subseteq x.plan[1].rows /\ (x.plan[1].must => ~x.hit)
    /\ \A n \in 1..Len(x.plan) : StatementOK(t, x, x.plan[n])

HeldOK(t, x) ==
    /\ DOMAIN own[t] \subseteq Ids
    /\ \A i \in DOMAIN own[t] :
         /\ own[t][i] \in Value
         /\ i \notin Consents /\ i # t => db[i] # None /\ Later(i, db[i], own[t][i])
         /\ i \in Devices => DeviceOK(i, own[t][i])
         /\ i \in Devices /\ own[t][i] # None /\ own[t][i].status = "approved" =>
              \/ db[i].status = "approved"
              \/ /\ x.task.op = "decide" /\ x.task.approve
                 /\ own[t][i].user = x.task.user /\ own[t][i].client = x.task.client
         /\ i \in Consents =>
              /\ i = Pair(x.task) /\ x.task.op \in {"decide", "grant", "deleteConsent"}
              /\ own[t][i] = None <=> x.task.op = "deleteConsent"
    /\ t \in DOMAIN own[t] =>
         /\ x.task.op = "rotate" /\ x.grants /\ x.plan = <<>>
         /\ own[t][t] = Replacement(x.seen)

\* What it means to revoke is revoked, or it has still to take it.
TargetsOK(t, x) ==
    \A i \in x.targets :
        /\ i \notin Consents /\ Stored(i)
        /\ \/ Dead(i, View(t)[i])
           \/ /\ i \in x.todo /\ Meets(x.plan[1], View(t)[i])
              /\ Revoking(x.plan[1]) \/ RevokesOne(x.task, x.plan[1])

\* It locks a row first, and decides by what the row says.
BranchOK(t, x) ==
    /\ x.phase = "branch" =>
         /\ x.task.op \in {"rotate", "revokeRefresh", "poll"} /\ ~x.grants
         /\ DOMAIN own[t] = {x.task.row} /\ db[x.task.row] # None
         /\ own[t][x.task.row] = db[x.task.row] /\ x.seen = db[x.task.row]
    /\ \A n \in 1..Len(x.plan) : Locking(x.task, x.plan[n]) =>
         DOMAIN own[t] = {} /\ ~x.grants /\ Len(x.plan) = 1

\* It gives something for a row that was live when it took it and still is.
GrantsOK(t, x) ==
    x.grants =>
      LET r == x.task.row
          held == r \in DOMAIN own[t] /\ Live(r, db[r])
      IN  \/ /\ x.task.op = "consume" /\ x.phase \in {"next", "run"}
             /\ Len(x.plan) = 1 /\ Consuming(x.task, x.plan[1])
             /\ x.plan[1].where = [client |-> {x.task.client}, consumed |-> {FALSE},
                                   revoked |-> {FALSE}]
          \/ /\ x.task.op = "consume" /\ x.phase = "commit"
             /\ held /\ Spent(r, own[t][r])
          \/ /\ x.task.op = "rotate" /\ x.phase \in {"next", "run"} /\ x.seen = db[r]
             /\ x.plan = Rotation(t, r, x.seen)
             /\ held /\ own[t][r] # None
          \/ /\ x.task.op = "rotate" /\ x.phase \in {"next", "run"} /\ x.seen = db[r]
             /\ x.plan = <<Insert(t, Replacement(x.seen))>>
             /\ held /\ Spent(r, own[t][r])
          \/ /\ x.task.op = "rotate" /\ x.phase = "commit" /\ x.seen = db[r]
             /\ held /\ Spent(r, own[t][r])
          \/ /\ x.task.op = "poll" /\ x.phase \in {"next", "run"}
             /\ x.plan = <<Update({r}, Redeemed, NoColumns)>>
             /\ held /\ own[t][r] = db[r]
          \/ /\ x.task.op = "poll" /\ x.phase = "commit"
             /\ held /\ Spent(r, own[t][r])

\* A decision that approves grants the consent last.
DecisionOK(t, x) ==
    x.task.op = "decide" /\ x.task.approve =>
        /\ x.phase \in {"next", "run"} => Consenting(x.task, x.plan[Len(x.plan)])
        /\ x.phase = "commit" => Pair(x.task) \in DOMAIN own[t]

\* The devices that a withdrawn consent had approved.
ApprovedFor(row, pair) ==
    row # None /\ row.status = "approved" /\ <<row.user, row.client>> = pair

DenyFor(task) ==
    Update(Devices, Denied, [user |-> {task.user}, client |-> {task.client},
                             status |-> {"approved"}])

\* A withdrawal takes the row of the consent first, which approvals wait for, and
\* denies the devices last.
WithdrawalOK(t, x) ==
    x.task.op = "deleteConsent" =>
        /\ x.phase \in {"next", "run"} => x.plan[Len(x.plan)] = DenyFor(x.task)
        /\ \A n \in 1..Len(x.plan) : Withdrawing(x.task, x.plan[n]) =>
             n = 1 /\ Len(x.plan) # 1
        /\ \/ x.phase \in {"idle", "ended"}
           \/ x.phase \in {"next", "run"} /\ Withdrawing(x.task, x.plan[1])
           \/ Pair(x.task) \in DOMAIN own[t]
        /\ x.phase = "commit" \/ (x.phase = "run" /\ Len(x.plan) = 1) =>
             \A d \in Devices : ApprovedFor(db[d], Pair(x.task)) =>
                 d \in x.todo \/ ~ApprovedFor(View(t)[d], Pair(x.task))

TxOK(t, x) ==
    /\ ShapeOK(t, x) /\ HeldOK(t, x) /\ TargetsOK(t, x) /\ BranchOK(t, x)
    /\ GrantsOK(t, x) /\ DecisionOK(t, x) /\ WithdrawalOK(t, x)

-----------------------------------------------------------------------------
(***************************************************************************)
(* The rows.                                                               *)
(***************************************************************************)
\* A row as it is or will be saved.
Issued(i) == IF i \in unsaved THEN Workload[load].rows[i] ELSE db[i]

RowsOK ==
    /\ load \in DOMAIN Workload /\ unsaved \subseteq Workload[load].unsaved
    /\ db \in [Ids -> Value]
    /\ expired \subseteq Ids /\ aged \subseteq Ids
    /\ \A i \in Ids \ Consents : db[i] # None => Stored(i)
    /\ \A d \in Devices : DeviceOK(d, db[d])

HistoryOK ==
    /\ granted \in [Ids -> Nat] /\ dead \subseteq Ids \ Consents
    /\ \A i \in Ids : granted[i] > 0 => i \notin Consents /\ Stored(i) /\ Spent(i, db[i])
    /\ \A i \in dead : Stored(i) /\ Dead(i, db[i])

OneUnspent ==
    \A i, j \in Refreshes :
        Unspent(Issued(i)) /\ Unspent(Issued(j)) /\ Issued(i).family = Issued(j).family
          => i = j

Disjoint == \A t, u \in Txs : t # u => DOMAIN own[t] \intersect DOMAIN own[u] = {}

StoreInv == RowsOK /\ HistoryOK /\ OneUnspent /\ ApprovedHasConsent

Inv ==
    /\ StoreInv
    /\ DOMAIN own = Txs /\ DOMAIN tx = Txs /\ Disjoint
    /\ \A t \in Txs : \A x \in {tx[t]} : (\E S : x \in TxRecord(S)) /\ TxOK(t, x)

-----------------------------------------------------------------------------
(***************************************************************************)
(* Rows.                                                                   *)
(***************************************************************************)
LEMMA RowFields ==
    ASSUME NEW row \in Row
    PROVE  /\ row.client \in Clients \union {None} /\ row.user \in Users \union {None}
           /\ row.session \in Sessions \union {None} /\ row.family \in Families \union {None}
           /\ row.consumed \in BOOLEAN /\ row.revoked \in BOOLEAN
           /\ row.status \in {"", "pending", "approved", "denied", "consumed"}
           /\ DOMAIN row = {"client", "user", "session", "family", "consumed", "revoked", "status"}
BY DEF Row

LEMMA WrittenNothing ==
    ASSUME NEW row \in Row
    PROVE  Written(row, NoColumns) = row
BY DEF Row, Written, NoColumns

LEMMA WrittenRevoked ==
    ASSUME NEW row \in Row
    PROVE  /\ Written(row, Revoked) \in Row /\ Written(row, Revoked).revoked
           /\ Written(row, Revoked).client = row.client /\ Written(row, Revoked).user = row.user
           /\ Written(row, Revoked).session = row.session
           /\ Written(row, Revoked).family = row.family
           /\ Written(row, Revoked).consumed = row.consumed
           /\ Written(row, Revoked).status = row.status
<1>1. DOMAIN Revoked = {"revoked"} /\ Revoked["revoked"] = TRUE
  BY DEF Revoked
<1>2. Written(row, Revoked) = [row EXCEPT !.revoked = TRUE]
  BY <1>1 DEF Written, Row
<1> QED BY <1>2 DEF Row

LEMMA WrittenConsumed ==
    ASSUME NEW row \in Row
    PROVE  /\ Written(row, Consumed) \in Row /\ Written(row, Consumed).consumed
           /\ Written(row, Consumed).client = row.client /\ Written(row, Consumed).user = row.user
           /\ Written(row, Consumed).session = row.session
           /\ Written(row, Consumed).family = row.family
           /\ Written(row, Consumed).revoked = row.revoked
           /\ Written(row, Consumed).status = row.status
<1>1. DOMAIN Consumed = {"consumed"} /\ Consumed["consumed"] = TRUE
  BY DEF Consumed
<1>2. Written(row, Consumed) = [row EXCEPT !.consumed = TRUE]
  BY <1>1 DEF Written, Row
<1> QED BY <1>2 DEF Row

\* Columns of a device: its status, and who decided.
LEMMA WrittenStatus ==
    ASSUME NEW row \in Row, NEW set, NEW status \in {"denied", "consumed"},
           set = [status |-> status]
    PROVE  /\ Written(row, set) \in Row /\ Written(row, set).status = status
           /\ Written(row, set).client = row.client /\ Written(row, set).user = row.user
           /\ Written(row, set).session = row.session /\ Written(row, set).family = row.family
           /\ Written(row, set).consumed = row.consumed
           /\ Written(row, set).revoked = row.revoked
<1>1. DOMAIN set = {"status"} /\ set["status"] = status
  OBVIOUS
<1>2. Written(row, set) = [row EXCEPT !.status = status]
  BY <1>1 DEF Written, Row
<1> QED BY <1>2 DEF Row

LEMMA WrittenDecision ==
    ASSUME NEW row \in Row, NEW task, task.user \in Users
    PROVE  LET new == Written(row, Decision(task)) IN
           /\ new \in Row /\ new.user = task.user
           /\ new.status = IF task.approve THEN "approved" ELSE "denied"
           /\ new.client = row.client
           /\ new.session = row.session /\ new.family = row.family
           /\ new.consumed = row.consumed /\ new.revoked = row.revoked
<1>1. PICK status \in {"approved", "denied"} : status = IF task.approve THEN "approved" ELSE "denied"
  OBVIOUS
<1>2. PICK set : set = Decision(task)
  OBVIOUS
<1>3. DOMAIN set = {"user", "status"} /\ set["status"] = status /\ set["user"] = task.user
  BY <1>1, <1>2 DEF Decision
<1>4. Written(row, set) = [row EXCEPT !.status = status, !.user = task.user]
  BY <1>3 DEF Written, Row
<1>5. PICK new : new = [row EXCEPT !.status = status, !.user = task.user]
  OBVIOUS
<1>6. /\ new \in Row /\ new.user = task.user /\ new.status = status
      /\ new.client = row.client
      /\ new.session = row.session /\ new.family = row.family
      /\ new.consumed = row.consumed /\ new.revoked = row.revoked
  BY <1>5 DEF Row
<1> QED BY <1>1, <1>2, <1>4, <1>5, <1>6

LEMMA ReplacementRow ==
    ASSUME NEW row \in Row
    PROVE  /\ Replacement(row) \in Row /\ Replacement(row).family = row.family
BY DEF Row, Replacement

LEMMA GrantRow ==
    ASSUME NEW user \in Users, NEW client \in Clients
    PROVE  GrantOf(user, client) \in Row
BY DEF GrantOf, Blank, Row

LEMMA NoneIsNoRow == None \notin Row
BY RepositoryAssumption

LEMMA LaterSame ==
    ASSUME NEW i, NEW row \in Value
    PROVE  Later(i, row, row)
BY DEF Later, Value

LEMMA LaterTwice ==
    ASSUME NEW i, NEW a \in Value, NEW b \in Value, NEW c \in Value,
           Later(i, a, b), Later(i, b, c)
    PROVE  Later(i, a, c)
BY DEF Later

LEMMA LaterSettled ==
    ASSUME NEW i, NEW a \in Value, NEW b \in Value, Later(i, a, b)
    PROVE  /\ Spent(i, a) => Spent(i, b)
           /\ Dead(i, a) => Dead(i, b)
           /\ Unspent(b) => Unspent(a) /\ a.family = b.family
           /\ b # None => a # None
BY DEF Later, Spent, Dead, Unspent

LEMMA LiveIsNeither ==
    ASSUME NEW i, NEW row, Live(i, row)
    PROVE  ~Spent(i, row) /\ ~Dead(i, row)
BY DEF Live, Spent, Dead

-----------------------------------------------------------------------------
(***************************************************************************)
(* Plans.                                                                  *)
(***************************************************************************)
LEMMA PlanParts ==
    ASSUME NEW S, NEW plan \in Seq(S), plan # <<>>
    PROVE  /\ Head(plan) = plan[1] /\ plan[1] \in S /\ Tail(plan) \in Seq(S)
           /\ Len(plan) \in Nat /\ Len(plan) >= 1 /\ Len(Tail(plan)) = Len(plan) - 1
           /\ \A n \in 1..Len(Tail(plan)) : Tail(plan)[n] = plan[n + 1]
           /\ Len(plan) = 1 <=> Tail(plan) = <<>>
<1>1. /\ Head(plan) \in S /\ Tail(plan) \in Seq(S) /\ Len(Tail(plan)) = Len(plan) - 1
      /\ \A n \in 1..Len(Tail(plan)) : Tail(plan)[n] = plan[n + 1]
  BY HeadTailProperties
<1>2. Len(plan) \in Nat /\ Len(plan) >= 1 /\ Head(plan) = plan[1]
  BY LenProperties, EmptySeq
<1>3. Len(Tail(plan)) = 0 <=> Tail(plan) = <<>>
  BY <1>1, EmptySeq
<1> QED BY <1>1, <1>2, <1>3

LEMMA Concat31 ==
    ASSUME NEW a, NEW b, NEW c, NEW d
    PROVE  <<a, b, c>> \o <<d>> = <<a, b, c, d>>
<1>1. PICK S : S = {a, b, c, d}
  OBVIOUS
<1>2. <<a, b, c>> \in Seq(S) /\ <<d>> \in Seq(S) /\ <<a, b, c, d>> \in Seq(S)
  BY <1>1
<1>3. PICK s : s = <<a, b, c>> \o <<d>>
  OBVIOUS
<1>4. s \in Seq(S) /\ Len(s) = 4 /\ s[1] = a /\ s[2] = b /\ s[3] = c /\ s[4] = d
  BY <1>2, <1>3, ConcatProperties
<1>5. PICK q \in Seq(S) : q = <<a, b, c, d>>
  BY <1>2
<1>6. Len(q) = 4 /\ q[1] = a /\ q[2] = b /\ q[3] = c /\ q[4] = d
  BY <1>5
<1>7. \A i \in 1..Len(s) : s[i] = q[i]
  BY <1>4, <1>6
<1>8. s = q
  BY <1>4, <1>5, <1>6, <1>7, SeqEqual
<1> QED BY <1>3, <1>5, <1>8

LEMMA Concat13 ==
    ASSUME NEW a, NEW b, NEW c, NEW d
    PROVE  <<a>> \o <<b, c, d>> = <<a, b, c, d>>
<1>1. PICK S : S = {a, b, c, d}
  OBVIOUS
<1>2. <<a>> \in Seq(S) /\ <<b, c, d>> \in Seq(S) /\ <<a, b, c, d>> \in Seq(S)
  BY <1>1
<1>3. PICK s : s = <<a>> \o <<b, c, d>>
  OBVIOUS
<1>4. s \in Seq(S) /\ Len(s) = 4 /\ s[1] = a /\ s[2] = b /\ s[3] = c /\ s[4] = d
  BY <1>2, <1>3, ConcatProperties
<1>5. PICK q \in Seq(S) : q = <<a, b, c, d>>
  BY <1>2
<1>6. Len(q) = 4 /\ q[1] = a /\ q[2] = b /\ q[3] = c /\ q[4] = d
  BY <1>5
<1>7. \A i \in 1..Len(s) : s[i] = q[i]
  BY <1>4, <1>6
<1>8. s = q
  BY <1>4, <1>5, <1>6, <1>7, SeqEqual
<1> QED BY <1>3, <1>5, <1>8

LEMMA Concat41 ==
    ASSUME NEW a, NEW b, NEW c, NEW d, NEW e
    PROVE  <<a, b, c, d>> \o <<e>> = <<a, b, c, d, e>>
<1>1. PICK S : S = {a, b, c, d, e}
  OBVIOUS
<1>2. <<a, b, c, d>> \in Seq(S) /\ <<e>> \in Seq(S) /\ <<a, b, c, d, e>> \in Seq(S)
  BY <1>1
<1>3. PICK s : s = <<a, b, c, d>> \o <<e>>
  OBVIOUS
<1>4. s \in Seq(S) /\ Len(s) = 5 /\ s[1] = a /\ s[2] = b /\ s[3] = c /\ s[4] = d /\ s[5] = e
  BY <1>2, <1>3, ConcatProperties
<1>5. PICK q \in Seq(S) : q = <<a, b, c, d, e>>
  BY <1>2
<1>6. Len(q) = 5 /\ q[1] = a /\ q[2] = b /\ q[3] = c /\ q[4] = d /\ q[5] = e
  BY <1>5
<1>7. \A i \in 1..Len(s) : s[i] = q[i]
  BY <1>4, <1>6
<1>8. s = q
  BY <1>4, <1>5, <1>6, <1>7, SeqEqual
<1> QED BY <1>3, <1>5, <1>8

LEMMA Concat11 ==
    ASSUME NEW a, NEW b
    PROVE  <<a>> \o <<b>> = <<a, b>>
<1>1. PICK S : S = {a, b}
  OBVIOUS
<1>2. <<a>> \in Seq(S) /\ <<b>> \in Seq(S) /\ <<a, b>> \in Seq(S)
  BY <1>1
<1>3. PICK s : s = <<a>> \o <<b>>
  OBVIOUS
<1>4. s \in Seq(S) /\ Len(s) = 2 /\ s[1] = a /\ s[2] = b
  BY <1>2, <1>3, ConcatProperties
<1>5. PICK q \in Seq(S) : q = <<a, b>>
  BY <1>2
<1>6. Len(q) = 2 /\ q[1] = a /\ q[2] = b
  BY <1>5
<1>7. \A i \in 1..Len(s) : s[i] = q[i]
  BY <1>4, <1>6
<1>8. s = q
  BY <1>4, <1>5, <1>6, <1>7, SeqEqual
<1> QED BY <1>3, <1>5, <1>8

LEMMA TailTwo ==
    ASSUME NEW a, NEW b
    PROVE  Tail(<<a, b>>) = <<b>> /\ Tail(<<b>>) = <<>> /\ <<a, b>> # <<>> /\ <<b>> # <<>>
OBVIOUS

LEMMA Tables ==
    /\ Codes \subseteq Ids /\ AccessTokens \subseteq Ids /\ Refreshes \subseteq Ids
    /\ Devices \subseteq Ids /\ Consents \subseteq Ids
    /\ \A i \in Codes \union AccessTokens \union Refreshes : i \notin Devices /\ i \notin Consents
    /\ \A i \in Devices : i \notin Consents /\ i \notin Txs
    /\ \A i \in Consents : i \notin Txs
    /\ \A t \in Txs : t \in Refreshes /\ t \notin RefreshTokens
    /\ \A i \in Codes \union AccessTokens : i \notin Txs
    /\ None \notin Ids
BY RepositoryAssumption DEF Ids, Refreshes

LEMMA InvParts ==
    ASSUME Inv, NEW t \in Txs
    PROVE  /\ RowsOK /\ HistoryOK /\ OneUnspent /\ ApprovedHasConsent /\ Disjoint
           /\ DOMAIN own = Txs /\ DOMAIN tx = Txs
           /\ \E S : tx[t] \in TxRecord(S)
           /\ ShapeOK(t, tx[t]) /\ HeldOK(t, tx[t]) /\ TargetsOK(t, tx[t]) /\ BranchOK(t, tx[t])
           /\ GrantsOK(t, tx[t]) /\ DecisionOK(t, tx[t]) /\ WithdrawalOK(t, tx[t])
BY DEF Inv, StoreInv, TxOK

\* A task names rows and people that are there.
LEMMA TaskParts ==
    ASSUME load \in DOMAIN Workload, NEW task \in Workload[load].tasks
    PROVE  /\ WellStored(Workload[load]) /\ task \in Task /\ WellAsked(Workload[load], task)
           /\ task.op \in {"decide", "grant", "deleteConsent"} => Pair(task) \in Consents
           /\ task.op # "none" /\ task # NoTask
<1>1. WellStored(Workload[load]) /\ task \in Task /\ WellAsked(Workload[load], task)
  BY RepositoryAssumption
<1>2. task.op \in {"decide", "grant", "deleteConsent"} => Pair(task) \in Consents
  BY <1>1 DEF WellAsked, Pair, Consents
<1>3. task.op \in Ops
  BY <1>1 DEF Task
<1>4. task.op # "none" /\ NoTask.op = "none"
  BY <1>3 DEF Ops, NoTask
<1> QED BY <1>1, <1>2, <1>4

\* What a transaction sees of a row.
LEMMA ViewRow ==
    ASSUME RowsOK, NEW t \in Txs, NEW x, x = tx[t], HeldOK(t, x), NEW i \in Ids
    PROVE  /\ View(t)[i] \in Value
           /\ i \notin Consents /\ i # t /\ View(t)[i] # None =>
                db[i] \in Row /\ Later(i, db[i], View(t)[i])
           /\ i \notin Consents /\ i # t => Later(i, db[i], View(t)[i])
           /\ i \in Devices => DeviceOK(i, View(t)[i])
           /\ i \notin DOMAIN own[t] => View(t)[i] = db[i]
           /\ i \in DOMAIN own[t] => View(t)[i] = own[t][i]
<1>1. db[i] \in Value
  BY DEF RowsOK
<1>2. View(t)[i] = IF i \in DOMAIN own[t] THEN own[t][i] ELSE db[i]
  BY DEF View
<1>3. CASE i \in DOMAIN own[t]
  <2>1. own[t][i] \in Value /\ (i \in Devices => DeviceOK(i, own[t][i]))
    BY <1>3 DEF HeldOK
  <2>2. i \notin Consents /\ i # t => db[i] # None /\ Later(i, db[i], own[t][i])
    BY <1>3 DEF HeldOK
  <2> QED BY <1>1, <1>2, <1>3, <2>1, <2>2 DEF Value
<1>4. CASE i \notin DOMAIN own[t]
  BY <1>1, <1>2, <1>4, LaterSame DEF RowsOK, Value
<1> QED BY <1>3, <1>4

\* The replacement that a transaction inserts is not there before.
LEMMA OwnRow ==
    ASSUME RowsOK, NEW t \in Txs, NEW x, x = tx[t], HeldOK(t, x), x.plan # <<>>, x.phase # "ended"
    PROVE  t \notin DOMAIN own[t] /\ t \in Ids /\ View(t)[t] = None
<1>1. t \notin DOMAIN own[t]
  BY DEF HeldOK
<1>2. t \in Ids /\ t \notin Consents
  BY Tables
<1>3. db[t] = None
  BY <1>2 DEF RowsOK, Stored
<1> QED BY <1>1, <1>2, <1>3 DEF View

-----------------------------------------------------------------------------
(***************************************************************************)
(* What a statement writes.                                                *)
(***************************************************************************)
\* The row a statement leaves behind.
After(s, row) ==
    CASE s.kind = "insert" -> s.set
      [] s.kind \in {"delete", "sweep"} -> None
      [] OTHER -> Written(row, s.set)

LEMMA StatementKinds ==
    ASSUME NEW t, NEW x, NEW s, StatementOK(t, x, s)
    PROVE  /\ Revoking(s) \/ RevokesOne(x.task, s) \/ Consuming(x.task, s)
              \/ Deciding(x.task, s) \/ Redeeming(x, s) => s.kind = "update"
           /\ Consenting(x.task, s) \/ Replacing(t, x, s) => s.kind = "insert"
           /\ Withdrawing(x.task, s) => s.kind = "delete"
           /\ Sweeping(s) => s.kind = "sweep"
           /\ Locking(x.task, s) => s.kind = "lock"
           /\ s.kind # "read"
BY DEF StatementOK, Revoking, RevokesOne, Consuming, Deciding, Redeeming, Consenting, Replacing,
       Withdrawing, Locking, Sweeping, Update, Insert, DeleteFrom, Statement

\* A revocation leaves a settled row.
LEMMA RevokingWrites ==
    ASSUME NEW task, NEW s, Revoking(s) \/ RevokesOne(task, s),
           NEW i \in s.rows, NEW row \in Row, Meets(s, row),
           RevokesOne(task, s) => i \in AccessTokens
    PROVE  /\ After(s, row) \in Row /\ Later(i, row, After(s, row)) /\ Dead(i, After(s, row))
           /\ i \in Devices => After(s, row).status = "denied"
           /\ After(s, row).client = row.client /\ After(s, row).user = row.user
           /\ i \in Codes \union AccessTokens \union Refreshes \union Devices
           /\ i \notin Consents
<1>1. s.kind = "update"
  BY DEF Revoking, RevokesOne
<1>2. After(s, row) = Written(row, s.set)
  BY <1>1 DEF After
<1>3. CASE s.set = Revoked /\ i \in Codes \union AccessTokens \union Refreshes
  <2>1. i \notin Devices /\ i \notin Consents
    BY <1>3, Tables
  <2>2. PICK new : new = Written(row, Revoked)
    OBVIOUS
  <2>3. /\ new \in Row /\ new.revoked /\ new.client = row.client /\ new.user = row.user
        /\ new.session = row.session /\ new.family = row.family /\ new.consumed = row.consumed
    BY <2>2, WrittenRevoked
  <2>4. Later(i, row, new) /\ Dead(i, new)
    BY <2>1, <2>3, NoneIsNoRow DEF Later, Dead
  <2> QED BY <1>2, <1>3, <2>1, <2>2, <2>3, <2>4
<1>4. CASE s.set = Denied /\ i \in Devices /\ row["status"] \in {"pending", "approved"}
  <2>1. i \notin Consents
    BY <1>4, Tables
  <2>2. PICK new : new = Written(row, Denied)
    OBVIOUS
  <2>3. /\ new \in Row /\ new.status = "denied" /\ new.client = row.client /\ new.user = row.user
        /\ new.session = row.session /\ new.family = row.family
        /\ new.consumed = row.consumed /\ new.revoked = row.revoked
    BY <2>2, WrittenStatus DEF Denied
  <2>4. Later(i, row, new) /\ Dead(i, new)
    BY <1>4, <2>3, NoneIsNoRow DEF Later, Dead
  <2> QED BY <1>2, <1>4, <2>1, <2>2, <2>3, <2>4
<1>5. CASE RevokesOne(task, s)
  BY <1>3, <1>5 DEF RevokesOne
<1>6. CASE Revoking(s)
  <2>1. CASE s.set = Revoked /\ s.rows \subseteq Codes \union AccessTokens \union Refreshes
    BY <1>3, <2>1
  <2>2. CASE /\ s.set = Denied /\ s.rows \subseteq Devices
             /\ "status" \in DOMAIN s.where
             /\ s.where["status"] \in {{"approved"}, {"pending", "approved"}}
    <3>1. row["status"] \in {"pending", "approved"}
      BY <2>2 DEF Meets
    <3> QED BY <1>4, <2>2, <3>1
  <2> QED BY <1>6, <2>1, <2>2 DEF Revoking
<1> QED BY <1>5, <1>6

\* Any statement leaves a later row, and makes a device approved only as a
\* decision of the person who asks.
LEMMA Writes ==
    ASSUME load \in DOMAIN Workload, NEW t \in Txs, NEW x, x.task \in Workload[load].tasks,
           NEW s, StatementOK(t, x, s), NEW i \in s.rows, i \notin Consents, i # t,
           NEW row \in Row, Meets(s, row) \/ s.kind = "sweep",
           Redeeming(x, s) => row.status = "approved",
           i \in Devices => DeviceOK(i, row)
    PROVE  /\ After(s, row) \in Value /\ Later(i, row, After(s, row)) /\ s.kind # "insert"
           /\ i \in Devices => DeviceOK(i, After(s, row))
           /\ i \in Devices /\ After(s, row) # None /\ After(s, row).status = "approved" =>
                \/ row.status = "approved" /\ After(s, row) = row
                \/ /\ x.task.op = "decide" /\ x.task.approve
                   /\ After(s, row).user = x.task.user /\ After(s, row).client = x.task.client
<1>1. PICK new : new = After(s, row)
  OBVIOUS
<1>2. /\ x.task.op = "consume" => x.task.row \in Codes
      /\ x.task.op = "rotate" => x.task.row \in Refreshes
      /\ x.task.op = "revokeAccess" => x.task.row \in AccessTokens
      /\ x.task.op \in {"decide", "poll"} => x.task.row \in Devices
      /\ x.task.op \in {"decide", "grant", "deleteConsent"} => Pair(x.task) \in Consents
      /\ x.task.op = "decide" => x.task.user \in Users
      /\ x.task.op = "decide" /\ Workload[load].rows[x.task.row] # None =>
           Workload[load].rows[x.task.row].client = x.task.client
  BY TaskParts DEF WellAsked
<1>3. CASE Revoking(s) \/ RevokesOne(x.task, s)
  <2>1. s.kind = "update" /\ Meets(s, row)
    BY <1>3 DEF Revoking, RevokesOne
  <2>2. /\ new \in Row /\ Later(i, row, new) /\ (i \in Devices => new.status = "denied")
        /\ new.client = row.client /\ new.user = row.user
    BY <1>1, <1>2, <1>3, <2>1, RevokingWrites DEF RevokesOne
  <2>3. i \in Devices => DeviceOK(i, new)
    BY <2>2, NoneIsNoRow DEF DeviceOK, Later
  <2> QED BY <1>1, <2>1, <2>2, <2>3 DEF Value
<1>4. CASE Consuming(x.task, s)
  <2>1. s.kind = "update" /\ s.set = Consumed /\ i \in Codes \union Refreshes
    BY <1>2, <1>4 DEF Consuming
  <2>2. i \notin Devices
    BY <2>1, Tables
  <2>3. new = Written(row, Consumed)
    BY <1>1, <2>1 DEF After
  <2>4. /\ new \in Row /\ new.consumed /\ new.client = row.client /\ new.user = row.user
        /\ new.session = row.session /\ new.family = row.family /\ new.revoked = row.revoked
    BY <2>3, WrittenConsumed
  <2>5. Later(i, row, new)
    BY <2>2, <2>4, NoneIsNoRow DEF Later
  <2> QED BY <1>1, <2>1, <2>2, <2>4, <2>5 DEF Value
<1>5. CASE Deciding(x.task, s)
  <2>1. s.kind = "update" /\ s.set = Decision(x.task) /\ i = x.task.row /\ x.task.op = "decide"
    BY <1>5 DEF Deciding
  <2>2. row["status"] = "pending"
    <3>1. DOMAIN s.where = {"status"} /\ s.where["status"] = {"pending"}
      BY <1>5 DEF Deciding
    <3> QED BY <2>1, <3>1 DEF Meets
  <2>3. new = Written(row, Decision(x.task))
    BY <1>1, <2>1 DEF After
  <2>4. /\ new \in Row /\ new.user = x.task.user /\ new.client = row.client
        /\ new.status = IF x.task.approve THEN "approved" ELSE "denied"
        /\ new.session = row.session /\ new.family = row.family
        /\ new.consumed = row.consumed /\ new.revoked = row.revoked
    BY <1>2, <2>1, <2>3, WrittenDecision
  <2>5. i \in Devices /\ x.task.user \in Users
    BY <1>2, <2>1
  <2>6. Later(i, row, new)
    <3>1. /\ new # None /\ row # None /\ row.status = "pending" /\ new.status # ""
          /\ new.client = row.client
          /\ new.session = row.session /\ new.family = row.family
          /\ new.consumed = row.consumed /\ new.revoked = row.revoked
      BY <2>2, <2>4, NoneIsNoRow
    <3> QED BY <2>5, <3>1 DEF Later
  <2>7. Workload[load].rows[i] # None /\ row.client = Workload[load].rows[i].client
    BY <2>5, NoneIsNoRow DEF DeviceOK
  <2>8. DeviceOK(i, new) /\ new.client = x.task.client
    BY <1>2, <2>1, <2>4, <2>5, <2>7 DEF DeviceOK
  <2> QED BY <1>1, <2>1, <2>4, <2>6, <2>8 DEF Value
<1>6. CASE Redeeming(x, s)
  <2>1. s.kind = "update" /\ s.set = Redeemed /\ i \in Devices
    BY <1>2, <1>6 DEF Redeeming, Update, Statement
  <2>2. new = Written(row, Redeemed)
    BY <1>1, <2>1 DEF After
  <2>3. /\ new \in Row /\ new.status = "consumed" /\ new.client = row.client /\ new.user = row.user
        /\ new.session = row.session /\ new.family = row.family
        /\ new.consumed = row.consumed /\ new.revoked = row.revoked
    BY <2>2, WrittenStatus DEF Redeemed
  <2>4. row.status = "approved"
    BY <1>6
  <2>5. Later(i, row, new)
    BY <2>3, <2>4, NoneIsNoRow DEF Later
  <2>6. DeviceOK(i, new)
    BY <2>1, <2>3, <2>4, NoneIsNoRow DEF DeviceOK
  <2> QED BY <1>1, <2>1, <2>3, <2>5, <2>6 DEF Value
<1>7. CASE Locking(x.task, s)
  <2>1. s.kind = "lock" /\ s.set = NoColumns
    BY <1>7 DEF Locking
  <2>2. new = row
    BY <1>1, <2>1, WrittenNothing DEF After
  <2> QED BY <1>1, <2>1, <2>2, LaterSame DEF Value
<1>8. CASE Sweeping(s) \/ Withdrawing(x.task, s)
  <2>1. s.kind \in {"sweep", "delete"}
    BY <1>8 DEF Sweeping, Withdrawing, DeleteFrom, Statement
  <2>2. new = None
    BY <1>1, <2>1 DEF After
  <2> QED BY <1>1, <2>1, <2>2 DEF Value, Later, DeviceOK
<1>9. ~Consenting(x.task, s) /\ ~Replacing(t, x, s)
  BY <1>2 DEF Consenting, Replacing, Insert, Statement
<1> QED BY <1>3, <1>4, <1>5, <1>6, <1>7, <1>8, <1>9 DEF StatementOK

\* A row that a revocation has selected is selected still, or settled.
LEMMA MeetsLater ==
    ASSUME NEW task, NEW s, Revoking(s) \/ RevokesOne(task, s), NEW i \in s.rows,
           RevokesOne(task, s) => i \in AccessTokens,
           NEW a \in Value, NEW b \in Value, Later(i, a, b), Meets(s, a)
    PROVE  Meets(s, b) \/ Dead(i, b)
<1>1. SUFFICES ASSUME b # None PROVE Meets(s, b) \/ Dead(i, b)
  BY DEF Dead
<1>2. /\ b \in Row /\ a # None
      /\ b.client = a.client /\ b.session = a.session /\ b.family = a.family
      /\ i \notin Devices => b.user = a.user
  BY <1>1 DEF Later, Value
<1>3. \A f \in DOMAIN s.where : a[f] \in s.where[f]
  BY DEF Meets
<1>4. CASE /\ i \in Codes \union AccessTokens \union Refreshes
           /\ DOMAIN s.where \subseteq {"client", "user", "session", "family"}
  <2>1. i \notin Devices
    BY <1>4, Tables
  <2>2. \A f \in DOMAIN s.where : a[f] = b[f]
    BY <1>2, <1>4, <2>1
  <2> QED BY <1>1, <1>3, <2>2 DEF Meets
<1>5. CASE /\ i \in Devices
           /\ DOMAIN s.where \subseteq {"client", "user", "status"} /\ "status" \in DOMAIN s.where
           /\ \/ s.where["status"] = {"approved"}
              \/ s.where["status"] = {"pending", "approved"} /\ "user" \notin DOMAIN s.where
  <2>1. a["status"] \in s.where["status"]
    BY <1>3, <1>5
  <2>2. \/ a.status = "pending" /\ b.status # ""
        \/ b.user = a.user /\ b.status = a.status
        \/ b.status \in {"denied", "consumed"}
    BY <1>1, <1>5 DEF Later
  <2>3. b.status \in {"", "pending", "approved", "denied", "consumed"}
    BY <1>2, RowFields
  <2>4. CASE b.status \in {"denied", "consumed"}
    BY <1>5, <2>4 DEF Dead
  <2>5. CASE b.user = a.user /\ b.status = a.status
    <3>1. \A f \in DOMAIN s.where : a[f] = b[f]
      BY <1>2, <1>5, <2>5
    <3> QED BY <1>1, <1>3, <3>1 DEF Meets
  <2>6. CASE a.status = "pending" /\ b.status \in {"pending", "approved"}
    <3>1. s.where["status"] = {"pending", "approved"} /\ "user" \notin DOMAIN s.where
      BY <1>5, <2>1, <2>6
    <3>2. \A f \in DOMAIN s.where : b[f] \in s.where[f]
      BY <1>2, <1>3, <1>5, <2>6, <3>1
    <3> QED BY <1>1, <3>2 DEF Meets
  <2> QED BY <2>2, <2>3, <2>4, <2>5, <2>6
<1>6. CASE RevokesOne(task, s)
  BY <1>4, <1>6 DEF RevokesOne
<1>7. CASE Revoking(s)
  BY <1>4, <1>5, <1>7 DEF Revoking
<1> QED BY <1>6, <1>7

-----------------------------------------------------------------------------
(***************************************************************************)
(* What others do to a transaction that is under way.                      *)
(***************************************************************************)
\* The rows it holds stay, the others only grow later, and a device whose
\* approval it withdraws is not approved anew.
LEMMA OtherTx ==
    ASSUME NEW u \in Txs, NEW x, x = tx[u], \E S : x \in TxRecord(S), RowsOK, TxOK(u, x),
           load' = load, own'[u] = own[u], db' \in [Ids -> Value],
           \A i \in Ids : Stored(i) => Stored(i)',
           \A i \in DOMAIN own[u] : db'[i] = db[i],
           \A i \in Ids \ Consents : Stored(i) => Later(i, db[i], db'[i]),
           x.task.op = "deleteConsent" /\ Pair(x.task) \in DOMAIN own[u] =>
             \A d \in Devices : ApprovedFor(db'[d], Pair(x.task)) => ApprovedFor(db[d], Pair(x.task))
    PROVE  TxOK(u, x)'
<1> USE DEF TxOK
<1>1. ShapeOK(u, x)'
  BY DEF ShapeOK, StatementOK
<1>2. HeldOK(u, x)'
  <2>1. DOMAIN own[u] \subseteq Ids
    BY DEF HeldOK
  <2>2. SUFFICES ASSUME NEW i \in DOMAIN own[u]
                 PROVE  /\ own[u][i] \in Value
                        /\ i \notin Consents /\ i # u => db'[i] # None /\ Later(i, db'[i], own[u][i])
                        /\ i \in Devices => DeviceOK(i, own[u][i])'
                        /\ i \in Devices /\ own[u][i] # None /\ own[u][i].status = "approved" =>
                             \/ db'[i].status = "approved"
                             \/ /\ x.task.op = "decide" /\ x.task.approve
                                /\ own[u][i].user = x.task.user
                                /\ own[u][i].client = x.task.client
                        /\ i \in Consents =>
                             /\ i = Pair(x.task)
                             /\ x.task.op \in {"decide", "grant", "deleteConsent"}
                             /\ own[u][i] = None <=> x.task.op = "deleteConsent"
    BY <2>1 DEF HeldOK
  <2>3. db'[i] = db[i]
    OBVIOUS
  <2>4. DeviceOK(i, own[u][i])' <=> DeviceOK(i, own[u][i])
    BY DEF DeviceOK
  <2> QED BY <2>3, <2>4 DEF HeldOK
<1>3. TargetsOK(u, x)'
  <2>1. SUFFICES ASSUME NEW i \in x.targets
                 PROVE  /\ i \notin Consents /\ Stored(i)'
                        /\ \/ Dead(i, View(u)'[i])
                           \/ /\ i \in x.todo /\ Meets(x.plan[1], View(u)'[i])
                              /\ Revoking(x.plan[1]) \/ RevokesOne(x.task, x.plan[1])
    BY DEF TargetsOK
  <2>2. /\ i \notin Consents /\ Stored(i)
        /\ \/ Dead(i, View(u)[i])
           \/ /\ i \in x.todo /\ Meets(x.plan[1], View(u)[i])
              /\ Revoking(x.plan[1]) \/ RevokesOne(x.task, x.plan[1])
    BY DEF TargetsOK
  <2>3. x.todo \subseteq Ids /\ i \in Ids
    BY DEF TxRecord
  <2>4. i \in x.todo => x.task \in Workload[load].tasks /\ i \in x.plan[1].rows
    BY DEF ShapeOK
  <2>5. i \in x.todo /\ RevokesOne(x.task, x.plan[1]) => i \in AccessTokens
    <3>1. load \in DOMAIN Workload
      BY DEF RowsOK
    <3> QED BY <2>4, <3>1, TaskParts DEF RevokesOne, WellAsked
  <2>6. CASE i \in DOMAIN own[u]
    <3>1. View(u)'[i] = View(u)[i]
      BY <2>3, <2>6 DEF View
    <3> QED BY <2>2, <2>3, <3>1
  <2>7. CASE i \notin DOMAIN own[u]
    <3>1. View(u)'[i] = db'[i] /\ View(u)[i] = db[i]
      BY <2>3, <2>7 DEF View
    <3>2. db[i] \in Value /\ db'[i] \in Value /\ Later(i, db[i], db'[i])
      BY <2>2, <2>3 DEF RowsOK
    <3>3. CASE Dead(i, db[i])
      BY <2>2, <2>3, <3>1, <3>2, <3>3, LaterSettled
    <3>4. CASE /\ i \in x.todo /\ Meets(x.plan[1], db[i])
               /\ Revoking(x.plan[1]) \/ RevokesOne(x.task, x.plan[1])
      <4>1. Meets(x.plan[1], db'[i]) \/ Dead(i, db'[i])
        BY <2>4, <2>5, <3>2, <3>4, MeetsLater
      <4> QED BY <2>2, <2>3, <3>1, <3>4, <4>1
    <3> QED BY <2>2, <3>1, <3>3, <3>4
  <2> QED BY <2>6, <2>7
<1>4. BranchOK(u, x)'
  BY DEF BranchOK
<1>5. GrantsOK(u, x)'
  BY DEF GrantsOK
<1>6. DecisionOK(u, x)'
  BY DEF DecisionOK
<1>7. WithdrawalOK(u, x)'
  <2>1. SUFFICES ASSUME x.task.op = "deleteConsent",
                        x.phase = "commit" \/ (x.phase = "run" /\ Len(x.plan) = 1),
                        NEW d \in Devices, ApprovedFor(db'[d], Pair(x.task))
                 PROVE  d \in x.todo \/ ~ApprovedFor(View(u)'[d], Pair(x.task))
    BY DEF WithdrawalOK
  <2>2. Pair(x.task) \in DOMAIN own[u]
    BY <2>1 DEF WithdrawalOK
  <2>3. ApprovedFor(db[d], Pair(x.task))
    BY <2>1, <2>2
  <2>4. d \in x.todo \/ ~ApprovedFor(View(u)[d], Pair(x.task))
    BY <2>1, <2>3 DEF WithdrawalOK
  <2>5. d \in Ids
    BY Tables
  <2>6. CASE d \in DOMAIN own[u]
    <3>1. View(u)'[d] = View(u)[d]
      BY <2>5, <2>6 DEF View
    <3> QED BY <2>4, <3>1
  <2>7. CASE d \notin DOMAIN own[u]
    <3>1. View(u)[d] = db[d]
      BY <2>5, <2>7 DEF View
    <3> QED BY <2>3, <2>4, <3>1
  <2> QED BY <2>6, <2>7
<1> QED BY <1>1, <1>2, <1>3, <1>4, <1>5, <1>6, <1>7

\* A step of one transaction that writes nothing to the database.
LEMMA LocalStep ==
    ASSUME Inv, NEW t \in Txs, tx[t].phase # "ended", NEW y, NEW rows,
           tx' = [tx EXCEPT ![t] = y], own' = [own EXCEPT ![t] = rows],
           UNCHANGED <<db, timeVars, historyVars>>,
           \E S : y \in TxRecord(S), TxOK(t, y)',
           \A u \in Txs \ {t} : DOMAIN rows \intersect DOMAIN own[u] = {}
    PROVE  Inv'
<1>1. /\ DOMAIN own = Txs /\ DOMAIN tx = Txs /\ Disjoint
      /\ RowsOK /\ HistoryOK /\ OneUnspent /\ ApprovedHasConsent
  BY InvParts
<1>2. /\ db' = db /\ unsaved' = unsaved /\ expired' = expired /\ aged' = aged /\ load' = load
      /\ granted' = granted /\ dead' = dead
  BY DEF timeVars, historyVars
<1>3. \A i \in Ids : Stored(i) => Stored(i)'
  BY <1>1, <1>2 DEF Stored
<1>4. DOMAIN own' = Txs /\ DOMAIN tx' = Txs /\ tx'[t] = y /\ own'[t] = rows
  BY <1>1
<1>5. \A u \in Txs \ {t} : tx'[u] = tx[u] /\ own'[u] = own[u]
  BY <1>1
<1>6. Disjoint'
  BY <1>1, <1>4, <1>5 DEF Disjoint
<1>7. RowsOK'
  BY <1>1, <1>2, <1>3 DEF RowsOK, DeviceOK
<1>8. HistoryOK'
  BY <1>1, <1>2, <1>3 DEF HistoryOK
<1>9. OneUnspent' /\ ApprovedHasConsent'
  BY <1>1, <1>2 DEF OneUnspent, Issued, ApprovedHasConsent
<1>10. ASSUME NEW u \in Txs \ {t}, NEW x, x = tx[u]
       PROVE  (\E S : x \in TxRecord(S)) /\ TxOK(u, x)'
  <2>1. (\E S : x \in TxRecord(S)) /\ TxOK(u, x)
    BY <1>10 DEF Inv
  <2>2. \A i \in Ids : Later(i, db[i], db'[i])
    BY <1>1, <1>2, LaterSame DEF RowsOK
  <2>3. db' \in [Ids -> Value]
    BY <1>1, <1>2 DEF RowsOK
  <2> QED BY <1>1, <1>2, <1>3, <1>5, <1>10, <2>1, <2>2, <2>3, OtherTx
<1>11. ASSUME NEW u \in Txs, NEW x \in {tx'[u]}
       PROVE  (\E S : x \in TxRecord(S)') /\ TxOK(u, x)'
  <2>1. \A S : TxRecord(S)' = TxRecord(S)
    BY <1>2 DEF TxRecord
  <2>2. CASE u = t
    BY <1>4, <1>11, <2>1, <2>2
  <2>3. CASE u # t
    BY <1>5, <1>10, <1>11, <2>1, <2>3
  <2> QED BY <2>2, <2>3
<1> QED BY <1>4, <1>6, <1>7, <1>8, <1>9, <1>11 DEF Inv, StoreInv

LEMMA EndedFields ==
    /\ Ended.phase = "ended" /\ Ended.task = NoTask /\ Ended.plan = <<>> /\ Ended.todo = {}
    /\ Ended.hit = FALSE /\ Ended.targets = {} /\ Ended.grants = FALSE
    /\ \A S : Ended \in TxRecord(S) /\ Idle \in TxRecord(S)
<1>1. /\ Ended.phase = "ended" /\ Ended.task = NoTask /\ Ended.plan = <<>> /\ Ended.todo = {}
      /\ Ended.hit = FALSE /\ Ended.targets = {} /\ Ended.grants = FALSE
  BY DEF Ended, Idle
<1>2. \A S : <<>> \in Seq(S)
  BY EmptySeq
<1>3. None \in Value /\ NoTask \in Workload[load].tasks \union {NoTask}
  BY DEF Value
<1>4. \A S : Idle \in TxRecord(S)
  BY <1>2, <1>3 DEF TxRecord, Phases, Idle
<1>5. \A S : Ended \in TxRecord(S)
  BY <1>4 DEF TxRecord, Phases, Ended
<1> QED BY <1>1, <1>4, <1>5

\* A transaction that has not begun or that ended holds nothing and promises nothing.
Quiet ==
    \A t \in Txs : DOMAIN own[t] = {} => TxOK(t, Ended) /\ TxOK(t, Idle)

LEMMA NothingHeld == Quiet
<1>1. SUFFICES ASSUME NEW t \in Txs, NEW x, x = Ended \/ x = Idle, DOMAIN own[t] = {}
               PROVE  TxOK(t, x)
  BY DEF Quiet
<1>2. /\ x.phase \in {"idle", "ended"} /\ x.task = NoTask /\ x.plan = <<>> /\ x.todo = {}
      /\ x.hit = FALSE /\ x.targets = {} /\ x.grants = FALSE
  BY <1>1 DEF Ended, Idle
<1>3. x.task.op = "none" /\ Len(x.plan) = 0
  BY <1>2 DEF NoTask
<1>4. ShapeOK(t, x)
  BY <1>1, <1>2, <1>3 DEF ShapeOK
<1>5. HeldOK(t, x) /\ TargetsOK(t, x) /\ GrantsOK(t, x)
  BY <1>1, <1>2, <1>3 DEF HeldOK, TargetsOK, GrantsOK
<1>6. BranchOK(t, x) /\ DecisionOK(t, x) /\ WithdrawalOK(t, x)
  BY <1>1, <1>2, <1>3 DEF BranchOK, DecisionOK, WithdrawalOK
<1> QED BY <1>4, <1>5, <1>6 DEF TxOK

LEMMA EndStep ==
    ASSUME Inv, NEW t \in Txs, tx[t].phase # "ended", NEW rows, SetTx(t, Ended, rows),
           UNCHANGED <<db, timeVars, historyVars>>
    PROVE  Inv'
<1>1. tx' = [tx EXCEPT ![t] = Ended] /\ own' = [own EXCEPT ![t] = NoColumns]
  BY EndedFields DEF SetTx
<1>2. DOMAIN NoColumns = {}
  BY DEF NoColumns
<1>3. DOMAIN own'[t] = {}
  BY <1>1, <1>2, InvParts
<1>4. TxOK(t, Ended)'
  <2>1. Quiet'
    BY NothingHeld, PTL
  <2> QED BY <1>3, <2>1 DEF Quiet
<1> QED BY <1>1, <1>2, <1>4, EndedFields, LocalStep

-----------------------------------------------------------------------------
(***************************************************************************)
(* A request begins.                                                       *)
(***************************************************************************)
\* The statements a method may start with, and in which order.
PlanOK(task, plan) ==
    /\ plan # <<>>
    /\ \A n \in 1..Len(plan) :
         \/ Revoking(plan[n]) \/ RevokesOne(task, plan[n]) \/ Sweeping(plan[n])
         \/ Consuming(task, plan[n]) \/ Deciding(task, plan[n]) \/ Consenting(task, plan[n])
         \/ Withdrawing(task, plan[n])
         \/ Locking(task, plan[n]) /\ Len(plan) = 1
    /\ task.op = "consume" =>
         /\ Len(plan) = 1 /\ Consuming(task, plan[1])
         /\ plan[1].where = [client |-> {task.client}, consumed |-> {FALSE}, revoked |-> {FALSE}]
    /\ task.op = "decide" /\ task.approve => Consenting(task, plan[Len(plan)])
    /\ task.op = "deleteConsent" =>
         /\ plan[Len(plan)] = DenyFor(task) /\ Withdrawing(task, plan[1]) /\ Len(plan) # 1
         /\ \A n \in 1..Len(plan) : Withdrawing(task, plan[n]) => n = 1

LEMMA OneKind ==
    ASSUME NEW task, NEW s, Locking(task, s)
    PROVE  /\ ~Revoking(s) /\ ~RevokesOne(task, s) /\ ~Sweeping(s) /\ ~Consuming(task, s)
           /\ ~Deciding(task, s) /\ ~Consenting(task, s) /\ ~Withdrawing(task, s)
BY DEF Locking, Revoking, RevokesOne, Sweeping, Consuming, Deciding, Consenting, Withdrawing,
       Insert, DeleteFrom, Statement

LEMMA BeginStep ==
    ASSUME Inv, NEW t \in Txs, NEW task \in Workload[load].tasks, NEW S, NEW plan \in Seq(S),
           PlanOK(task, plan), Begin(t, task, plan)
    PROVE  Inv'
<1>1. PICK y : y = [Idle EXCEPT !.phase = "next", !.task = task, !.plan = plan,
                                !.past = expired, !.old = aged, !.grants = (task.op = "consume")]
  OBVIOUS
<1>2. /\ y.phase = "next" /\ y.task = task /\ y.plan = plan /\ y.past = expired /\ y.old = aged
      /\ y.grants = (task.op = "consume") /\ y.todo = {} /\ y.hit = FALSE /\ y.targets = {}
  BY <1>1 DEF Idle
<1>3. y \in TxRecord(S)
  <2>1. Idle \in TxRecord(S)
    BY EndedFields
  <2>2. expired \subseteq Ids /\ aged \subseteq Ids
    BY InvParts DEF RowsOK
  <2> QED BY <1>1, <2>1, <2>2 DEF TxRecord, Phases
<1>4. /\ tx' = [tx EXCEPT ![t] = y] /\ own' = [own EXCEPT ![t] = NoColumns]
      /\ UNCHANGED <<db, timeVars, historyVars>> /\ tx[t].phase = "idle"
  BY <1>1, <1>2 DEF Begin, SetTx
<1>5. DOMAIN own'[t] = {} /\ load' = load
  BY <1>4, InvParts DEF NoColumns, timeVars
<1>6. Len(plan) \in Nat /\ Len(plan) >= 1 /\ plan # <<>>
  BY PlanParts DEF PlanOK
<1>7. \A n \in 1..Len(plan) : Locking(task, plan[n]) => Len(plan) = 1 /\ task.op # "consume"
  BY OneKind DEF PlanOK, Locking
<1>8. ShapeOK(t, y)'
  <2>1. \A n \in 1..Len(y.plan) : StatementOK(t, y, y.plan[n])
    BY <1>2 DEF PlanOK, StatementOK
  <2> QED BY <1>2, <1>5, <1>6, <2>1 DEF ShapeOK
<1>9. HeldOK(t, y)' /\ TargetsOK(t, y)'
  BY <1>2, <1>5 DEF HeldOK, TargetsOK
<1>10. BranchOK(t, y)'
  BY <1>2, <1>5, <1>7 DEF BranchOK
<1>11. GrantsOK(t, y)'
  BY <1>2 DEF GrantsOK, PlanOK
<1>12. DecisionOK(t, y)'
  BY <1>2 DEF DecisionOK, PlanOK
<1>13. WithdrawalOK(t, y)'
  BY <1>2 DEF WithdrawalOK, PlanOK
<1>14. TxOK(t, y)'
  BY <1>8, <1>9, <1>10, <1>11, <1>12, <1>13 DEF TxOK
<1>15. DOMAIN NoColumns = {} /\ tx[t].phase # "ended"
  BY <1>4 DEF NoColumns
<1> QED BY <1>3, <1>4, <1>14, <1>15, LocalStep

\* The statements of RevokeTables, of a family and of the devices.
LEMMA RevokingTables ==
    ASSUME NEW rows, rows \subseteq Codes \union AccessTokens \union Refreshes, NEW where,
           DOMAIN where \subseteq {"client", "user", "session", "family"}
    PROVE  Revoking(Update(rows, Revoked, where))
BY DEF Revoking, Update, Statement

LEMMA RevokingDevices ==
    ASSUME NEW where, DOMAIN where \subseteq {"client", "user", "status"}, "status" \in DOMAIN where,
           \/ where["status"] = {"approved"}
           \/ where["status"] = {"pending", "approved"} /\ "user" \notin DOMAIN where
    PROVE  Revoking(Update(Devices, Denied, where))
BY DEF Revoking, Update, Statement

\* A statement that revokes withdraws no consent.
LEMMA RevokingOnly ==
    ASSUME NEW task, NEW s, Revoking(s)
    PROVE  ~Withdrawing(task, s) /\ ~Locking(task, s)
BY DEF Revoking, Withdrawing, Locking, DeleteFrom, Statement

LEMMA RevokeTablesStep ==
    ASSUME Inv, NEW t \in Txs, NEW task \in Workload[load].tasks, NEW where, NEW devices,
           DOMAIN where \subseteq {"client", "user", "session", "family"},
           task.op \in {"session", "user", "client"},
           \/ Begin(t, task, RevokeTables(where))
           \/ /\ Begin(t, task, RevokeTables(where) \o <<Update(Devices, Denied, devices)>>)
              /\ Revoking(Update(Devices, Denied, devices))
    PROVE  Inv'
<1>1. PICK a, b, c, d :
        /\ a = Update(Codes, Revoked, where) /\ b = Update(AccessTokens, Revoked, where)
        /\ c = Update(Refreshes, Revoked, where) /\ d = Update(Devices, Denied, devices)
  OBVIOUS
<1>2. Revoking(a) /\ Revoking(b) /\ Revoking(c)
  BY <1>1, RevokingTables
<1>3. PICK S : S = {a, b, c, d}
  OBVIOUS
<1>4. RevokeTables(where) = <<a, b, c>> /\ <<a, b, c>> \in Seq(S)
  BY <1>1, <1>3 DEF RevokeTables
<1>5. CASE Begin(t, task, RevokeTables(where))
  <2>1. PICK plan \in Seq(S) : plan = <<a, b, c>>
    BY <1>4
  <2>2. plan # <<>> /\ Len(plan) = 3 /\ plan[1] = a /\ plan[2] = b /\ plan[3] = c
    BY <2>1
  <2>3. \A n \in 1..Len(plan) : Revoking(plan[n])
    BY <1>2, <2>2
  <2>4. PlanOK(task, plan)
    BY <2>2, <2>3 DEF PlanOK
  <2> QED BY <1>4, <1>5, <2>1, <2>4, BeginStep
<1>6. CASE /\ Begin(t, task, RevokeTables(where) \o <<Update(Devices, Denied, devices)>>)
           /\ Revoking(d)
  <2>1. PICK plan \in Seq(S) : plan = <<a, b, c, d>>
    <3>1. <<a, b, c, d>> \in Seq(S)
      BY <1>3
    <3> QED BY <3>1
  <2>2. plan # <<>> /\ Len(plan) = 4 /\ plan[1] = a /\ plan[2] = b /\ plan[3] = c /\ plan[4] = d
    BY <2>1
  <2>3. \A n \in 1..Len(plan) : Revoking(plan[n])
    BY <1>2, <1>6, <2>2
  <2>4. PlanOK(task, plan)
    BY <2>2, <2>3 DEF PlanOK
  <2>5. RevokeTables(where) \o <<Update(Devices, Denied, devices)>> = plan
    BY <1>1, <1>4, <2>1, Concat31
  <2> QED BY <1>6, <2>4, <2>5, BeginStep
<1> QED BY <1>1, <1>5, <1>6

LEMMA OneStatementStep ==
    ASSUME Inv, NEW t \in Txs, NEW task \in Workload[load].tasks, NEW s, Begin(t, task, <<s>>),
           PlanOK(task, <<s>>)
    PROVE  Inv'
<1>1. <<s>> \in Seq({s})
  OBVIOUS
<1> QED BY <1>1, BeginStep

LEMMA RequestStep ==
    ASSUME Inv, NEW t \in Txs, NEW task \in Workload[load].tasks, Request(t, task)
    PROVE  Inv'
<1>1. /\ task.op \in {"decide", "grant", "deleteConsent"} => Pair(task) \in Consents
      /\ load \in DOMAIN Workload
  BY InvParts, TaskParts DEF RowsOK
<1>2. CASE ConsumeAuthorizationCode(t, task)
  <2>1. PICK s : s = UpdateFound({task.row} \ expired, [consumed |-> TRUE],
                       [client |-> {task.client}, consumed |-> {FALSE}, revoked |-> {FALSE}])
    OBVIOUS
  <2>2. Begin(t, task, <<s>>) /\ task.op = "consume"
    BY <1>2, <2>1 DEF ConsumeAuthorizationCode
  <2>3. Consuming(task, s) /\ s.where = [client |-> {task.client}, consumed |-> {FALSE},
                                         revoked |-> {FALSE}]
    BY <2>1, <2>2 DEF Consuming, Consumed, UpdateFound, Statement
  <2>4. PlanOK(task, <<s>>)
    BY <2>2, <2>3 DEF PlanOK
  <2> QED BY <2>2, <2>4, OneStatementStep
<1>3. CASE RevokeAccessToken(t, task)
  <2>1. PICK s : s = UpdateFound({task.row}, Revoked, [client |-> {task.client}])
    OBVIOUS
  <2>2. Begin(t, task, <<s>>) /\ task.op = "revokeAccess"
    BY <1>3, <2>1 DEF RevokeAccessToken
  <2>3. RevokesOne(task, s)
    BY <2>1, <2>2 DEF RevokesOne, UpdateFound, Statement
  <2>4. PlanOK(task, <<s>>)
    BY <2>2, <2>3 DEF PlanOK
  <2> QED BY <2>2, <2>4, OneStatementStep
<1>4. CASE RotateRefreshToken(t, task) \/ RevokeRefreshToken(t, task)
           \/ PollDeviceAuthorization(t, task)
  <2>1. PICK s : /\ Begin(t, task, <<s>>) /\ task.op \in {"rotate", "revokeRefresh", "poll"}
                 /\ \E where : s = SelectForUpdate(task.row, where)
    BY <1>4 DEF RotateRefreshToken, RevokeRefreshToken, PollDeviceAuthorization,
                LockRefreshToken, LockDevice
  <2>2. Locking(task, s)
    BY <2>1 DEF Locking, SelectForUpdate, Statement
  <2>3. PlanOK(task, <<s>>)
    BY <2>1, <2>2 DEF PlanOK
  <2> QED BY <2>1, <2>3, OneStatementStep
<1>5. CASE GrantConsent(t, task)
  <2>1. PICK s : s = Insert(<<task.user, task.client>>, GrantOf(task.user, task.client))
    OBVIOUS
  <2>2. Begin(t, task, <<s>>) /\ task.op = "grant"
    BY <1>5, <2>1 DEF GrantConsent
  <2>3. Consenting(task, s)
    BY <2>1, <2>2 DEF Consenting, Pair
  <2>4. PlanOK(task, <<s>>)
    BY <2>2, <2>3 DEF PlanOK
  <2> QED BY <2>2, <2>4, OneStatementStep
<1>6. CASE DecideDeviceAuthorization(t, task)
  <2>1. PICK s, i :
          /\ s = UpdateFound({task.row} \ expired, Decision(task), [status |-> {"pending"}])
          /\ i = Insert(<<task.user, task.client>>, GrantOf(task.user, task.client))
    OBVIOUS
  <2>2. /\ task.op = "decide"
        /\ Begin(t, task, <<s>> \o (IF task.approve THEN <<i>> ELSE <<>>))
    BY <1>6, <2>1 DEF DecideDeviceAuthorization
  <2>3. Deciding(task, s) /\ Consenting(task, i)
    BY <2>1, <2>2 DEF Deciding, Consenting, Pair, UpdateFound, Statement
  <2>4. CASE task.approve
    <3>1. Begin(t, task, <<s, i>>)
      BY <2>2, <2>4, Concat11
    <3>2. <<s, i>> \in Seq({s, i}) /\ <<s, i>> # <<>>
      OBVIOUS
    <3>3. PlanOK(task, <<s, i>>)
      BY <2>2, <2>3, <3>2 DEF PlanOK
    <3> QED BY <3>1, <3>2, <3>3, BeginStep
  <2>5. CASE ~task.approve
    <3>1. <<s>> \o <<>> = <<s>>
      BY ConcatEmptySeq, <<s>> \in Seq({s})
    <3>2. PlanOK(task, <<s>>)
      BY <2>2, <2>3, <2>5 DEF PlanOK
    <3> QED BY <2>2, <2>5, <3>1, <3>2, OneStatementStep
  <2> QED BY <2>4, <2>5
<1>7. CASE DeleteConsent(t, task)
  <2>1. PICK a, b, c, d, e :
          /\ a = DeleteFrom({<<task.user, task.client>>}, NoColumns)
          /\ b = Update(Codes, Revoked, [user |-> {task.user}, client |-> {task.client}])
          /\ c = Update(AccessTokens, Revoked, [user |-> {task.user}, client |-> {task.client}])
          /\ d = Update(Refreshes, Revoked, [user |-> {task.user}, client |-> {task.client}])
          /\ e = DenyFor(task)
    OBVIOUS
  <2>2. /\ task.op = "deleteConsent"
        /\ Begin(t, task, <<a>> \o <<b, c, d>> \o <<e>>)
    BY <1>7, <2>1 DEF DeleteConsent, DeleteConsentPlan, RevokeTables, DenyFor
  <2>3. PICK S, plan : S = {a, b, c, d, e} /\ plan = <<a, b, c, d, e>>
    OBVIOUS
  <2>. plan \in Seq(S)
    BY <2>3
  <2>4. Begin(t, task, plan)
    <3>1. <<a>> \o <<b, c, d>> = <<a, b, c, d>>
      BY Concat13
    <3>2. <<a, b, c, d>> \o <<e>> = plan
      BY <2>3, Concat41
    <3> QED BY <2>2, <3>1, <3>2
  <2>5. /\ plan # <<>> /\ Len(plan) = 5 /\ plan[1] = a /\ plan[2] = b /\ plan[3] = c
        /\ plan[4] = d /\ plan[5] = e
    BY <2>3
  <2>6. Withdrawing(task, a)
    BY <2>1, <2>2 DEF Withdrawing, Pair
  <2>7. Revoking(b) /\ Revoking(c) /\ Revoking(d)
    BY <2>1, RevokingTables
  <2>8. Revoking(e)
    BY <2>1, RevokingDevices DEF DenyFor
  <2>9. \A n \in 2..5 : Revoking(plan[n]) /\ ~Withdrawing(task, plan[n])
    BY <2>5, <2>7, <2>8, RevokingOnly
  <2>10. PlanOK(task, plan)
    BY <2>1, <2>2, <2>5, <2>6, <2>9 DEF PlanOK
  <2> QED BY <2>4, <2>10, BeginStep
<1>8. CASE RevokeSessionTokens(t, task)
  <2>1. PICK where : where = [user |-> {task.user}, session |-> {task.session}]
    OBVIOUS
  <2>2. Begin(t, task, RevokeTables(where)) /\ task.op = "session"
    BY <1>8, <2>1 DEF RevokeSessionTokens
  <2>3. DOMAIN where \subseteq {"client", "user", "session", "family"}
    BY <2>1
  <2> QED BY <2>2, <2>3, RevokeTablesStep
<1>9. CASE RevokeUserTokens(t, task)
  <2>1. PICK where, devices :
          /\ where = [user |-> {task.user},
                      session |-> (Sessions \union {None}) \ ({task.session} \ {None})]
          /\ devices = [user |-> {task.user}, status |-> {"approved"}]
    OBVIOUS
  <2>2. /\ Begin(t, task, RevokeTables(where) \o <<Update(Devices, Denied, devices)>>)
        /\ task.op = "user"
    BY <1>9, <2>1 DEF RevokeUserTokens
  <2>3. DOMAIN where \subseteq {"client", "user", "session", "family"}
    BY <2>1
  <2>4. Revoking(Update(Devices, Denied, devices))
    BY <2>1, RevokingDevices
  <2> QED BY <2>2, <2>3, <2>4, RevokeTablesStep
<1>10. CASE RevokeClientTokens(t, task)
  <2>1. PICK where, devices :
          /\ where = [client |-> {task.client}]
          /\ devices = [client |-> {task.client}, status |-> {"pending", "approved"}]
    OBVIOUS
  <2>2. /\ Begin(t, task, RevokeTables(where) \o <<Update(Devices, Denied, devices)>>)
        /\ task.op = "client"
    BY <1>10, <2>1 DEF RevokeClientTokens
  <2>3. DOMAIN where \subseteq {"client", "user", "session", "family"}
    BY <2>1
  <2>4. Revoking(Update(Devices, Denied, devices))
    BY <2>1, RevokingDevices
  <2> QED BY <2>2, <2>3, <2>4, RevokeTablesStep
<1>11. CASE Cleanup(t, task)
  <2>1. PICK a, b, c, d :
          /\ a = Sweep(Codes, [consumed |-> {TRUE}])
          /\ b = Sweep(Devices, [status |-> {"consumed", "denied"}])
          /\ c = Sweep(AccessTokens, [revoked |-> {TRUE}])
          /\ d = Sweep(Refreshes, [revoked |-> {TRUE}, consumed |-> {TRUE}])
    OBVIOUS
  <2>2. task.op = "cleanup" /\ Begin(t, task, <<a, b, c, d>>)
    BY <1>11, <2>1 DEF Cleanup
  <2>3. PICK S, plan : S = {a, b, c, d} /\ plan = <<a, b, c, d>>
    OBVIOUS
  <2>. plan \in Seq(S)
    BY <2>3
  <2>4. /\ plan # <<>> /\ Len(plan) = 4 /\ plan[1] = a /\ plan[2] = b /\ plan[3] = c
        /\ plan[4] = d
    BY <2>3
  <2>5. Sweeping(a) /\ Sweeping(b) /\ Sweeping(c) /\ Sweeping(d)
    BY <2>1 DEF Sweeping, Sweep, Statement
  <2>6. PlanOK(task, plan)
    BY <2>2, <2>4, <2>5 DEF PlanOK
  <2> QED BY <2>2, <2>3, <2>6, BeginStep
<1> QED BY <1>2, <1>3, <1>4, <1>5, <1>6, <1>7, <1>8, <1>9, <1>10, <1>11 DEF Request

-----------------------------------------------------------------------------
(***************************************************************************)
(* A statement goes on.                                                    *)
(***************************************************************************)
\* Rows are left, or the statement is over.
Onward(z, y) ==
    /\ y.task = z.task /\ y.seen = z.seen /\ y.targets = z.targets /\ y.todo = z.todo
    /\ y.grants = z.grants
    /\ \/ z.todo # {} /\ y = z
       \/ /\ z.todo = {} /\ (z.hit \/ ~z.plan[1].must)
          /\ y.plan = Tail(z.plan) /\ y.hit = FALSE
          /\ y.phase = IF z.plan[1].kind \in Reads THEN "branch"
                       ELSE IF Len(z.plan) = 1 THEN "commit" ELSE "next"

LEMMA AdvanceCases ==
    ASSUME NEW S, NEW z \in TxRecord(S), z.plan # <<>>
    PROVE  \/ Advance(z) = Ended
           \/ Advance(z) \in TxRecord(S) /\ Onward(z, Advance(z))
<1>1. z.plan \in Seq(S) /\ Head(z.plan) = z.plan[1] /\ Tail(z.plan) \in Seq(S)
  BY PlanParts DEF TxRecord
<1>2. CASE z.todo # {}
  BY <1>2 DEF Advance, Onward
<1>3. CASE z.todo = {} /\ z.plan[1].must /\ ~z.hit
  BY <1>1, <1>3 DEF Advance
<1>4. CASE z.todo = {} /\ (z.hit \/ ~z.plan[1].must)
  <2>1. PICK p \in Phases : p = IF z.plan[1].kind \in Reads THEN "branch"
                                ELSE IF Len(z.plan) = 1 THEN "commit" ELSE "next"
    BY DEF Phases
  <2>2. PICK y : y = [z EXCEPT !.plan = Tail(z.plan), !.hit = FALSE, !.phase = p]
    OBVIOUS
  <2>3. Advance(z) = y
    BY <1>1, <1>4, <2>1, <2>2 DEF Advance
  <2>4. y \in TxRecord(S)
    BY <1>1, <2>2 DEF TxRecord
  <2>5. /\ y.task = z.task /\ y.seen = z.seen /\ y.targets = z.targets /\ y.todo = z.todo
        /\ y.grants = z.grants /\ y.plan = Tail(z.plan) /\ y.hit = FALSE /\ y.phase = p
    BY <2>2 DEF TxRecord
  <2>6. Onward(z, y)
    BY <1>4, <2>1, <2>5 DEF Onward
  <2> QED BY <2>3, <2>4, <2>6
<1> QED BY <1>2, <1>3, <1>4

LEMMA StatementRows ==
    ASSUME NEW t, NEW x, NEW s, StatementOK(t, x, s)
    PROVE  /\ s.kind = "lock" => Locking(x.task, s) /\ s.must
           /\ s.kind = "insert" =>
                /\ Consenting(x.task, s) \/ Replacing(t, x, s)
                /\ ~s.must
           /\ s.must \/ s.kind = "insert" \/ Redeeming(x, s) => \A i, j \in s.rows : i = j
           /\ s.kind = "update" /\ s.set \in {Revoked, Denied} =>
                Revoking(s) \/ RevokesOne(x.task, s)
           /\ s.kind = "insert" => s.rows # {}
<1>1. Revoked["revoked"] = TRUE /\ DOMAIN Revoked = {"revoked"}
  BY DEF Revoked
<1>2. Denied["status"] = "denied" /\ DOMAIN Denied = {"status"}
  BY DEF Denied
<1>3. DOMAIN Consumed = {"consumed"} /\ DOMAIN Redeemed = {"status"} /\ Redeemed["status"] = "consumed"
  BY DEF Consumed, Redeemed
<1>4. DOMAIN Decision(x.task) = {"user", "status"}
  BY DEF Decision
<1>5. CASE Revoking(s) \/ RevokesOne(x.task, s)
  BY <1>5 DEF Revoking, RevokesOne, Redeeming, Update, Statement
<1>6. CASE Sweeping(s)
  BY <1>6 DEF Sweeping, Redeeming, Update, Statement
<1>7. CASE Consuming(x.task, s)
  BY <1>1, <1>2, <1>3, <1>7 DEF Consuming
<1>8. CASE Deciding(x.task, s)
  <2>1. "user" \in DOMAIN s.set
    BY <1>4, <1>8 DEF Deciding
  <2> QED BY <1>1, <1>2, <1>8, <2>1 DEF Deciding
<1>9. CASE Redeeming(x, s)
  <2>1. s.kind = "update" /\ s.set = Redeemed /\ s.rows = {x.task.row} /\ ~s.must
    BY <1>9 DEF Redeeming, Update, Statement
  <2> QED BY <1>1, <1>2, <1>3, <2>1
<1>10. CASE Consenting(x.task, s) \/ Replacing(t, x, s)
  BY <1>10 DEF Consenting, Replacing, Insert, Statement
<1>11. CASE Withdrawing(x.task, s)
  BY <1>11 DEF Withdrawing, DeleteFrom, Statement
<1>12. CASE Locking(x.task, s)
  BY <1>12 DEF Locking
<1> QED BY <1>5, <1>6, <1>7, <1>8, <1>9, <1>10, <1>11, <1>12 DEF StatementOK

\* A row qualifies for a statement that is no sweep when it meets its WHERE.
LEMMA QualifiesMeets ==
    ASSUME NEW t \in Txs, NEW s, NEW i \in Ids
    PROVE  /\ Qualifies(t, s, i) => View(t)[i] # None
           /\ s.kind # "sweep" => (Qualifies(t, s, i) <=> Meets(s, View(t)[i]))
BY DEF Qualifies, Meets

\* What a running transaction has in hand.
LEMMA Running ==
    ASSUME Inv, NEW t \in Txs, NEW x, x = tx[t], x.phase \in {"next", "run"}
    PROVE  /\ x.plan # <<>> /\ StatementOK(t, x, x.plan[1]) /\ x.task \in Workload[load].tasks
           /\ \A n \in 1..Len(x.plan) : StatementOK(t, x, x.plan[n])
           /\ \A n \in 1..Len(x.plan) : Locking(x.task, x.plan[n]) =>
                Len(x.plan) = 1 /\ DOMAIN own[t] = {} /\ ~x.grants
           /\ t \notin DOMAIN own[t] /\ View(t)[t] = None
           /\ load \in DOMAIN Workload /\ db \in [Ids -> Value]
           /\ x.task.op = "deleteConsent" =>
                Withdrawing(x.task, x.plan[1]) \/ Pair(x.task) \in DOMAIN own[t]
<1>1. /\ RowsOK /\ ShapeOK(t, x) /\ HeldOK(t, x) /\ BranchOK(t, x) /\ WithdrawalOK(t, x)
      /\ \E S : x \in TxRecord(S)
  BY InvParts
<1>2. x.plan # <<>> /\ x.task \in Workload[load].tasks
  BY <1>1 DEF ShapeOK
<1>3. Len(x.plan) \in Nat /\ Len(x.plan) >= 1
  BY <1>1, <1>2, PlanParts DEF TxRecord
<1>4. StatementOK(t, x, x.plan[1]) /\ \A n \in 1..Len(x.plan) : StatementOK(t, x, x.plan[n])
  BY <1>1, <1>3 DEF ShapeOK
<1>5. t \notin DOMAIN own[t] /\ View(t)[t] = None
  BY <1>1, <1>2, OwnRow
<1> QED BY <1>1, <1>2, <1>4, <1>5 DEF RowsOK, BranchOK, WithdrawalOK

\* A row of a table that the transaction can see was stored.
LEMMA SeenIsStored ==
    ASSUME Inv, NEW t \in Txs, NEW i \in Ids, i \notin Consents, View(t)[i] # None,
           tx[t].phase \in {"next", "run"}
    PROVE  Stored(i) /\ i # t /\ db[i] \in Row
<1>1. RowsOK /\ HeldOK(t, tx[t])
  BY InvParts
<1>2. i # t
  BY Running
<1>3. db[i] \in Row
  BY <1>1, <1>2, ViewRow
<1>4. Stored(i)
  BY <1>1, <1>3, NoneIsNoRow DEF RowsOK
<1> QED BY <1>2, <1>3, <1>4

\* A step of the statement that x runs: rows are left, or the next one is due.
Moved(x, y) ==
    LET s == x.plan[1] IN
    /\ y.task = x.task /\ y.grants = x.grants /\ y.todo \subseteq s.rows
    /\ y.seen = x.seen \/ s.kind = "lock"
    /\ \/ /\ y.todo # {} /\ y.plan = x.plan /\ y.phase = "run" /\ y.seen = x.seen
          /\ s.must => ~y.hit
       \/ /\ y.todo = {} /\ y.plan = Tail(x.plan) /\ ~y.hit
          /\ y.phase = IF s.kind \in Reads THEN "branch"
                       ELSE IF Len(x.plan) = 1 THEN "commit" ELSE "next"

\* The plan afterwards.
PlanMoved(x, y) ==
    /\ Len(x.plan) \in Nat /\ Len(x.plan) >= 1
    /\ \A n \in 1..Len(y.plan) : Locking(y.task, y.plan[n]) => y.plan = x.plan /\ n = 1
    /\ y.phase = "branch" =>
         x.plan[1].kind = "lock" /\ Locking(x.task, x.plan[1]) /\ Len(x.plan) = 1
    /\ y.phase \in {"next", "run"} => y.plan[Len(y.plan)] = x.plan[Len(x.plan)]
    /\ y.phase = "commit" => Len(x.plan) = 1
    /\ y.phase = "next" => Len(x.plan) # 1
    /\ y.phase \in {"branch", "commit", "next", "run"}
    /\ y.plan = x.plan \/ y.plan = Tail(x.plan)
    /\ y.plan # x.plan => \A n \in 1..Len(y.plan) :
         n + 1 \in 1..Len(x.plan) /\ y.plan[n] = x.plan[n + 1]

LEMMA OnwardPlan ==
    ASSUME Inv, NEW t \in Txs, NEW x, x = tx[t], x.phase \in {"next", "run"}, NEW y, Moved(x, y),
           load' = load
    PROVE  ShapeOK(t, y)' /\ PlanMoved(x, y)
<1>. PICK s : s = x.plan[1]
  OBVIOUS
<1>1. PICK S : x \in TxRecord(S)
  BY InvParts
<1>2. /\ x.plan # <<>> /\ StatementOK(t, x, s) /\ x.task \in Workload[load].tasks
      /\ \A n \in 1..Len(x.plan) : StatementOK(t, x, x.plan[n])
      /\ \A n \in 1..Len(x.plan) : Locking(x.task, x.plan[n]) => Len(x.plan) = 1
  BY Running
<1>3. x.plan \in Seq(S)
  BY <1>1 DEF TxRecord
<1>4. /\ y.task = x.task /\ y.grants = x.grants /\ y.todo \subseteq s.rows
      /\ y.seen = x.seen \/ s.kind = "lock"
  BY DEF Moved
<1>5. /\ Tail(x.plan) \in Seq(S) /\ Len(x.plan) \in Nat /\ Len(x.plan) >= 1
      /\ Len(Tail(x.plan)) = Len(x.plan) - 1
      /\ \A n \in 1..Len(Tail(x.plan)) : Tail(x.plan)[n] = x.plan[n + 1]
      /\ Len(x.plan) = 1 <=> Tail(x.plan) = <<>>
  BY <1>2, <1>3, PlanParts
<1>6. StatementOK(t, x, s)
  BY <1>2
<1>7. s.kind # "read" /\ (s.kind = "lock" => Locking(x.task, s) /\ Len(x.plan) = 1)
  BY <1>5, <1>6, <1>2, StatementKinds, StatementRows
<1>8. CASE /\ y.todo # {} /\ y.plan = x.plan /\ y.phase = "run" /\ y.seen = x.seen
           /\ s.must => ~y.hit
  <2>1. \A n \in 1..Len(y.plan) : StatementOK(t, y, y.plan[n])
    BY <1>8, <1>2, <1>4 DEF StatementOK, Replacing, Redeeming
  <2>2. ShapeOK(t, y)'
    BY <1>8, <1>2, <1>4, <2>1 DEF ShapeOK
  <2>3. \A n \in 1..Len(y.plan) : Locking(y.task, y.plan[n]) => y.plan = x.plan /\ n = 1
    BY <1>5, <1>8, <1>2, <1>4
  <2> QED BY <1>5, <1>8, <2>2, <2>3 DEF PlanMoved
<1>9. CASE /\ y.todo = {} /\ y.plan = Tail(x.plan) /\ ~y.hit
           /\ y.phase = IF s.kind \in Reads THEN "branch"
                        ELSE IF Len(x.plan) = 1 THEN "commit" ELSE "next"
  <2>1. \A n \in 1..Len(y.plan) : n + 1 \in 1..Len(x.plan) /\ y.plan[n] = x.plan[n + 1]
    BY <1>5, <1>9
  <2>2. s.kind \in Reads => s.kind = "lock" /\ Locking(x.task, s) /\ Len(x.plan) = 1
    BY <1>7 DEF Reads
  <2>3. \A n \in 1..Len(y.plan) : ~Locking(y.task, y.plan[n]) /\ y.seen = x.seen
    <3>1. SUFFICES ASSUME NEW n \in 1..Len(y.plan)
                   PROVE  ~Locking(y.task, y.plan[n]) /\ y.seen = x.seen
      OBVIOUS
    <3>2. Len(x.plan) # 1
      BY <1>5, <2>1
    <3> QED BY <1>7, <1>2, <1>4, <2>1, <3>1, <3>2
  <2>4. \A n \in 1..Len(y.plan) : StatementOK(t, y, y.plan[n])
    <3>1. SUFFICES ASSUME NEW n \in 1..Len(y.plan)
                   PROVE  StatementOK(t, y, y.plan[n])
      OBVIOUS
    <3>2. StatementOK(t, x, y.plan[n]) /\ y.seen = x.seen
      BY <1>2, <2>1, <2>3
    <3> QED BY <1>4, <3>2 DEF StatementOK, Replacing, Redeeming
  <2>5. /\ y.phase = "branch" => s.kind = "lock" /\ Locking(x.task, s) /\ Len(x.plan) = 1
        /\ y.phase = "commit" => Len(x.plan) = 1
        /\ y.phase = "next" => Len(x.plan) # 1
        /\ y.phase \in {"branch", "commit", "next"}
        /\ y.plan # <<>> => y.phase = "next"
    BY <1>5, <1>9, <2>2
  <2>6. ShapeOK(t, y)'
    BY <1>5, <1>9, <1>2, <1>4, <2>4, <2>5 DEF ShapeOK
  <2>7. Len(x.plan) # 1 => /\ Len(y.plan) \in Nat /\ Len(y.plan) >= 1
                           /\ y.plan[Len(y.plan)] = x.plan[Len(x.plan)] /\ y.plan # <<>>
    BY <1>5, <1>9
  <2> QED BY <1>5, <1>9, <2>1, <2>3, <2>5, <2>6, <2>7 DEF PlanMoved
<1> QED BY <1>8, <1>9 DEF Moved

LEMMA ExecuteStep ==
    ASSUME Inv, NEW t \in Txs, Execute(t)
    PROVE  Inv'
<1>1. PICK x, s, rows, aims :
        /\ x = tx[t] /\ s = x.plan[1]
        /\ rows = IF s.kind = "insert" THEN s.rows ELSE {i \in s.rows : Qualifies(t, s, i)}
        /\ aims = IF s.kind = "update" /\ s.set \in {Revoked, Denied} THEN rows ELSE {}
  OBVIOUS
<1>2. x.phase = "next"
  BY <1>1 DEF Execute
<1>3. /\ x.plan # <<>> /\ StatementOK(t, x, s) /\ x.task \in Workload[load].tasks
      /\ \A n \in 1..Len(x.plan) : StatementOK(t, x, x.plan[n])
      /\ \A n \in 1..Len(x.plan) : Locking(x.task, x.plan[n]) =>
           Len(x.plan) = 1 /\ DOMAIN own[t] = {} /\ ~x.grants
      /\ t \notin DOMAIN own[t] /\ View(t)[t] = None
      /\ load \in DOMAIN Workload /\ db \in [Ids -> Value]
      /\ x.task.op = "deleteConsent" =>
           Withdrawing(x.task, x.plan[1]) \/ Pair(x.task) \in DOMAIN own[t]
  BY <1>1, <1>2, Running
<1>4. /\ RowsOK /\ ShapeOK(t, x) /\ HeldOK(t, x) /\ TargetsOK(t, x) /\ BranchOK(t, x)
      /\ GrantsOK(t, x) /\ DecisionOK(t, x) /\ WithdrawalOK(t, x)
      /\ DOMAIN own = Txs /\ Disjoint
  BY <1>1, InvParts
<1>5. PICK S : x \in TxRecord(S)
  BY <1>1, InvParts
<1>6. x.plan \in Seq(S) /\ Head(x.plan) = s /\ x.todo = {} /\ ~x.hit /\ x.hit \in BOOLEAN
  BY <1>1, <1>2, <1>3, <1>4, <1>5, PlanParts DEF TxRecord, ShapeOK
<1>7. s.rows \subseteq Ids
  BY <1>3, Tables, TaskParts DEF StatementOK, Revoking, RevokesOne, Consuming, Deciding, Redeeming,
     Consenting, Replacing, Withdrawing, Locking, Sweeping, Update, Insert, DeleteFrom, Statement,
     WellAsked
<1>8. PICK z : z = [x EXCEPT !.phase = "run", !.todo = rows, !.targets = x.targets \union aims]
  OBVIOUS
<1>9. /\ SetTx(t, Advance(z), own[t]) /\ UNCHANGED <<db, timeVars, historyVars>>
  BY <1>1, <1>6, <1>8 DEF Execute
<1>10. z \in TxRecord(S)
  <2>1. rows \subseteq Ids /\ aims \subseteq Ids
    BY <1>1, <1>7
  <2>2. x.targets \union aims \in SUBSET Ids /\ rows \in SUBSET Ids
    BY <1>5, <2>1 DEF TxRecord
  <2> QED BY <1>5, <1>8, <2>2 DEF TxRecord, Phases
<1>11. /\ z.phase = "run" /\ z.todo = rows /\ z.targets = x.targets \union aims /\ z.task = x.task
       /\ z.plan = x.plan /\ z.hit = x.hit /\ z.seen = x.seen /\ z.grants = x.grants
  BY <1>5, <1>8 DEF TxRecord
<1>12. CASE Advance(z) = Ended
  BY <1>1, <1>2, <1>9, <1>12, EndStep
<1>13. CASE Advance(z) # Ended
  <2>1. PICK y : y = Advance(z) /\ y \in TxRecord(S) /\ Onward(z, y)
    BY <1>3, <1>10, <1>11, <1>13, AdvanceCases
  <2>2. /\ y.task = x.task /\ y.seen = x.seen /\ y.targets = x.targets \union aims /\ y.todo = rows
        /\ y.grants = x.grants
        /\ \/ rows # {} /\ y.plan = x.plan /\ y.hit = x.hit /\ y.phase = "run"
           \/ /\ rows = {} /\ ~s.must
              /\ y.plan = Tail(x.plan) /\ y.hit = FALSE
              /\ y.phase = IF s.kind \in Reads THEN "branch"
                           ELSE IF Len(x.plan) = 1 THEN "commit" ELSE "next"
    BY <1>1, <1>6, <1>11, <2>1 DEF Onward
  <2>3. load' = load /\ db' = db /\ unsaved' = unsaved
    BY <1>9 DEF timeVars
  <2>4. ShapeOK(t, y)' /\ PlanMoved(x, y)
    <3>1. y.todo \subseteq s.rows /\ (y.hit = FALSE)
      BY <1>1, <1>6, <2>2
    <3>2. Moved(x, y)
      BY <1>1, <2>2, <3>1 DEF Moved
    <3> QED BY <1>1, <1>2, <2>3, <3>2, OnwardPlan
  <2>5. /\ tx' = [tx EXCEPT ![t] = y] /\ own' = [own EXCEPT ![t] = own[t]]
    BY <1>9, <2>1, <2>4 DEF SetTx, PlanMoved
  <2>6. own'[t] = own[t] /\ View(t)' = View(t)
    BY <1>4, <2>3, <2>5 DEF View
  <2>7. ~s.must /\ rows = {} => s.kind # "lock" /\ s.kind # "insert" /\ ~Redeeming(x, s)
    <3>1. s.kind = "lock" => s.must
      BY <1>3, StatementRows
    <3>2. s.kind = "insert" => rows # {}
      BY <1>1, <1>3, StatementRows
    <3>3. Redeeming(x, s) => rows # {}
      <4>1. SUFFICES ASSUME Redeeming(x, s) PROVE rows # {}
        OBVIOUS
      <4>2. PICK r : r = x.task.row
        OBVIOUS
      <4>3. /\ x.task.op = "poll" /\ x.grants /\ s.rows = {r} /\ s.kind = "update"
            /\ s.where = NoColumns
        BY <4>1, <4>2 DEF Redeeming, Update, Statement
      <4>4. r \in DOMAIN own[t] /\ own[t][r] = db[r] /\ Live(r, db[r])
        BY <1>2, <1>4, <4>2, <4>3 DEF GrantsOK
      <4>5. View(t)[r] # None /\ r \in Ids
        BY <1>7, <4>3, <4>4 DEF View, Live
      <4>6. Qualifies(t, s, r)
        BY <4>3, <4>5 DEF Qualifies, NoColumns
      <4> QED BY <1>1, <4>3, <4>6
    <3> QED BY <3>1, <3>2, <3>3
  <2>8. HeldOK(t, y)'
    BY <1>3, <1>4, <2>2, <2>3, <2>6 DEF HeldOK, DeviceOK
  <2>9. TargetsOK(t, y)'
    <3>1. SUFFICES ASSUME NEW i \in y.targets
                   PROVE  /\ i \notin Consents /\ Stored(i)'
                          /\ \/ Dead(i, View(t)[i])
                             \/ /\ i \in y.todo /\ Meets(y.plan[1], View(t)[i])
                                /\ Revoking(y.plan[1]) \/ RevokesOne(y.task, y.plan[1])
      BY <2>6 DEF TargetsOK
    <3>2. \A j : Stored(j) => Stored(j)'
      BY <1>1, <1>2, <2>3, <2>5 DEF Stored
    <3>3. CASE i \in x.targets
      <4>1. i \notin Consents /\ Stored(i) /\ Dead(i, View(t)[i])
        BY <1>4, <1>6, <3>3 DEF TargetsOK
      <4> QED BY <3>2, <4>1
    <3>4. CASE i \notin x.targets
      <4>1. i \in rows /\ s.kind = "update" /\ s.set \in {Revoked, Denied}
        BY <1>1, <2>2, <3>4
      <4>2. Revoking(s) \/ RevokesOne(x.task, s)
        BY <1>3, <4>1, StatementRows
      <4>3. Qualifies(t, s, i) /\ i \in s.rows /\ i \in Ids
        BY <1>1, <1>7, <4>1
      <4>4. Meets(s, View(t)[i]) /\ View(t)[i] # None
        BY <4>1, <4>3, QualifiesMeets
      <4>5. i \notin Consents
        <5>1. RevokesOne(x.task, s) => i \in AccessTokens
          BY <1>3, <4>3, TaskParts DEF RevokesOne, WellAsked
        <5>2. Revoking(s) => i \in Codes \union AccessTokens \union Refreshes \union Devices
          BY <4>3 DEF Revoking
        <5> QED BY <4>2, <5>1, <5>2, Tables
      <4>6. Stored(i)
        BY <1>1, <1>2, <4>3, <4>4, <4>5, SeenIsStored
      <4>7. y.plan[1] = s /\ i \in y.todo
        BY <1>1, <2>2, <4>1
      <4> QED BY <2>2, <3>2, <4>2, <4>4, <4>5, <4>6, <4>7
    <3> QED BY <3>3, <3>4
  <2>10. BranchOK(t, y)'
    <3>1. y.phase # "branch"
      BY <1>1, <2>2, <2>4, <2>7 DEF PlanMoved, Reads
    <3>2. \A n \in 1..Len(y.plan) : Locking(y.task, y.plan[n]) => y.plan = x.plan /\ n = 1
      BY <2>4 DEF PlanMoved
    <3>3. \A n \in 1..Len(y.plan) : Locking(y.task, y.plan[n]) =>
            DOMAIN own[t] = {} /\ ~y.grants /\ Len(y.plan) = 1
      BY <1>3, <2>2, <3>2
    <3> QED BY <2>6, <3>1, <3>3 DEF BranchOK
  <2>11. GrantsOK(t, y)'
    <3>1. CASE rows # {}
      BY <1>2, <1>4, <2>2, <2>3, <2>6, <3>1 DEF GrantsOK
    <3>2. CASE rows = {}
      <4>1. ~s.must /\ s.kind # "insert" /\ ~Redeeming(x, s)
        BY <2>2, <2>7, <3>2
      <4>2. SUFFICES ASSUME x.grants PROVE FALSE
        BY <2>2 DEF GrantsOK
      <4>3. \/ Consuming(x.task, s)
            \/ s = Rotation(t, x.task.row, x.seen)[1]
            \/ s = Insert(t, Replacement(x.seen))
            \/ x.task.op = "poll" /\ s = Update({x.task.row}, Redeemed, NoColumns)
        BY <1>1, <1>2, <1>4, <4>2 DEF GrantsOK
      <4>4. ~Consuming(x.task, s)
        BY <4>1 DEF Consuming
      <4>5. s # Rotation(t, x.task.row, x.seen)[1]
        BY <4>1 DEF Rotation, UpdateFound, Statement
      <4>6. s # Insert(t, Replacement(x.seen))
        BY <4>1 DEF Insert, Statement
      <4> QED BY <4>1, <4>2, <4>3, <4>4, <4>5, <4>6 DEF Redeeming
    <3> QED BY <3>1, <3>2
  <2>12. DecisionOK(t, y)'
    <3>1. SUFFICES ASSUME x.task.op = "decide", x.task.approve
                   PROVE  /\ y.phase \in {"next", "run"} => Consenting(y.task, y.plan[Len(y.plan)])
                          /\ y.phase # "commit"
      BY <2>2 DEF DecisionOK
    <3>2. Consenting(x.task, x.plan[Len(x.plan)])
      BY <1>2, <1>4, <3>1 DEF DecisionOK
    <3>3. ASSUME y.phase = "commit" PROVE FALSE
      <4>1. Consenting(x.task, s) /\ rows = {} /\ ~s.must
        BY <1>1, <2>2, <2>4, <3>2, <3>3 DEF PlanMoved
      <4> QED BY <2>7, <4>1 DEF Consenting, Insert, Statement
    <3> QED BY <2>2, <2>4, <3>2, <3>3 DEF PlanMoved
  <2>13. WithdrawalOK(t, y)'
    <3>1. SUFFICES ASSUME x.task.op = "deleteConsent"
                   PROVE  WithdrawalOK(t, y)'
      BY <2>2 DEF WithdrawalOK
    <3>2. /\ x.plan[Len(x.plan)] = DenyFor(x.task)
          /\ \A n \in 1..Len(x.plan) : Withdrawing(x.task, x.plan[n]) => n = 1 /\ Len(x.plan) # 1
      BY <1>2, <1>4, <3>1 DEF WithdrawalOK
    <3>3. \A n \in 1..Len(y.plan) : Withdrawing(y.task, y.plan[n]) => n = 1 /\ Len(y.plan) # 1
      <4>1. CASE y.plan = x.plan
        BY <2>2, <3>2, <4>1
      <4>2. CASE y.plan # x.plan
        <5>1. \A n \in 1..Len(y.plan) :
                n \in Int /\ n >= 1 /\ n + 1 \in 1..Len(x.plan) /\ y.plan[n] = x.plan[n + 1]
          BY <2>4, <4>2 DEF PlanMoved
        <5> QED BY <2>2, <3>2, <5>1
      <4> QED BY <4>1, <4>2
    <3>4. \/ y.phase \in {"next", "run"} /\ Withdrawing(y.task, y.plan[1])
          \/ Pair(y.task) \in DOMAIN own[t]
      <4>1. CASE rows # {}
        BY <1>3, <2>2, <3>1, <4>1
      <4>2. CASE rows = {}
        <5>1. ~Withdrawing(x.task, s)
          BY <2>2, <4>2 DEF Withdrawing, DeleteFrom, Statement
        <5> QED BY <1>1, <1>3, <2>2, <3>1, <5>1
      <4> QED BY <4>1, <4>2
    <3>5. ASSUME y.phase = "commit" \/ (y.phase = "run" /\ Len(y.plan) = 1), NEW d \in Devices
          PROVE  d \in y.todo \/ ~ApprovedFor(View(t)[d], Pair(y.task))
      <4>1. s = DenyFor(x.task)
        BY <1>1, <2>2, <2>4, <3>2, <3>5 DEF PlanMoved
      <4>2. s.kind = "update" /\ s.rows = Devices
        BY <4>1 DEF DenyFor, Update, Statement
      <4>3. s.where = [user |-> {x.task.user}, client |-> {x.task.client}, status |-> {"approved"}]
        BY <4>1 DEF DenyFor, Update, Statement
      <4>4. ApprovedFor(View(t)[d], Pair(x.task)) => Meets(s, View(t)[d])
        BY <4>3 DEF ApprovedFor, Pair, Meets
      <4>5. d \in Ids
        BY Tables
      <4>6. ApprovedFor(View(t)[d], Pair(x.task)) => d \in rows
        BY <1>1, <4>2, <4>4, <4>5, QualifiesMeets
      <4> QED BY <2>2, <4>6
    <3> QED BY <2>2, <2>4, <2>6, <3>1, <3>2, <3>3, <3>4, <3>5 DEF WithdrawalOK, PlanMoved
  <2>14. TxOK(t, y)'
    BY <2>4, <2>8, <2>9, <2>10, <2>11, <2>12, <2>13 DEF TxOK
  <2>15. \A u \in Txs \ {t} : DOMAIN own[t] \intersect DOMAIN own[u] = {}
    BY <1>4 DEF Disjoint
  <2> QED BY <1>1, <1>2, <1>9, <2>1, <2>5, <2>14, <2>15, LocalStep
<1> QED BY <1>12, <1>13

\* Where a statement may look: a revocation, a sweep or a row that was asked
\* for is in a table of its own.
LEMMA Where ==
    ASSUME load \in DOMAIN Workload, NEW t \in Txs, NEW x, x.task \in Workload[load].tasks,
           NEW s, StatementOK(t, x, s), NEW i \in s.rows
    PROVE  /\ i \in Consents => i = Pair(x.task) /\ (Consenting(x.task, s) \/ Withdrawing(x.task, s))
           /\ Consenting(x.task, s) \/ Withdrawing(x.task, s) => i = Pair(x.task) /\ i \in Consents
           /\ i = t /\ s.kind = "insert" => Replacing(t, x, s)
           /\ Replacing(t, x, s) => i = t
<1>1. /\ x.task.op = "consume" => x.task.row \in Codes
      /\ x.task.op \in {"rotate", "revokeRefresh"} => x.task.row \in Refreshes
      /\ x.task.op = "revokeAccess" => x.task.row \in AccessTokens
      /\ x.task.op \in {"decide", "poll"} => x.task.row \in Devices
      /\ x.task.op \in {"decide", "grant", "deleteConsent"} => Pair(x.task) \in Consents
  BY TaskParts DEF WellAsked
<1>2. CASE Consenting(x.task, s) \/ Withdrawing(x.task, s)
  <2>1. i = Pair(x.task) /\ i \in Consents
    BY <1>1, <1>2 DEF Consenting, Withdrawing, Insert, DeleteFrom, Statement
  <2>2. i # t
    BY <2>1, Tables
  <2>3. ~Replacing(t, x, s)
    BY <1>2 DEF Consenting, Withdrawing, Replacing, Insert, DeleteFrom, Statement
  <2> QED BY <1>2, <2>1, <2>2, <2>3
<1>3. CASE Replacing(t, x, s)
  <2>1. i = t
    BY <1>3 DEF Replacing, Insert, Statement
  <2>2. i \notin Consents
    BY <2>1, Tables
  <2>3. ~Consenting(x.task, s) /\ ~Withdrawing(x.task, s)
    BY <1>3 DEF Consenting, Withdrawing, Replacing
  <2> QED BY <1>3, <2>1, <2>2, <2>3
<1>4. CASE ~Consenting(x.task, s) /\ ~Withdrawing(x.task, s) /\ ~Replacing(t, x, s)
  <2>1. s.kind # "insert"
    BY <1>4, StatementRows
  <2>2. CASE Revoking(s) \/ Sweeping(s)
    <3>1. i \in Codes \union AccessTokens \union Refreshes \union Devices
      BY <2>2 DEF Revoking, Sweeping
    <3> QED BY <1>4, <2>1, <3>1, Tables
  <2>3. CASE Redeeming(x, s)
    <3>1. i \in Devices
      BY <1>1, <2>3 DEF Redeeming, Update, Statement
    <3> QED BY <1>4, <2>1, <3>1, Tables
  <2>4. CASE RevokesOne(x.task, s) \/ Consuming(x.task, s) \/ Deciding(x.task, s) \/ Locking(x.task, s)
    <3>1. i \in Codes \union AccessTokens \union Refreshes \union Devices
      BY <1>1, <2>4 DEF RevokesOne, Consuming, Deciding, Locking
    <3> QED BY <1>4, <2>1, <3>1, Tables
  <2> QED BY <1>4, <2>2, <2>3, <2>4 DEF StatementOK
<1> QED BY <1>2, <1>3, <1>4

\* A rotation whose replacement is due, and a poll that redeems, have locked the
\* row of the request.
LEMMA GrantingStatement ==
    ASSUME Inv, NEW t \in Txs, NEW x, x = tx[t], x.phase \in {"next", "run"}
    PROVE  /\ Replacing(t, x, x.plan[1]) =>
                x.plan = <<x.plan[1]>> /\ x.seen \in Row /\ x.grants
           /\ Redeeming(x, x.plan[1]) =>
                /\ x.task.row \in Devices /\ View(t)[x.task.row] = db[x.task.row]
                /\ db[x.task.row] \in Row /\ db[x.task.row].status = "approved"
<1>1. GrantsOK(t, x) /\ RowsOK /\ HeldOK(t, x)
  BY InvParts
<1>2. x.task \in Workload[load].tasks /\ load \in DOMAIN Workload /\ db \in [Ids -> Value]
  BY Running
<1>3. /\ x.task.op = "rotate" => x.task.row \in Refreshes
      /\ x.task.op = "poll" => x.task.row \in Devices
  BY <1>2, TaskParts DEF WellAsked
<1>4. ASSUME Replacing(t, x, x.plan[1])
      PROVE  x.plan = <<x.plan[1]>> /\ x.seen \in Row /\ x.grants
  <2>1. x.grants /\ x.task.op = "rotate" /\ x.plan[1].kind = "insert"
    BY <1>4 DEF Replacing, Insert, Statement
  <2>2. x.plan # Rotation(t, x.task.row, x.seen)
    BY <2>1 DEF Rotation, UpdateFound, Statement
  <2>3. x.plan = <<Insert(t, Replacement(x.seen))>> /\ x.seen = db[x.task.row]
        /\ Live(x.task.row, db[x.task.row])
    BY <1>1, <2>1, <2>2 DEF GrantsOK
  <2>4. x.task.row \in Ids
    BY <1>3, <2>1, Tables
  <2>5. x.seen \in Row
    BY <1>2, <2>3, <2>4 DEF Live, Value
  <2> QED BY <2>1, <2>3, <2>5
<1>5. ASSUME Redeeming(x, x.plan[1])
      PROVE  /\ x.task.row \in Devices /\ View(t)[x.task.row] = db[x.task.row]
             /\ db[x.task.row] \in Row /\ db[x.task.row].status = "approved"
  <2>1. x.grants /\ x.task.op = "poll"
    BY <1>5 DEF Redeeming
  <2>2. /\ Live(x.task.row, db[x.task.row]) /\ own[t][x.task.row] = db[x.task.row]
        /\ x.task.row \in DOMAIN own[t]
    BY <1>1, <2>1 DEF GrantsOK
  <2>3. x.task.row \in Devices /\ x.task.row \in Ids
    BY <1>3, <2>1, Tables
  <2> QED BY <1>2, <2>2, <2>3 DEF Live, Value, View
<1> QED BY <1>4, <1>5

\* What a statement makes of a row that it takes.
LEMMA Takes ==
    ASSUME Inv, NEW t \in Txs, NEW x, x = tx[t], x.phase = "run", NEW s, s = x.plan[1],
           NEW i \in Ids, i \in x.todo, NEW here, here = View(t)[i],
           s.kind = "insert" \/ Qualifies(t, s, i)
    PROVE  /\ After(s, here) \in Value
           /\ i \notin Consents /\ i # t =>
                /\ here \in Row /\ db[i] \in Row /\ s.kind # "insert"
                /\ Later(i, here, After(s, here)) /\ Later(i, db[i], After(s, here))
           /\ i \in Devices =>
                /\ DeviceOK(i, After(s, here))
                /\ After(s, here) # None /\ After(s, here).status = "approved" =>
                     \/ db[i].status = "approved"
                     \/ /\ x.task.op = "decide" /\ x.task.approve
                        /\ After(s, here).user = x.task.user
                        /\ After(s, here).client = x.task.client
           /\ i \in Consents =>
                /\ i = Pair(x.task) /\ x.task.op \in {"decide", "grant", "deleteConsent"}
                /\ After(s, here) = None <=> x.task.op = "deleteConsent"
           /\ i = t => Replacing(t, x, s) /\ After(s, here) = Replacement(x.seen)
<1>1. /\ RowsOK /\ ShapeOK(t, x) /\ HeldOK(t, x)
  BY InvParts
<1>2. /\ StatementOK(t, x, s) /\ x.task \in Workload[load].tasks /\ load \in DOMAIN Workload
      /\ View(t)[t] = None
  BY Running
<1>3. i \in s.rows
  BY <1>1 DEF ShapeOK
<1>4. CASE i \in Consents
  <2>1. i = Pair(x.task) /\ i # t /\ i \notin Devices
    BY <1>2, <1>3, <1>4, Where, Tables
  <2>2. CASE Consenting(x.task, s)
    <3>1. After(s, here) = GrantOf(x.task.user, x.task.client) /\ x.task.op \in {"decide", "grant"}
      BY <2>2 DEF After, Consenting, Insert, Statement
    <3>2. x.task.user \in Users /\ x.task.client \in Clients
      BY <1>2, <3>1, TaskParts DEF WellAsked
    <3>3. After(s, here) \in Row
      BY <3>1, <3>2, GrantRow
    <3> QED BY <1>4, <2>1, <3>1, <3>3, NoneIsNoRow DEF Value
  <2>3. CASE Withdrawing(x.task, s)
    <3>1. After(s, here) = None /\ x.task.op = "deleteConsent"
      BY <2>3 DEF After, Withdrawing, DeleteFrom, Statement
    <3> QED BY <1>4, <2>1, <3>1 DEF Value
  <2> QED BY <1>2, <1>3, <1>4, <2>2, <2>3, Where
<1>5. CASE i = t
  <2>1. s.kind = "insert"
    BY <1>2, <1>5, QualifiesMeets
  <2>2. Replacing(t, x, s)
    BY <1>2, <1>3, <1>5, <2>1, Where
  <2>3. After(s, here) = Replacement(x.seen) /\ x.seen \in Row
    <3>1. s.kind = "insert" /\ s.set = Replacement(x.seen)
      BY <2>2 DEF Replacing, Insert, Statement
    <3>2. x.seen \in Row
      BY <2>2, GrantingStatement
    <3> QED BY <3>1, <3>2 DEF After
  <2>4. i \notin Devices /\ i \notin Consents
    BY <1>5, Tables
  <2> QED BY <1>5, <2>2, <2>3, <2>4, ReplacementRow DEF Value
<1>6. CASE i \notin Consents /\ i # t
  <2>1. s.kind # "insert"
    <3>1. SUFFICES ASSUME s.kind = "insert" PROVE FALSE
      OBVIOUS
    <3>2. Consenting(x.task, s) \/ Replacing(t, x, s)
      BY <1>2, <3>1, StatementRows
    <3> QED BY <1>2, <1>3, <1>6, <3>2, Where
  <2>2. here \in Row /\ here # None
    BY <1>1, <2>1, QualifiesMeets, ViewRow DEF Value
  <2>3. db[i] \in Row /\ Later(i, db[i], here) /\ (i \in Devices => DeviceOK(i, here))
    BY <1>1, <1>6, <2>2, ViewRow
  <2>4. Meets(s, here) \/ s.kind = "sweep"
    BY <2>1, QualifiesMeets
  <2>5. Redeeming(x, s) => here.status = "approved"
    <3>1. Redeeming(x, s) => i = x.task.row
      BY <1>3 DEF Redeeming, Update, Statement
    <3> QED BY <3>1, GrantingStatement
  <2>6. /\ After(s, here) \in Value /\ Later(i, here, After(s, here))
        /\ i \in Devices => DeviceOK(i, After(s, here))
        /\ i \in Devices /\ After(s, here) # None /\ After(s, here).status = "approved" =>
             \/ here.status = "approved" /\ After(s, here) = here
             \/ /\ x.task.op = "decide" /\ x.task.approve
                /\ After(s, here).user = x.task.user /\ After(s, here).client = x.task.client
    BY <1>2, <1>3, <1>6, <2>2, <2>3, <2>4, <2>5, Writes
  <2>7. Later(i, db[i], After(s, here))
    BY <2>2, <2>3, <2>6, LaterTwice DEF Value
  <2>8. ASSUME i \in Devices, here.status = "approved", After(s, here) = here
        PROVE  \/ db[i].status = "approved"
               \/ /\ x.task.op = "decide" /\ x.task.approve
                  /\ here.user = x.task.user /\ here.client = x.task.client
    <3>1. CASE i \in DOMAIN own[t]
      BY <1>1, <2>2, <2>8, <3>1 DEF HeldOK, View
    <3>2. CASE i \notin DOMAIN own[t]
      BY <2>8, <3>2 DEF View
    <3> QED BY <3>1, <3>2
  <2> QED BY <1>6, <2>1, <2>2, <2>3, <2>6, <2>7, <2>8
<1> QED BY <1>4, <1>5, <1>6

LEMMA LockRowStep ==
    ASSUME Inv, NEW t \in Txs, NEW i \in Ids, LockRow(t, i)
    PROVE  Inv'
<1>1. PICK x, s, here, ok, after :
        /\ x = tx[t] /\ s = x.plan[1] /\ here = View(t)[i] /\ after = After(s, here)
        /\ ok \in BOOLEAN
        /\ ok <=> (s.kind = "insert" \/ Qualifies(t, s, i))
  OBVIOUS
<1>2. x.phase = "run" /\ i \in x.todo
  BY <1>1 DEF LockRow
<1>3. /\ x.plan # <<>> /\ StatementOK(t, x, s) /\ x.task \in Workload[load].tasks
      /\ \A n \in 1..Len(x.plan) : Locking(x.task, x.plan[n]) =>
           Len(x.plan) = 1 /\ DOMAIN own[t] = {} /\ ~x.grants
      /\ t \notin DOMAIN own[t] /\ View(t)[t] = None
      /\ load \in DOMAIN Workload /\ db \in [Ids -> Value]
      /\ x.task.op = "deleteConsent" =>
           Withdrawing(x.task, x.plan[1]) \/ Pair(x.task) \in DOMAIN own[t]
  BY <1>1, <1>2, Running
<1>4. /\ RowsOK /\ ShapeOK(t, x) /\ HeldOK(t, x) /\ TargetsOK(t, x) /\ BranchOK(t, x)
      /\ GrantsOK(t, x) /\ DecisionOK(t, x) /\ WithdrawalOK(t, x)
      /\ DOMAIN own = Txs /\ Disjoint
  BY <1>1, InvParts
<1>5. PICK S : x \in TxRecord(S)
  BY <1>1, InvParts
<1>6. /\ x.plan \in Seq(S) /\ Head(x.plan) = s /\ x.todo \subseteq s.rows /\ (s.must => ~x.hit)
      /\ x.hit \in BOOLEAN /\ x.todo \subseteq Ids /\ x.seen \in Value
  BY <1>1, <1>2, <1>3, <1>4, <1>5, PlanParts DEF TxRecord, ShapeOK
<1>7. here \in Value /\ s.kind # "read"
  BY <1>1, <1>3, <1>4, ViewRow, StatementKinds
<1>8. PICK z, rows :
        /\ z = [x EXCEPT !.todo = x.todo \ {i}, !.hit = (x.hit \/ ok),
                         !.seen = IF s.kind \in Reads THEN here ELSE x.seen]
        /\ rows = IF ok THEN [j \in DOMAIN own[t] \union {i} |->
                                IF j = i THEN after ELSE own[t][j]]
                        ELSE own[t]
  OBVIOUS
<1>9. /\ SetTx(t, Advance(z), rows) /\ UNCHANGED <<db, timeVars, historyVars>>
      /\ \A u \in Txs \ {t} : i \notin DOMAIN own[u]
  BY <1>1, <1>6, <1>7, <1>8 DEF LockRow, After
<1>10. z \in TxRecord(S)
  <2>1. (IF s.kind \in Reads THEN here ELSE x.seen) \in Value /\ (x.hit \/ ok) \in BOOLEAN
    BY <1>1, <1>6, <1>7
  <2>2. x.todo \ {i} \in SUBSET Ids
    BY <1>6
  <2> QED BY <1>5, <1>8, <2>1, <2>2 DEF TxRecord
<1>11. /\ z.phase = "run" /\ z.todo = x.todo \ {i} /\ z.targets = x.targets /\ z.task = x.task
       /\ z.plan = x.plan /\ z.hit = (x.hit \/ ok) /\ z.grants = x.grants
       /\ z.seen = IF s.kind \in Reads THEN here ELSE x.seen
  BY <1>2, <1>5, <1>8 DEF TxRecord
<1>12. CASE Advance(z) = Ended
  BY <1>1, <1>2, <1>9, <1>12, EndStep
<1>13. CASE Advance(z) # Ended
  <2>1. PICK y : y = Advance(z) /\ y \in TxRecord(S) /\ Onward(z, y)
    BY <1>3, <1>10, <1>11, <1>13, AdvanceCases
  <2>2. /\ y.task = x.task /\ y.targets = x.targets /\ y.todo = x.todo \ {i}
        /\ y.grants = x.grants /\ y.seen = IF s.kind \in Reads THEN here ELSE x.seen
        /\ \/ y.todo # {} /\ y.plan = x.plan /\ y.hit = (x.hit \/ ok) /\ y.phase = "run"
           \/ /\ y.todo = {} /\ (x.hit \/ ok \/ ~s.must)
              /\ y.plan = Tail(x.plan) /\ y.hit = FALSE
              /\ y.phase = IF s.kind \in Reads THEN "branch"
                           ELSE IF Len(x.plan) = 1 THEN "commit" ELSE "next"
    BY <1>1, <1>11, <2>1 DEF Onward
  <2>3. load' = load /\ db' = db /\ unsaved' = unsaved
    BY <1>9 DEF timeVars
  <2>4. /\ s.must \/ s.kind = "insert" \/ Redeeming(x, s) => y.todo = {} /\ ok
        /\ s.kind = "lock" => Locking(x.task, s)
    <3>1. /\ s.must \/ s.kind = "insert" \/ Redeeming(x, s) => \A j, k \in s.rows : j = k
          /\ s.kind = "lock" => Locking(x.task, s)
      BY <1>3, StatementRows
    <3>2. s.must \/ s.kind = "insert" \/ Redeeming(x, s) => y.todo = {}
      BY <1>2, <1>6, <2>2, <3>1
    <3>3. s.must => ok
      BY <1>6, <2>2, <3>2
    <3>4. Redeeming(x, s) => ok
      <4>1. SUFFICES ASSUME Redeeming(x, s) PROVE ok
        OBVIOUS
      <4>2. s.kind = "update" /\ s.where = NoColumns /\ i = x.task.row
        BY <1>2, <1>6, <4>1 DEF Redeeming, Update, Statement
      <4>3. View(t)[i] # None
        BY <1>1, <1>2, <4>1, <4>2, GrantingStatement, NoneIsNoRow
      <4> QED BY <1>1, <4>2, <4>3 DEF Qualifies, NoColumns
    <3> QED BY <1>1, <3>1, <3>2, <3>3, <3>4
  <2>5. ShapeOK(t, y)' /\ PlanMoved(x, y)
    <3>1. y.todo \subseteq s.rows /\ (y.seen = x.seen \/ s.kind = "lock")
      BY <1>6, <1>7, <2>2 DEF Reads
    <3>2. \/ /\ y.todo # {} /\ y.plan = x.plan /\ y.phase = "run" /\ y.seen = x.seen
             /\ s.must => ~y.hit
          \/ /\ y.todo = {} /\ y.plan = Tail(x.plan) /\ ~y.hit
             /\ y.phase = IF s.kind \in Reads THEN "branch"
                          ELSE IF Len(x.plan) = 1 THEN "commit" ELSE "next"
      <4>1. s.kind = "lock" => s.must
        BY <2>4 DEF Locking
      <4> QED BY <2>2, <2>4, <3>1, <4>1
    <3>3. Moved(x, y)
      BY <1>1, <2>2, <3>1, <3>2 DEF Moved
    <3> QED BY <1>1, <1>2, <2>3, <3>3, OnwardPlan
  <2>6. /\ tx' = [tx EXCEPT ![t] = y] /\ own' = [own EXCEPT ![t] = rows]
    BY <1>9, <2>1, <2>5 DEF SetTx, PlanMoved
  <2>7. own'[t] = rows
    BY <1>4, <2>6
  <2>8. /\ ok => /\ DOMAIN rows = DOMAIN own[t] \union {i} /\ rows[i] = after
                 /\ \A j \in DOMAIN own[t] : j # i => rows[j] = own[t][j]
        /\ ~ok => rows = own[t]
    BY <1>8
  <2>9. /\ \A j \in Ids : j # i => View(t)'[j] = View(t)[j]
        /\ View(t)'[i] = IF ok THEN after ELSE here
    BY <1>1, <2>3, <2>7, <2>8 DEF View
  <2>10. ok => /\ after \in Value
               /\ i \notin Consents /\ i # t =>
                    /\ here \in Row /\ db[i] \in Row /\ s.kind # "insert"
                    /\ Later(i, here, after) /\ Later(i, db[i], after)
               /\ i \in Devices =>
                    /\ DeviceOK(i, after)
                    /\ after # None /\ after.status = "approved" =>
                         \/ db[i].status = "approved"
                         \/ /\ x.task.op = "decide" /\ x.task.approve
                            /\ after.user = x.task.user /\ after.client = x.task.client
               /\ i \in Consents =>
                    /\ i = Pair(x.task) /\ x.task.op \in {"decide", "grant", "deleteConsent"}
                    /\ after = None <=> x.task.op = "deleteConsent"
               /\ i = t => Replacing(t, x, s) /\ after = Replacement(x.seen)
    BY <1>1, <1>2, Takes
  <2>11. HeldOK(t, y)'
    <3>1. DOMAIN rows \subseteq Ids
      BY <1>4, <2>8 DEF HeldOK
    <3>2. ASSUME NEW j \in DOMAIN rows
          PROVE  /\ rows[j] \in Value
                 /\ j \notin Consents /\ j # t => db[j] # None /\ Later(j, db[j], rows[j])
                 /\ j \in Devices => DeviceOK(j, rows[j])
                 /\ j \in Devices /\ rows[j] # None /\ rows[j].status = "approved" =>
                      \/ db[j].status = "approved"
                      \/ /\ x.task.op = "decide" /\ x.task.approve
                         /\ rows[j].user = x.task.user /\ rows[j].client = x.task.client
                 /\ j \in Consents =>
                      /\ j = Pair(x.task) /\ x.task.op \in {"decide", "grant", "deleteConsent"}
                      /\ rows[j] = None <=> x.task.op = "deleteConsent"
      <4>1. CASE j = i /\ ok
        BY <2>8, <2>10, <4>1, NoneIsNoRow
      <4>2. CASE j # i \/ ~ok
        <5>1. j \in DOMAIN own[t] /\ rows[j] = own[t][j]
          BY <2>8, <3>2, <4>2
        <5> QED BY <1>4, <5>1 DEF HeldOK
      <4> QED BY <4>1, <4>2
    <3>3. ASSUME t \in DOMAIN rows
          PROVE  /\ x.task.op = "rotate" /\ x.grants /\ y.plan = <<>>
                 /\ rows[t] = Replacement(y.seen)
      <4>1. i = t /\ ok
        BY <1>3, <2>8, <3>3
      <4>2. Replacing(t, x, s) /\ after = Replacement(x.seen)
        BY <2>10, <4>1
      <4>3. s.kind = "insert" /\ x.task.op = "rotate" /\ x.grants
        BY <4>2 DEF Replacing, Insert, Statement
      <4>4. y.todo = {} /\ y.seen = x.seen
        BY <2>2, <2>4, <4>3 DEF Reads
      <4>5. x.plan = <<s>>
        BY <1>1, <1>2, <4>2, GrantingStatement
      <4>6. y.plan = <<>>
        BY <2>2, <4>4, <4>5, TailTwo
      <4> QED BY <2>8, <4>1, <4>2, <4>3, <4>4, <4>6
    <3>4. \A d, row : DeviceOK(d, row)' <=> DeviceOK(d, row)
      BY <2>3 DEF DeviceOK
    <3> QED BY <2>2, <2>3, <2>7, <3>1, <3>2, <3>3, <3>4 DEF HeldOK
  <2>12. TargetsOK(t, y)'
    <3>1. SUFFICES ASSUME NEW j \in x.targets
                   PROVE  /\ j \notin Consents /\ Stored(j)'
                          /\ \/ Dead(j, View(t)'[j])
                             \/ /\ j \in y.todo /\ Meets(y.plan[1], View(t)'[j])
                                /\ Revoking(y.plan[1]) \/ RevokesOne(y.task, y.plan[1])
      BY <2>2 DEF TargetsOK
    <3>2. /\ j \notin Consents /\ Stored(j)
          /\ \/ Dead(j, View(t)[j])
             \/ /\ j \in x.todo /\ Meets(s, View(t)[j])
                /\ Revoking(s) \/ RevokesOne(x.task, s)
      BY <1>1, <1>4 DEF TargetsOK
    <3>3. Stored(j)' /\ j # t /\ j \in Ids
      BY <1>1, <1>2, <1>5, <2>3, <2>6, <3>2 DEF Stored, TxRecord
    <3>4. CASE j # i
      <4>1. View(t)'[j] = View(t)[j]
        BY <2>9, <3>3, <3>4
      <4>2. CASE Dead(j, View(t)[j])
        BY <3>2, <3>3, <4>1, <4>2
      <4>3. CASE j \in x.todo
        <5>1. y.todo # {} /\ j \in y.todo /\ y.plan = x.plan
          BY <2>2, <3>4, <4>3
        <5> QED BY <1>1, <2>2, <3>2, <3>3, <4>1, <5>1
      <4> QED BY <3>2, <4>2, <4>3
    <3>5. CASE j = i
      <4>1. CASE Dead(i, here)
        <5>1. ok => Dead(i, after)
          BY <2>10, <3>2, <3>3, <3>5, <4>1, LaterSettled DEF Value
        <5> QED BY <2>9, <3>2, <3>3, <3>5, <4>1, <5>1
      <4>2. CASE Meets(s, here) /\ (Revoking(s) \/ RevokesOne(x.task, s))
        <5>1. s.kind = "update"
          BY <4>2 DEF Revoking, RevokesOne
        <5>2. ok
          BY <1>1, <4>2, <5>1, QualifiesMeets
        <5>3. i \in s.rows /\ here \in Row
          BY <1>2, <1>6, <2>10, <3>2, <3>3, <3>5, <5>2
        <5>4. RevokesOne(x.task, s) => i \in AccessTokens
          BY <1>3, <5>3, TaskParts DEF RevokesOne, WellAsked
        <5>5. Dead(i, after)
          BY <1>1, <4>2, <5>3, <5>4, RevokingWrites
        <5> QED BY <2>9, <3>2, <3>3, <3>5, <5>2, <5>5
      <4> QED BY <1>1, <3>2, <3>5, <4>1, <4>2
    <3> QED BY <3>4, <3>5
  <2>13. BranchOK(t, y)'
    <3>1. ASSUME y.phase = "branch"
          PROVE  /\ x.task.op \in {"rotate", "revokeRefresh", "poll"} /\ ~y.grants
                 /\ DOMAIN rows = {x.task.row} /\ db[x.task.row] # None
                 /\ rows[x.task.row] = db[x.task.row] /\ y.seen = db[x.task.row]
      <4>1. s.kind = "lock" /\ Locking(x.task, s) /\ Len(x.plan) = 1
        BY <1>1, <2>5, <3>1 DEF PlanMoved
      <4>2. DOMAIN own[t] = {} /\ ~x.grants
        BY <1>1, <1>3, <4>1
      <4>3. /\ i = x.task.row /\ s.must /\ s.set = NoColumns
            /\ x.task.op \in {"rotate", "revokeRefresh", "poll"}
        BY <1>2, <1>6, <4>1 DEF Locking
      <4>4. here = db[i] /\ ok
        BY <1>1, <2>4, <4>2, <4>3 DEF View
      <4>5. here # None /\ here \in Row
        BY <1>1, <1>7, <4>1, <4>4, QualifiesMeets DEF Value
      <4>6. after = here
        BY <1>1, <4>1, <4>3, <4>5, WrittenNothing DEF After
      <4>7. y.seen = here /\ y.grants = x.grants
        BY <2>2, <4>1 DEF Reads
      <4> QED BY <2>8, <4>2, <4>3, <4>4, <4>5, <4>6, <4>7
    <3>2. \A n \in 1..Len(y.plan) : ~Locking(y.task, y.plan[n])
      <4>1. SUFFICES ASSUME NEW n \in 1..Len(y.plan), Locking(y.task, y.plan[n]) PROVE FALSE
        OBVIOUS
      <4>2. y.plan = x.plan /\ n = 1
        BY <2>5, <4>1 DEF PlanMoved
      <4>3. s.must
        BY <1>1, <2>2, <4>1, <4>2 DEF Locking
      <4>4. y.plan = Tail(x.plan)
        BY <2>2, <2>4, <4>3
      <4>5. Len(x.plan) \in Nat /\ Len(Tail(x.plan)) = Len(x.plan) - 1
        BY <1>3, <1>6, PlanParts
      <4>6. Len(Tail(x.plan)) = Len(x.plan)
        BY <4>2, <4>4
      <4> QED BY <4>5, <4>6
    <3> QED BY <2>2, <2>3, <2>7, <3>1, <3>2 DEF BranchOK
  <2>14. GrantsOK(t, y)'
    <3>1. SUFFICES ASSUME x.grants PROVE GrantsOK(t, y)'
      BY <2>2 DEF GrantsOK
    <3>2. PICK r : r = x.task.row
      OBVIOUS
    <3>3. /\ x.task.op = "consume" => r \in Codes
          /\ x.task.op = "rotate" => r \in Refreshes
          /\ x.task.op = "poll" => r \in Devices
      BY <1>3, <3>2, TaskParts DEF WellAsked
    <3>4. CASE /\ x.task.op = "consume" /\ Len(x.plan) = 1 /\ Consuming(x.task, s)
               /\ s.where = [client |-> {x.task.client}, consumed |-> {FALSE},
                             revoked |-> {FALSE}]
      <4>1. i = r /\ s.must /\ s.set = Consumed /\ s.kind = "update"
        BY <1>2, <1>6, <3>2, <3>4 DEF Consuming
      <4>2. ok /\ y.todo = {} /\ y.phase = "commit"
        BY <2>2, <2>4, <3>4, <4>1 DEF Reads
      <4>3. i \notin Devices /\ i \notin Consents /\ i # t
        BY <3>3, <3>4, <4>1, Tables
      <4>4. here \in Row /\ db[i] \in Row /\ Later(i, db[i], here)
        BY <1>1, <1>4, <2>10, <4>2, <4>3, ViewRow, NoneIsNoRow
      <4>5. Meets(s, here)
        BY <1>1, <4>1, <4>2, QualifiesMeets
      <4>6. ~here.consumed /\ ~here.revoked
        <5>1. {"consumed", "revoked"} \subseteq DOMAIN s.where
          BY <3>4
        <5>2. s.where["consumed"] = {FALSE} /\ s.where["revoked"] = {FALSE}
          BY <3>4
        <5>3. here["consumed"] \in {FALSE} /\ here["revoked"] \in {FALSE}
          BY <4>5, <5>1, <5>2 DEF Meets
        <5> QED BY <5>3
      <4>7. Unspent(db[i])
        BY <4>4, <4>6, LaterSettled, NoneIsNoRow DEF Unspent, Value
      <4>8. Live(i, db[i])
        BY <4>3, <4>7 DEF Unspent, Live
      <4>9. after = Written(here, Consumed)
        BY <1>1, <4>1 DEF After
      <4>10. Spent(i, after)
        BY <4>3, <4>4, <4>9, WrittenConsumed DEF Spent
      <4>11. i \in DOMAIN rows /\ rows[i] = after
        BY <2>8, <4>2
      <4> QED BY <2>2, <2>3, <2>7, <3>2, <3>4, <4>1, <4>2, <4>8, <4>10, <4>11 DEF GrantsOK
    <3>5. CASE /\ x.task.op = "rotate" /\ x.seen = db[r] /\ x.plan = Rotation(t, r, x.seen)
               /\ r \in DOMAIN own[t] /\ Live(r, db[r]) /\ own[t][r] # None
      <4>1. PICK b : b = Insert(t, Replacement(x.seen))
        OBVIOUS
      <4>2. x.plan = <<s, b>> /\ s = UpdateFound({r}, Consumed, NoColumns)
        BY <1>1, <3>5, <4>1 DEF Rotation, Consumed
      <4>3. i = r /\ s.must /\ s.set = Consumed /\ s.kind = "update"
        BY <1>2, <1>6, <4>2 DEF UpdateFound, Statement
      <4>4. ok /\ y.todo = {} /\ y.plan = <<b>> /\ y.phase = "next" /\ y.seen = x.seen
        <5>1. Tail(x.plan) = <<b>> /\ Len(x.plan) = 2
          BY <4>2, TailTwo
        <5>2. ok /\ y.todo = {}
          BY <2>4, <4>3
        <5>3. s.kind \notin Reads /\ Len(x.plan) # 1
          BY <4>3, <5>1 DEF Reads
        <5>4. y.phase = "next" /\ y.plan = Tail(x.plan) /\ y.seen = x.seen
          BY <2>2, <5>2, <5>3
        <5> QED BY <5>1, <5>2, <5>4
      <4>5. i \notin Devices /\ here \in Row
        BY <1>1, <1>7, <3>3, <3>5, <4>3, Tables DEF View, Value
      <4>6. after = Written(here, Consumed)
        BY <1>1, <4>3 DEF After
      <4>7. Spent(i, after)
        BY <4>5, <4>6, WrittenConsumed DEF Spent
      <4>8. i \in DOMAIN rows /\ rows[i] = after
        BY <2>8, <4>4
      <4> QED BY <2>2, <2>3, <2>7, <3>2, <3>5, <4>1, <4>3, <4>4, <4>7, <4>8 DEF GrantsOK
    <3>6. CASE /\ x.task.op = "rotate" /\ x.seen = db[r]
               /\ x.plan = <<Insert(t, Replacement(x.seen))>>
               /\ r \in DOMAIN own[t] /\ Live(r, db[r]) /\ Spent(r, own[t][r])
      <4>1. s = Insert(t, Replacement(x.seen)) /\ Len(x.plan) = 1
        BY <1>1, <3>6
      <4>2. i = t /\ s.kind = "insert"
        BY <1>2, <1>6, <4>1 DEF Insert, Statement
      <4>3. y.todo = {} /\ y.phase = "commit" /\ y.seen = x.seen
        BY <2>2, <2>4, <4>1, <4>2 DEF Reads
      <4>4. r \in DOMAIN rows /\ rows[r] = own[t][r]
        BY <1>3, <2>8, <3>6, <4>2
      <4> QED BY <2>2, <2>3, <2>7, <3>2, <3>6, <4>3, <4>4 DEF GrantsOK
    <3>7. CASE /\ x.task.op = "poll" /\ x.plan = <<Update({r}, Redeemed, NoColumns)>>
               /\ r \in DOMAIN own[t] /\ Live(r, db[r]) /\ own[t][r] = db[r]
      <4>1. s = Update({r}, Redeemed, NoColumns) /\ Len(x.plan) = 1
        BY <1>1, <3>7
      <4>2. Redeeming(x, s)
        BY <3>1, <3>2, <3>7, <4>1 DEF Redeeming
      <4>3. i = r /\ s.kind = "update" /\ s.set = Redeemed
        BY <1>2, <1>6, <4>1 DEF Update, Statement
      <4>4. ok /\ y.todo = {} /\ y.phase = "commit"
        BY <2>2, <2>4, <4>1, <4>2, <4>3 DEF Reads
      <4>5. here \in Row /\ i \in Devices
        BY <1>1, <1>2, <3>2, <4>2, <4>3, GrantingStatement
      <4>6. after = Written(here, Redeemed)
        BY <1>1, <4>3 DEF After
      <4>7. Spent(i, after)
        BY <4>5, <4>6, WrittenStatus DEF Spent, Redeemed
      <4>8. i \in DOMAIN rows /\ rows[i] = after
        BY <2>8, <4>4
      <4> QED BY <2>2, <2>3, <2>7, <3>2, <3>7, <4>3, <4>4, <4>7, <4>8 DEF GrantsOK
    <3> QED BY <1>1, <1>2, <1>4, <3>1, <3>2, <3>4, <3>5, <3>6, <3>7 DEF GrantsOK
  <2>15. DecisionOK(t, y)'
    <3>1. SUFFICES ASSUME x.task.op = "decide", x.task.approve
                   PROVE  /\ y.phase \in {"next", "run"} => Consenting(y.task, y.plan[Len(y.plan)])
                          /\ y.phase = "commit" => Pair(y.task) \in DOMAIN rows
      BY <2>2, <2>7 DEF DecisionOK
    <3>2. Consenting(x.task, x.plan[Len(x.plan)])
      BY <1>2, <1>4, <3>1 DEF DecisionOK
    <3>3. ASSUME y.phase = "commit" PROVE Pair(x.task) \in DOMAIN rows
      <4>1. Consenting(x.task, s)
        BY <1>1, <2>5, <3>2, <3>3 DEF PlanMoved
      <4>2. s.kind = "insert" /\ i = Pair(x.task)
        BY <1>2, <1>6, <4>1 DEF Consenting, Insert, Statement
      <4> QED BY <2>4, <2>8, <4>2
    <3> QED BY <2>2, <2>5, <3>2, <3>3 DEF PlanMoved
  <2>16. WithdrawalOK(t, y)'
    <3>1. SUFFICES ASSUME x.task.op = "deleteConsent"
                   PROVE  WithdrawalOK(t, y)'
      BY <2>2 DEF WithdrawalOK
    <3>2. /\ x.plan[Len(x.plan)] = DenyFor(x.task)
          /\ \A n \in 1..Len(x.plan) : Withdrawing(x.task, x.plan[n]) => n = 1 /\ Len(x.plan) # 1
      BY <1>2, <1>4, <3>1 DEF WithdrawalOK
    <3>3. \A n \in 1..Len(y.plan) : Withdrawing(y.task, y.plan[n]) => n = 1 /\ Len(y.plan) # 1
      <4>1. CASE y.plan = x.plan
        BY <2>2, <3>2, <4>1
      <4>2. CASE y.plan # x.plan
        <5>1. \A n \in 1..Len(y.plan) :
                n \in Int /\ n >= 1 /\ n + 1 \in 1..Len(x.plan) /\ y.plan[n] = x.plan[n + 1]
          BY <2>5, <4>2 DEF PlanMoved
        <5> QED BY <2>2, <3>2, <5>1
      <4> QED BY <4>1, <4>2
    <3>4. Pair(y.task) \in DOMAIN rows
      <4>1. CASE Withdrawing(x.task, s)
        <5>1. s.must /\ i = Pair(x.task)
          BY <1>2, <1>6, <4>1 DEF Withdrawing, DeleteFrom, Statement
        <5> QED BY <2>2, <2>4, <2>8, <5>1
      <4>2. CASE Pair(x.task) \in DOMAIN own[t]
        BY <2>2, <2>8, <4>2
      <4> QED BY <1>1, <1>3, <3>1, <4>1, <4>2
    <3>5. ASSUME y.phase = "commit" \/ (y.phase = "run" /\ Len(y.plan) = 1), NEW d \in Devices,
                 ApprovedFor(db[d], Pair(x.task))
          PROVE  d \in y.todo \/ ~ApprovedFor(View(t)'[d], Pair(x.task))
      <4>1. Len(x.plan) = 1
        BY <2>2, <2>5, <3>5 DEF PlanMoved
      <4>2. s = DenyFor(x.task)
        BY <1>1, <3>2, <4>1
      <4>3. d \in x.todo \/ ~ApprovedFor(View(t)[d], Pair(x.task))
        BY <1>2, <1>4, <3>1, <3>5, <4>1 DEF WithdrawalOK
      <4>4. d \in Ids
        BY Tables
      <4>5. CASE d # i
        BY <2>2, <2>9, <4>3, <4>4, <4>5
      <4>6. CASE d = i
        <5>1. /\ s.kind = "update" /\ s.set = Denied
              /\ s.where = [user |-> {x.task.user}, client |-> {x.task.client},
                            status |-> {"approved"}]
          BY <4>2 DEF DenyFor, Update, Statement
        <5>2. ApprovedFor(here, Pair(x.task)) => ok
          <6>1. ApprovedFor(here, Pair(x.task)) => Meets(s, here)
            BY <5>1 DEF ApprovedFor, Pair, Meets
          <6> QED BY <1>1, <5>1, <6>1, QualifiesMeets
        <5>3. CASE ok
          <6>1. here \in Row
            BY <2>10, <4>6, <5>3, Tables
          <6>2. after = Written(here, Denied)
            BY <1>1, <5>1 DEF After
          <6>3. after.status = "denied"
            BY <6>1, <6>2, WrittenStatus DEF Denied
          <6> QED BY <2>9, <4>6, <5>3, <6>3 DEF ApprovedFor
        <5>4. CASE ~ok
          BY <2>9, <4>6, <5>2, <5>4
        <5> QED BY <5>3, <5>4
      <4> QED BY <4>5, <4>6
    <3> QED BY <2>2, <2>3, <2>5, <2>7, <3>1, <3>2, <3>3, <3>4, <3>5 DEF WithdrawalOK, PlanMoved
  <2>17. TxOK(t, y)'
    BY <2>5, <2>11, <2>12, <2>13, <2>14, <2>15, <2>16 DEF TxOK
  <2>18. \A u \in Txs \ {t} : DOMAIN rows \intersect DOMAIN own[u] = {}
    BY <1>4, <1>9, <2>8 DEF Disjoint
  <2> QED BY <1>1, <1>2, <1>9, <2>1, <2>6, <2>17, <2>18, LocalStep
<1> QED BY <1>12, <1>13

-----------------------------------------------------------------------------
(***************************************************************************)
(* The method goes on after SELECT ... FOR UPDATE.                         *)
(***************************************************************************)
LEMMA ContinueStep ==
    ASSUME Inv, NEW t \in Txs, NEW x, x = tx[t], x.phase = "branch", NEW S, NEW plan \in Seq(S),
           NEW grants \in BOOLEAN, Continue(t, plan, grants),
           \A n \in 1..Len(plan) :
             \/ Revoking(plan[n])
             \/ x.task.op = "rotate" /\ grants /\ plan[n] = UpdateFound({x.task.row}, Consumed, NoColumns)
             \/ x.task.op = "rotate" /\ grants /\ plan[n] = Insert(t, Replacement(x.seen))
             \/ x.task.op = "poll" /\ grants /\ plan[n] = Update({x.task.row}, Redeemed, NoColumns),
           grants => /\ plan # <<>> /\ Live(x.task.row, x.seen)
                     /\ \/ x.task.op = "rotate" /\ plan = Rotation(t, x.task.row, x.seen)
                        \/ /\ x.task.op = "poll"
                           /\ plan = <<Update({x.task.row}, Redeemed, NoColumns)>>
    PROVE  Inv'
<1>1. /\ RowsOK /\ ShapeOK(t, x) /\ HeldOK(t, x) /\ TargetsOK(t, x) /\ BranchOK(t, x)
      /\ DOMAIN own = Txs /\ DOMAIN tx = Txs /\ Disjoint
  BY InvParts
<1>2. PICK S0 : x \in TxRecord(S0)
  BY InvParts
<1>3. PICK y : y = [x EXCEPT !.phase = IF plan = <<>> THEN "commit" ELSE "next",
                             !.plan = plan, !.grants = grants]
  OBVIOUS
<1>4. /\ y.phase = (IF plan = <<>> THEN "commit" ELSE "next") /\ y.plan = plan
      /\ y.grants = grants /\ y.task = x.task /\ y.todo = x.todo /\ y.hit = x.hit
      /\ y.seen = x.seen /\ y.targets = x.targets
  BY <1>2, <1>3 DEF TxRecord
<1>5. y \in TxRecord(S)
  <2>1. (IF plan = <<>> THEN "commit" ELSE "next") \in Phases
    BY DEF Phases
  <2> QED BY <1>2, <1>3, <2>1 DEF TxRecord
<1>6. /\ tx' = [tx EXCEPT ![t] = y] /\ own' = [own EXCEPT ![t] = own[t]]
      /\ UNCHANGED <<db, timeVars, historyVars>>
  <2>1. SetTx(t, y, own[t]) /\ UNCHANGED <<db, timeVars, historyVars>>
    BY <1>3 DEF Continue
  <2>2. y.phase # "ended"
    BY <1>4
  <2> QED BY <2>1, <2>2 DEF SetTx
<1>7. own'[t] = own[t] /\ load' = load /\ db' = db /\ View(t)' = View(t) /\ unsaved' = unsaved
  BY <1>1, <1>6 DEF timeVars, View
<1>8. /\ x.task.op \in {"rotate", "revokeRefresh", "poll"} /\ ~x.grants
      /\ DOMAIN own[t] = {x.task.row} /\ db[x.task.row] # None
      /\ own[t][x.task.row] = db[x.task.row] /\ x.seen = db[x.task.row]
  BY <1>1 DEF BranchOK
<1>9. x.todo = {} /\ ~x.hit /\ x.task \in Workload[load].tasks
  BY <1>1 DEF ShapeOK
<1>10. \A n \in 1..Len(plan) : StatementOK(t, y, plan[n]) /\ ~Locking(y.task, plan[n])
  <2>1. SUFFICES ASSUME NEW n \in 1..Len(plan), NEW s, s = plan[n]
                 PROVE  StatementOK(t, y, s) /\ ~Locking(y.task, s)
    OBVIOUS
  <2>2. CASE Revoking(s)
    BY <2>2, RevokingOnly DEF StatementOK
  <2>3. CASE x.task.op = "rotate" /\ grants /\ s = UpdateFound({x.task.row}, Consumed, NoColumns)
    <3>1. Consuming(y.task, s) /\ ~Locking(y.task, s)
      BY <1>4, <2>3 DEF Consuming, Locking, UpdateFound, Statement
    <3> QED BY <3>1 DEF StatementOK
  <2>4. CASE x.task.op = "rotate" /\ grants /\ s = Insert(t, Replacement(x.seen))
    <3>1. Replacing(t, y, s) /\ ~Locking(y.task, s)
      BY <1>4, <2>4 DEF Replacing, Locking, Insert, Statement
    <3> QED BY <3>1 DEF StatementOK
  <2>5. CASE x.task.op = "poll" /\ grants /\ s = Update({x.task.row}, Redeemed, NoColumns)
    <3>1. Redeeming(y, s) /\ ~Locking(y.task, s)
      BY <1>4, <2>5 DEF Redeeming, Locking, Update, Statement
    <3> QED BY <3>1 DEF StatementOK
  <2> QED BY <2>1, <2>2, <2>3, <2>4, <2>5
<1>11. ShapeOK(t, y)'
  BY <1>4, <1>7, <1>9, <1>10 DEF ShapeOK
<1>12. HeldOK(t, y)'
  <2>1. t \notin DOMAIN own[t]
    BY <1>1, <1>8 DEF HeldOK
  <2>2. \A d, row : DeviceOK(d, row)' <=> DeviceOK(d, row)
    BY <1>7 DEF DeviceOK
  <2> QED BY <1>1, <1>4, <1>7, <2>1, <2>2 DEF HeldOK
<1>13. TargetsOK(t, y)'
  <2>1. \A i : Stored(i) => Stored(i)'
    BY <1>1, <1>6, <1>7 DEF Stored
  <2> QED BY <1>1, <1>4, <1>7, <1>9, <2>1 DEF TargetsOK
<1>14. BranchOK(t, y)' /\ DecisionOK(t, y)' /\ WithdrawalOK(t, y)'
  BY <1>4, <1>8, <1>10 DEF BranchOK, DecisionOK, WithdrawalOK
<1>15. GrantsOK(t, y)'
  <2>1. SUFFICES ASSUME grants PROVE GrantsOK(t, y)'
    BY <1>4 DEF GrantsOK
  <2>2. y.phase = "next" /\ x.task.row \in DOMAIN own[t] /\ Live(x.task.row, db[x.task.row])
    BY <1>4, <1>8, <2>1
  <2> QED BY <1>4, <1>7, <1>8, <2>1, <2>2 DEF GrantsOK
<1>16. TxOK(t, y)'
  BY <1>11, <1>12, <1>13, <1>14, <1>15 DEF TxOK
<1>17. \A u \in Txs \ {t} : DOMAIN own[t] \intersect DOMAIN own[u] = {}
  BY <1>1 DEF Disjoint
<1> QED BY <1>5, <1>6, <1>16, <1>17, LocalStep

LEMMA RollbackStep ==
    ASSUME Inv, NEW t \in Txs, tx[t].phase # "ended", Rollback(t)
    PROVE  Inv'
BY EndStep DEF Rollback

LEMMA FamilyStep ==
    ASSUME Inv, NEW t \in Txs, tx[t].phase = "branch", NEW where,
           DOMAIN where \subseteq {"client", "family"}, Continue(t, RevokeFamily(where), FALSE)
    PROVE  Inv'
<1>1. PICK x, a, b : /\ x = tx[t] /\ a = Update(Refreshes, Revoked, where)
                     /\ b = Update(AccessTokens, Revoked, [family |-> where.family])
  OBVIOUS
<1>2. Revoking(a) /\ Revoking(b)
  BY <1>1, RevokingTables
<1>3. RevokeFamily(where) = <<a, b>> /\ <<a, b>> \in Seq({a, b})
  BY <1>1 DEF RevokeFamily
<1>4. \A n \in 1..Len(<<a, b>>) : Revoking(<<a, b>>[n])
  BY <1>2
<1> QED BY <1>1, <1>3, <1>4, ContinueStep

LEMMA RotateStep ==
    ASSUME Inv, NEW t \in Txs, RotateLocked(t)
    PROVE  Inv'
<1>1. PICK x, r, current : x = tx[t] /\ r = x.task.row /\ current = x.seen
  OBVIOUS
<1>2. x.phase = "branch" /\ x.task.op = "rotate"
  BY <1>1 DEF RotateLocked
<1>3. CASE Rollback(t)
  BY <1>1, <1>2, <1>3, RollbackStep
<1>4. CASE Continue(t, RevokeFamily([family |-> {current.family}]), FALSE)
  BY <1>1, <1>2, <1>4, FamilyStep
<1>5. CASE /\ ~current.consumed /\ ~current.revoked
           /\ Continue(t, Rotation(t, r, current), TRUE)
  <2>1. PICK a, b : a = UpdateFound({r}, Consumed, NoColumns) /\ b = Insert(t, Replacement(current))
    OBVIOUS
  <2>2. Rotation(t, r, current) = <<a, b>> /\ <<a, b>> \in Seq({a, b}) /\ <<a, b>> # <<>>
    BY <2>1 DEF Rotation, Consumed
  <2>3. \A n \in 1..Len(<<a, b>>) : <<a, b>>[n] \in {a, b}
    OBVIOUS
  <2>4. r \in Refreshes /\ current # None
    <3>1. BranchOK(t, x) /\ ShapeOK(t, x) /\ RowsOK
      BY <1>1, InvParts
    <3>2. x.task \in Workload[load].tasks /\ load \in DOMAIN Workload /\ current # None
      BY <1>1, <1>2, <3>1 DEF ShapeOK, RowsOK, BranchOK
    <3> QED BY <1>1, <1>2, <3>2, TaskParts DEF WellAsked
  <2>5. Live(r, current)
    BY <1>5, <2>4, Tables DEF Live
  <2>6. PICK plan, S : plan = <<a, b>> /\ S = {a, b} /\ plan \in Seq(S)
    BY <2>2
  <2>7. \A n \in 1..Len(plan) :
          \/ plan[n] = UpdateFound({x.task.row}, Consumed, NoColumns)
          \/ plan[n] = Insert(t, Replacement(x.seen))
    BY <1>1, <2>1, <2>3, <2>6
  <2>8. Continue(t, plan, TRUE) /\ plan = Rotation(t, x.task.row, x.seen) /\ plan # <<>>
    BY <1>1, <1>5, <2>2, <2>6
  <2>9. Live(x.task.row, x.seen)
    BY <1>1, <2>5
  <2> QED BY <1>1, <1>2, <2>6, <2>7, <2>8, <2>9, ContinueStep
<1> QED BY <1>1, <1>3, <1>4, <1>5 DEF RotateLocked

LEMMA RevokeStep ==
    ASSUME Inv, NEW t \in Txs, RevokeLocked(t)
    PROVE  Inv'
<1>1. PICK where : where = [family |-> {tx[t].seen.family}, client |-> {tx[t].task.client}]
  OBVIOUS
<1>2. DOMAIN where \subseteq {"client", "family"}
  BY <1>1
<1> QED BY <1>1, <1>2, FamilyStep DEF RevokeLocked

LEMMA PollStep ==
    ASSUME Inv, NEW t \in Txs, PollLocked(t)
    PROVE  Inv'
<1>1. PICK x, r : x = tx[t] /\ r = x.task.row
  OBVIOUS
<1>2. x.phase = "branch" /\ x.task.op = "poll"
  BY <1>1 DEF PollLocked
<1>3. CASE Rollback(t)
  BY <1>1, <1>2, <1>3, RollbackStep
<1>4. CASE Continue(t, <<>>, FALSE)
  <2>1. PICK plan, S : plan = <<>> /\ S = {} /\ plan \in Seq(S) /\ Len(plan) = 0
    BY EmptySeq
  <2>2. Continue(t, plan, FALSE)
    BY <1>4, <2>1
  <2>3. \A n \in 1..Len(plan) : Revoking(plan[n])
    BY <2>1
  <2> QED BY <1>1, <1>2, <2>1, <2>2, <2>3, ContinueStep
<1>5. CASE /\ x.seen.status = "approved"
           /\ Continue(t, <<Update({r}, Redeemed, NoColumns)>>, TRUE)
  <2>1. PICK a : a = Update({r}, Redeemed, NoColumns)
    OBVIOUS
  <2>2. <<a>> \in Seq({a}) /\ <<a>> # <<>> /\ \A n \in 1..Len(<<a>>) : <<a>>[n] = a
    OBVIOUS
  <2>3. r \in Devices /\ x.seen # None
    <3>1. BranchOK(t, x) /\ ShapeOK(t, x) /\ RowsOK
      BY <1>1, InvParts
    <3>2. x.task \in Workload[load].tasks /\ load \in DOMAIN Workload /\ x.seen # None
      BY <1>1, <1>2, <3>1 DEF ShapeOK, RowsOK, BranchOK
    <3> QED BY <1>1, <1>2, <3>2, TaskParts DEF WellAsked
  <2>4. Live(r, x.seen)
    BY <1>5, <2>3 DEF Live
  <2> QED BY <1>1, <1>2, <1>5, <2>1, <2>2, <2>4, ContinueStep
<1> QED BY <1>1, <1>3, <1>4, <1>5 DEF PollLocked, Redeemed

-----------------------------------------------------------------------------
(***************************************************************************)
(* The database changes: a commit, and a row that is saved.                *)
(***************************************************************************)
\* A transaction that commits has run all its statements.
LEMMA Committing ==
    ASSUME Inv, NEW t \in Txs, NEW x, x = tx[t], x.phase = "commit"
    PROVE  /\ x.todo = {} /\ x.plan = <<>> /\ x.task \in Workload[load].tasks
           /\ load \in DOMAIN Workload /\ ~Stored(t) /\ db[t] = None
           /\ \A i \in Ids \ Consents : Stored(i) => i # t /\ Later(i, db[i], View(t)[i])
           /\ \A i \in Ids : View(t)[i] \in Value /\ db[i] \in Value
           /\ x.grants =>
                /\ x.task.row \in Ids /\ x.task.row \notin Consents
                /\ x.task.row \in DOMAIN own[t] /\ Live(x.task.row, db[x.task.row])
                /\ Stored(x.task.row) /\ Spent(x.task.row, View(t)[x.task.row])
           /\ x.grants /\ x.task.op = "rotate" =>
                x.seen = db[x.task.row] /\ x.task.row \in Refreshes
<1>1. /\ RowsOK /\ ShapeOK(t, x) /\ HeldOK(t, x) /\ GrantsOK(t, x)
  BY InvParts
<1>2. x.todo = {} /\ x.plan = <<>> /\ x.task \in Workload[load].tasks /\ load \in DOMAIN Workload
  BY <1>1 DEF ShapeOK, RowsOK
<1>3. ~Stored(t) /\ t \in Ids /\ t \notin Consents
  BY Tables DEF Stored
<1>4. db[t] = None
  BY <1>1, <1>3 DEF RowsOK
<1>5. \A i \in Ids \ Consents : Stored(i) => i # t /\ Later(i, db[i], View(t)[i])
  BY <1>1, <1>3, ViewRow
<1>6. \A i \in Ids : View(t)[i] \in Value /\ db[i] \in Value
  BY <1>1, ViewRow DEF RowsOK
<1>7. ASSUME x.grants
      PROVE  /\ x.task.row \in Ids /\ x.task.row \notin Consents
             /\ x.task.row \in DOMAIN own[t] /\ Live(x.task.row, db[x.task.row])
             /\ Stored(x.task.row) /\ Spent(x.task.row, View(t)[x.task.row])
             /\ x.task.op = "rotate" => x.seen = db[x.task.row] /\ x.task.row \in Refreshes
  <2>1. /\ x.task.op \in {"consume", "rotate", "poll"}
        /\ x.task.row \in DOMAIN own[t] /\ Live(x.task.row, db[x.task.row])
        /\ Spent(x.task.row, own[t][x.task.row])
        /\ x.task.op = "rotate" => x.seen = db[x.task.row]
    BY <1>1, <1>7 DEF GrantsOK
  <2>2. /\ x.task.row \in Codes \union Refreshes \union Devices
        /\ x.task.op = "rotate" => x.task.row \in Refreshes
    BY <1>2, <2>1, TaskParts DEF WellAsked
  <2>3. x.task.row \in Ids /\ x.task.row \notin Consents
    BY <2>2, Tables
  <2>4. View(t)[x.task.row] = own[t][x.task.row]
    BY <2>1, <2>3 DEF View
  <2>5. Stored(x.task.row)
    BY <1>1, <2>1, <2>3 DEF RowsOK, Live
  <2> QED BY <2>1, <2>2, <2>3, <2>4, <2>5
<1> QED BY <1>2, <1>3, <1>4, <1>5, <1>6, <1>7

\* The token that a rotation puts in the place of another is the only one of the
\* family that can be exchanged.
LEMMA CommitOneUnspent ==
    ASSUME Inv, NEW t \in Txs, tx[t].phase = "commit", db' = View(t), unsaved' = unsaved, load' = load
    PROVE  OneUnspent'
<1>1. PICK x : x = tx[t]
  OBVIOUS
<1>2. RowsOK /\ OneUnspent /\ HeldOK(t, x)
  BY <1>1, InvParts
<1>3. /\ x.todo = {} /\ db[t] = None
      /\ \A i \in Ids \ Consents : Stored(i) => i # t /\ Later(i, db[i], View(t)[i])
      /\ \A i \in Ids : View(t)[i] \in Value /\ db[i] \in Value
      /\ x.grants =>
           /\ x.task.row \in DOMAIN own[t] /\ Live(x.task.row, db[x.task.row])
           /\ Stored(x.task.row) /\ Spent(x.task.row, View(t)[x.task.row])
      /\ x.grants /\ x.task.op = "rotate" =>
           x.seen = db[x.task.row] /\ x.task.row \in Refreshes
  BY <1>1, Committing
<1>4. ASSUME NEW i \in Refreshes, i # t, Unspent(Issued(i)')
      PROVE  Unspent(Issued(i)) /\ Issued(i).family = Issued(i)'.family
  <2>1. CASE i \in unsaved
    BY <1>4, <2>1 DEF Issued
  <2>2. CASE i \notin unsaved
    <3>1. Issued(i) = db[i] /\ Issued(i)' = View(t)[i]
      BY <2>2 DEF Issued
    <3>2. i \in Ids /\ i \notin Consents
      BY Tables
    <3>3. Later(i, db[i], View(t)[i])
      BY <1>1, <1>2, <1>4, <3>2, ViewRow
    <3>4. Unspent(View(t)[i]) => Unspent(db[i]) /\ db[i].family = View(t)[i].family
      BY <1>3, <3>2, <3>3, LaterSettled
    <3>5. Unspent(View(t)[i])
      BY <1>4, <3>1
    <3> QED BY <3>1, <3>4, <3>5
  <2> QED BY <2>1, <2>2
<1>5. ASSUME NEW j \in Refreshes, j # t, Unspent(Issued(j)'), Unspent(Issued(t)'),
             Issued(j)'.family = Issued(t)'.family
      PROVE  FALSE
  <2>1. t \in Ids /\ t \notin unsaved
    <3>1. unsaved \subseteq Ids \ (Consents \union Txs)
      BY <1>2, RepositoryAssumption DEF RowsOK, WellStored
    <3>2. t \in Ids
      BY Tables
    <3> QED BY <3>1, <3>2
  <2>2. Issued(t)' = View(t)[t]
    BY <2>1 DEF Issued
  <2>3. t \in DOMAIN own[t] /\ View(t)[t] = own[t][t]
    BY <1>3, <1>5, <2>1, <2>2 DEF View, Unspent
  <2>4. x.task.op = "rotate" /\ x.grants /\ own[t][t] = Replacement(x.seen)
    BY <1>2, <2>3 DEF HeldOK
  <2>5. PICK r : r = x.task.row
    OBVIOUS
  <2>6. /\ x.seen = db[r] /\ r \in Refreshes /\ Live(r, db[r])
        /\ Stored(r) /\ Spent(r, View(t)[r]) /\ r \in Ids /\ r \notin Devices /\ r \notin Consents
    BY <1>3, <2>4, <2>5, Tables
  <2>7. Unspent(db[r]) /\ db[r] \in Row
    BY <1>3, <2>6 DEF Live, Unspent, Value
  <2>8. Issued(r) = db[r] /\ Issued(t)'.family = db[r].family
    BY <2>2, <2>3, <2>4, <2>6, <2>7, ReplacementRow DEF Issued, Stored
  <2>9. Unspent(Issued(j)) /\ Issued(j).family = db[r].family
    BY <1>4, <1>5, <2>8
  <2>10. j = r
    BY <1>2, <2>6, <2>7, <2>8, <2>9 DEF OneUnspent
  <2>11. Issued(j)' = View(t)[r]
    BY <2>6, <2>10 DEF Issued, Stored
  <2> QED BY <1>5, <2>6, <2>11 DEF Unspent, Spent
<1>6. ASSUME NEW i \in Refreshes, NEW j \in Refreshes, i # t, j # t,
             Unspent(Issued(i)'), Unspent(Issued(j)'), Issued(i)'.family = Issued(j)'.family
      PROVE  i = j
  BY <1>2, <1>4, <1>6 DEF OneUnspent
<1> QED BY <1>5, <1>6 DEF OneUnspent

\* A device that is approved keeps the consent, or loses the approval with it.
LEMMA CommitConsent ==
    ASSUME Inv, NEW t \in Txs, tx[t].phase = "commit", db' = View(t)
    PROVE  ApprovedHasConsent'
<1>1. PICK x : x = tx[t]
  OBVIOUS
<1>2. /\ RowsOK /\ HeldOK(t, x) /\ DecisionOK(t, x) /\ WithdrawalOK(t, x) /\ ApprovedHasConsent
  BY <1>1, InvParts
<1>3. x.todo = {} /\ load \in DOMAIN Workload /\ x.task \in Workload[load].tasks
  BY <1>1, Committing
<1>4. SUFFICES ASSUME NEW d \in Devices, NEW row, row = View(t)[d], row # None,
                      row.status = "approved", NEW pair, pair = <<row.user, row.client>>
               PROVE  View(t)[pair] # None
  BY DEF ApprovedHasConsent
<1>5. d \in Ids /\ d \notin Consents /\ d # t
  BY Tables
<1>6. db[d] \in Row /\ Later(d, db[d], row) /\ DeviceOK(d, row) /\ row \in Value
  BY <1>1, <1>2, <1>4, <1>5, ViewRow
<1>7. pair \in Consents /\ pair \in Ids
  <2>1. row.user \in Users /\ row.client = Workload[load].rows[d].client
        /\ Workload[load].rows[d] # None
    BY <1>4, <1>6 DEF DeviceOK
  <2>2. row.client \in Clients
    BY <1>3, <2>1, RepositoryAssumption DEF WellStored
  <2> QED BY <1>4, <2>1, <2>2, Tables DEF Consents
<1>8. View(t)[pair] = IF pair \in DOMAIN own[t] THEN own[t][pair] ELSE db[pair]
  BY <1>7 DEF View
<1>9. pair \in DOMAIN own[t] => /\ pair = Pair(x.task)
                                /\ own[t][pair] = None <=> x.task.op = "deleteConsent"
  BY <1>2, <1>7 DEF HeldOK
<1>10. CASE db[d].status = "approved"
  <2>1. row.user = db[d].user /\ row.client = db[d].client
    BY <1>4, <1>6, <1>10 DEF Later
  <2>2. db[pair] # None
    BY <1>2, <1>4, <1>6, <1>10, <2>1, NoneIsNoRow DEF ApprovedHasConsent
  <2>3. ASSUME pair \in DOMAIN own[t], x.task.op = "deleteConsent" PROVE FALSE
    <3>1. ApprovedFor(db[d], Pair(x.task)) /\ ApprovedFor(View(t)[d], Pair(x.task))
      BY <1>4, <1>6, <1>9, <1>10, <2>1, <2>3, NoneIsNoRow DEF ApprovedFor
    <3>2. d \in x.todo \/ ~ApprovedFor(View(t)[d], Pair(x.task))
      BY <1>1, <1>2, <2>3, <3>1 DEF WithdrawalOK
    <3> QED BY <1>3, <3>1, <3>2
  <2> QED BY <1>8, <1>9, <2>2, <2>3
<1>11. CASE db[d].status # "approved"
  <2>1. d \in DOMAIN own[t] /\ row = own[t][d]
    BY <1>4, <1>5, <1>11 DEF View
  <2>2. /\ x.task.op = "decide" /\ x.task.approve
        /\ row.user = x.task.user /\ row.client = x.task.client
    BY <1>2, <1>4, <1>11, <2>1 DEF HeldOK
  <2>3. pair = Pair(x.task) /\ pair \in DOMAIN own[t]
    BY <1>1, <1>2, <1>4, <2>2 DEF DecisionOK, Pair
  <2> QED BY <1>8, <1>9, <2>2, <2>3
<1> QED BY <1>10, <1>11

LEMMA CommitStep ==
    ASSUME Inv, NEW t \in Txs, Commit(t)
    PROVE  Inv'
<1>1. PICK x : x = tx[t]
  OBVIOUS
<1>2. /\ x.phase = "commit" /\ db' = View(t) /\ dead' = dead \union x.targets
      /\ granted' = [i \in Ids |-> granted[i] + IF x.grants /\ i = x.task.row THEN 1 ELSE 0]
      /\ unsaved' = unsaved /\ expired' = expired /\ aged' = aged /\ load' = load
      /\ tx' = [tx EXCEPT ![t] = Ended] /\ own' = [own EXCEPT ![t] = NoColumns]
  BY <1>1, EndedFields DEF Commit, SetTx, timeVars
<1>3. /\ RowsOK /\ HistoryOK /\ HeldOK(t, x) /\ TargetsOK(t, x) /\ DecisionOK(t, x)
      /\ DOMAIN own = Txs /\ DOMAIN tx = Txs /\ Disjoint
  BY <1>1, InvParts
<1>4. /\ x.todo = {} /\ load \in DOMAIN Workload /\ db[t] = None /\ ~Stored(t)
      /\ x.task \in Workload[load].tasks
      /\ \A i \in Ids \ Consents : Stored(i) => i # t /\ Later(i, db[i], View(t)[i])
      /\ \A i \in Ids : View(t)[i] \in Value /\ db[i] \in Value
  BY <1>1, <1>2, Committing
<1>5. x.grants =>
        /\ x.task.row \in Ids /\ x.task.row \notin Consents /\ Live(x.task.row, db[x.task.row])
        /\ Stored(x.task.row) /\ Spent(x.task.row, View(t)[x.task.row])
  BY <1>1, <1>2, Committing
<1>6. PICK S : x \in TxRecord(S)
  BY <1>1, InvParts
<1>7. \A i \in Ids : Stored(i) => Stored(i)'
  BY <1>1, <1>2, <1>3 DEF Stored
<1>8. DOMAIN own' = Txs /\ DOMAIN tx' = Txs /\ tx'[t] = Ended /\ own'[t] = NoColumns
  BY <1>2, <1>3
<1>9. \A u \in Txs \ {t} : tx'[u] = tx[u] /\ own'[u] = own[u]
  BY <1>2, <1>3
<1>10. DOMAIN own'[t] = {}
  BY <1>8 DEF NoColumns
<1>11. Disjoint'
  BY <1>3, <1>8, <1>9, <1>10 DEF Disjoint
<1>12. db' \in [Ids -> Value]
  BY <1>2, <1>4 DEF View
<1>13. RowsOK'
  <2>1. ASSUME NEW i \in Ids \ Consents, View(t)[i] # None PROVE Stored(i)'
    <3>1. CASE i = t
      <4>1. t \notin unsaved
        BY <1>3, <1>4, RepositoryAssumption DEF RowsOK, WellStored
      <4> QED BY <1>2, <1>8, <3>1, <4>1, EndedFields DEF Stored
    <3>2. CASE i # t
      <4>1. db[i] \in Row
        BY <1>1, <1>3, <2>1, <3>2, ViewRow
      <4>2. Stored(i)
        BY <1>3, <4>1, NoneIsNoRow DEF RowsOK
      <4> QED BY <1>7, <4>2
    <3> QED BY <3>1, <3>2
  <2>2. \A d \in Devices : DeviceOK(d, View(t)[d])
    BY <1>1, <1>3, ViewRow, Tables
  <2>3. \A d \in Devices : DeviceOK(d, db[d])'
    BY <1>2, <2>2 DEF DeviceOK
  <2> QED BY <1>2, <1>3, <1>12, <2>1, <2>3 DEF RowsOK
<1>14. HistoryOK'
  <2>1. granted \in [Ids -> Nat] /\ granted' \in [Ids -> Nat]
    BY <1>2, <1>3 DEF HistoryOK
  <2>2. ASSUME NEW i \in Ids, granted'[i] > 0
        PROVE  i \notin Consents /\ Stored(i)' /\ Spent(i, db'[i])
    <3>1. CASE granted[i] > 0
      <4>1. i \notin Consents /\ Stored(i) /\ Spent(i, db[i])
        BY <1>3, <3>1 DEF HistoryOK
      <4> QED BY <1>2, <1>4, <1>7, <4>1, LaterSettled
    <3>2. CASE x.grants /\ i = x.task.row
      BY <1>2, <1>5, <1>7, <3>2
    <3>3. granted'[i] = granted[i] + IF x.grants /\ i = x.task.row THEN 1 ELSE 0
      BY <1>2
    <3> QED BY <2>1, <2>2, <3>1, <3>2, <3>3
  <2>3. ASSUME NEW i \in dead' PROVE i \in Ids \ Consents /\ Stored(i)' /\ Dead(i, db'[i])
    <3>1. CASE i \in dead
      <4>1. i \in Ids \ Consents /\ Stored(i) /\ Dead(i, db[i])
        BY <1>3, <3>1 DEF HistoryOK
      <4> QED BY <1>2, <1>4, <1>7, <4>1, LaterSettled
    <3>2. CASE i \in x.targets
      <4>1. i \in Ids
        BY <1>6, <3>2 DEF TxRecord
      <4>2. i \notin Consents /\ Stored(i) /\ Dead(i, View(t)[i])
        BY <1>3, <1>4, <3>2 DEF TargetsOK
      <4> QED BY <1>2, <1>7, <4>1, <4>2
    <3> QED BY <1>2, <2>3, <3>1, <3>2
  <2> QED BY <2>1, <2>2, <2>3 DEF HistoryOK
<1>15. OneUnspent' /\ ApprovedHasConsent'
  BY <1>1, <1>2, CommitOneUnspent, CommitConsent
<1>16. ASSUME NEW u \in Txs \ {t}, NEW w, w = tx[u]
       PROVE  (\E S0 : w \in TxRecord(S0)) /\ TxOK(u, w)'
  <2>1. (\E S0 : w \in TxRecord(S0)) /\ TxOK(u, w)
    BY <1>16 DEF Inv
  <2>2. DOMAIN own[u] \subseteq Ids /\ DOMAIN own[u] \intersect DOMAIN own[t] = {}
    BY <1>3, <2>1 DEF TxOK, HeldOK, Disjoint
  <2>3. \A i \in DOMAIN own[u] : db'[i] = db[i]
    BY <1>2, <2>2 DEF View
  <2>4. \A i \in Ids \ Consents : Stored(i) => Later(i, db[i], db'[i])
    BY <1>2, <1>4
  <2>5. ASSUME w.task.op = "deleteConsent", Pair(w.task) \in DOMAIN own[u], NEW d \in Devices,
               ApprovedFor(db'[d], Pair(w.task))
        PROVE  ApprovedFor(db[d], Pair(w.task))
    <3>1. d \in Ids /\ d \notin Consents /\ d # t
      BY Tables
    <3>2. CASE d \notin DOMAIN own[t]
      BY <1>2, <2>5, <3>1, <3>2 DEF View
    <3>3. CASE d \in DOMAIN own[t]
      <4>1. View(t)[d] = own[t][d] /\ own[t][d] # None /\ own[t][d].status = "approved"
        BY <1>2, <2>5, <3>1, <3>3 DEF View, ApprovedFor
      <4>2. /\ db[d] # None /\ Later(d, db[d], own[t][d])
            /\ \/ db[d].status = "approved"
               \/ /\ x.task.op = "decide" /\ x.task.approve
                  /\ own[t][d].user = x.task.user /\ own[t][d].client = x.task.client
        BY <1>3, <3>1, <3>3, <4>1 DEF HeldOK
      <4>3. CASE db[d].status = "approved"
        <5>1. own[t][d].user = db[d].user /\ own[t][d].client = db[d].client
          BY <4>1, <4>2, <4>3 DEF Later
        <5> QED BY <1>2, <2>5, <4>1, <4>2, <4>3, <5>1 DEF ApprovedFor
      <4>4. CASE /\ x.task.op = "decide" /\ x.task.approve
                 /\ own[t][d].user = x.task.user /\ own[t][d].client = x.task.client
        <5>1. Pair(x.task) = Pair(w.task)
          BY <1>2, <2>5, <4>1, <4>4 DEF ApprovedFor, Pair
        <5>2. Pair(x.task) \in DOMAIN own[t]
          BY <1>2, <1>3, <4>4 DEF DecisionOK
        <5> QED BY <2>2, <2>5, <5>1, <5>2
      <4> QED BY <4>2, <4>3, <4>4
    <3> QED BY <3>2, <3>3
  <2> QED BY <1>2, <1>3, <1>7, <1>9, <1>12, <1>16, <2>1, <2>3, <2>4, <2>5, OtherTx
<1>17. TxOK(t, Ended)'
  <2>1. Quiet'
    BY NothingHeld, PTL
  <2> QED BY <1>10, <2>1 DEF Quiet
<1>18. ASSUME NEW u \in Txs, NEW w \in {tx'[u]}
       PROVE  (\E S0 : w \in TxRecord(S0)') /\ TxOK(u, w)'
  <2>1. \A S0 : TxRecord(S0)' = TxRecord(S0)
    BY <1>2 DEF TxRecord
  <2>2. CASE u = t
    BY <1>8, <1>17, <1>18, <2>1, <2>2, EndedFields
  <2>3. CASE u # t
    BY <1>9, <1>16, <1>18, <2>1, <2>3
  <2> QED BY <2>2, <2>3
<1> QED BY <1>8, <1>11, <1>13, <1>14, <1>15, <1>18 DEF Inv, StoreInv

\* A step that no transaction takes.
LEMMA Elsewhere ==
    ASSUME Inv, StoreInv', tx' = tx, own' = own, load' = load, db' \in [Ids -> Value],
           \A i \in Ids : Stored(i) => Stored(i)',
           \A u \in Txs : \A i \in DOMAIN own[u] : db'[i] = db[i],
           \A i \in Ids \ Consents : Stored(i) => Later(i, db[i], db'[i]),
           \A d \in Devices : \A pair : ApprovedFor(db'[d], pair) => ApprovedFor(db[d], pair)
    PROVE  Inv'
<1>1. ASSUME NEW u \in Txs, NEW x \in {tx'[u]}
      PROVE  (\E S : x \in TxRecord(S)') /\ TxOK(u, x)'
  <2>1. RowsOK /\ x = tx[u] /\ (\E S : x \in TxRecord(S)) /\ TxOK(u, x) /\ own'[u] = own[u]
    BY <1>1 DEF Inv, StoreInv
  <2>2. TxOK(u, x)'
    BY <2>1, OtherTx
  <2>3. \A S : TxRecord(S)' = TxRecord(S)
    BY DEF TxRecord
  <2> QED BY <2>1, <2>2, <2>3
<1>2. DOMAIN own' = Txs /\ DOMAIN tx' = Txs /\ Disjoint'
  BY DEF Inv, Disjoint
<1> QED BY <1>1, <1>2 DEF Inv

LEMMA SaveStep ==
    ASSUME Inv, NEW i, Save(i)
    PROVE  Inv'
<1>1. /\ i \in unsaved /\ db' = [db EXCEPT ![i] = Workload[load].rows[i]]
      /\ unsaved' = unsaved \ {i} /\ own' = own /\ tx' = tx /\ expired' = expired
      /\ aged' = aged /\ load' = load /\ granted' = granted /\ dead' = dead
  BY DEF Save, historyVars
<1>2. RowsOK /\ HistoryOK /\ OneUnspent /\ ApprovedHasConsent
  BY DEF Inv, StoreInv
<1>3. WellStored(Workload[load]) /\ load \in DOMAIN Workload
  BY <1>2, RepositoryAssumption DEF RowsOK
<1>4. i \in Ids /\ i \notin Consents /\ i \notin Txs /\ Workload[load].rows[i] \in Value
      /\ i \in Workload[load].unsaved
  BY <1>1, <1>2, <1>3 DEF RowsOK, WellStored, Value
<1>5. db \in [Ids -> Value] /\ db' \in [Ids -> Value]
  BY <1>1, <1>2, <1>4 DEF RowsOK
<1>6. db'[i] = Workload[load].rows[i] /\ \A j \in Ids : j # i => db'[j] = db[j]
  BY <1>1, <1>4, <1>5
<1>7. \A j : Stored(j) => Stored(j)' /\ j # i
  BY <1>1 DEF Stored
<1>8. \A j \in Ids : Stored(j) => db'[j] = db[j] /\ Later(j, db[j], db'[j])
  BY <1>5, <1>6, <1>7, LaterSame
<1>9. i \in Devices => db'[i] = None \/ db'[i].status = "pending"
  BY <1>3, <1>4, <1>6 DEF WellStored
<1>10. RowsOK'
  <2>1. \A j \in Ids \ Consents : db'[j] # None => Stored(j)'
    BY <1>1, <1>2, <1>4, <1>6, <1>7 DEF RowsOK, Stored
  <2>2. \A d \in Devices : DeviceOK(d, db[d])'
    <3>1. SUFFICES ASSUME NEW d \in Devices PROVE DeviceOK(d, db[d])'
      OBVIOUS
    <3>2. CASE d = i
      BY <1>1, <1>6, <1>9, <3>2 DEF DeviceOK
    <3>3. CASE d # i
      BY <1>1, <1>2, <1>6, <3>3, Tables DEF DeviceOK, RowsOK
    <3> QED BY <3>2, <3>3
  <2> QED BY <1>1, <1>2, <1>5, <2>1, <2>2 DEF RowsOK
<1>11. HistoryOK'
  <2>1. \A j \in Ids : granted'[j] > 0 => j \notin Consents /\ Stored(j)' /\ Spent(j, db'[j])
    BY <1>1, <1>2, <1>7, <1>8 DEF HistoryOK
  <2>2. \A j \in dead' : Stored(j)' /\ Dead(j, db'[j])
    BY <1>1, <1>2, <1>7, <1>8 DEF HistoryOK
  <2> QED BY <1>1, <1>2, <2>1, <2>2 DEF HistoryOK
<1>12. OneUnspent'
  <2>1. \A j \in Refreshes : Issued(j)' = Issued(j)
    BY <1>1, <1>6, Tables DEF Issued
  <2> QED BY <1>2, <2>1 DEF OneUnspent
<1>13. ApprovedHasConsent'
  <2>1. SUFFICES ASSUME NEW d \in Devices, db'[d] # None, db'[d].status = "approved"
                 PROVE  db'[<<db'[d].user, db'[d].client>>] # None
    BY DEF ApprovedHasConsent
  <2>2. d # i /\ db'[d] = db[d] /\ d \in Ids
    BY <1>6, <1>9, <2>1, Tables
  <2>3. db[<<db[d].user, db[d].client>>] # None
    BY <1>2, <2>1, <2>2 DEF ApprovedHasConsent
  <2>4. <<db[d].user, db[d].client>> \in Consents
    <3>1. /\ db[d].user \in Users /\ db[d].client = Workload[load].rows[d].client
          /\ Workload[load].rows[d] # None
      BY <1>2, <2>1, <2>2 DEF RowsOK, DeviceOK
    <3>2. db[d].client \in Clients
      BY <1>3, <3>1 DEF WellStored
    <3> QED BY <3>1, <3>2 DEF Consents
  <2> QED BY <1>4, <1>6, <2>2, <2>3, <2>4, Tables
<1>14. \A u \in Txs : \A j \in DOMAIN own[u] : db'[j] = db[j]
  <2>1. SUFFICES ASSUME NEW u \in Txs, NEW j \in DOMAIN own[u] PROVE j # i /\ j \in Ids
    BY <1>6
  <2>2. HeldOK(u, tx[u])
    BY InvParts
  <2>3. j \in Ids /\ (j \notin Consents /\ j # u => db[j] # None)
    BY <2>2 DEF HeldOK
  <2>4. j \in Ids \ Consents /\ db[j] # None => Stored(j)
    BY <1>2 DEF RowsOK
  <2> QED BY <1>4, <1>7, <2>3, <2>4
<1>15. \A d \in Devices : \A pair : ApprovedFor(db'[d], pair) => ApprovedFor(db[d], pair)
  BY <1>6, <1>9, Tables DEF ApprovedFor
<1> QED BY <1>1, <1>5, <1>7, <1>8, <1>10, <1>11, <1>12, <1>13, <1>14, <1>15, Elsewhere DEF StoreInv

\* Time passes, or nothing happens.
LEMMA TimeStep ==
    ASSUME Inv, UNCHANGED <<db, own, tx, unsaved, load, granted, dead>>,
           expired' \subseteq Ids, aged' \subseteq Ids
    PROVE  Inv'
<1>1. RowsOK /\ HistoryOK /\ OneUnspent /\ ApprovedHasConsent
  BY DEF Inv, StoreInv
<1>2. \A i : Stored(i) => Stored(i)'
  BY DEF Stored
<1>3. RowsOK'
  BY <1>1, <1>2 DEF RowsOK, DeviceOK
<1>4. HistoryOK'
  BY <1>1, <1>2 DEF HistoryOK
<1>5. OneUnspent' /\ ApprovedHasConsent'
  BY <1>1 DEF OneUnspent, Issued, ApprovedHasConsent
<1>6. \A i \in Ids : Later(i, db[i], db'[i])
  BY <1>1, LaterSame DEF RowsOK
<1>7. db' \in [Ids -> Value]
  BY <1>1 DEF RowsOK
<1> QED BY <1>2, <1>3, <1>4, <1>5, <1>6, <1>7, Elsewhere DEF StoreInv

-----------------------------------------------------------------------------
(***************************************************************************)
(* The invariant, and what follows from it.                                *)
(***************************************************************************)
LEMMA InitInv == Init => Inv
<1>1. SUFFICES ASSUME Init PROVE Inv
  OBVIOUS
<1>2. /\ load \in DOMAIN Workload /\ unsaved = Workload[load].unsaved
      /\ db = [i \in Ids |-> IF i \in unsaved THEN None ELSE Workload[load].rows[i]]
      /\ own = [t \in Txs |-> NoColumns] /\ tx = [t \in Txs |-> Idle]
      /\ expired = {} /\ aged = {} /\ dead = {} /\ granted = [i \in Ids |-> 0]
  BY <1>1 DEF Init
<1>3. WellStored(Workload[load])
  BY <1>2, RepositoryAssumption
<1>4. /\ Workload[load].rows \in [Ids -> Value] /\ db \in [Ids -> Value]
      /\ \A t \in Txs : Workload[load].rows[t] = None /\ t \notin unsaved /\ db[t] = None
      /\ unsaved \subseteq Ids
  BY <1>2, <1>3, Tables DEF WellStored, Value
<1>5. RowsOK
  <2>1. \A i \in Ids : db[i] # None => i \notin unsaved /\ db[i] = Workload[load].rows[i]
    BY <1>2
  <2>2. \A i \in Ids \ Consents : db[i] # None => Stored(i)
    BY <1>4, <2>1 DEF Stored
  <2>3. \A d \in Devices : DeviceOK(d, db[d])
    BY <1>3, <2>1, Tables DEF DeviceOK, WellStored
  <2> QED BY <1>2, <1>4, <2>2, <2>3 DEF RowsOK
<1>6. HistoryOK
  BY <1>2 DEF HistoryOK
<1>7. OneUnspent
  <2>1. SUFFICES ASSUME NEW i \in Refreshes, NEW j \in Refreshes, Unspent(Issued(i)),
                        Unspent(Issued(j)), Issued(i).family = Issued(j).family
                 PROVE  i = j
    BY DEF OneUnspent
  <2>2. Issued(i) = Workload[load].rows[i] /\ Issued(j) = Workload[load].rows[j]
    BY <1>2, Tables DEF Issued
  <2>3. i \in RefreshTokens /\ j \in RefreshTokens
    BY <1>4, <2>1, <2>2 DEF Unspent, Refreshes
  <2> QED BY <1>3, <2>1, <2>2, <2>3 DEF WellStored
<1>8. ApprovedHasConsent
  <2>1. SUFFICES ASSUME NEW d \in Devices, db[d] # None, db[d].status = "approved"
                 PROVE  db[<<db[d].user, db[d].client>>] # None
    BY DEF ApprovedHasConsent
  <2>2. db[d] = Workload[load].rows[d]
    BY <1>2, <2>1, Tables
  <2>3. /\ db[d].user \in Users /\ db[d].client \in Clients
        /\ Workload[load].rows[<<db[d].user, db[d].client>>] # None
    BY <1>3, <2>1, <2>2 DEF WellStored
  <2>4. <<db[d].user, db[d].client>> \in Consents
    BY <2>3 DEF Consents
  <2>5. <<db[d].user, db[d].client>> \notin unsaved
    BY <1>2, <1>3, <2>4 DEF WellStored
  <2> QED BY <1>2, <2>3, <2>4, <2>5, Tables
<1>9. DOMAIN own = Txs /\ DOMAIN tx = Txs /\ \A t \in Txs : DOMAIN own[t] = {} /\ tx[t] = Idle
  BY <1>2 DEF NoColumns
<1>10. \A t \in Txs : \A x \in {tx[t]} : (\E S : x \in TxRecord(S)) /\ TxOK(t, x)
  BY <1>9, NothingHeld, EndedFields DEF Quiet
<1> QED BY <1>5, <1>6, <1>7, <1>8, <1>9, <1>10 DEF Inv, StoreInv, Disjoint

LEMMA NextInv == Inv /\ [Next]_vars => Inv'
<1>1. SUFFICES ASSUME Inv, [Next]_vars PROVE Inv'
  OBVIOUS
<1>2. RowsOK /\ load \in DOMAIN Workload
  BY <1>1 DEF Inv, StoreInv, RowsOK
<1>3. expired \subseteq Ids /\ aged \subseteq Ids /\ Workload[load].lapsing \subseteq Ids
  BY <1>2, RepositoryAssumption DEF RowsOK, WellStored
<1>4. CASE UNCHANGED vars
  BY <1>1, <1>3, <1>4, TimeStep DEF vars
<1>5. ASSUME NEW t \in Txs, NEW task \in Workload[load].tasks, Request(t, task) PROVE Inv'
  BY <1>1, <1>5, RequestStep
<1>6. ASSUME NEW t \in Txs, Execute(t) PROVE Inv'
  BY <1>1, <1>6, ExecuteStep
<1>7. ASSUME NEW t \in Txs, NEW i \in Ids, LockRow(t, i) PROVE Inv'
  BY <1>1, <1>7, LockRowStep
<1>8. ASSUME NEW t \in Txs, RotateLocked(t) \/ RevokeLocked(t) \/ PollLocked(t) PROVE Inv'
  BY <1>1, <1>8, RotateStep, RevokeStep, PollStep
<1>9. ASSUME NEW t \in Txs, Commit(t) PROVE Inv'
  BY <1>1, <1>9, CommitStep
<1>10. ASSUME NEW t \in Txs, Fail(t) PROVE Inv'
  BY <1>1, <1>10, RollbackStep DEF Fail
<1>11. ASSUME NEW i \in Ids, SaveAuthorizationCode(i) \/ SaveAccessToken(i) \/ SaveRefreshToken(i)
                             \/ SaveDeviceAuthorization(i)
       PROVE  Inv'
  BY <1>1, <1>11, SaveStep DEF SaveAuthorizationCode, SaveAccessToken, SaveRefreshToken,
     SaveDeviceAuthorization
<1>12. ASSUME NEW i \in Ids, Expire(i) PROVE Inv'
  BY <1>1, <1>3, <1>12, TimeStep DEF Expire, historyVars
<1>13. ASSUME NEW i \in Ids, Age(i) PROVE Inv'
  BY <1>1, <1>3, <1>13, TimeStep DEF Age, historyVars
<1> QED BY <1>1, <1>4, <1>5, <1>6, <1>7, <1>8, <1>9, <1>10, <1>11, <1>12, <1>13 DEF Next, AllEnded

LEMMA Invariance == Spec => []Inv
BY InitInv, NextInv, PTL DEF Spec

\* A step gives something for a row only by a commit, and the row was live.
LEMMA Granting ==
    ASSUME Inv, [Next]_vars, NEW i \in Ids
    PROVE  \/ granted'[i] = granted[i]
           \/ granted'[i] = granted[i] + 1 /\ ~Spent(i, db[i]) /\ ~Dead(i, db[i])
<1>1. CASE granted' = granted
  BY <1>1
<1>2. ASSUME NEW t \in Txs, Commit(t)
      PROVE  \/ granted'[i] = granted[i]
             \/ granted'[i] = granted[i] + 1 /\ ~Spent(i, db[i]) /\ ~Dead(i, db[i])
  <2>1. /\ tx[t].phase = "commit" /\ granted[i] \in Nat
        /\ granted'[i] = granted[i] + (IF tx[t].grants /\ i = tx[t].task.row THEN 1 ELSE 0)
    BY <1>2, InvParts DEF Commit, HistoryOK
  <2>2. CASE tx[t].grants /\ i = tx[t].task.row
    <3>1. Live(i, db[i])
      BY <2>1, <2>2, Committing
    <3> QED BY <2>1, <2>2, <3>1, LiveIsNeither
  <2>3. CASE ~(tx[t].grants /\ i = tx[t].task.row)
    BY <2>1, <2>3
  <2> QED BY <2>2, <2>3
<1>3. ASSUME NEW t \in Txs, NEW task, Request(t, task) PROVE granted' = granted
  BY <1>3 DEF Request, ConsumeAuthorizationCode, RevokeAccessToken, RotateRefreshToken,
     RevokeRefreshToken, DecideDeviceAuthorization, PollDeviceAuthorization, GrantConsent,
     DeleteConsent, RevokeSessionTokens, RevokeUserTokens, RevokeClientTokens, Cleanup, Begin,
     historyVars
<1>4. ASSUME NEW t \in Txs, RotateLocked(t) \/ RevokeLocked(t) \/ PollLocked(t)
      PROVE  granted' = granted
  BY <1>4 DEF RotateLocked, RevokeLocked, PollLocked, Continue, Rollback, historyVars
<1>5. ASSUME NEW t \in Txs, Execute(t) \/ Fail(t) \/ \E j \in Ids : LockRow(t, j)
      PROVE  granted' = granted
  BY <1>5 DEF Execute, Fail, Rollback, LockRow, historyVars
<1>6. ASSUME NEW j \in Ids,
             \/ SaveAuthorizationCode(j) \/ SaveAccessToken(j)
             \/ SaveRefreshToken(j) \/ SaveDeviceAuthorization(j)
             \/ Expire(j) \/ Age(j)
      PROVE  granted' = granted
  BY <1>6 DEF SaveAuthorizationCode, SaveAccessToken, SaveRefreshToken,
     SaveDeviceAuthorization, Save, Expire, Age, historyVars
<1>7. CASE UNCHANGED vars
  BY <1>7 DEF vars
<1> QED BY <1>1, <1>2, <1>3, <1>4, <1>5, <1>6, <1>7 DEF Next, AllEnded

\* A row can be exchanged when one stored row says so, not when it will be saved.
LEMMA UsableIsIssued ==
    ASSUME Inv, NEW i \in Refreshes, Usable(i)
    PROVE  Unspent(Issued(i)) /\ Issued(i) = db[i]
<1>1. RowsOK /\ i \in Ids \ Consents
  BY Tables DEF Inv, StoreInv
<1>2. db[i] # None
  BY DEF Usable, Unspent
<1>3. Stored(i)
  BY <1>1, <1>2 DEF RowsOK
<1> QED BY <1>3 DEF Stored, Issued, Usable

LEMMA InvTypes == Inv => TypeOK
<1>1. SUFFICES ASSUME Inv PROVE TypeOK
  OBVIOUS
<1>2. RowsOK /\ HistoryOK /\ Disjoint /\ WellStored(Workload[load])
  BY <1>1, RepositoryAssumption DEF Inv, StoreInv, RowsOK
<1>3. ASSUME NEW d \in Devices, db[d] # None, db[d].status \in {"approved", "consumed"}
      PROVE  db[d].user # None
  BY <1>2, <1>3, RepositoryAssumption DEF RowsOK, DeviceOK
<1>4. ASSUME NEW t \in Txs
      PROVE  /\ tx[t].phase \in {"idle", "next", "run", "branch", "commit", "ended"}
             /\ tx[t].todo \subseteq Ids /\ tx[t].targets \subseteq Ids
             /\ \A i \in DOMAIN own[t] : own[t][i] \in Row \union {None}
             /\ \A u \in Txs \ {t} : DOMAIN own[t] \intersect DOMAIN own[u] = {}
  <2>1. HeldOK(t, tx[t])
    BY <1>1, InvParts
  <2>2. PICK S : tx[t] \in TxRecord(S)
    BY <1>1, InvParts
  <2>3. /\ tx[t].phase \in Phases /\ tx[t].todo \in SUBSET Ids /\ tx[t].targets \in SUBSET Ids
    BY <2>2 DEF TxRecord
  <2>4. \A i \in DOMAIN own[t] : own[t][i] \in Value
    BY <2>1 DEF HeldOK
  <2> QED BY <1>2, <2>3, <2>4 DEF Phases, Disjoint, Value
<1>5. /\ db \in [Ids -> Row \union {None}] /\ granted \in [Ids -> Nat] /\ dead \subseteq Ids
      /\ expired \subseteq Ids /\ aged \subseteq Ids /\ unsaved \subseteq Ids
  BY <1>2 DEF RowsOK, HistoryOK, Value, WellStored
<1> QED BY <1>3, <1>4, <1>5 DEF TypeOK

LEMMA InvFamily == Inv => OneUsablePerFamily
<1>1. SUFFICES ASSUME Inv, NEW f \in Families
               PROVE  Cardinality({i \in Refreshes : Usable(i) /\ db[i].family = f}) <= 1
  BY DEF OneUsablePerFamily
<1> DEFINE usable == {i \in Refreshes : Usable(i) /\ db[i].family = f}
<1>2. \A i, j \in usable : i = j
  <2>1. SUFFICES ASSUME NEW i \in usable, NEW j \in usable PROVE i = j
    OBVIOUS
  <2>2. /\ i \in Refreshes /\ j \in Refreshes
        /\ Unspent(Issued(i)) /\ Issued(i).family = f
        /\ Unspent(Issued(j)) /\ Issued(j).family = f
    BY <1>1, UsableIsIssued
  <2> QED BY <1>1, <2>2 DEF Inv, StoreInv, OneUnspent
<1>3. CASE usable = {}
  BY <1>3, FS_EmptySet
<1>4. ASSUME NEW i \in usable PROVE Cardinality(usable) <= 1
  <2>1. usable = {i}
    BY <1>2
  <2>2. Cardinality(usable) = 1
    BY <2>1, FS_Singleton, Zenon
  <2> HIDE DEF usable
  <2> QED BY <2>2
<1> QED BY <1>3, <1>4

\* Rows are well formed, a device that was decided names who decided, and a row
\* is held by one transaction at most, whatever the methods of the repository
\* do at the same time: an UPDATE or SELECT ... FOR UPDATE waits for the holder.
THEOREM RepositoryTypes == Spec => []TypeOK
BY Invariance, InvTypes, PTL

\* For any number of overlapping rotations, replays, revocations and cleanups,
\* at most one refresh token of a family can be exchanged: RotateRefreshToken
\* consumes the token it has locked before it inserts the one in its place, and
\* the two become visible together.
THEOREM FamilyHasOne == Spec => []OneUsablePerFamily
BY Invariance, InvFamily, PTL

\* No two transactions commit a grant for the same code, refresh token or device
\* code: the later one finds it consumed, or waits and looks at it again.
THEOREM OneGrantPerRow == Spec => []GrantedOnce
<1>1. Init => GrantedOnce
  BY DEF Init, GrantedOnce
<1>2. Inv /\ GrantedOnce /\ [Next]_vars => GrantedOnce'
  <2>1. SUFFICES ASSUME Inv, GrantedOnce, [Next]_vars, NEW i \in Ids PROVE granted'[i] <= 1
    BY DEF GrantedOnce
  <2>2. /\ granted[i] \in Nat /\ granted[i] <= 1
        /\ granted[i] > 0 => Spent(i, db[i])
    BY <2>1 DEF Inv, StoreInv, HistoryOK, GrantedOnce
  <2>3. \/ granted'[i] = granted[i]
        \/ granted'[i] = granted[i] + 1 /\ ~Spent(i, db[i])
    BY <2>1, Granting
  <2> QED BY <2>2, <2>3
<1> QED BY <1>1, <1>2, Invariance, PTL DEF Spec

\* A device that is approved has the consent of its user for its client, however
\* DecideDeviceAuthorization and DeleteConsent overlap: both write the row of the
\* consent, and the one that comes second sees what the first has committed.
THEOREM ApprovalHasConsent == Spec => []ApprovedHasConsent
<1>1. Inv => ApprovedHasConsent
  BY DEF Inv, StoreInv
<1> QED BY <1>1, Invariance, PTL

\* Once a revocation of a session, a user, a client, a consent or a family has
\* committed, no transaction that was under way exchanges a row it reached for.
THEOREM RevokedStaysRevoked == Spec => NothingGrantedAfterRevocation
<1>1. Inv /\ [Next]_vars => [\A i \in Ids : granted'[i] > granted[i] => i \notin dead]_vars
  <2>1. SUFFICES ASSUME Inv, [Next]_vars, NEW i \in Ids, granted'[i] > granted[i]
                 PROVE  i \notin dead
    OBVIOUS
  <2>2. granted[i] \in Nat /\ (i \in dead => Dead(i, db[i]))
    BY <2>1 DEF Inv, StoreInv, HistoryOK
  <2>3. ~Dead(i, db[i])
    BY <2>1, <2>2, Granting
  <2> QED BY <2>2, <2>3
<1> QED BY <1>1, Invariance, PTL DEF Spec, NothingGrantedAfterRevocation
=============================================================================
