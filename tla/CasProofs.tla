----------------------------- MODULE CasProofs -----------------------------
(***************************************************************************)
(* The CAS protocol for any number of services, sessions, requests and     *)
(* tickets: its tables are well formed, a chain of proxies is true, a      *)
(* primary ticket is fresh, logout tells the services it lists, and tickets *)
(* implement the one-time tickets of SingleUse.                            *)
(*                                                                         *)
(* The tables hold what the recursive properties speak about one link at a *)
(* time (TableInv): a proxy ticket against its PGT, a PGT against the      *)
(* ticket it was issued for.  A least ticket for which the whole property  *)
(* failed would contradict its link.                                       *)
(***************************************************************************)
EXTENDS Cas, WellFoundedInduction, TLAPS

Fresh(t) == tickets[t].issued - login[tickets[t].session].at < MarkerLife

\* A ticket agrees with the PGT it hangs on, a PGT with the ticket it is for.
TicketOK(t) ==
    /\ tickets[t].kind = "ST" =>
         /\ tickets[t].proxies = <<>>
         /\ login[tickets[t].session].status # "none"
         /\ tickets[t].primary => Fresh(t)
    /\ tickets[t].kind = "PT" =>
         LET p == tickets[t].pgt IN
         /\ p \in DOMAIN pgts
         /\ pgts[p].from < t
         /\ tickets[t].proxies = <<pgts[p].service>> \o pgts[p].proxies
         /\ tickets[t].primary = pgts[p].primary

PGTOK(p) ==
    /\ pgts[p].from \in DOMAIN tickets
    /\ pgts[p].proxies = tickets[pgts[p].from].proxies
    /\ pgts[p].primary = tickets[pgts[p].from].primary
    /\ pgts[p].service \in Proxying
    /\ Len(pgts[p].proxies) < p

TableInv ==
    /\ \A t \in DOMAIN tickets : TicketOK(t)
    /\ \A p \in DOMAIN pgts : PGTOK(p)

\* A logout has told or is about to tell the services of the tickets that were there
\* when it read its list; before it cleans up nobody is left to tell.
ToldOK(h) ==
    /\ handler[h].pc \in {"notify", "clean"} =>
         \A t \in 1..(handler[h].before - 1) :
             /\ t \in DOMAIN tickets
             /\ OfSession(h, t) => Tells(handler[h].told \union handler[h].jobs, t)
    /\ handler[h].pc = "clean" => handler[h].jobs = {}
    /\ handler[h].pc = "list" => handler[h].before = 0

\* What a request in progress knows.  The session of a cleanup is not active, the
\* ticket of a validation is no longer live.
HandlerOK(h) ==
    /\ handler[h].pc = "save" => handler[h].service \in Services
    /\ handler[h].pc = "save" /\ handler[h].kind = "login" =>
         /\ handler[h].session \in LoginSessions
         /\ login[handler[h].session].status # "none"
         /\ handler[h].renew => handler[h].now - login[handler[h].session].at < MarkerLife
    /\ handler[h].pc = "save" /\ handler[h].kind = "proxy" =>
         handler[h].pgt \in DOMAIN pgts
    /\ handler[h].pc \in {"user", "callback"} =>
         /\ handler[h].service \in Services
         /\ handler[h].ticket \in DOMAIN tickets
         /\ tickets[handler[h].ticket].row # "live"
    /\ handler[h].pc = "callback" => handler[h].service \in Proxying
    /\ handler[h].pc \in {"list", "notify", "clean"} =>
         /\ handler[h].session \in LoginSessions
         /\ login[handler[h].session].status # "none"
    /\ handler[h].pc = "clean" => login[handler[h].session].status # "active"
    /\ ToldOK(h)

Holds(h) == handler[h].pc \in {"user", "callback"}

\* A ticket is validated by one request.
OneHolder ==
    \A h, k \in Handlers :
        Holds(h) /\ Holds(k) /\ handler[h].ticket = handler[k].ticket => h = k

HandlerInv == (\A h \in Handlers : HandlerOK(h)) /\ OneHolder

\* The rows that a logout will find, of tickets validated or not.
RowInv ==
    \A t \in DOMAIN tickets :
        tickets[t].kind = "ST" /\ login[tickets[t].session].status = "active"
          => serviceSessions[tickets[t].session][tickets[t].service] >= t

CasInv == TypeOK /\ TableInv /\ HandlerInv /\ RowInv

-----------------------------------------------------------------------------
(***************************************************************************)
(* What a step may do to the session store and to the tables.              *)
(***************************************************************************)
LoginType ==
    [LoginSessions -> [status : {"none", "active", "kept", "expired", "revoked"},
                       at : 0..MaxClock]]

\* A session that was used once keeps its time of authentication, and one that is
\* no longer active never is again.
LoginStep ==
    /\ login' \in LoginType
    /\ \A s \in LoginSessions :
         login[s].status # "none" =>
           /\ login'[s].at = login[s].at /\ login'[s].status # "none"
           /\ login[s].status # "active" => login'[s].status # "active"

\* Rows change, but what they say does not.
RowStep ==
    /\ tickets' \in Seq(Ticket) /\ Len(tickets') = Len(tickets)
    /\ pgts' \in Seq(PGT) /\ Len(pgts') = Len(pgts)
    /\ \A t \in DOMAIN tickets :
         /\ tickets'[t].kind = tickets[t].kind /\ tickets'[t].service = tickets[t].service
         /\ tickets'[t].session = tickets[t].session
         /\ tickets'[t].primary = tickets[t].primary
         /\ tickets'[t].proxies = tickets[t].proxies
         /\ tickets'[t].issued = tickets[t].issued /\ tickets'[t].pgt = tickets[t].pgt
         /\ tickets[t].row # "live" => tickets'[t].row # "live"
    /\ \A p \in DOMAIN pgts :
         /\ pgts'[p].service = pgts[p].service /\ pgts'[p].primary = pgts[p].primary
         /\ pgts'[p].proxies = pgts[p].proxies /\ pgts'[p].from = pgts[p].from

\* The tables grow, tickets stay what they are, and none becomes live again.
Grows ==
    /\ \A t \in DOMAIN tickets :
         /\ t \in DOMAIN tickets' /\ (tickets[t].row # "live" => tickets'[t].row # "live")
         /\ tickets'[t].kind = tickets[t].kind /\ tickets'[t].service = tickets[t].service
         /\ tickets'[t].session = tickets[t].session
    /\ \A p \in DOMAIN pgts : p \in DOMAIN pgts'

LEMMA SeqDomain ==
    ASSUME NEW S, NEW s \in Seq(S)
    PROVE  DOMAIN s = 1..Len(s) /\ Len(s) \in Nat
OBVIOUS

LEMMA MappedSeq ==
    ASSUME NEW S, NEW s \in Seq(S), NEW t \in [DOMAIN s -> S]
    PROVE  t \in Seq(S) /\ Len(t) = Len(s)
<1>1. DOMAIN s = 1..Len(s) /\ Len(s) \in Nat
  OBVIOUS
<1> QED BY <1>1

LEMMA AppendSeq ==
    ASSUME NEW S, NEW s \in Seq(S), NEW e \in S
    PROVE  /\ Append(s, e) \in Seq(S) /\ Len(Append(s, e)) = Len(s) + 1
           /\ DOMAIN Append(s, e) = 1..(Len(s) + 1)
           /\ \A i \in DOMAIN s : Append(s, e)[i] = s[i]
           /\ Append(s, e)[Len(s) + 1] = e
OBVIOUS

LEMMA TicketFields ==
    ASSUME TypeOK, NEW t \in DOMAIN tickets
    PROVE  /\ tickets[t] \in Ticket
           /\ tickets[t].session \in LoginSessions /\ tickets[t].service \in Services
           /\ tickets[t].kind \in {"ST", "PT"} /\ tickets[t].primary \in BOOLEAN
           /\ tickets[t].proxies \in Chains /\ tickets[t].issued \in 0..MaxClock
           /\ tickets[t].row \in Rows /\ tickets[t].pgt \in 0..MaxPGTs
           /\ t \in TicketId
<1>1. tickets \in Seq(Ticket) /\ Len(tickets) <= MaxTickets
  BY DEF TypeOK
<1>2. tickets[t] \in Ticket
  BY <1>1
<1>3. t \in TicketId
  BY <1>1, CasAssumption DEF TicketId
<1> QED  BY <1>2, <1>3 DEF Ticket

LEMMA PGTFields ==
    ASSUME TypeOK, NEW p \in DOMAIN pgts
    PROVE  /\ pgts[p] \in PGT
           /\ pgts[p].session \in LoginSessions /\ pgts[p].service \in Services
           /\ pgts[p].primary \in BOOLEAN /\ pgts[p].proxies \in Chains
           /\ pgts[p].row \in Rows /\ pgts[p].from \in TicketId
           /\ p \in 1..MaxPGTs
<1>1. pgts \in Seq(PGT) /\ Len(pgts) <= MaxPGTs
  BY DEF TypeOK
<1>2. pgts[p] \in PGT
  BY <1>1
<1>3. p \in 1..MaxPGTs
  BY <1>1, CasAssumption
<1> QED  BY <1>2, <1>3 DEF PGT

LEMMA RowStepGrows ==
    ASSUME TypeOK, RowStep
    PROVE  Grows /\ DOMAIN tickets' = DOMAIN tickets /\ DOMAIN pgts' = DOMAIN pgts
<1>1. DOMAIN tickets' = 1..Len(tickets') /\ DOMAIN tickets = 1..Len(tickets)
  BY SeqDomain DEF RowStep, TypeOK
<1>2. DOMAIN pgts' = 1..Len(pgts') /\ DOMAIN pgts = 1..Len(pgts)
  BY SeqDomain DEF RowStep, TypeOK
<1> QED  BY <1>1, <1>2 DEF RowStep, Grows

LEMMA RowStepUnchanged ==
    ASSUME TypeOK, UNCHANGED <<tickets, pgts>>
    PROVE  RowStep
BY DEF RowStep, TypeOK

LEMMA LoginUnchanged ==
    ASSUME TypeOK, UNCHANGED login
    PROVE  LoginStep
BY DEF LoginStep, LoginType, TypeOK

\* The links of the tables are about what rows say.
LEMMA TablesStay ==
    ASSUME TypeOK, TableInv, LoginStep, RowStep
    PROVE  TableInv'
<1>0. DOMAIN tickets' = DOMAIN tickets /\ DOMAIN pgts' = DOMAIN pgts
  BY RowStepGrows
<1>1. ASSUME NEW t \in DOMAIN tickets
      PROVE  TicketOK(t)'
  <2>1. TicketOK(t) /\ tickets[t].session \in LoginSessions
    BY TicketFields DEF TableInv
  <2>2. /\ tickets'[t].kind = tickets[t].kind /\ tickets'[t].session = tickets[t].session
        /\ tickets'[t].primary = tickets[t].primary /\ tickets'[t].proxies = tickets[t].proxies
        /\ tickets'[t].issued = tickets[t].issued /\ tickets'[t].pgt = tickets[t].pgt
    BY DEF RowStep
  <2>3. CASE tickets[t].kind = "ST"
    <3>1. /\ login[tickets[t].session].status # "none"
          /\ login'[tickets[t].session].at = login[tickets[t].session].at
          /\ login'[tickets[t].session].status # "none"
      BY <2>1, <2>3 DEF TicketOK, LoginStep
    <3>2. Fresh(t)' = Fresh(t)
      BY <2>2, <3>1 DEF Fresh
    <3> QED  BY <2>1, <2>2, <2>3, <3>1, <3>2 DEF TicketOK
  <2>4. CASE tickets[t].kind = "PT"
    <3>1. tickets[t].pgt \in DOMAIN pgts
      BY <2>1, <2>4 DEF TicketOK
    <3> QED  BY <1>0, <2>1, <2>2, <2>4, <3>1 DEF TicketOK, RowStep
  <2> QED  BY <2>3, <2>4, TicketFields
<1>2. ASSUME NEW p \in DOMAIN pgts
      PROVE  PGTOK(p)'
  BY <1>0 DEF TableInv, PGTOK, RowStep
<1> QED  BY <1>0, <1>1, <1>2 DEF TableInv

LEMMA RowsStay ==
    ASSUME TypeOK, TableInv, RowInv, LoginStep, RowStep, UNCHANGED serviceSessions
    PROVE  RowInv'
<1>0. DOMAIN tickets' = DOMAIN tickets
  BY RowStepGrows
<1>1. \A t \in DOMAIN tickets : tickets[t].session \in LoginSessions
  BY TicketFields
<1>2. ASSUME NEW t \in DOMAIN tickets, tickets'[t].kind = "ST",
             login'[tickets'[t].session].status = "active"
      PROVE  serviceSessions'[tickets'[t].session][tickets'[t].service] >= t
  <2>1. /\ tickets'[t].kind = tickets[t].kind /\ tickets'[t].session = tickets[t].session
        /\ tickets'[t].service = tickets[t].service
    BY DEF RowStep
  <2>2. login[tickets[t].session].status # "none"
    BY <1>2, <2>1 DEF TableInv, TicketOK
  <2>3. login[tickets[t].session].status = "active"
    BY <1>1, <1>2, <2>1, <2>2 DEF LoginStep
  <2> QED  BY <1>2, <2>1, <2>3 DEF RowInv
<1> QED  BY <1>0, <1>2 DEF RowInv

\* A request is not disturbed by the others.
LEMMA HandlerStays ==
    ASSUME LoginStep, Grows, NEW h \in Handlers, HandlerOK(h), handler'[h] = handler[h]
    PROVE  HandlerOK(h)'
<1>1. ToldOK(h)'
  BY DEF HandlerOK, ToldOK, OfSession, Tells, Grows
<1> QED  BY <1>1 DEF LoginStep, Grows, HandlerOK

LEMMA HandlersStay ==
    ASSUME HandlerInv, LoginStep, Grows, UNCHANGED handler
    PROVE  HandlerInv'
<1>1. \A h \in Handlers : HandlerOK(h)'
  BY HandlerStays DEF HandlerInv
<1>2. OneHolder'
  BY DEF HandlerInv, OneHolder, Holds
<1> QED  BY <1>1, <1>2 DEF HandlerInv

LEMMA HandlerSet ==
    ASSUME TypeOK, HandlerInv, LoginStep, Grows, NEW h \in Handlers, NEW q \in Handler,
           handler' = [handler EXCEPT ![h] = q],
           HandlerOK(h)',
           q.pc \in {"user", "callback"} =>
             \A k \in Handlers : k # h /\ Holds(k) => handler[k].ticket # q.ticket
    PROVE  handler' \in [Handlers -> Handler] /\ HandlerInv'
<1>1. handler' \in [Handlers -> Handler]
  BY DEF TypeOK
<1>2. handler'[h] = q /\ \A k \in Handlers : k # h => handler'[k] = handler[k]
  BY DEF TypeOK
<1>3. \A k \in Handlers : HandlerOK(k)'
  BY <1>2, HandlerStays DEF HandlerInv
<1>4. OneHolder'
  BY <1>2 DEF HandlerInv, OneHolder, Holds
<1> QED  BY <1>1, <1>3, <1>4 DEF HandlerInv

LEMMA IdleHandler == Idle \in Handler
BY CasAssumption DEF Idle, Handler

LEMMA Finished ==
    ASSUME TypeOK, HandlerInv, LoginStep, Grows, NEW h \in Handlers, Finish(h)
    PROVE  handler' \in [Handlers -> Handler] /\ HandlerInv'
<1>1. handler' = [handler EXCEPT ![h] = Idle] /\ handler'[h] = Idle
  BY DEF Finish, TypeOK
<1>2. Idle.pc = "idle"
  BY DEF Idle
<1>3. HandlerOK(h)'
  BY <1>1, <1>2 DEF HandlerOK, ToldOK
<1> QED  BY <1>1, <1>2, <1>3, IdleHandler, HandlerSet

\* The variables that have a type and no more.
SmallTypes ==
    /\ clock \in 0..MaxClock /\ enabled \subseteq Services /\ userActive \in BOOLEAN
    /\ markers \subseteq [service : Services, iat : 0..MaxClock]
    /\ accepted \in [TicketId -> Nat]

\* A step that adds no row.
LEMMA QuietStep ==
    ASSUME CasInv, LoginStep, RowStep, UNCHANGED serviceSessions, SmallTypes',
           handler' \in [Handlers -> Handler], HandlerInv'
    PROVE  CasInv'
<1>1. TableInv' /\ RowInv'
  BY TablesStay, RowsStay DEF CasInv
<1>2. TypeOK'
  BY DEF CasInv, TypeOK, LoginStep, LoginType, RowStep, SmallTypes
<1> QED  BY <1>1, <1>2 DEF CasInv

-----------------------------------------------------------------------------
(***************************************************************************)
(* Time, logins, accounts, clients and expiry.                             *)
(***************************************************************************)
LEMMA WorldKeeps ==
    ASSUME CasInv,
           \/ Tick \/ DisableUser
           \/ \E s \in LoginSessions : Authenticate(s) \/ ExpireLogin(s)
           \/ \E v \in Services : DisableCASClient(v) \/ redirectCASCredentials(v)
    PROVE  CasInv'
<1>0. TypeOK
  BY DEF CasInv
<1>1. UNCHANGED <<tickets, pgts, serviceSessions, handler>>
  BY DEF Tick, DisableUser, Authenticate, ExpireLogin, DisableCASClient,
     redirectCASCredentials, storeVars
<1>2. RowStep /\ Grows
  BY <1>0, <1>1, RowStepUnchanged, RowStepGrows
<1>3. LoginStep
  <2>1. CASE \E s \in LoginSessions : Authenticate(s)
    BY <1>0, <2>1 DEF Authenticate, LoginStep, LoginType, TypeOK
  <2>2. CASE \E s \in LoginSessions : ExpireLogin(s)
    BY <1>0, <2>2 DEF ExpireLogin, LoginStep, LoginType, TypeOK
  <2>3. CASE \/ Tick \/ DisableUser
             \/ \E v \in Services : DisableCASClient(v) \/ redirectCASCredentials(v)
    <3>1. UNCHANGED login
      BY <2>3 DEF Tick, DisableUser, DisableCASClient, redirectCASCredentials, worldVars
    <3> QED  BY <1>0, <3>1, LoginUnchanged
  <2> QED  BY <2>1, <2>2, <2>3
<1>4. SmallTypes'
  <2> USE <1>0 DEF TypeOK, SmallTypes
  <2>1. CASE Tick
    BY <2>1, CasAssumption DEF Tick
  <2>2. CASE \E v \in Services : redirectCASCredentials(v)
    BY <2>2 DEF redirectCASCredentials, worldVars
  <2>3. CASE DisableUser \/ \E v \in Services : DisableCASClient(v)
    BY <2>3 DEF DisableUser, DisableCASClient
  <2>4. CASE \E s \in LoginSessions : Authenticate(s) \/ ExpireLogin(s)
    BY <2>4 DEF Authenticate, ExpireLogin
  <2> QED  BY <2>1, <2>2, <2>3, <2>4
<1>5. HandlerInv' /\ handler' \in [Handlers -> Handler]
  BY <1>0, <1>1, <1>2, <1>3, HandlersStay DEF CasInv, TypeOK
<1> QED  BY <1>1, <1>2, <1>3, <1>4, <1>5, QuietStep

\* One ticket gets another row, and is not live.
LEMMA TicketRow ==
    ASSUME TypeOK, NEW t \in DOMAIN tickets, NEW row \in Rows, row # "live",
           tickets' = [tickets EXCEPT ![t].row = row], UNCHANGED pgts
    PROVE  RowStep
<1>1. tickets \in Seq(Ticket) /\ tickets[t] \in Ticket
  BY TicketFields DEF TypeOK
<1>2. [tickets[t] EXCEPT !.row = row] \in Ticket
  BY <1>1 DEF Ticket
<1>3. tickets' \in [DOMAIN tickets -> Ticket]
  BY <1>1, <1>2, TicketFields
<1>4. tickets' \in Seq(Ticket) /\ Len(tickets') = Len(tickets)
  BY <1>1, <1>3, MappedSeq
<1>5. \A u \in DOMAIN tickets : u # t => tickets'[u] = tickets[u]
  BY <1>1
<1>6. tickets'[t] = [tickets[t] EXCEPT !.row = row]
  BY <1>1
<1>7. /\ tickets'[t].kind = tickets[t].kind /\ tickets'[t].service = tickets[t].service
      /\ tickets'[t].session = tickets[t].session
      /\ tickets'[t].primary = tickets[t].primary
      /\ tickets'[t].proxies = tickets[t].proxies
      /\ tickets'[t].issued = tickets[t].issued /\ tickets'[t].pgt = tickets[t].pgt
      /\ tickets'[t].row = row
  BY <1>1, <1>6 DEF Ticket
<1> QED  BY <1>4, <1>5, <1>7 DEF RowStep, TypeOK

LEMMA ExpiryKeeps ==
    ASSUME CasInv,
           \/ \E t \in DOMAIN tickets : ExpireTicket(t)
           \/ \E p \in DOMAIN pgts : ExpirePGT(p)
    PROVE  CasInv'
<1>0. TypeOK
  BY DEF CasInv
<1>1. RowStep
  <2>1. CASE \E t \in DOMAIN tickets : ExpireTicket(t)
    BY <1>0, <2>1, TicketRow DEF ExpireTicket, Rows
  <2>2. ASSUME NEW p \in DOMAIN pgts, ExpirePGT(p)
        PROVE  RowStep
    <3>1. pgts \in Seq(PGT) /\ pgts[p] \in PGT
      BY <1>0, PGTFields DEF TypeOK
    <3>2. pgts' = [pgts EXCEPT ![p].row = "expired"] /\ UNCHANGED tickets
      BY <2>2 DEF ExpirePGT
    <3>3. [pgts[p] EXCEPT !.row = "expired"] \in PGT
      BY <3>1 DEF PGT, Rows
    <3>4. pgts' \in [DOMAIN pgts -> PGT]
      BY <1>0, <3>1, <3>2, <3>3, PGTFields
    <3>5. pgts' \in Seq(PGT) /\ Len(pgts') = Len(pgts)
      BY <3>1, <3>4, MappedSeq
    <3>6. \A u \in DOMAIN pgts : u # p => pgts'[u] = pgts[u]
      BY <3>1, <3>2
    <3>7. pgts'[p] = [pgts[p] EXCEPT !.row = "expired"]
      BY <3>1, <3>2
    <3>8. /\ pgts'[p].service = pgts[p].service /\ pgts'[p].primary = pgts[p].primary
          /\ pgts'[p].proxies = pgts[p].proxies /\ pgts'[p].from = pgts[p].from
      BY <3>1, <3>7 DEF PGT
    <3> QED  BY <1>0, <3>2, <3>5, <3>6, <3>8 DEF RowStep, TypeOK
  <2> QED  BY <2>1, <2>2
<1>2. UNCHANGED <<worldVars, serviceSessions, markers, handler, accepted>>
  BY DEF ExpireTicket, ExpirePGT
<1>3. LoginStep /\ SmallTypes'
  BY <1>0, <1>2, LoginUnchanged DEF worldVars, TypeOK, SmallTypes
<1>4. HandlerInv' /\ handler' \in [Handlers -> Handler]
  BY <1>0, <1>1, <1>2, <1>3, RowStepGrows, HandlersStay DEF CasInv, TypeOK
<1> QED  BY <1>1, <1>2, <1>3, <1>4, QuietStep

-----------------------------------------------------------------------------
(***************************************************************************)
(* The requests begin.                                                     *)
(***************************************************************************)
\* A step of a request that changes the world and the tables by rows at most.
LEMMA HandlerStep ==
    ASSUME CasInv, LoginStep, RowStep, UNCHANGED <<clock, enabled, userActive>>,
           UNCHANGED <<serviceSessions, markers>>, accepted' \in [TicketId -> Nat],
           NEW h \in Handlers, NEW q \in Handler, handler' = [handler EXCEPT ![h] = q],
           HandlerOK(h)',
           q.pc \in {"user", "callback"} =>
             \A k \in Handlers : k # h /\ Holds(k) => handler[k].ticket # q.ticket
    PROVE  CasInv'
<1>0. TypeOK /\ Grows /\ HandlerInv
  BY RowStepGrows DEF CasInv
<1>1. handler' \in [Handlers -> Handler] /\ HandlerInv'
  BY <1>0, HandlerSet
<1>2. SmallTypes'
  BY <1>0 DEF TypeOK, SmallTypes
<1> QED  BY <1>1, <1>2, QuietStep

LEMMA LoginBegins ==
    ASSUME CasInv, NEW h \in Handlers, NEW s \in LoginSessions,
           \/ casLogout(h, s) \/ StartRevocation(h, s)
           \/ \E v \in Visited, renew \in BOOLEAN : casLogin(h, s, v, renew)
    PROVE  CasInv'
<1>0. TypeOK
  BY DEF CasInv
<1>1. UNCHANGED <<worldVars, storeVars, markers, accepted>> /\ Active(s)
  BY DEF casLogout, StartRevocation, casLogin
<1>2. LoginStep /\ RowStep
  BY <1>0, <1>1, LoginUnchanged, RowStepUnchanged DEF worldVars, storeVars
<1>3. /\ UNCHANGED <<clock, enabled, userActive>> /\ UNCHANGED <<serviceSessions, markers>>
      /\ accepted' \in [TicketId -> Nat]
  BY <1>0, <1>1 DEF worldVars, storeVars, TypeOK
<1>4. login'[s].status = login[s].status /\ login[s].status # "none"
  BY <1>1 DEF Active, worldVars
<1>5. CASE casLogout(h, s) \/ StartRevocation(h, s)
  <2>1. PICK pc \in {"list", "notify"} :
          handler' = [handler EXCEPT ![h] =
             [Idle EXCEPT !.pc = pc, !.kind = "logout", !.session = s]]
    BY <1>5 DEF casLogout, StartRevocation
  <2> DEFINE q == [Idle EXCEPT !.pc = pc, !.kind = "logout", !.session = s]
  <2>2. q \in Handler
    BY IdleHandler DEF Handler
  <2>3. q.pc = pc /\ q.session = s /\ q.before = 0
    BY DEF Idle
  <2>4. handler' = [handler EXCEPT ![h] = q] /\ handler'[h] = q
    BY <1>0, <2>1 DEF TypeOK
  <2> HIDE DEF q
  <2>5. HandlerOK(h)'
    BY <1>4, <2>3, <2>4 DEF HandlerOK, ToldOK
  <2> QED  BY <1>2, <1>3, <2>2, <2>3, <2>4, <2>5, HandlerStep
<1>6. ASSUME NEW v \in Visited, NEW renew \in BOOLEAN, casLogin(h, s, v, renew)
      PROVE  CasInv'
  <2> DEFINE now == IF renew THEN clock ELSE 0
             q == [Idle EXCEPT !.pc = "save", !.kind = "login", !.service = v,
                               !.session = s, !.renew = renew, !.now = now]
  <2>1. now \in 0..MaxClock /\ v \in Services
    BY <1>0, CasAssumption DEF TypeOK
  <2>2. renew => now - login[s].at < MarkerLife
    <3> SUFFICES ASSUME renew  PROVE clock - login[s].at < MarkerLife
      OBVIOUS
    <3>1. PICK m \in markers : clock < m.iat + MarkerLife /\ login[s].at >= m.iat
      BY <1>6 DEF casLogin, validCASReauthMarker
    <3>2. m.iat \in Nat /\ clock \in Nat /\ login[s].at \in Nat
      BY <1>0, CasAssumption DEF TypeOK
    <3> QED  BY <3>1, <3>2, CasAssumption
  <2>3. handler' = [handler EXCEPT ![h] = q]
    BY <1>6 DEF casLogin
  <2> HIDE DEF now
  <2>4. q \in Handler
    BY <2>1, IdleHandler DEF Handler
  <2>5. /\ q.pc = "save" /\ q.kind = "login" /\ q.service = v /\ q.session = s
        /\ q.renew = renew /\ q.now = now
    BY DEF Idle
  <2> HIDE DEF q
  <2>6. handler'[h] = q
    BY <1>0, <2>3 DEF TypeOK
  <2>7. login' = login
    BY <1>1 DEF worldVars
  <2>8. HandlerOK(h)'
    BY <1>4, <2>1, <2>2, <2>5, <2>6, <2>7 DEF HandlerOK, ToldOK
  <2> QED  BY <1>2, <1>3, <2>3, <2>4, <2>5, <2>8, HandlerStep
<1> QED  BY <1>5, <1>6

LEMMA ProxyBegins ==
    ASSUME CasInv, NEW h \in Handlers, NEW v \in Services, NEW p \in DOMAIN pgts,
           casProxy(h, p, v)
    PROVE  CasInv'
<1>0. TypeOK
  BY DEF CasInv
<1>1. UNCHANGED <<worldVars, storeVars, markers, accepted>>
  BY DEF casProxy
<1>2. LoginStep /\ RowStep
  BY <1>0, <1>1, LoginUnchanged, RowStepUnchanged DEF worldVars, storeVars
<1>3. /\ UNCHANGED <<clock, enabled, userActive>> /\ UNCHANGED <<serviceSessions, markers>>
      /\ accepted' \in [TicketId -> Nat] /\ pgts' = pgts
  BY <1>0, <1>1 DEF worldVars, storeVars, TypeOK
<1> DEFINE q == [Idle EXCEPT !.pc = "save", !.kind = "proxy", !.service = v, !.pgt = p]
<1>4. p \in 0..MaxPGTs
  BY <1>0, PGTFields, CasAssumption
<1>5. q \in Handler
  BY <1>4, IdleHandler DEF Handler
<1>6. q.pc = "save" /\ q.kind = "proxy" /\ q.service = v /\ q.pgt = p
  BY DEF Idle
<1>7. handler' = [handler EXCEPT ![h] = q] /\ handler'[h] = q
  BY <1>0 DEF casProxy, TypeOK
<1> HIDE DEF q
<1>8. HandlerOK(h)'
  BY <1>3, <1>6, <1>7 DEF HandlerOK, ToldOK
<1> QED  BY <1>2, <1>3, <1>5, <1>6, <1>7, <1>8, HandlerStep

\* A live ticket has no holder, so the request that consumes it is the only one.
LEMMA ValidationBegins ==
    ASSUME CasInv, NEW h \in Handlers, NEW v \in Services, NEW t \in DOMAIN tickets,
           NEW pgtUrl \in BOOLEAN, tickets[t].row = "live", Claimed(h, t, v, pgtUrl)
    PROVE  CasInv'
<1>0. TypeOK
  BY DEF CasInv
<1>1. /\ UNCHANGED <<clock, enabled, userActive>> /\ UNCHANGED <<serviceSessions, markers>>
      /\ UNCHANGED <<login, pgts>> /\ accepted' \in [TicketId -> Nat]
  BY <1>0 DEF Claimed, worldVars, TypeOK
<1>2. tickets' = [tickets EXCEPT ![t].row = "consumed"]
  BY DEF Claimed
<1>3. LoginStep /\ RowStep
  BY <1>0, <1>1, <1>2, LoginUnchanged, TicketRow DEF Rows
<1>4. t \in DOMAIN tickets' /\ tickets'[t].row # "live"
  <2>1. DOMAIN tickets' = DOMAIN tickets
    BY <1>0, <1>3, RowStepGrows
  <2>2. tickets[t] \in Ticket
    BY <1>0, TicketFields
  <2> QED  BY <1>2, <2>1, <2>2 DEF Ticket
<1> DEFINE q == [Idle EXCEPT !.pc = "user", !.kind = "validate", !.service = v,
                             !.ticket = t, !.pgtUrl = pgtUrl]
<1>5. t \in 0..MaxTickets
  BY <1>0, TicketFields, CasAssumption DEF TicketId
<1>6. q \in Handler
  BY <1>5, IdleHandler DEF Handler
<1>7. q.pc = "user" /\ q.service = v /\ q.ticket = t
  BY DEF Idle
<1>8. handler' = [handler EXCEPT ![h] = q] /\ handler'[h] = q
  BY <1>0 DEF Claimed, TypeOK
<1> HIDE DEF q
<1>9. HandlerOK(h)'
  BY <1>4, <1>7, <1>8 DEF HandlerOK, ToldOK
<1>10. \A k \in Handlers : Holds(k) => handler[k].ticket # t
  BY DEF CasInv, HandlerInv, HandlerOK, Holds
<1> QED  BY <1>1, <1>3, <1>6, <1>7, <1>8, <1>9, <1>10, HandlerStep

LEMMA StartsKeep ==
    ASSUME CasInv, NEW h \in Handlers, Starts(h)
    PROVE  CasInv'
<1>1. ASSUME NEW v \in Services, NEW t \in DOMAIN tickets, NEW renew \in BOOLEAN,
             NEW pgtUrl \in BOOLEAN,
             casServiceValidate(h, t, v, renew, pgtUrl) \/ casProxyValidate(h, t, v, renew, pgtUrl)
      PROVE  CasInv'
  <2>1. tickets[t].row = "live" /\ Claimed(h, t, v, pgtUrl)
    BY <1>1 DEF casServiceValidate, casProxyValidate, ConsumeServiceTicket, ConsumeProxyTicket
  <2> QED  BY <2>1, ValidationBegins
<1> QED  BY <1>1, LoginBegins, ProxyBegins DEF Starts

-----------------------------------------------------------------------------
(***************************************************************************)
(* The requests go on.                                                     *)
(***************************************************************************)
\* The end of a request that changes rows at most.
LEMMA FinishStep ==
    ASSUME CasInv, LoginStep, RowStep, UNCHANGED <<clock, enabled, userActive>>,
           UNCHANGED <<serviceSessions, markers>>, accepted' \in [TicketId -> Nat],
           NEW h \in Handlers, Finish(h)
    PROVE  CasInv'
<1>0. TypeOK /\ Grows /\ HandlerInv
  BY RowStepGrows DEF CasInv
<1>1. handler' \in [Handlers -> Handler] /\ HandlerInv'
  BY <1>0, Finished
<1>2. SmallTypes'
  BY <1>0 DEF TypeOK, SmallTypes
<1> QED  BY <1>1, <1>2, QuietStep

\* A request that holds a ticket may answer for it.
LEMMA AnswerType ==
    ASSUME TypeOK, HandlerInv, NEW h \in Handlers, Holds(h),
           accepted' = [accepted EXCEPT ![handler[h].ticket] = @ + 1]
    PROVE  accepted' \in [TicketId -> Nat]
<1>1. handler[h].ticket \in TicketId
  BY TicketFields DEF HandlerInv, HandlerOK, Holds
<1> QED  BY <1>1 DEF TypeOK

LEMMA CheckKeeps ==
    ASSUME CasInv, NEW h \in Handlers, CheckUser(h) \/ Abandon(h)
    PROVE  CasInv'
<1>0. TypeOK /\ HandlerInv
  BY DEF CasInv
<1>1. /\ UNCHANGED <<clock, enabled, userActive>> /\ UNCHANGED <<serviceSessions, markers>>
      /\ UNCHANGED <<login, tickets, pgts>>
  BY DEF CheckUser, Abandon, worldVars, storeVars
<1>2. LoginStep /\ RowStep
  BY <1>0, <1>1, LoginUnchanged, RowStepUnchanged
<1>3. CASE Abandon(h)
  <2>1. accepted' \in [TicketId -> Nat] /\ Finish(h)
    BY <1>0, <1>3 DEF Abandon, TypeOK
  <2> QED  BY <1>1, <1>2, <2>1, FinishStep
<1>4. CASE CheckUser(h) /\ ~handler[h].pgtUrl
  <2>1. accepted' \in [TicketId -> Nat]
    BY <1>0, <1>4, AnswerType DEF CheckUser, Holds
  <2>2. Finish(h)
    BY <1>4 DEF CheckUser
  <2> QED  BY <1>1, <1>2, <2>1, <2>2, FinishStep
<1>5. CASE CheckUser(h) /\ handler[h].pgtUrl
  <2> DEFINE q == [handler[h] EXCEPT !.pc = "callback"]
  <2>1. /\ handler[h].pc = "user" /\ handler[h].service \in Proxying
        /\ handler' = [handler EXCEPT ![h].pc = "callback"]
        /\ accepted' \in [TicketId -> Nat]
    BY <1>0, <1>5 DEF CheckUser, Goto, TypeOK
  <2>2. handler[h] \in Handler
    BY <1>0 DEF TypeOK
  <2>3. q \in Handler /\ q.pc = "callback" /\ q.service = handler[h].service
        /\ q.ticket = handler[h].ticket
    BY <2>2 DEF Handler
  <2>4. handler' = [handler EXCEPT ![h] = q] /\ handler'[h] = q
    BY <1>0, <2>1 DEF TypeOK
  <2> HIDE DEF q
  <2>5. HandlerOK(h)'
    BY <1>0, <1>1, <2>1, <2>3, <2>4 DEF HandlerInv, HandlerOK, ToldOK
  <2>6. \A k \in Handlers : k # h /\ Holds(k) => handler[k].ticket # q.ticket
    BY <1>0, <2>1, <2>3 DEF HandlerInv, OneHolder, Holds
  <2> QED  BY <1>1, <1>2, <2>1, <2>3, <2>4, <2>5, <2>6, HandlerStep
<1> QED  BY <1>3, <1>4, <1>5

LEMMA LogoutKeeps ==
    ASSUME CasInv, NEW h \in Handlers, LogoutList(h) \/ sendCASLogout(h)
    PROVE  CasInv'
<1>0. TypeOK /\ HandlerInv
  BY DEF CasInv
<1>1. /\ UNCHANGED <<clock, enabled, userActive>> /\ UNCHANGED <<serviceSessions, markers>>
      /\ UNCHANGED <<login, tickets, pgts>> /\ accepted' \in [TicketId -> Nat]
  BY <1>0 DEF LogoutList, sendCASLogout, worldVars, storeVars, TypeOK
<1>2. LoginStep /\ RowStep
  BY <1>0, <1>1, LoginUnchanged, RowStepUnchanged
<1>3. handler[h] \in Handler /\ handler[h].jobs \in SUBSET (Services \X TicketId)
  BY <1>0 DEF TypeOK, Handler
<1>4. /\ handler[h].pc \in {"list", "notify"}
      /\ handler[h].session \in LoginSessions /\ login[handler[h].session].status # "none"
  BY <1>0 DEF LogoutList, sendCASLogout, HandlerInv, HandlerOK
<1>5. ListServiceSessions(handler[h].session) \in SUBSET (Services \X TicketId)
  <2>1. \A v \in Services : serviceSessions[handler[h].session][v] \in 0..MaxTickets
    BY <1>0, <1>4 DEF TypeOK
  <2>2. \A v \in Services : serviceSessions[handler[h].session][v] # 0
          => serviceSessions[handler[h].session][v] \in TicketId
    BY <2>1, CasAssumption DEF TicketId
  <2> QED  BY <2>2 DEF ListServiceSessions
<1>6. PICK jobs \in SUBSET (Services \X TicketId), told \in SUBSET (Services \X TicketId),
           before \in 0..(MaxTickets + 1) :
        /\ handler' = [handler EXCEPT ![h] =
             [handler[h] EXCEPT !.pc = "notify", !.jobs = jobs, !.told = told,
                                !.before = before]]
        /\ \A t \in 1..(before - 1) :
             t \in DOMAIN tickets /\ (OfSession(h, t) => Tells(told \union jobs, t))
  <2>0. /\ handler[h].told \in SUBSET (Services \X TicketId)
        /\ handler[h].before \in 0..(MaxTickets + 1)
    BY <1>3 DEF Handler
  <2>1. CASE LogoutList(h) /\ Goto(h, "notify")
    <3>1. handler' = [handler EXCEPT ![h] =
                        [handler[h] EXCEPT !.pc = "notify", !.jobs = handler[h].jobs,
                           !.told = handler[h].told, !.before = handler[h].before]]
      BY <1>0, <1>3, <2>1 DEF Goto, Handler, TypeOK
    <3>2. handler[h].before = 0
      BY <1>0, <2>1 DEF LogoutList, HandlerInv, HandlerOK, ToldOK
    <3>3. \A t \in 1..(handler[h].before - 1) :
            /\ t \in DOMAIN tickets
            /\ OfSession(h, t) => Tells(handler[h].told \union handler[h].jobs, t)
      BY <3>2
    <3> QED  BY <1>3, <2>0, <3>1, <3>3
  <2>2. CASE LogoutList(h) /\ ~Goto(h, "notify")
    <3> DEFINE jobs == ListServiceSessions(handler[h].session)
               before == IF login[handler[h].session].status = "active"
                            THEN Len(tickets) + 1 ELSE 0
    <3>1. handler' = [handler EXCEPT ![h].pc = "notify", ![h].jobs = jobs,
                                     ![h].before = before]
      BY <2>2 DEF LogoutList
    <3>2. handler' = [handler EXCEPT ![h] = [handler[h] EXCEPT !.pc = "notify",
                        !.jobs = jobs, !.told = handler[h].told, !.before = before]]
      BY <1>0, <1>3, <3>1 DEF Handler, TypeOK
    <3>3. DOMAIN tickets = 1..Len(tickets) /\ Len(tickets) \in Nat /\ Len(tickets) <= MaxTickets
      BY <1>0, SeqDomain DEF TypeOK
    <3>4. before \in 0..(MaxTickets + 1)
      BY <3>3, CasAssumption
    <3>5. ASSUME NEW t \in 1..(before - 1)
          PROVE  t \in DOMAIN tickets /\ (OfSession(h, t) => Tells(handler[h].told \union jobs, t))
      <4>1. t \in DOMAIN tickets /\ login[handler[h].session].status = "active" /\ t \in Nat /\ t > 0
        BY <3>3, <3>5
      <4>2. ASSUME OfSession(h, t)  PROVE Tells(handler[h].told \union jobs, t)
        <5>1. serviceSessions[handler[h].session][tickets[t].service] >= t
          BY <4>1, <4>2 DEF CasInv, RowInv, OfSession
        <5>2. tickets[t].service \in Services
          BY <1>0, <4>1, TicketFields
        <5>3. serviceSessions[handler[h].session][tickets[t].service] \in 0..MaxTickets
          BY <1>0, <1>4, <5>2 DEF TypeOK
        <5>4. serviceSessions[handler[h].session][tickets[t].service] # 0
          BY <4>1, <5>1, <5>3, CasAssumption
        <5>5. <<tickets[t].service, serviceSessions[handler[h].session][tickets[t].service]>> \in jobs
          BY <5>2, <5>4 DEF ListServiceSessions
        <5> HIDE DEF jobs
        <5> QED  BY <5>1, <5>5 DEF Tells
      <4> QED  BY <4>1, <4>2
    <3> HIDE DEF jobs, before
    <3>6. jobs \in SUBSET (Services \X TicketId)
      BY <1>5 DEF jobs
    <3> QED  BY <2>0, <3>2, <3>4, <3>5, <3>6
  <2>3. CASE sendCASLogout(h)
    <3>1. PICK job \in handler[h].jobs :
            handler' = [handler EXCEPT ![h].jobs = handler[h].jobs \ {job},
                                       ![h].told = handler[h].told \union {job}]
      BY <1>0, <2>3 DEF sendCASLogout, TypeOK
    <3>2. handler[h].pc = "notify"
      BY <2>3 DEF sendCASLogout
    <3> DEFINE jobs == handler[h].jobs \ {job}
               told == handler[h].told \union {job}
    <3>3. handler' = [handler EXCEPT ![h] =
                        [handler[h] EXCEPT !.pc = "notify", !.jobs = jobs, !.told = told,
                           !.before = handler[h].before]]
      <4>1. handler \in [Handlers -> Handler]
        BY <1>0 DEF TypeOK
      <4>2. handler' = [handler EXCEPT ![h] = [handler[h] EXCEPT !.jobs = jobs, !.told = told]]
        BY <3>1, <4>1
      <4>3. [handler[h] EXCEPT !.jobs = jobs, !.told = told] =
              [handler[h] EXCEPT !.pc = "notify", !.jobs = jobs, !.told = told,
                                 !.before = handler[h].before]
        BY <1>3, <3>2 DEF Handler
      <4> QED  BY <4>2, <4>3
    <3>4. /\ told \union jobs = handler[h].told \union handler[h].jobs
          /\ jobs \in SUBSET (Services \X TicketId) /\ told \in SUBSET (Services \X TicketId)
      BY <1>3, <2>0
    <3>5. \A t \in 1..(handler[h].before - 1) :
            /\ t \in DOMAIN tickets
            /\ OfSession(h, t) => Tells(handler[h].told \union handler[h].jobs, t)
      BY <1>0, <3>2 DEF HandlerInv, HandlerOK, ToldOK
    <3> HIDE DEF jobs, told
    <3> QED  BY <2>0, <3>3, <3>4, <3>5
  <2> QED  BY <2>1, <2>2, <2>3
<1> DEFINE q == [handler[h] EXCEPT !.pc = "notify", !.jobs = jobs, !.told = told,
                                   !.before = before]
<1>7. /\ q \in Handler /\ q.pc = "notify" /\ q.session = handler[h].session
      /\ q.jobs = jobs /\ q.told = told /\ q.before = before
  BY <1>3 DEF Handler
<1>8. handler' = [handler EXCEPT ![h] = q] /\ handler'[h] = q
  BY <1>0, <1>6 DEF TypeOK
<1> HIDE DEF q
<1>9. HandlerOK(h)'
  <2>1. ToldOK(h)'
    BY <1>1, <1>6, <1>7, <1>8 DEF ToldOK, OfSession, Tells
  <2> QED  BY <1>1, <1>4, <1>7, <1>8, <2>1 DEF HandlerOK
<1> QED  BY <1>1, <1>2, <1>7, <1>8, <1>9, HandlerStep

LEMMA RevokeKeeps ==
    ASSUME CasInv, NEW h \in Handlers, RevokeLogin(h)
    PROVE  CasInv'
<1>0. TypeOK /\ HandlerInv
  BY DEF CasInv
<1>1. /\ UNCHANGED <<clock, enabled, userActive>> /\ UNCHANGED <<serviceSessions, markers>>
      /\ UNCHANGED <<tickets, pgts>> /\ accepted' \in [TicketId -> Nat]
  BY <1>0 DEF RevokeLogin, storeVars, TypeOK
<1> DEFINE s == handler[h].session
           q == [handler[h] EXCEPT !.pc = "clean"]
<1>2. /\ handler[h].pc = "notify" /\ s \in LoginSessions /\ login[s].status # "none"
  BY <1>0 DEF RevokeLogin, HandlerInv, HandlerOK
<1>3. PICK status \in {"revoked", "kept"} : login' = [login EXCEPT ![s].status = status]
  BY DEF RevokeLogin
<1>4. login[s] \in [status : {"none", "active", "kept", "expired", "revoked"}, at : 0..MaxClock]
  BY <1>0, <1>2 DEF TypeOK
<1>5. LoginStep /\ login'[s].status = status
  <2>1. login' \in LoginType
    BY <1>0, <1>2, <1>3 DEF TypeOK, LoginType
  <2>2. login'[s].status = status /\ login'[s].at = login[s].at
    BY <1>0, <1>2, <1>3, <1>4 DEF TypeOK
  <2>3. \A u \in LoginSessions : u # s => login'[u] = login[u]
    BY <1>0, <1>2, <1>3 DEF TypeOK
  <2> QED  BY <2>1, <2>2, <2>3 DEF LoginStep
<1>6. RowStep
  BY <1>0, <1>1, RowStepUnchanged
<1>7. /\ q \in Handler /\ q.pc = "clean" /\ q.session = s
      /\ q.jobs = handler[h].jobs /\ q.told = handler[h].told /\ q.before = handler[h].before
  <2>1. handler[h] \in Handler
    BY <1>0 DEF TypeOK
  <2> QED  BY <2>1 DEF Handler
<1>8. handler' = [handler EXCEPT ![h] = q] /\ handler'[h] = q
  BY <1>0 DEF RevokeLogin, Goto, TypeOK
<1> HIDE DEF q, s
<1>9. HandlerOK(h)'
  <2>1. ToldOK(h) /\ handler[h].jobs = {}
    BY <1>0 DEF RevokeLogin, HandlerInv, HandlerOK
  <2>2. ToldOK(h)'
    BY <1>1, <1>2, <1>7, <1>8, <2>1 DEF ToldOK, OfSession, Tells, s
  <2> QED  BY <1>2, <1>5, <1>7, <1>8, <2>2 DEF HandlerOK
<1> QED  BY <1>1, <1>5, <1>6, <1>7, <1>8, <1>9, HandlerStep

\* DeleteServiceSessions: the session of the rows that go is not active.
LEMMA CleanupKeeps ==
    ASSUME CasInv, NEW h \in Handlers, CleanupLogin(h)
    PROVE  CasInv'
<1>0. TypeOK /\ HandlerInv /\ TableInv /\ RowInv
  BY DEF CasInv
<1> DEFINE s == handler[h].session
<1>1. s \in LoginSessions /\ login[s].status # "active"
  BY <1>0 DEF CleanupLogin, HandlerInv, HandlerOK
<1>2. /\ UNCHANGED <<clock, enabled, userActive, login>> /\ UNCHANGED <<markers, accepted>>
      /\ Finish(h)
  BY DEF CleanupLogin, worldVars
<1>3. /\ serviceSessions' = [serviceSessions EXCEPT ![s] = [v \in Services |-> 0]]
      /\ pgts' = [p \in DOMAIN pgts |->
           IF pgts[p].session = s THEN [pgts[p] EXCEPT !.row = "deleted"] ELSE pgts[p]]
      /\ tickets' = [t \in DOMAIN tickets |->
           IF tickets[t].kind = "PT" /\ tickets[t].session = s
             THEN [tickets[t] EXCEPT !.row = "deleted"] ELSE tickets[t]]
  BY DEF CleanupLogin, DeleteServiceSessions
<1> HIDE DEF s
<1>4. RowStep
  <2>1. ASSUME NEW t \in DOMAIN tickets
        PROVE  /\ tickets'[t] \in Ticket
               /\ tickets'[t].kind = tickets[t].kind /\ tickets'[t].service = tickets[t].service
               /\ tickets'[t].session = tickets[t].session
               /\ tickets'[t].primary = tickets[t].primary
               /\ tickets'[t].proxies = tickets[t].proxies
               /\ tickets'[t].issued = tickets[t].issued /\ tickets'[t].pgt = tickets[t].pgt
               /\ tickets[t].row # "live" => tickets'[t].row # "live"
    <3>1. tickets[t] \in Ticket
      BY <1>0, TicketFields
    <3>2. tickets'[t] = tickets[t] \/ tickets'[t] = [tickets[t] EXCEPT !.row = "deleted"]
      BY <1>3
    <3>3. CASE tickets'[t] = tickets[t]
      BY <3>1, <3>3
    <3>4. CASE tickets'[t] = [tickets[t] EXCEPT !.row = "deleted"]
      BY <3>1, <3>4 DEF Ticket, Rows
    <3> QED  BY <3>2, <3>3, <3>4
  <2>2. ASSUME NEW p \in DOMAIN pgts
        PROVE  /\ pgts'[p] \in PGT
               /\ pgts'[p].service = pgts[p].service /\ pgts'[p].primary = pgts[p].primary
               /\ pgts'[p].proxies = pgts[p].proxies /\ pgts'[p].from = pgts[p].from
    <3>1. pgts[p] \in PGT
      BY <1>0, PGTFields
    <3>2. pgts'[p] = pgts[p] \/ pgts'[p] = [pgts[p] EXCEPT !.row = "deleted"]
      BY <1>3
    <3>3. CASE pgts'[p] = pgts[p]
      BY <3>1, <3>3
    <3>4. CASE pgts'[p] = [pgts[p] EXCEPT !.row = "deleted"]
      BY <3>1, <3>4 DEF PGT, Rows
    <3> QED  BY <3>2, <3>3, <3>4
  <2>3. tickets' \in [DOMAIN tickets -> Ticket] /\ pgts' \in [DOMAIN pgts -> PGT]
    BY <1>3, <2>1, <2>2
  <2>4. tickets' \in Seq(Ticket) /\ Len(tickets') = Len(tickets)
    BY <1>0, <2>3, MappedSeq DEF TypeOK
  <2>5. pgts' \in Seq(PGT) /\ Len(pgts') = Len(pgts)
    BY <1>0, <2>3, MappedSeq DEF TypeOK
  <2> QED  BY <2>1, <2>2, <2>4, <2>5 DEF RowStep
<1>5. LoginStep /\ Grows /\ DOMAIN tickets' = DOMAIN tickets
  BY <1>0, <1>2, <1>4, LoginUnchanged, RowStepGrows
<1>6. handler' \in [Handlers -> Handler] /\ HandlerInv'
  BY <1>0, <1>2, <1>5, Finished
<1>7. TableInv'
  BY <1>0, <1>4, <1>5, TablesStay
<1>8. RowInv'
  <2>1. ASSUME NEW t \in DOMAIN tickets, tickets'[t].kind = "ST",
               login'[tickets'[t].session].status = "active"
        PROVE  serviceSessions'[tickets'[t].session][tickets'[t].service] >= t
    <3>1. /\ tickets'[t].kind = tickets[t].kind /\ tickets'[t].session = tickets[t].session
          /\ tickets'[t].service = tickets[t].service
      BY <1>4 DEF RowStep
    <3>2. tickets[t].session # s
      BY <1>1, <1>2, <2>1, <3>1
    <3>3. serviceSessions'[tickets[t].session] = serviceSessions[tickets[t].session]
      BY <1>0, <1>3, <3>2, TicketFields DEF TypeOK
    <3> QED  BY <1>0, <1>2, <2>1, <3>1, <3>3 DEF RowInv
  <2> QED  BY <1>5, <2>1 DEF RowInv
<1>9. serviceSessions' \in [LoginSessions -> [Services -> 0..MaxTickets]]
  <2>1. [v \in Services |-> 0] \in [Services -> 0..MaxTickets]
    BY CasAssumption
  <2> QED  BY <1>0, <1>1, <1>3, <2>1 DEF TypeOK
<1>10. TypeOK'
  BY <1>0, <1>2, <1>4, <1>5, <1>6, <1>9 DEF TypeOK, LoginStep, LoginType, RowStep
<1> QED  BY <1>6, <1>7, <1>8, <1>10 DEF CasInv

-----------------------------------------------------------------------------
(***************************************************************************)
(* New rows.                                                               *)
(***************************************************************************)
LEMMA ChainIsSeq ==
    ASSUME NEW c
    PROVE  c \in Chains <=> c \in Seq(Services) /\ Len(c) <= MaxPGTs
<1>1. ASSUME c \in Chains  PROVE c \in Seq(Services) /\ Len(c) <= MaxPGTs
  <2>1. PICK n \in 0..MaxPGTs : c \in [1..n -> Services]
    BY <1>1 DEF Chains
  <2>2. n \in Nat /\ n <= MaxPGTs
    BY CasAssumption
  <2>3. c \in Seq(Services) /\ Len(c) = n
    BY <2>1, <2>2
  <2> QED  BY <2>2, <2>3
<1>2. ASSUME c \in Seq(Services), Len(c) <= MaxPGTs  PROVE c \in Chains
  <2>1. Len(c) \in 0..MaxPGTs /\ c \in [1..Len(c) -> Services]
    BY <1>2, CasAssumption
  <2> QED  BY <2>1 DEF Chains
<1> QED  BY <1>1, <1>2

\* A ticket of either kind is added; the others are untouched.
LEMMA TicketAdded ==
    ASSUME TypeOK, TableInv, NEW e \in Ticket, tickets' = Append(tickets, e),
           Len(tickets) < MaxTickets, UNCHANGED <<login, pgts>>,
           NEW n, n = Len(tickets) + 1, TicketOK(n)'
    PROVE  /\ TableInv' /\ LoginStep /\ Grows
           /\ tickets' \in Seq(Ticket) /\ Len(tickets') <= MaxTickets
<1>1. tickets \in Seq(Ticket) /\ DOMAIN tickets = 1..Len(tickets) /\ Len(tickets) \in Nat
  BY SeqDomain DEF TypeOK
<1>2. /\ tickets' \in Seq(Ticket) /\ Len(tickets') = Len(tickets) + 1
      /\ DOMAIN tickets' = 1..(Len(tickets) + 1)
      /\ \A t \in DOMAIN tickets : tickets'[t] = tickets[t]
  BY <1>1, AppendSeq
<1>3. DOMAIN tickets' = DOMAIN tickets \union {n}
  BY <1>1, <1>2
<1>4. ASSUME NEW t \in DOMAIN tickets  PROVE TicketOK(t)'
  <2>1. TicketOK(t) /\ tickets'[t] = tickets[t]
    BY <1>2 DEF TableInv
  <2> QED  BY <2>1 DEF TicketOK, Fresh
<1>5. \A p \in DOMAIN pgts : PGTOK(p)'
  BY <1>2, <1>3 DEF TableInv, PGTOK
<1>6. TableInv'
  BY <1>3, <1>4, <1>5 DEF TableInv
<1>7. LoginStep /\ Grows
  BY <1>2, <1>3, LoginUnchanged DEF Grows
<1> QED  BY <1>1, <1>2, <1>6, <1>7, CasAssumption

LEMMA LoginSaveKeeps ==
    ASSUME CasInv, NEW h \in Handlers, casLoginSave(h)
    PROVE  CasInv'
<1>0. TypeOK /\ HandlerInv /\ TableInv /\ RowInv
  BY DEF CasInv
<1> PICK n : n = Len(tickets) + 1
  OBVIOUS
<1> DEFINE s == handler[h].session
           v == handler[h].service
           e == [kind |-> "ST", service |-> v, session |-> s, primary |-> handler[h].renew,
                 proxies |-> <<>>, row |-> "live", issued |-> handler[h].now, pgt |-> 0]
<1>1. /\ s \in LoginSessions /\ v \in Services /\ login[s].status # "none"
      /\ handler[h].renew => handler[h].now - login[s].at < MarkerLife
  BY <1>0 DEF casLoginSave, HandlerInv, HandlerOK
<1>2. handler[h].now \in 0..MaxClock /\ handler[h].renew \in BOOLEAN
  BY <1>0 DEF TypeOK, Handler
<1>3. <<>> \in Chains /\ 0 \in 0..MaxPGTs
  <2>1. <<>> \in Seq(Services) /\ Len(<<>>) = 0
    OBVIOUS
  <2>2. 0 <= MaxPGTs /\ 0 \in 0..MaxPGTs
    BY CasAssumption
  <2> QED  BY <2>1, <2>2, ChainIsSeq
<1>4. e \in Ticket
  BY <1>1, <1>2, <1>3 DEF Ticket, Rows
<1>5. /\ tickets' = Append(tickets, e) /\ Len(tickets) < MaxTickets
      /\ serviceSessions' = [serviceSessions EXCEPT ![s][v] = n]
      /\ UNCHANGED <<login, pgts>> /\ UNCHANGED <<clock, enabled, userActive>>
      /\ UNCHANGED <<markers, accepted>> /\ Finish(h)
  BY DEF casLoginSave, SaveServiceTicket, worldVars
<1>6. /\ e.kind = "ST" /\ e.service = v /\ e.session = s /\ e.primary = handler[h].renew
      /\ e.proxies = <<>> /\ e.issued = handler[h].now
  OBVIOUS
<1> HIDE DEF e, s, v
<1>7. tickets \in Seq(Ticket) /\ DOMAIN tickets = 1..Len(tickets) /\ Len(tickets) \in Nat
  BY <1>0, SeqDomain DEF TypeOK
<1>8. /\ DOMAIN tickets' = 1..n /\ tickets'[n] = e
      /\ \A t \in DOMAIN tickets : tickets'[t] = tickets[t]
  BY <1>4, <1>5, <1>7, AppendSeq
<1>9. TicketOK(n)'
  BY <1>1, <1>5, <1>6, <1>8 DEF TicketOK, Fresh
<1>10. /\ TableInv' /\ LoginStep /\ Grows
       /\ tickets' \in Seq(Ticket) /\ Len(tickets') <= MaxTickets
  BY <1>0, <1>4, <1>5, <1>9, TicketAdded
<1>11. handler' \in [Handlers -> Handler] /\ HandlerInv'
  BY <1>0, <1>5, <1>10, Finished
<1>12. n \in 0..MaxTickets
  BY <1>5, <1>7, CasAssumption
<1>13. serviceSessions' \in [LoginSessions -> [Services -> 0..MaxTickets]]
  BY <1>0, <1>1, <1>5, <1>12 DEF TypeOK
<1>14. RowInv'
  <2>1. serviceSessions'[s][v] = n
    BY <1>0, <1>1, <1>5 DEF TypeOK
  <2>2. \A x \in LoginSessions, w \in Services :
          <<x, w>> # <<s, v>> => serviceSessions'[x][w] = serviceSessions[x][w]
    BY <1>0, <1>1, <1>5 DEF TypeOK
  <2>3. ASSUME NEW t \in DOMAIN tickets, tickets[t].kind = "ST",
               login[tickets[t].session].status = "active"
        PROVE  serviceSessions'[tickets[t].session][tickets[t].service] >= t
    <3>1. tickets[t].session \in LoginSessions /\ tickets[t].service \in Services
      BY <1>0, TicketFields
    <3>2. CASE tickets[t].session = s /\ tickets[t].service = v
      BY <1>7, <2>1, <3>2
    <3>3. CASE ~(tickets[t].session = s /\ tickets[t].service = v)
      BY <1>0, <2>2, <2>3, <3>1, <3>3 DEF RowInv
    <3> QED  BY <3>2, <3>3
  <2>4. \A t \in 1..n : t \in DOMAIN tickets \/ t = n
    BY <1>7
  <2>5. n >= n
    BY <1>7
  <2> QED  BY <1>5, <1>6, <1>8, <2>1, <2>3, <2>4, <2>5 DEF RowInv
<1>15. TypeOK'
  BY <1>0, <1>5, <1>10, <1>11, <1>13 DEF TypeOK
<1> QED  BY <1>10, <1>11, <1>14, <1>15 DEF CasInv

\* The chain of a proxy ticket is no longer than its PGT is late.
LEMMA ChainGrows ==
    ASSUME TypeOK, TableInv, NEW p \in DOMAIN pgts
    PROVE  /\ <<pgts[p].service>> \o pgts[p].proxies \in Chains
           /\ Len(<<pgts[p].service>> \o pgts[p].proxies) <= p
<1>1. /\ pgts[p].service \in Services /\ pgts[p].proxies \in Seq(Services)
      /\ p \in 1..MaxPGTs /\ Len(pgts[p].proxies) < p
  BY PGTFields, ChainIsSeq DEF TableInv, PGTOK
<1>2. /\ <<pgts[p].service>> \o pgts[p].proxies \in Seq(Services)
      /\ Len(<<pgts[p].service>> \o pgts[p].proxies) = 1 + Len(pgts[p].proxies)
      /\ Len(pgts[p].proxies) \in Nat
  BY <1>1
<1>3. Len(<<pgts[p].service>> \o pgts[p].proxies) <= p /\ p <= MaxPGTs
  BY <1>1, <1>2, CasAssumption
<1> DEFINE chain == <<pgts[p].service>> \o pgts[p].proxies
<1>4. chain \in Seq(Services) /\ Len(chain) <= p /\ Len(chain) <= MaxPGTs
  BY <1>1, <1>2, <1>3, CasAssumption
<1> HIDE DEF chain
<1>5. chain \in Chains
  BY <1>4, ChainIsSeq
<1> QED  BY <1>4, <1>5 DEF chain

LEMMA ProxySaveKeeps ==
    ASSUME CasInv, NEW h \in Handlers, casProxySave(h)
    PROVE  CasInv'
<1>0. TypeOK /\ HandlerInv /\ TableInv /\ RowInv
  BY DEF CasInv
<1> PICK n : n = Len(tickets) + 1
  OBVIOUS
<1> DEFINE p == handler[h].pgt
           v == handler[h].service
           chain == <<pgts[p].service>> \o pgts[p].proxies
           e == [kind |-> "PT", service |-> v, session |-> pgts[p].session,
                 primary |-> pgts[p].primary, proxies |-> chain, row |-> "live",
                 issued |-> 0, pgt |-> p]
<1>1. p \in DOMAIN pgts /\ v \in Services
  BY <1>0 DEF casProxySave, HandlerInv, HandlerOK
<1>2. /\ pgts[p].session \in LoginSessions /\ pgts[p].primary \in BOOLEAN
      /\ chain \in Chains /\ p \in 0..MaxPGTs /\ 0 \in 0..MaxClock
  BY <1>0, <1>1, PGTFields, ChainGrows, CasAssumption
<1>3. /\ tickets' = Append(tickets, e) /\ Len(tickets) < MaxTickets
      /\ UNCHANGED serviceSessions
      /\ UNCHANGED <<login, pgts>> /\ UNCHANGED <<clock, enabled, userActive>>
      /\ UNCHANGED <<markers, accepted>> /\ Finish(h)
  BY DEF casProxySave, SaveProxyTicket, worldVars
<1>4. /\ e.kind = "PT" /\ e.primary = pgts[p].primary /\ e.proxies = chain /\ e.pgt = p
  OBVIOUS
<1> HIDE DEF chain
<1>5. e \in Ticket
  BY <1>1, <1>2 DEF Ticket, Rows
<1> HIDE DEF e, v, p
<1>6. tickets \in Seq(Ticket) /\ DOMAIN tickets = 1..Len(tickets) /\ Len(tickets) \in Nat
  BY <1>0, SeqDomain DEF TypeOK
<1>7. /\ DOMAIN tickets' = 1..n /\ tickets'[n] = e
      /\ \A t \in DOMAIN tickets : tickets'[t] = tickets[t]
  BY <1>3, <1>5, <1>6, AppendSeq
<1>8. pgts[p].from < n
  BY <1>0, <1>1, <1>6 DEF TableInv, PGTOK
<1>9. TicketOK(n)'
  BY <1>1, <1>3, <1>4, <1>7, <1>8 DEF TicketOK, chain
<1>10. /\ TableInv' /\ LoginStep /\ Grows
       /\ tickets' \in Seq(Ticket) /\ Len(tickets') <= MaxTickets
  BY <1>0, <1>3, <1>5, <1>9, TicketAdded
<1>11. handler' \in [Handlers -> Handler] /\ HandlerInv'
  BY <1>0, <1>3, <1>10, Finished
<1>12. RowInv'
  <2>1. \A t \in 1..n : t \in DOMAIN tickets \/ t = n
    BY <1>6
  <2> QED  BY <1>0, <1>3, <1>4, <1>7, <2>1 DEF RowInv
<1>13. TypeOK'
  BY <1>0, <1>3, <1>10, <1>11 DEF TypeOK
<1> QED  BY <1>10, <1>11, <1>12, <1>13 DEF CasInv

LEMMA GrantKeeps ==
    ASSUME CasInv, NEW h \in Handlers, issueProxyGrantingTicket(h)
    PROVE  CasInv'
<1>0. TypeOK /\ HandlerInv /\ TableInv /\ RowInv
  BY DEF CasInv
<1> PICK n : n = Len(pgts) + 1
  OBVIOUS
<1> DEFINE t == handler[h].ticket
           v == handler[h].service
           e == [service |-> v, session |-> tickets[t].session,
                 primary |-> tickets[t].primary, proxies |-> tickets[t].proxies,
                 row |-> "live", from |-> t]
<1>1. t \in DOMAIN tickets /\ v \in Services /\ v \in Proxying /\ Holds(h)
  BY <1>0 DEF issueProxyGrantingTicket, HandlerInv, HandlerOK, Holds
<1>2. e \in PGT
  BY <1>0, <1>1, TicketFields DEF PGT, Rows
<1>3. /\ pgts' = Append(pgts, e) /\ Len(pgts) < MaxPGTs
      /\ UNCHANGED <<serviceSessions, tickets, login>>
      /\ UNCHANGED <<clock, enabled, userActive>>
      /\ UNCHANGED markers /\ Finish(h)
      /\ accepted' = [accepted EXCEPT ![handler[h].ticket] = @ + 1]
  BY DEF issueProxyGrantingTicket, SaveProxyGrantingTicket, worldVars
<1>4. /\ e.service = v /\ e.primary = tickets[t].primary /\ e.proxies = tickets[t].proxies
      /\ e.from = t
  OBVIOUS
<1>5. accepted' \in [TicketId -> Nat]
  BY <1>0, <1>1, <1>3, AnswerType
<1> HIDE DEF e, v, t
<1>6. pgts \in Seq(PGT) /\ DOMAIN pgts = 1..Len(pgts) /\ Len(pgts) \in Nat
  BY <1>0, SeqDomain DEF TypeOK
<1>7. /\ pgts' \in Seq(PGT) /\ Len(pgts') = n
      /\ DOMAIN pgts' = 1..n /\ pgts'[n] = e
      /\ \A p \in DOMAIN pgts : pgts'[p] = pgts[p]
  BY <1>2, <1>3, <1>6, AppendSeq
<1>8. DOMAIN pgts' = DOMAIN pgts \union {n}
  BY <1>6, <1>7
<1>9. Len(tickets[t].proxies) < n
  <2>1. CASE tickets[t].kind = "ST"
    <3>1. tickets[t].proxies = <<>>
      BY <1>0, <1>1, <2>1 DEF TableInv, TicketOK
    <3> QED  BY <1>6, <3>1
  <2>2. CASE tickets[t].kind = "PT"
    <3>1. /\ tickets[t].pgt \in DOMAIN pgts
          /\ tickets[t].proxies = <<pgts[tickets[t].pgt].service>> \o pgts[tickets[t].pgt].proxies
      BY <1>0, <1>1, <2>2 DEF TableInv, TicketOK
    <3>2. Len(tickets[t].proxies) <= tickets[t].pgt
      BY <1>0, <3>1, ChainGrows
    <3>3. tickets[t].proxies \in Seq(Services)
      BY <1>0, <1>1, TicketFields, ChainIsSeq
    <3> QED  BY <1>6, <3>1, <3>2, <3>3
  <2> QED  BY <1>0, <1>1, <2>1, <2>2, TicketFields
<1>10. PGTOK(n)'
  BY <1>1, <1>3, <1>4, <1>7, <1>9 DEF PGTOK
<1>11. \A p \in DOMAIN pgts : PGTOK(p)'
  BY <1>0, <1>3, <1>7 DEF TableInv, PGTOK
<1>12. \A u \in DOMAIN tickets : TicketOK(u)'
  BY <1>0, <1>3, <1>7, <1>8 DEF TableInv, TicketOK, Fresh
<1>13. TableInv'
  BY <1>3, <1>8, <1>10, <1>11, <1>12 DEF TableInv
<1>14. LoginStep /\ Grows
  BY <1>0, <1>3, <1>8, LoginUnchanged DEF Grows
<1>15. handler' \in [Handlers -> Handler] /\ HandlerInv'
  BY <1>0, <1>3, <1>14, Finished
<1>16. RowInv'
  BY <1>0, <1>3 DEF RowInv
<1>17. Len(pgts') <= MaxPGTs
  BY <1>3, <1>6, <1>7, CasAssumption
<1>18. TypeOK'
  BY <1>0, <1>3, <1>5, <1>7, <1>15, <1>17 DEF TypeOK
<1> QED  BY <1>13, <1>15, <1>16, <1>18 DEF CasInv

-----------------------------------------------------------------------------
LEMMA CasInitial == Init => CasInv
<1> SUFFICES ASSUME Init  PROVE CasInv
  OBVIOUS
<1>1. DOMAIN tickets = {} /\ DOMAIN pgts = {}
  BY DEF Init
<1>2. \A h \in Handlers : handler[h] = Idle /\ handler[h].pc = "idle"
  BY DEF Init, Idle
<1>3. TypeOK
  <2>1. handler \in [Handlers -> Handler]
    BY IdleHandler DEF Init
  <2>2. /\ clock \in 0..MaxClock /\ enabled \subseteq Services /\ userActive \in BOOLEAN
        /\ markers \subseteq [service : Services, iat : 0..MaxClock]
        /\ accepted \in [TicketId -> Nat]
        /\ serviceSessions \in [LoginSessions -> [Services -> 0..MaxTickets]]
    BY CasAssumption DEF Init
  <2>3. /\ tickets \in Seq(Ticket) /\ Len(tickets) <= MaxTickets
        /\ pgts \in Seq(PGT) /\ Len(pgts) <= MaxPGTs
    BY CasAssumption DEF Init
  <2>4. login \in LoginType
    BY CasAssumption DEF Init, LoginType
  <2> QED  BY <2>1, <2>2, <2>3, <2>4 DEF TypeOK, LoginType
<1>4. TableInv /\ RowInv
  BY <1>1 DEF TableInv, RowInv
<1>5. HandlerInv
  BY <1>2 DEF HandlerInv, HandlerOK, ToldOK, OneHolder, Holds
<1> QED  BY <1>3, <1>4, <1>5 DEF CasInv

LEMMA CasStep == CasInv /\ [Next]_vars => CasInv'
<1> SUFFICES ASSUME CasInv, [Next]_vars  PROVE CasInv'
  OBVIOUS
<1>1. CASE Environment
  BY <1>1, WorldKeeps, ExpiryKeeps DEF Environment
<1>2. ASSUME NEW h \in Handlers, Continues(h)
      PROVE  CasInv'
  BY <1>2, LoginSaveKeeps, CheckKeeps, GrantKeeps, ProxySaveKeeps, LogoutKeeps, RevokeKeeps,
     CleanupKeeps DEF Continues
<1>3. CASE UNCHANGED vars
  <2>1. TypeOK /\ UNCHANGED <<login, tickets, pgts, handler, serviceSessions>> /\ SmallTypes'
    BY <1>3 DEF vars, worldVars, storeVars, CasInv, TypeOK, SmallTypes
  <2>2. LoginStep /\ RowStep /\ Grows
    BY <2>1, LoginUnchanged, RowStepUnchanged, RowStepGrows
  <2>3. HandlerInv' /\ handler' \in [Handlers -> Handler]
    BY <2>1, <2>2, HandlersStay DEF CasInv, TypeOK
  <2> QED  BY <2>1, <2>2, <2>3, QuietStep
<1> QED  BY <1>1, <1>2, <1>3, StartsKeep DEF Next

LEMMA CasInvariant == Spec => []CasInv
BY CasInitial, CasStep, PTL DEF Spec

\* The tables, the requests and the counters are well formed; in particular no
\* chain of proxies is longer than there are PGTs.
THEOREM CasTypes == Spec => []TypeOK
<1>1. CasInv => TypeOK
  BY DEF CasInv
<1> QED  BY <1>1, CasInvariant, PTL

\* A logout that read its list while the session was active has told, when it cleans
\* up, the services of all service tickets that were saved by then (SaveServiceTicket
\* writes the row in the transaction of the ticket; cleanupRevokedSessions deletes rows
\* of sessions that are no longer active only).
THEOREM LogoutTellsListed == Spec => []LogoutTells
<1>1. CasInv => LogoutTells
  <2> SUFFICES ASSUME CasInv, NEW h \in Handlers, handler[h].pc = "clean",
                      NEW t \in 1..(handler[h].before - 1), OfSession(h, t)
               PROVE  Tells(handler[h].told, t)
    BY DEF LogoutTells
  <2>1. ToldOK(h)
    BY DEF CasInv, HandlerInv, HandlerOK
  <2>2. handler[h].told \union handler[h].jobs = handler[h].told
    BY <2>1 DEF ToldOK
  <2> QED  BY <2>1, <2>2 DEF ToldOK
<1> QED  BY <1>1, CasInvariant, PTL

-----------------------------------------------------------------------------
(***************************************************************************)
(* Chains of proxies.                                                      *)
(***************************************************************************)
\* Where a proxy ticket comes from.
Origin(t) == pgts[tickets[t].pgt].from

LEMMA OriginIsEarlier ==
    ASSUME CasInv, NEW t \in DOMAIN tickets, tickets[t].kind # "ST"
    PROVE  /\ tickets[t].pgt \in DOMAIN pgts
           /\ Origin(t) \in DOMAIN tickets /\ Origin(t) < t
           /\ tickets[t].proxies = <<pgts[tickets[t].pgt].service>> \o tickets[Origin(t)].proxies
           /\ tickets[t].primary = tickets[Origin(t)].primary
           /\ pgts[tickets[t].pgt].service \in Proxying
<1>1. TicketOK(t) /\ tickets[t].kind = "PT"
  BY TicketFields DEF CasInv, TableInv
<1>2. tickets[t].pgt \in DOMAIN pgts /\ PGTOK(tickets[t].pgt)
  BY <1>1 DEF CasInv, TableInv, TicketOK
<1> QED  BY <1>1, <1>2 DEF TicketOK, PGTOK, Origin

\* A set of tickets that is not empty has a first one.
LEMMA FirstTicket ==
    ASSUME TypeOK, NEW S, S \subseteq DOMAIN tickets, S # {}
    PROVE  \E t \in S : \A u \in DOMAIN tickets : u < t => u \notin S
<1>1. DOMAIN tickets \subseteq Nat
  BY SeqDomain DEF TypeOK
<1>2. IsWellFoundedOn(OpToRel(<, Nat), Nat)
  BY NatLessThanWellFounded
<1>3. PICK t \in S : \A u \in S : <<u, t>> \notin OpToRel(<, Nat)
  BY <1>1, <1>2, WFMin
<1>4. \A u \in S : ~(u < t)
  BY <1>1, <1>3 DEF OpToRel
<1> QED  BY <1>4

\* The chain that each ticket records satisfies the definition of Path, so Path is
\* defined by its equation.
LEMMA PathEquation ==
    ASSUME CasInv
    PROVE  \A t \in DOMAIN tickets :
             Path[t] = IF tickets[t].kind = "ST" THEN <<>>
                       ELSE <<pgts[tickets[t].pgt].service>> \o Path[Origin(t)]
<1> DEFINE Step(f) == [t \in DOMAIN tickets |->
             IF tickets[t].kind = "ST" THEN <<>>
             ELSE <<pgts[tickets[t].pgt].service>> \o f[Origin(t)]]
           recorded == [t \in DOMAIN tickets |-> tickets[t].proxies]
<1>1. recorded = Step(recorded)
  <2>1. ASSUME NEW t \in DOMAIN tickets
        PROVE  recorded[t] = Step(recorded)[t]
    <3>1. CASE tickets[t].kind = "ST"
      BY <3>1 DEF CasInv, TableInv, TicketOK
    <3>2. CASE tickets[t].kind # "ST"
      BY <3>2, OriginIsEarlier
    <3> QED  BY <3>1, <3>2
  <2> QED  BY <2>1
<1>2. Path = CHOOSE f : f = Step(f)
  BY DEF Path, Origin
<1> HIDE DEF recorded
<1>3. Path = Step(Path)
  <2> HIDE DEF Step
  <2> QED  BY <1>1, <1>2
<1> QED  BY <1>3

LEMMA PathIsRecorded ==
    ASSUME CasInv
    PROVE  \A t \in DOMAIN tickets : Path[t] = tickets[t].proxies
<1> DEFINE Bad == {t \in DOMAIN tickets : Path[t] # tickets[t].proxies}
<1> SUFFICES ASSUME Bad # {}  PROVE FALSE
  OBVIOUS
<1>1. PICK t \in Bad : \A u \in DOMAIN tickets : u < t => u \notin Bad
  BY FirstTicket DEF CasInv
<1>2. CASE tickets[t].kind = "ST"
  BY <1>2, PathEquation DEF CasInv, TableInv, TicketOK
<1>3. CASE tickets[t].kind # "ST"
  <2>1. Path[Origin(t)] = tickets[Origin(t)].proxies
    BY <1>1, <1>3, OriginIsEarlier
  <2> QED  BY <1>3, <2>1, PathEquation, OriginIsEarlier
<1> QED  BY <1>2, <1>3

LEMMA ChainsMayProxy ==
    ASSUME CasInv, NEW t \in DOMAIN tickets, NEW i \in DOMAIN tickets[t].proxies
    PROVE  tickets[t].proxies[i] \in Proxying
<1> DEFINE Bad == {u \in DOMAIN tickets :
                      \E j \in DOMAIN tickets[u].proxies : tickets[u].proxies[j] \notin Proxying}
<1> SUFFICES ASSUME Bad # {}  PROVE FALSE
  OBVIOUS
<1>1. PICK u \in Bad : \A x \in DOMAIN tickets : x < u => x \notin Bad
  BY FirstTicket DEF CasInv
<1>2. PICK j \in DOMAIN tickets[u].proxies : tickets[u].proxies[j] \notin Proxying
  OBVIOUS
<1>3. tickets[u].kind # "ST"
  <2>1. tickets[u].kind = "ST" => tickets[u].proxies = <<>>
    BY DEF CasInv, TableInv, TicketOK
  <2>2. DOMAIN << >> = {}
    OBVIOUS
  <2> QED  BY <1>2, <2>1, <2>2
<1> DEFINE c == tickets[Origin(u)].proxies
           v == pgts[tickets[u].pgt].service
<1>4. /\ Origin(u) \in DOMAIN tickets /\ Origin(u) < u
      /\ tickets[u].proxies = <<v>> \o c /\ v \in Proxying
  BY <1>3, OriginIsEarlier
<1>5. \A k \in DOMAIN c : c[k] \in Proxying
  BY <1>1, <1>4
<1>6. c \in Seq(Services) /\ v \in Services
  BY <1>4, TicketFields, ChainIsSeq, CasAssumption DEF CasInv
<1> HIDE DEF c, v
<1>7. \A k \in DOMAIN (<<v>> \o c) : (<<v>> \o c)[k] \in Proxying
  <2> SUFFICES ASSUME NEW k \in DOMAIN (<<v>> \o c)  PROVE (<<v>> \o c)[k] \in Proxying
    OBVIOUS
  <2>1. CASE k = 1
    BY <1>4, <1>6, <2>1
  <2>2. CASE k # 1
    <3>1. k - 1 \in DOMAIN c /\ (<<v>> \o c)[k] = c[k - 1]
      BY <1>6, <2>2
    <3> QED  BY <1>5, <3>1
  <2> QED  BY <2>1, <2>2
<1> QED  BY <1>2, <1>4, <1>7

\* casProxyValidate reports the services a ticket came through, in order, and
\* each of them may proxy, for chains of any length.
THEOREM ChainsAreTrue == Spec => []ProxyChainIsTrue
<1>1. ASSUME CasInv  PROVE ProxyChainIsTrue
  <2>1. \A p \in DOMAIN pgts : pgts[p].proxies = Path[pgts[p].from]
    BY <1>1, PathIsRecorded DEF CasInv, TableInv, PGTOK
  <2> QED  BY <1>1, <2>1, PathIsRecorded, ChainsMayProxy DEF ProxyChainIsTrue
<1> QED  BY <1>1, CasInvariant, PTL

\* Roots of the first n tickets, from those of the first n - 1.
LEMMA RootsExist ==
    ASSUME CasInv
    PROVE  \E f : f = [t \in DOMAIN tickets |->
                         IF tickets[t].kind = "ST" THEN t ELSE f[Origin(t)]]
<1>0. DOMAIN tickets = 1..Len(tickets) /\ Len(tickets) \in Nat
  BY SeqDomain DEF CasInv, TypeOK
<1> DEFINE Roots(n, f) ==
             f = [t \in 1..n |-> IF tickets[t].kind = "ST" THEN t ELSE f[Origin(t)]]
           Bad == {n \in 0..Len(tickets) : ~ \E f : Roots(n, f)}
<1>1. ASSUME Bad # {}  PROVE FALSE
  <2>1. PICK m \in Bad : \A n \in Bad : <<n, m>> \notin OpToRel(<, Nat)
    <3>1. Bad \subseteq Nat
      BY <1>0
    <3> HIDE DEF Bad
    <3> QED  BY <1>1, <3>1, NatLessThanWellFounded, WFMin
  <2>2. m # 0
    <3>1. Roots(0, [t \in 1..0 |-> 0])
      OBVIOUS
    <3> QED  BY <3>1
  <2>3. m \in 1..Len(tickets) /\ m - 1 \in 0..Len(tickets) /\ m - 1 \in Nat /\ m \in Nat
    BY <1>0, <2>2
  <2>4. m - 1 \notin Bad
    <3>1. <<m - 1, m>> \in OpToRel(<, Nat)
      BY <2>3 DEF OpToRel
    <3> HIDE DEF Bad
    <3> QED  BY <2>1, <3>1
  <2>5. PICK f : Roots(m - 1, f)
    BY <2>3, <2>4
  <2> DEFINE g == [t \in 1..m |-> IF t = m
                     THEN IF tickets[m].kind = "ST" THEN m ELSE f[Origin(m)]
                     ELSE f[t]]
  <2>6. ASSUME NEW t \in 1..m
        PROVE  g[t] = IF tickets[t].kind = "ST" THEN t ELSE g[Origin(t)]
    <3>1. t \in DOMAIN tickets
      BY <1>0, <2>3
    <3>2. tickets[t].kind # "ST" => Origin(t) \in 1..m /\ Origin(t) # m /\ g[Origin(t)] = f[Origin(t)]
      <4> SUFFICES ASSUME tickets[t].kind # "ST"
                   PROVE  Origin(t) \in 1..m /\ Origin(t) # m /\ g[Origin(t)] = f[Origin(t)]
        OBVIOUS
      <4>1. Origin(t) \in DOMAIN tickets /\ Origin(t) < t
        BY <3>1, OriginIsEarlier
      <4>2. Origin(t) \in 1..m /\ Origin(t) # m
        BY <1>0, <2>3, <4>1
      <4> QED  BY <4>2
    <3>3. CASE t = m
      BY <3>2, <3>3
    <3>4. CASE t # m
      <4>1. t \in 1..(m - 1)
        BY <2>3, <3>4
      <4>2. f[t] = IF tickets[t].kind = "ST" THEN t ELSE f[Origin(t)]
        BY <2>5, <4>1
      <4>3. g[t] = f[t]
        BY <3>4
      <4> QED  BY <3>2, <4>2, <4>3
    <3> QED  BY <3>3, <3>4
  <2>7. Roots(m, g)
    BY <2>6
  <2> QED  BY <2>1, <2>7
<1>2. \E f : Roots(Len(tickets), f)
  BY <1>0, <1>1
<1> QED  BY <1>0, <1>2

LEMMA RootEquation ==
    ASSUME CasInv
    PROVE  \A t \in DOMAIN tickets :
             Root[t] = IF tickets[t].kind = "ST" THEN t ELSE Root[Origin(t)]
<1> DEFINE Step(f) == [t \in DOMAIN tickets |->
             IF tickets[t].kind = "ST" THEN t ELSE f[Origin(t)]]
<1>1. \E f : f = Step(f)
  BY RootsExist
<1>2. Root = CHOOSE f : f = Step(f)
  BY DEF Root, Origin
<1>3. Root = Step(Root)
  <2> HIDE DEF Step
  <2> QED  BY <1>1, <1>2
<1> QED  BY <1>3

LEMMA RootIsServiceTicket ==
    ASSUME CasInv
    PROVE  \A t \in DOMAIN tickets :
             /\ Root[t] \in DOMAIN tickets /\ tickets[Root[t]].kind = "ST"
             /\ tickets[Root[t]].primary = tickets[t].primary
<1> DEFINE Good(t) ==
             /\ Root[t] \in DOMAIN tickets /\ tickets[Root[t]].kind = "ST"
             /\ tickets[Root[t]].primary = tickets[t].primary
           Bad == {t \in DOMAIN tickets : ~Good(t)}
<1> SUFFICES ASSUME Bad # {}  PROVE FALSE
  OBVIOUS
<1>1. PICK t \in Bad : \A u \in DOMAIN tickets : u < t => u \notin Bad
  BY FirstTicket DEF CasInv
<1>2. CASE tickets[t].kind = "ST"
  BY <1>2, RootEquation
<1>3. CASE tickets[t].kind # "ST"
  <2>1. Good(Origin(t))
    BY <1>1, <1>3, OriginIsEarlier
  <2> QED  BY <1>3, <2>1, RootEquation, OriginIsEarlier
<1> QED  BY <1>2, <1>3

\* A ticket that passes a validation with renew goes back to a service ticket that
\* casLogin issued soon after the user typed the password, however many services
\* it passed through.
THEOREM PrimaryFresh == Spec => []PrimaryIsFresh
<1>1. ASSUME CasInv, NEW t \in DOMAIN tickets, tickets[t].primary
      PROVE  /\ tickets[Root[t]].primary
             /\ tickets[Root[t]].issued - login[tickets[Root[t]].session].at < MarkerLife
  BY <1>1, RootIsServiceTicket DEF CasInv, TableInv, TicketOK, Fresh
<1>2. CasInv => PrimaryIsFresh
  BY <1>1 DEF PrimaryIsFresh
<1> QED  BY <1>2, CasInvariant, PTL

-----------------------------------------------------------------------------
(***************************************************************************)
(* Tickets implement the one-time tickets of SingleUse.                    *)
(***************************************************************************)
LEMMA StateOf ==
    ASSUME TypeOK, NEW t \in TicketId
    PROVE  TicketState(t) = IF t \notin DOMAIN tickets THEN "none"
                            ELSE IF tickets[t].row = "live" THEN "valid"
                            ELSE IF Held(t) THEN "claimed" ELSE "spent"
<1>1. DOMAIN tickets = 1..Len(tickets) /\ Len(tickets) \in Nat
  BY SeqDomain DEF TypeOK
<1>2. t \in Nat /\ t >= 1
  BY DEF TicketId
<1>3. CASE t \notin DOMAIN tickets
  BY <1>1, <1>2, <1>3 DEF TicketState
<1>4. CASE t \in DOMAIN tickets
  <2>1. t <= Len(tickets) /\ ~(t > Len(tickets))
    BY <1>1, <1>4
  <2> QED  BY <1>4, <2>1 DEF TicketState
<1> QED  BY <1>3, <1>4

LEMMA StateOfNext ==
    ASSUME TypeOK', NEW t \in TicketId
    PROVE  TicketState(t)' = IF t \notin DOMAIN tickets' THEN "none"
                             ELSE IF tickets'[t].row = "live" THEN "valid"
                             ELSE IF Held(t)' THEN "claimed" ELSE "spent"
<1>1. DOMAIN tickets' = 1..Len(tickets') /\ Len(tickets') \in Nat
  BY SeqDomain DEF TypeOK
<1>2. t \in Nat /\ t >= 1
  BY DEF TicketId
<1>3. CASE t \notin DOMAIN tickets'
  BY <1>1, <1>2, <1>3 DEF TicketState
<1>4. CASE t \in DOMAIN tickets'
  <2>1. t <= Len(tickets') /\ ~(t > Len(tickets'))
    BY <1>1, <1>4
  <2> QED  BY <1>4, <2>1 DEF TicketState
<1> QED  BY <1>3, <1>4

\* What SingleUse sees of a step.
LEMMA Stutters ==
    ASSUME \A u \in TicketId : TicketState(u)' = TicketState(u), UNCHANGED accepted
    PROVE  UNCHANGED OneTime!singleUseVars
BY DEF OneTime!singleUseVars

LEMMA Moves ==
    ASSUME NEW t \in TicketId, NEW from, NEW to,
           TicketState(t) = from, TicketState(t)' = to,
           \A u \in TicketId : u # t => TicketState(u)' = TicketState(u)
    PROVE  OneTime!Move(t, from, to)
BY DEF OneTime!Move

\* The holders of tickets, when one request moves.
LEMMA HeldBy ==
    ASSUME NEW h \in Handlers, \A k \in Handlers : k # h => handler'[k] = handler[k]
    PROVE  /\ \A u : Held(u)' <=> (Holds(h)' /\ handler'[h].ticket = u)
                               \/ \E k \in Handlers : k # h /\ Holds(k) /\ handler[k].ticket = u
           /\ \A u : Held(u) <=> (Holds(h) /\ handler[h].ticket = u)
                               \/ \E k \in Handlers : k # h /\ Holds(k) /\ handler[k].ticket = u
BY DEF Held, Holds

\* A step without effect on rows and holders.
LEMMA TicketsRest ==
    ASSUME CasInv, CasInv', UNCHANGED <<tickets, accepted>>,
           \A u \in TicketId : Held(u)' <=> Held(u)
    PROVE  UNCHANGED OneTime!singleUseVars
<1>1. \A u \in TicketId : TicketState(u)' = TicketState(u)
  BY StateOf, StateOfNext DEF CasInv
<1> QED  BY <1>1, Stutters

LEMMA EnvironmentRefines ==
    ASSUME CasInv, CasInv', Environment
    PROVE  [OneTime!Next]_OneTime!singleUseVars
<1>1. UNCHANGED <<handler, accepted>>
  BY DEF Environment, Tick, DisableUser, Authenticate, ExpireLogin, DisableCASClient,
     redirectCASCredentials, ExpireTicket, ExpirePGT
<1>2. \A u \in TicketId : Held(u)' <=> Held(u)
  BY <1>1 DEF Held
<1>3. ASSUME NEW t \in DOMAIN tickets, ExpireTicket(t)
      PROVE  OneTime!Next
  <2>1. t \in TicketId /\ tickets[t] \in Ticket /\ tickets \in Seq(Ticket)
    BY TicketFields DEF CasInv, TypeOK
  <2>2. /\ tickets[t].row = "live" /\ tickets'[t].row = "expired"
        /\ DOMAIN tickets' = DOMAIN tickets
        /\ \A u \in DOMAIN tickets : u # t => tickets'[u] = tickets[u]
    BY <1>3, <2>1 DEF ExpireTicket, Ticket
  <2>3. ~Held(t)
    BY <2>2 DEF Held, CasInv, HandlerInv, HandlerOK
  <2>4. TicketState(t) = "valid" /\ TicketState(t)' = "spent"
    BY <1>2, <2>1, <2>2, <2>3, StateOf, StateOfNext DEF CasInv
  <2>5. \A u \in TicketId : u # t => TicketState(u)' = TicketState(u)
    BY <1>2, <2>2, StateOf, StateOfNext DEF CasInv
  <2>6. OneTime!Lapse({t})
    BY <1>1, <2>1, <2>4, <2>5 DEF OneTime!Lapse
  <2> QED  BY <2>1, <2>6 DEF OneTime!Next
<1>4. CASE ~ \E t \in DOMAIN tickets : ExpireTicket(t)
  <2>1. UNCHANGED tickets
    BY <1>4 DEF Environment, Tick, DisableUser, Authenticate, ExpireLogin, DisableCASClient,
       redirectCASCredentials, ExpirePGT, storeVars
  <2> QED  BY <1>1, <1>2, <2>1, TicketsRest
<1> QED  BY <1>3, <1>4

\* Consuming a live ticket claims it.
LEMMA ClaimRefines ==
    ASSUME CasInv, CasInv', NEW h \in Handlers, NEW v, NEW t \in DOMAIN tickets, NEW pgtUrl,
           tickets[t].row = "live", Claimed(h, t, v, pgtUrl)
    PROVE  OneTime!Next
<1>1. t \in TicketId /\ tickets[t] \in Ticket /\ tickets \in Seq(Ticket)
  BY TicketFields DEF CasInv, TypeOK
<1>2. /\ tickets'[t].row = "consumed" /\ DOMAIN tickets' = DOMAIN tickets
      /\ \A u \in DOMAIN tickets : u # t => tickets'[u] = tickets[u]
  BY <1>1 DEF Claimed, Ticket
<1>3. /\ \A k \in Handlers : k # h => handler'[k] = handler[k]
      /\ handler[h].pc = "idle" /\ handler'[h].pc = "user" /\ handler'[h].ticket = t
  BY DEF Claimed, CasInv, TypeOK, Idle
<1>4. Held(t)' /\ \A u \in TicketId : u # t => (Held(u)' <=> Held(u))
  BY <1>1, <1>3, HeldBy DEF Holds
<1>5. TicketState(t) = "valid" /\ TicketState(t)' = "claimed"
  BY <1>1, <1>2, <1>4, StateOf, StateOfNext DEF CasInv
<1>6. \A u \in TicketId : u # t => TicketState(u)' = TicketState(u)
  BY <1>2, <1>4, StateOf, StateOfNext DEF CasInv
<1>7. OneTime!Claim(t)
  BY <1>1, <1>5, <1>6, Moves DEF OneTime!Claim, Claimed
<1> QED  BY <1>1, <1>7 DEF OneTime!Next

\* A request that stops without a ticket in its hands, or begins so.
LEMMA EmptyHandsRefine ==
    ASSUME CasInv, CasInv', NEW h \in Handlers, UNCHANGED <<tickets, accepted>>,
           \A k \in Handlers : k # h => handler'[k] = handler[k],
           ~Holds(h), ~Holds(h)'
    PROVE  UNCHANGED OneTime!singleUseVars
BY HeldBy, TicketsRest

LEMMA StartsRefine ==
    ASSUME CasInv, CasInv', NEW h \in Handlers, Starts(h)
    PROVE  [OneTime!Next]_OneTime!singleUseVars
<1>1. ASSUME NEW v \in Services, NEW t \in DOMAIN tickets, NEW renew \in BOOLEAN,
             NEW pgtUrl \in BOOLEAN,
             casServiceValidate(h, t, v, renew, pgtUrl) \/ casProxyValidate(h, t, v, renew, pgtUrl)
      PROVE  OneTime!Next
  <2>1. tickets[t].row = "live" /\ Claimed(h, t, v, pgtUrl)
    BY <1>1 DEF casServiceValidate, casProxyValidate, ConsumeServiceTicket, ConsumeProxyTicket
  <2> QED  BY <2>1, ClaimRefines
<1>2. ASSUME \/ \E s \in LoginSessions :
                  \/ casLogout(h, s) \/ StartRevocation(h, s)
                  \/ \E v \in Visited, renew \in BOOLEAN : casLogin(h, s, v, renew)
             \/ \E v \in Services, p \in DOMAIN pgts : casProxy(h, p, v)
      PROVE  UNCHANGED OneTime!singleUseVars
  <2>1. UNCHANGED <<tickets, accepted>> /\ handler[h].pc = "idle"
    BY <1>2 DEF casLogout, StartRevocation, casLogin, casProxy, storeVars
  <2>4. handler \in [Handlers -> Handler]
    BY DEF CasInv, TypeOK
  <2>2. \A k \in Handlers : k # h => handler'[k] = handler[k]
    BY <1>2 DEF casLogout, StartRevocation, casLogin, casProxy, CasInv, TypeOK
  <2>3. handler'[h].pc \in {"list", "notify", "save"}
    <3>1. ASSUME NEW s, casLogout(h, s) \/ StartRevocation(h, s)
          PROVE  handler'[h].pc \in {"list", "notify", "save"}
      BY <3>1, <2>4 DEF casLogout, StartRevocation, Idle
    <3>2. ASSUME NEW s, NEW v, NEW renew, casLogin(h, s, v, renew)
          PROVE  handler'[h].pc \in {"list", "notify", "save"}
      <4> DEFINE now == IF renew THEN clock ELSE 0
      <4> HIDE DEF now
      <4>1. handler' = [handler EXCEPT ![h] =
                [Idle EXCEPT !.pc = "save", !.kind = "login", !.service = v,
                             !.session = s, !.renew = renew, !.now = now]]
        BY <3>2 DEF casLogin, now
      <4> QED  BY <4>1, <2>4 DEF Idle
    <3>3. ASSUME NEW v, NEW p, casProxy(h, p, v)
          PROVE  handler'[h].pc \in {"list", "notify", "save"}
      BY <3>3, <2>4 DEF casProxy, Idle
    <3> QED  BY <1>2, <3>1, <3>2, <3>3
  <2> QED  BY <2>1, <2>2, <2>3, EmptyHandsRefine DEF Holds
<1> QED  BY <1>1, <1>2 DEF Starts

\* A new row is a ticket that was issued.
LEMMA IssueRefines ==
    ASSUME CasInv, CasInv', NEW h \in Handlers, ~Holds(h), NEW e, e.row = "live",
           Len(tickets) < MaxTickets, tickets' = Append(tickets, e),
           Finish(h), UNCHANGED accepted
    PROVE  OneTime!Next
<1>1. PICK n : n = Len(tickets) + 1
  OBVIOUS
<1>2. /\ tickets \in Seq(Ticket) /\ DOMAIN tickets = 1..Len(tickets)
      /\ Len(tickets) \in Nat /\ Len(tickets) <= MaxTickets
      /\ handler \in [Handlers -> Handler]
  BY SeqDomain DEF CasInv, TypeOK
<1>3. n \in TicketId /\ n \notin DOMAIN tickets
  BY <1>1, <1>2, CasAssumption DEF TicketId
<1>4. /\ DOMAIN tickets' = 1..n /\ tickets'[n] = e
      /\ \A u \in DOMAIN tickets : tickets'[u] = tickets[u]
  BY <1>1, <1>2
<1>5. /\ \A k \in Handlers : k # h => handler'[k] = handler[k]
      /\ ~Holds(h)'
  BY <1>2 DEF Finish, Holds, Idle
<1>6. \A u \in TicketId : Held(u)' <=> Held(u)
  BY <1>5, HeldBy
<1>7. TicketState(n) = "none" /\ TicketState(n)' = "valid"
  BY <1>1, <1>2, <1>3, <1>4, StateOf, StateOfNext DEF CasInv
<1>8. \A u \in TicketId : u # n => (u \in DOMAIN tickets' <=> u \in DOMAIN tickets)
  BY <1>1, <1>2, <1>4 DEF TicketId
<1>9. \A u \in TicketId : u # n => TicketState(u)' = TicketState(u)
  BY <1>4, <1>6, <1>8, StateOf, StateOfNext DEF CasInv
<1>10. OneTime!Issue(n)
  BY <1>3, <1>7, <1>9, Moves DEF OneTime!Issue
<1> QED  BY <1>3, <1>10 DEF OneTime!Next

\* A request that lets go of its ticket leaves it spent.
LEMMA LetsGo ==
    ASSUME CasInv, CasInv', NEW h \in Handlers, Holds(h), Finish(h), UNCHANGED tickets
    PROVE  /\ handler[h].ticket \in TicketId
           /\ OneTime!Move(handler[h].ticket, "claimed", "spent")
<1>1. PICK t : t = handler[h].ticket
  OBVIOUS
<1>2. t \in DOMAIN tickets /\ tickets[t].row # "live"
  BY <1>1 DEF CasInv, HandlerInv, HandlerOK, Holds
<1>3. t \in TicketId
  BY <1>2, TicketFields DEF CasInv
<1>4. /\ \A k \in Handlers : k # h => handler'[k] = handler[k]
      /\ ~Holds(h)'
  BY DEF CasInv, TypeOK, Finish, Holds, Idle
<1>5. Held(t) /\ ~Held(t)' /\ \A u \in TicketId : u # t => (Held(u)' <=> Held(u))
  BY <1>1, <1>4, HeldBy DEF CasInv, HandlerInv, OneHolder
<1>6. TicketState(t) = "claimed" /\ TicketState(t)' = "spent"
  BY <1>2, <1>3, <1>5, StateOf, StateOfNext DEF CasInv
<1>7. \A u \in TicketId : u # t => TicketState(u)' = TicketState(u)
  BY <1>5, StateOf, StateOfNext DEF CasInv
<1> QED  BY <1>1, <1>3, <1>6, <1>7, Moves

LEMMA CleanupRefines ==
    ASSUME CasInv, CasInv', NEW h \in Handlers, CleanupLogin(h)
    PROVE  OneTime!Next
<1>1. PICK L : L = {t \in DOMAIN tickets : /\ tickets[t].kind = "PT"
                                           /\ tickets[t].session = handler[h].session
                                           /\ tickets[t].row = "live"}
  OBVIOUS
<1>2. L \subseteq TicketId
  BY <1>1, TicketFields DEF CasInv
<1>3. /\ \A k \in Handlers : k # h => handler'[k] = handler[k]
      /\ ~Holds(h) /\ ~Holds(h)'
  BY DEF CasInv, TypeOK, CleanupLogin, Finish, Holds, Idle
<1>4. \A u \in TicketId : Held(u)' <=> Held(u)
  BY <1>3, HeldBy
<1>5. /\ DOMAIN tickets' = DOMAIN tickets
      /\ \A u \in DOMAIN tickets :
           IF tickets[u].kind = "PT" /\ tickets[u].session = handler[h].session
             THEN tickets'[u].row = "deleted" ELSE tickets'[u].row = tickets[u].row
  <2>1. /\ DOMAIN tickets' = DOMAIN tickets
        /\ \A u \in DOMAIN tickets : tickets[u] \in Ticket
    BY TicketFields DEF CasInv, CleanupLogin, DeleteServiceSessions
  <2> QED  BY <2>1 DEF CleanupLogin, DeleteServiceSessions, Ticket
<1>6. ASSUME NEW u \in L
      PROVE  TicketState(u) = "valid" /\ TicketState(u)' = "spent"
  <2>1. ~Held(u)
    BY <1>1 DEF Held, CasInv, HandlerInv, HandlerOK
  <2> QED  BY <1>1, <1>2, <1>4, <1>5, <2>1, StateOf, StateOfNext DEF CasInv
<1>7. ASSUME NEW u \in TicketId, u \notin L
      PROVE  TicketState(u)' = TicketState(u)
  BY <1>1, <1>4, <1>5, <1>7, StateOf, StateOfNext DEF CasInv
<1>8. OneTime!Lapse(L)
  BY <1>2, <1>6, <1>7 DEF OneTime!Lapse, CleanupLogin
<1> QED  BY <1>2, <1>8 DEF OneTime!Next

LEMMA ContinuesRefine ==
    ASSUME CasInv, CasInv', NEW h \in Handlers, Continues(h)
    PROVE  [OneTime!Next]_OneTime!singleUseVars
<1>0. handler \in [Handlers -> Handler]
  BY DEF CasInv, TypeOK
<1>1. CASE casLoginSave(h)
  <2> DEFINE e == [kind |-> "ST", service |-> handler[h].service,
                   session |-> handler[h].session, primary |-> handler[h].renew,
                   proxies |-> <<>>, row |-> "live", issued |-> handler[h].now, pgt |-> 0]
  <2>1. tickets' = Append(tickets, e) /\ Len(tickets) < MaxTickets /\ Finish(h)
    BY <1>1 DEF casLoginSave, SaveServiceTicket
  <2>2. e.row = "live" /\ ~Holds(h) /\ UNCHANGED accepted
    BY <1>1 DEF casLoginSave, Holds
  <2> HIDE DEF e
  <2> QED  BY <2>1, <2>2, IssueRefines
<1>2. CASE casProxySave(h)
  <2> DEFINE p == handler[h].pgt
             e == [kind |-> "PT", service |-> handler[h].service,
                   session |-> pgts[p].session, primary |-> pgts[p].primary,
                   proxies |-> <<pgts[p].service>> \o pgts[p].proxies,
                   row |-> "live", issued |-> 0, pgt |-> p]
  <2>1. tickets' = Append(tickets, e) /\ Len(tickets) < MaxTickets /\ Finish(h)
    BY <1>2 DEF casProxySave, SaveProxyTicket
  <2>2. e.row = "live" /\ ~Holds(h) /\ UNCHANGED accepted
    BY <1>2 DEF casProxySave, Holds
  <2> HIDE DEF e
  <2> QED  BY <2>1, <2>2, IssueRefines
<1>3. CASE CheckUser(h) /\ handler[h].pgtUrl
  <2>1. UNCHANGED <<tickets, accepted>> /\ handler[h].pc = "user" /\ Goto(h, "callback")
    BY <1>3 DEF CheckUser, storeVars
  <2>2. /\ \A k \in Handlers : k # h => handler'[k] = handler[k]
        /\ handler'[h].pc = "callback" /\ handler'[h].ticket = handler[h].ticket
    BY <1>0, <2>1 DEF Goto, Handler
  <2>3. \A u \in TicketId : Held(u)' <=> Held(u)
    BY <2>1, <2>2, HeldBy DEF Holds
  <2> QED  BY <2>1, <2>3, TicketsRest
<1>4. CASE CheckUser(h) /\ ~handler[h].pgtUrl
  <2>1. /\ UNCHANGED tickets /\ Holds(h) /\ Finish(h)
        /\ accepted' = [accepted EXCEPT ![handler[h].ticket] = @ + 1]
    BY <1>4 DEF CheckUser, storeVars, Holds
  <2>2. OneTime!Answer(handler[h].ticket) /\ handler[h].ticket \in TicketId
    BY <2>1, LetsGo DEF OneTime!Answer
  <2> QED  BY <2>2 DEF OneTime!Next
<1>5. CASE issueProxyGrantingTicket(h)
  <2>1. /\ UNCHANGED tickets /\ Holds(h) /\ Finish(h)
        /\ accepted' = [accepted EXCEPT ![handler[h].ticket] = @ + 1]
    BY <1>5 DEF issueProxyGrantingTicket, SaveProxyGrantingTicket, Holds
  <2>2. OneTime!Answer(handler[h].ticket) /\ handler[h].ticket \in TicketId
    BY <2>1, LetsGo DEF OneTime!Answer
  <2> QED  BY <2>2 DEF OneTime!Next
<1>6. CASE LogoutList(h) \/ sendCASLogout(h) \/ RevokeLogin(h)
  <2>1. UNCHANGED <<tickets, accepted>> /\ handler[h].pc \in {"list", "notify"}
    BY <1>6 DEF LogoutList, sendCASLogout, RevokeLogin, storeVars
  <2>2. /\ \A k \in Handlers : k # h => handler'[k] = handler[k]
        /\ handler'[h].pc \in {"notify", "clean"}
    <3>1. CASE LogoutList(h)
      BY <1>0, <3>1 DEF LogoutList, Goto, Handler
    <3>2. CASE sendCASLogout(h)
      <4>1. PICK job \in handler[h].jobs :
              handler' = [handler EXCEPT ![h].jobs = handler[h].jobs \ {job},
                                         ![h].told = handler[h].told \union {job}]
        BY <1>0, <3>2 DEF sendCASLogout
      <4>2. PICK q : q = [handler[h] EXCEPT !.jobs = handler[h].jobs \ {job},
                                            !.told = handler[h].told \union {job}]
        OBVIOUS
      <4>3. q.pc = handler[h].pc /\ handler' = [handler EXCEPT ![h] = q]
        BY <1>0, <4>1, <4>2 DEF Handler
      <4> QED  BY <1>0, <3>2, <4>3 DEF sendCASLogout
    <3>3. CASE RevokeLogin(h)
      BY <1>0, <3>3 DEF RevokeLogin, Goto, Handler
    <3> QED  BY <1>6, <3>1, <3>2, <3>3
  <2> QED  BY <2>1, <2>2, EmptyHandsRefine DEF Holds
<1>7. CASE CleanupLogin(h)
  BY <1>7, CleanupRefines
<1>8. CASE Abandon(h)
  <2>1. UNCHANGED <<tickets, accepted>> /\ Finish(h)
    BY <1>8 DEF Abandon, storeVars
  <2>2. CASE Holds(h)
    <3>1. OneTime!Waste(handler[h].ticket) /\ handler[h].ticket \in TicketId
      BY <2>1, <2>2, LetsGo DEF OneTime!Waste
    <3> QED  BY <3>1 DEF OneTime!Next
  <2>3. CASE ~Holds(h)
    <3>1. /\ \A k \in Handlers : k # h => handler'[k] = handler[k]
          /\ ~Holds(h)'
      BY <1>0, <2>1 DEF Finish, Holds, Idle
    <3> QED  BY <2>1, <2>3, <3>1, EmptyHandsRefine
  <2> QED  BY <2>2, <2>3
<1> QED  BY <1>1, <1>2, <1>3, <1>4, <1>5, <1>6, <1>7, <1>8 DEF Continues

\* Every behaviour of the CAS store and handlers is one of SingleUse, under the
\* map of rows and holders to the life of a ticket: ConsumeServiceTicket and
\* ConsumeProxyTicket let one validation through, for any number of requests.
THEOREM TicketsOnce == Spec => TicketsAreSingleUse
<1>1. Init => OneTime!Init
  <2>1. ASSUME Init PROVE \A t \in TicketId : TicketState(t) = "none"
    <3>1. Len(tickets) = 0
      BY <2>1 DEF Init
    <3> QED  BY <3>1 DEF TicketState, TicketId
  <2> QED  BY <2>1 DEF Init, OneTime!Init
<1>2. CasInv /\ CasInv' /\ [Next]_vars => [OneTime!Next]_OneTime!singleUseVars
  <2>1. ASSUME CasInv, CasInv', UNCHANGED vars
        PROVE  UNCHANGED OneTime!singleUseVars
    <3>1. UNCHANGED <<tickets, accepted, handler>>
      BY <2>1 DEF vars, storeVars
    <3>2. \A u \in TicketId : Held(u)' <=> Held(u)
      BY <3>1 DEF Held
    <3> QED  BY <2>1, <3>1, <3>2, TicketsRest
  <2> QED  BY <2>1, EnvironmentRefines, StartsRefine, ContinuesRefine DEF Next
<1> QED  BY <1>1, <1>2, CasInvariant, PTL DEF Spec, TicketsAreSingleUse, OneTime!Spec

=============================================================================
