-------------------------------- MODULE Cas --------------------------------
(***************************************************************************)
(* The CAS protocol: service tickets (ST), proxy granting tickets (PGT),   *)
(* proxy tickets (PT) and single logout.  The handlers are those of        *)
(* internal/platform/http/cas.go, the store the PostgreSQL one, whose      *)
(* statements are atomic.  A client is its registered service URL.  A      *)
(* handler is a sequence of store calls and of calls to the service; other *)
(* requests run between any two of them.                                   *)
(***************************************************************************)
EXTENDS Integers, Sequences, FiniteSets

CONSTANTS
    Services,
    Proxying,      \* the services whose client has cas_proxy
    Renewing,      \* ... cas_renew
    LoginSessions,
    Handlers,      \* the requests the server works on at a time
    MarkerLife,    \* the five minutes of a re-authentication marker
    MaxTickets, MaxPGTs, MaxClock,   \* bounds
    Visited,       \* bound: the services browsers log in to
    MaxMishaps,    \* bound: expiries and deactivations in a behaviour
    MaxMarkers,    \* bound
    NoService, NoLogin

ASSUME CasAssumption ==
    /\ Proxying \subseteq Services /\ Renewing \subseteq Services
    /\ Visited \subseteq Services
    /\ MaxMishaps \in Nat /\ MaxMarkers \in Nat
    /\ NoService \notin Services /\ NoLogin \notin LoginSessions
    /\ MarkerLife \in Nat \ {0} /\ MaxTickets \in Nat /\ MaxPGTs \in Nat
    /\ MaxClock \in Nat

VARIABLES
    clock,            \* whole seconds, the precision of a marker
    login,            \* the session store: status and time of authentication
    enabled,          \* the services whose client is enabled
    userActive,       \* the status of the user
    markers,          \* the signed re-authentication markers browsers hold
    tickets,          \* cas_service_tickets and cas_proxy_tickets, in order
    pgts,             \* cas_proxy_granting_tickets
    serviceSessions,  \* cas_service_sessions: the last ticket per key, or 0
    handler,          \* the requests in progress
    accepted          \* how often the validation of a ticket was a success

storeVars == <<tickets, pgts, serviceSessions>>
worldVars == <<clock, login, enabled, userActive>>
vars == <<worldVars, storeVars, markers, handler, accepted>>

Rows == {"live", "consumed", "expired", "deleted"}
TicketId == 1..MaxTickets
Chains == UNION {[1..n -> Services] : n \in 0..MaxPGTs}

Ticket ==
    [kind : {"ST", "PT"}, service : Services, session : LoginSessions,
     primary : BOOLEAN, proxies : Chains, row : Rows,
     issued : 0..MaxClock,        \* of a primary ST: when; 0 otherwise
     pgt : 0..MaxPGTs]            \* the PGT a PT hangs on

PGT ==
    [service : Services, session : LoginSessions, primary : BOOLEAN,
     proxies : Chains, row : Rows,
     from : TicketId]             \* history: the ticket it was issued for

Handler ==
    [pc : {"idle", "save", "user", "callback", "list", "notify", "clean"},
     kind : {"none", "login", "validate", "proxy", "logout"},
     service : Services \union {NoService},
     session : LoginSessions \union {NoLogin},
     ticket : 0..MaxTickets, pgt : 0..MaxPGTs,
     renew : BOOLEAN,             \* of a login: primary credentials
     pgtUrl : BOOLEAN,
     now : 0..MaxClock,           \* of a login with renew: its time
     jobs : SUBSET (Services \X TicketId),
     told : SUBSET (Services \X TicketId),  \* history: the jobs that are done
     before : 0..(MaxTickets + 1)]          \* history: see LogoutList

Idle ==
    [pc |-> "idle", kind |-> "none", service |-> NoService,
     session |-> NoLogin, ticket |-> 0, pgt |-> 0, renew |-> FALSE,
     pgtUrl |-> FALSE, now |-> 0, jobs |-> {}, told |-> {}, before |-> 0]

TypeOK ==
    /\ clock \in 0..MaxClock
    /\ login \in [LoginSessions ->
                    [status : {"none", "active", "kept", "expired", "revoked"},
                     at : 0..MaxClock]]
    /\ enabled \subseteq Services
    /\ userActive \in BOOLEAN
    /\ markers \subseteq [service : Services, iat : 0..MaxClock]
    /\ tickets \in Seq(Ticket) /\ Len(tickets) <= MaxTickets
    /\ pgts \in Seq(PGT) /\ Len(pgts) <= MaxPGTs
    /\ serviceSessions \in [LoginSessions -> [Services -> 0..MaxTickets]]
    /\ handler \in [Handlers -> Handler]
    /\ accepted \in [TicketId -> Nat]

Init ==
    /\ clock = 0
    /\ login = [s \in LoginSessions |-> [status |-> "none", at |-> 0]]
    /\ enabled = Services
    /\ userActive = TRUE
    /\ markers = {}
    /\ tickets = <<>> /\ pgts = <<>>
    /\ serviceSessions = [s \in LoginSessions |-> [v \in Services |-> 0]]
    /\ handler = [h \in Handlers |-> Idle]
    /\ accepted = [t \in TicketId |-> 0]

\* "kept" is an active session that a logout failed to revoke.
Active(s) == login[s].status \in {"active", "kept"}

\* The bound on what may go wrong around the handlers.
MayHappen ==
    MaxMishaps >
        Cardinality(Services \ enabled) + (IF userActive THEN 0 ELSE 1)
        + Cardinality({s \in LoginSessions :
                          login[s].status \in {"expired", "kept"}})
        + Cardinality({t \in DOMAIN tickets : tickets[t].row = "expired"})
        + Cardinality({p \in DOMAIN pgts : pgts[p].row = "expired"})

Finish(h) == handler' = [handler EXCEPT ![h] = Idle]
Goto(h, pc) == handler' = [handler EXCEPT ![h].pc = pc]

\* findCASClient: an enabled client that registered this service.
findCASClient(v) == v \in enabled

-----------------------------------------------------------------------------
(***************************************************************************)
(* The world the handlers read: time, logins, accounts, clients.           *)
(***************************************************************************)
Tick ==
    /\ clock < MaxClock
    /\ clock' = clock + 1
    /\ UNCHANGED <<login, enabled, userActive, storeVars, markers, handler,
                   accepted>>

\* A login with credentials; it always creates a new session.
Authenticate(s) ==
    /\ login[s].status = "none"
    /\ login' = [login EXCEPT ![s] = [status |-> "active", at |-> clock]]
    /\ UNCHANGED <<clock, enabled, userActive, storeVars, markers, handler,
                   accepted>>

ExpireLogin(s) ==
    /\ MayHappen /\ Active(s)
    /\ login' = [login EXCEPT ![s].status = "expired"]
    /\ UNCHANGED <<clock, enabled, userActive, storeVars, markers, handler,
                   accepted>>

\* One way: no property depends on a client or a user that comes back.
DisableCASClient(v) ==
    /\ MayHappen /\ v \in enabled
    /\ enabled' = enabled \ {v}
    /\ UNCHANGED <<clock, login, userActive, storeVars, markers, handler,
                   accepted>>

DisableUser ==
    /\ MayHappen /\ userActive
    /\ userActive' = FALSE
    /\ UNCHANGED <<clock, login, enabled, storeVars, markers, handler,
                   accepted>>

-----------------------------------------------------------------------------
(***************************************************************************)
(* The tables.                                                             *)
(***************************************************************************)
\* Two minutes of a ticket, or eight hours of a PGT, are over.
ExpireTicket(t) ==
    /\ MayHappen /\ tickets[t].row = "live"
    /\ tickets' = [tickets EXCEPT ![t].row = "expired"]
    /\ UNCHANGED <<worldVars, pgts, serviceSessions, markers, handler,
                   accepted>>

ExpirePGT(p) ==
    /\ MayHappen /\ pgts[p].row = "live"
    /\ pgts' = [pgts EXCEPT ![p].row = "expired"]
    /\ UNCHANGED <<worldVars, tickets, serviceSessions, markers, handler,
                   accepted>>

\* Mutant: the row of the service session is not written.
TicketOnly(s, v, primary, now) ==
    /\ Len(tickets) < MaxTickets
    /\ tickets' = Append(tickets,
          [kind |-> "ST", service |-> v, session |-> s, primary |-> primary,
           proxies |-> <<>>, row |-> "live", issued |-> now, pgt |-> 0])
    /\ UNCHANGED <<pgts, serviceSessions>>

\* One transaction: the ticket, and the row that logout will look for.
SaveServiceTicket(s, v, primary, now) ==
    /\ Len(tickets) < MaxTickets
    /\ tickets' = Append(tickets,
          [kind |-> "ST", service |-> v, session |-> s, primary |-> primary,
           proxies |-> <<>>, row |-> "live", issued |-> now, pgt |-> 0])
    /\ serviceSessions' = [serviceSessions EXCEPT ![s][v] = Len(tickets) + 1]
    /\ UNCHANGED pgts

\* Mutant: a ticket that was consumed before passes again.
ConsumeAgain(t, v, renew) ==
    /\ tickets[t].kind = "ST" /\ tickets[t].service = v
    /\ tickets[t].row \in {"live", "consumed"}
    /\ renew => tickets[t].primary

ConsumeServiceTicket(t, v, renew) ==
    /\ tickets[t].kind = "ST" /\ tickets[t].service = v
    /\ tickets[t].row = "live"
    /\ renew => tickets[t].primary

\* The statement also asks for an active session.
ConsumeProxyTicket(t, v, renew) ==
    /\ tickets[t].kind = "PT" /\ tickets[t].service = v
    /\ tickets[t].row = "live"
    /\ renew => tickets[t].primary
    /\ Active(tickets[t].session)

SaveProxyGrantingTicket(t, v, proxies) ==
    /\ Len(pgts) < MaxPGTs
    /\ pgts' = Append(pgts,
          [service |-> v, session |-> tickets[t].session,
           primary |-> tickets[t].primary, proxies |-> proxies,
           row |-> "live", from |-> t])
    /\ UNCHANGED <<tickets, serviceSessions>>

FindProxyGrantingTicket(p) == pgts[p].row = "live" /\ Active(pgts[p].session)

\* The foreign key asks for the PGT to be there still.  No row of a service session
\* is written.  (A proxy is recorded by its callback URL, which is on the host of
\* its service: the service stands for it.)
SaveProxyTicket(p, v) ==
    /\ Len(tickets) < MaxTickets
    /\ pgts[p].row # "deleted"
    /\ tickets' = Append(tickets,
          [kind |-> "PT", service |-> v, session |-> pgts[p].session,
           primary |-> pgts[p].primary,
           proxies |-> <<pgts[p].service>> \o pgts[p].proxies,
           row |-> "live", issued |-> 0, pgt |-> p])
    /\ UNCHANGED <<pgts, serviceSessions>>

\* Mutant: services without a row are listed too.
ListAll(s) == {<<v, serviceSessions[s][v]>> : v \in Services}

ListServiceSessions(s) ==
    {<<v, serviceSessions[s][v]>> :
        v \in {w \in Services : serviceSessions[s][w] # 0}}

\* One transaction; deleting a PGT takes its proxy tickets along.
DeleteServiceSessions(s) ==
    /\ serviceSessions' = [serviceSessions EXCEPT ![s] = [v \in Services |-> 0]]
    /\ pgts' = [p \in DOMAIN pgts |->
          IF pgts[p].session = s THEN [pgts[p] EXCEPT !.row = "deleted"]
                                 ELSE pgts[p]]
    /\ tickets' = [t \in DOMAIN tickets |->
          IF tickets[t].kind = "PT" /\ tickets[t].session = s
             THEN [tickets[t] EXCEPT !.row = "deleted"] ELSE tickets[t]]

-----------------------------------------------------------------------------
(***************************************************************************)
(* casLogin.                                                               *)
(***************************************************************************)
\* redirectCASCredentials: a renewing request without a session, or without a
\* valid marker, is sent to the login page with a fresh one.  (Without renew
\* the redirect, like that of gateway, leaves nothing behind.)
redirectCASCredentials(v) ==
    /\ Cardinality(markers) < MaxMarkers
    /\ findCASClient(v) /\ v \in Renewing
    /\ markers' = markers \union {[service |-> v, iat |-> clock]}
    /\ UNCHANGED <<worldVars, storeVars, handler, accepted>>

\* Mutant: a valid marker is enough, whenever the user authenticated.
MarkerOnly(m, v, authenticatedAt) ==
    m.service = v /\ clock < m.iat + MarkerLife

validCASReauthMarker(m, v, authenticatedAt) ==
    /\ m.service = v /\ clock < m.iat + MarkerLife
    /\ authenticatedAt >= m.iat

\* renew asks for a marker only of a client that has cas_renew.
casLogin(h, s, v, renew) ==
    /\ handler[h].pc = "idle"
    /\ findCASClient(v) /\ Active(s)
    /\ renew => /\ v \in Renewing
                /\ \E m \in markers : validCASReauthMarker(m, v, login[s].at)
    /\ handler' = [handler EXCEPT ![h] =
          [Idle EXCEPT !.pc = "save", !.kind = "login", !.service = v,
                       !.session = s, !.renew = renew,
                       !.now = IF renew THEN clock ELSE 0]]
    /\ UNCHANGED <<worldVars, storeVars, markers, accepted>>

casLoginSave(h) ==
    /\ handler[h].pc = "save" /\ handler[h].kind = "login"
    /\ SaveServiceTicket(handler[h].session, handler[h].service,
                         handler[h].renew, handler[h].now)
    /\ Finish(h)
    /\ UNCHANGED <<worldVars, markers, accepted>>

-----------------------------------------------------------------------------
(***************************************************************************)
(* casValidate, casServiceValidate and casProxyValidate.                   *)
(***************************************************************************)
\* The lookup of the client and the statement that consumes are one step: what
\* another request does between them could as well happen just after.
Claimed(h, t, v, pgtUrl) ==
    /\ handler[h].pc = "idle"
    /\ findCASClient(v)
    /\ tickets' = [tickets EXCEPT ![t].row = "consumed"]
    /\ handler' = [handler EXCEPT ![h] =
          [Idle EXCEPT !.pc = "user", !.kind = "validate", !.service = v,
                       !.ticket = t, !.pgtUrl = pgtUrl]]
    /\ UNCHANGED <<worldVars, pgts, serviceSessions, markers, accepted>>

\* casValidate (which has no pgtUrl) and casServiceValidate.
casServiceValidate(h, t, v, renew, pgtUrl) ==
    /\ ConsumeServiceTicket(t, v, renew)
    /\ Claimed(h, t, v, pgtUrl)

\* casProxyValidate takes tickets of either kind.
casProxyValidate(h, t, v, renew, pgtUrl) ==
    /\ \/ ConsumeServiceTicket(t, v, renew)
       \/ ConsumeProxyTicket(t, v, renew)
    /\ Claimed(h, t, v, pgtUrl)

\* The ticket is spent; a user who is not active ends the request.
CheckUser(h) ==
    /\ handler[h].pc = "user" /\ userActive
    /\ IF handler[h].pgtUrl
          THEN /\ handler[h].service \in Proxying
               /\ Goto(h, "callback")
               /\ UNCHANGED accepted
          ELSE /\ Finish(h)
               /\ accepted' = [accepted EXCEPT ![handler[h].ticket] = @ + 1]
    /\ UNCHANGED <<worldVars, storeVars, markers>>

\* Mutant: the chain of the validated ticket is dropped.
ForgetChain(h) ==
    LET q == handler[h] IN
    /\ q.pc = "callback"
    /\ SaveProxyGrantingTicket(q.ticket, q.service, <<>>)
    /\ accepted' = [accepted EXCEPT ![q.ticket] = @ + 1]
    /\ Finish(h)
    /\ UNCHANGED <<worldVars, markers>>

\* The callback answers 200 and then the PGT is saved; used in between, it is
\* not found.
issueProxyGrantingTicket(h) ==
    LET q == handler[h] IN
    /\ q.pc = "callback"
    /\ SaveProxyGrantingTicket(q.ticket, q.service, tickets[q.ticket].proxies)
    /\ accepted' = [accepted EXCEPT ![q.ticket] = @ + 1]
    /\ Finish(h)
    /\ UNCHANGED <<worldVars, markers>>

-----------------------------------------------------------------------------
(***************************************************************************)
(* casProxy: a proxying service asks for a ticket for another one.         *)
(***************************************************************************)
casProxy(h, p, v) ==
    /\ handler[h].pc = "idle"
    /\ findCASClient(v)
    /\ FindProxyGrantingTicket(p)
    /\ findCASClient(pgts[p].service) /\ pgts[p].service \in Proxying
    /\ handler' = [handler EXCEPT ![h] =
          [Idle EXCEPT !.pc = "save", !.kind = "proxy", !.service = v,
                       !.pgt = p]]
    /\ UNCHANGED <<worldVars, storeVars, markers, accepted>>

casProxySave(h) ==
    /\ handler[h].pc = "save" /\ handler[h].kind = "proxy"
    /\ SaveProxyTicket(handler[h].pgt, handler[h].service)
    /\ Finish(h)
    /\ UNCHANGED <<worldVars, markers, accepted>>

-----------------------------------------------------------------------------
(***************************************************************************)
(* casLogout, and the handlers that end a session without telling the      *)
(* services (logout, revocations: module Revocation), which share its end. *)
(***************************************************************************)
casLogout(h, s) ==
    /\ handler[h].pc = "idle" /\ Active(s)
    /\ handler' = [handler EXCEPT ![h] =
          [Idle EXCEPT !.pc = "list", !.kind = "logout", !.session = s]]
    /\ UNCHANGED <<worldVars, storeVars, markers, accepted>>

\* A revocation notifies no service and goes straight to the revocation.
StartRevocation(h, s) ==
    /\ handler[h].pc = "idle" /\ Active(s)
    /\ handler' = [handler EXCEPT ![h] =
          [Idle EXCEPT !.pc = "notify", !.kind = "logout", !.session = s]]
    /\ UNCHANGED <<worldVars, storeVars, markers, accepted>>

\* The list may fail, which leaves nobody to tell.  before is a history field: of a
\* session that is still active, the tickets below it were saved by now.
LogoutList(h) ==
    /\ handler[h].pc = "list"
    /\ \/ handler' = [handler EXCEPT
             ![h].pc = "notify",
             ![h].jobs = ListServiceSessions(handler[h].session),
             ![h].before = IF login[handler[h].session].status = "active"
                              THEN Len(tickets) + 1 ELSE 0]
       \/ Goto(h, "notify")
    /\ UNCHANGED <<worldVars, storeVars, markers, accepted>>

\* The services are told before the session is revoked.  A service that is disabled
\* or without single logout, one that does not answer or that the five seconds cut
\* off counts as told.
sendCASLogout(h) ==
    /\ handler[h].pc = "notify"
    /\ \E job \in handler[h].jobs :
         handler' = [handler EXCEPT ![h].jobs = @ \ {job},
                                    ![h].told = @ \union {job}]
    /\ UNCHANGED <<worldVars, storeVars, markers, accepted>>

\* Once all are told.  An error of Revoke is ignored: the session stays, and
\* the rest of the logout goes on.
RevokeLogin(h) ==
    LET s == handler[h].session IN
    /\ handler[h].pc = "notify" /\ handler[h].jobs = {}
    /\ \/ login' = [login EXCEPT ![s].status = "revoked"]
       \/ /\ MayHappen /\ Active(s)
          /\ login' = [login EXCEPT ![s].status = "kept"]
    /\ Goto(h, "clean")
    /\ UNCHANGED <<clock, enabled, userActive, storeVars, markers, accepted>>

\* The CAS part of cleanupRevokedSessions.
CleanupLogin(h) ==
    /\ handler[h].pc = "clean"
    /\ DeleteServiceSessions(handler[h].session)
    /\ Finish(h)
    /\ UNCHANGED <<worldVars, markers, accepted>>

\* A store error, a refused or failed callback, a user or a service that is no
\* longer active, or a caller that went away: the handler stops where it is.
\* What it already wrote stays.
Abandon(h) ==
    /\ handler[h].pc # "idle"
    /\ Finish(h)
    /\ UNCHANGED <<worldVars, storeVars, markers, accepted>>

-----------------------------------------------------------------------------
Environment ==
    \/ Tick \/ DisableUser
    \/ \E s \in LoginSessions : Authenticate(s) \/ ExpireLogin(s)
    \/ \E v \in Services : DisableCASClient(v) \/ redirectCASCredentials(v)
    \/ \E t \in DOMAIN tickets : ExpireTicket(t)
    \/ \E p \in DOMAIN pgts : ExpirePGT(p)

Starts(h) ==
    \/ \E s \in LoginSessions :
         \/ casLogout(h, s) \/ StartRevocation(h, s)
         \/ \E v \in Visited, renew \in BOOLEAN : casLogin(h, s, v, renew)
    \/ \E v \in Services, t \in DOMAIN tickets, renew, pgtUrl \in BOOLEAN :
         \/ casServiceValidate(h, t, v, renew, pgtUrl)
         \/ casProxyValidate(h, t, v, renew, pgtUrl)
    \/ \E v \in Services, p \in DOMAIN pgts : casProxy(h, p, v)

Continues(h) ==
    \/ casLoginSave(h)
    \/ CheckUser(h) \/ issueProxyGrantingTicket(h)
    \/ casProxySave(h)
    \/ LogoutList(h) \/ sendCASLogout(h)
    \/ RevokeLogin(h) \/ CleanupLogin(h)
    \/ Abandon(h)

Next == Environment \/ \E h \in Handlers : Starts(h) \/ Continues(h)

Spec == Init /\ [][Next]_vars

-----------------------------------------------------------------------------
(***************************************************************************)
(* Properties.                                                             *)
(***************************************************************************)
Held(t) ==
    \E h \in Handlers :
        handler[h].ticket = t /\ handler[h].pc \in {"user", "callback"}

\* The life of ticket t as SingleUse sees it.
TicketState(t) ==
    CASE t > Len(tickets) -> "none"
      [] t <= Len(tickets) /\ tickets[t].row = "live" -> "valid"
      [] t <= Len(tickets) /\ tickets[t].row # "live" /\ Held(t) -> "claimed"
      [] OTHER -> "spent"

OneTime == INSTANCE SingleUse WITH
    Items <- TicketId, state <- [t \in TicketId |-> TicketState(t)],
    answers <- accepted

\* ConsumeServiceTicket and ConsumeProxyTicket make a ticket a one-time ticket:
\* whatever validations run concurrently and wherever they stop, one of them
\* claims it and at most that one is answered with success.
TicketsAreSingleUse == OneTime!Spec

\* The services a ticket has really passed through, last first.
Path[t \in DOMAIN tickets] ==
    IF tickets[t].kind = "ST" THEN <<>>
    ELSE LET p == pgts[tickets[t].pgt]
         IN  <<p.service>> \o Path[p.from]

\* The proxies that casProxyValidate reports for a proxy ticket are the services
\* through which it came from the user's own service ticket, in order, and each
\* of them may proxy: a service can neither leave itself out nor be invented.
ProxyChainIsTrue ==
    /\ \A t \in DOMAIN tickets :
         /\ tickets[t].proxies = Path[t]
         /\ \A i \in DOMAIN tickets[t].proxies :
                tickets[t].proxies[i] \in Proxying
    /\ \A p \in DOMAIN pgts : pgts[p].proxies = Path[pgts[p].from]

\* The service ticket a ticket goes back to.
Root[t \in DOMAIN tickets] ==
    IF tickets[t].kind = "ST" THEN t ELSE Root[pgts[tickets[t].pgt].from]

\* renew=true at a validation asks for fresh credentials.  A ticket that passes,
\* even a proxy ticket several services away, goes back to a service ticket that
\* casLogin issued less than five minutes after the user typed the password.
PrimaryIsFresh ==
    \A t \in DOMAIN tickets :
        tickets[t].primary =>
            LET st == tickets[Root[t]]
            IN  /\ st.primary
                /\ st.issued - login[st.session].at < MarkerLife

\* Ticket t is a service ticket of the session that h ends.
OfSession(h, t) ==
    tickets[t].kind = "ST" /\ tickets[t].session = handler[h].session

\* One of these messages is for the service of ticket t, about t or a later ticket
\* of the session for it.
Tells(jobs, t) ==
    \E job \in jobs : job[1] = tickets[t].service /\ job[2] >= t

\* casLogout has told, when it cleans up, the service of every service ticket that
\* was saved when it read its list, if the session was active then, whatever other
\* logouts and logins of the session were half way through.  (Told is what
\* sendCASLogout counts as told; a message names the last ticket for the service only,
\* since the row is replaced.  Nothing is said of proxy tickets, which have no row, of
\* tickets saved after the list, nor of a session that another logout failed to
\* revoke, whose rows are deleted all the same.)
LogoutTells ==
    \A h \in Handlers : handler[h].pc = "clean" =>
        \A t \in 1..(handler[h].before - 1) :
            OfSession(h, t) => Tells(handler[h].told, t)

=============================================================================
