----------------------------- MODULE Revocation -----------------------------
(***************************************************************************)
(* The handlers that take authority away: logout and session revocation,   *)
(* password change and reset, deactivation of a user, disabling of a       *)
(* client, withdrawal of a consent.  They, too, are sequences of separate  *)
(* store calls, and end with the same tail, cleanupRevokedSessions.        *)
(*                                                                         *)
(* reset   setUserPassword, resetAccountPassword,                          *)
(*         deleteUserExternalIdentity                                      *)
(* sweep   resetAdminUserMFA, revokeAllAdminUserSessions: like reset, but  *)
(*         an error ends the request                                       *)
(* change  changeAccountPassword, which keeps the current session          *)
(* disable replaceUser with a status other than active                     *)
(* logout  logout, oidcLogout, revokeAccountSession, revokeAdminUserSession*)
(* client  replaceClient with enabled = false, archiveClient               *)
(***************************************************************************)
EXTENDS Accounts, OAuthStore

CONSTANTS
    Ops,          \* the revocation requests
    OpKinds,      \* bound: the kinds of them a run explores
    FaultyOps     \* bound: the requests whose store calls may fail

VARIABLES
    op,           \* the revocation requests
    notified      \* logout tokens received by clients (the outside world)

revocationVars == <<op, notified>>

Stages == {"clean", "collect", "notify", "forget"}

Operation ==
    [pc : {"idle", "list", "revokeEach", "revokeAll", "userTokens",
           "clientTokens", "done"} \union Stages,
     kind : {"none", "reset", "sweep", "change", "disable", "logout", "client"},
     user : Users \union {NoUser},
     keep : Sessions \union {NoSession},
     client : Clients \union {NoClient},
     listed : SUBSET Sessions,     \* the sessions found, or named, at the start
     todo : SUBSET Sessions,       \* those the current loop has yet to visit
     jobs : SUBSET (Sessions \X Clients)]

RevocationTypeOK ==
    /\ op \in [Ops -> Operation]
    /\ notified \in SUBSET (Sessions \X Clients)

RevocationInit ==
    /\ op = [o \in Ops |->
               [pc |-> "idle", kind |-> "none", user |-> NoUser,
                keep |-> NoSession, client |-> NoClient,
                listed |-> {}, todo |-> {}, jobs |-> {}]]
    /\ notified = {}

opOnly == UNCHANGED <<accountVars, storeVars, notified>>

\* A call on the OAuth store that returns an error; it is logged and ignored.
Fails(o) == o \in FaultyOps /\ UNCHANGED storeVars

-----------------------------------------------------------------------------
(***************************************************************************)
(* The first writes of each handler.                                       *)
(***************************************************************************)
\* The session ids come from the cookie, the path or the ID token hint.
StartLogout(o, u, S) ==
    /\ op[o].pc = "idle" /\ "logout" \in OpKinds
    /\ S # {} /\ \A s \in S : SessionOwner[s] = u /\ sessions[s] # "none"
    /\ op' = [op EXCEPT ![o].pc = "revokeEach", ![o].kind = "logout",
                        ![o].user = u, ![o].listed = S, ![o].todo = S]
    /\ opOnly

\* The new password is stored (module Passwords); nothing the grants read changes.
StartReset(o, u) ==
    /\ op[o].pc = "idle"
    /\ \E kind \in {"reset", "sweep"} \intersect OpKinds :
         op' = [op EXCEPT ![o].pc = "list", ![o].kind = kind, ![o].user = u]
    /\ opOnly

StartChange(o, s) ==
    /\ op[o].pc = "idle" /\ "change" \in OpKinds
    /\ sessions[s] = "active" /\ userActive[SessionOwner[s]]
    /\ op' = [op EXCEPT ![o].pc = "list", ![o].kind = "change",
                        ![o].user = SessionOwner[s], ![o].keep = s]
    /\ opOnly

StartDisable(o, u) ==
    /\ op[o].pc = "idle" /\ "disable" \in OpKinds
    /\ userActive' = [userActive EXCEPT ![u] = FALSE]
    /\ op' = [op EXCEPT ![o].pc = "list", ![o].kind = "disable", ![o].user = u]
    /\ UNCHANGED <<sessions, clientEnabled, storeVars, notified>>

StartDisableClient(o, c) ==
    /\ op[o].pc = "idle" /\ "client" \in OpKinds
    /\ clientEnabled' = [clientEnabled EXCEPT ![c] = FALSE]
    /\ op' = [op EXCEPT ![o].pc = "clientTokens", ![o].kind = "client",
                        ![o].client = c]
    /\ UNCHANGED <<sessions, userActive, storeVars, notified>>

ClientTokens(o) ==
    /\ op[o].pc = "clientTokens"
    /\ RevokeClientTokens(op[o].client) \/ Fails(o)
    /\ op' = [op EXCEPT ![o].pc = "done"]
    /\ UNCHANGED <<accountVars, notified>>

\* revokeAccountConsent is a single call.
revokeAccountConsent(u, c) ==
    /\ "consent" \in OpKinds
    /\ DeleteConsent(u, c)
    /\ UNCHANGED <<accountVars, revocationVars>>

-----------------------------------------------------------------------------
(***************************************************************************)
(* Sessions.                                                               *)
(***************************************************************************)
\* A loop over the listed sessions begins.
Enter(o, pc) == [op[o] EXCEPT !.pc = pc, !.todo = op[o].listed]

\* Mutant: only the first of the sessions is revoked.
RevokeFirst(o) ==
    /\ op[o].pc = "revokeEach"
    /\ \E s \in op[o].todo :
         RevokeSession(s) /\ op' = [op EXCEPT ![o] = Enter(o, "clean")]
    /\ UNCHANGED <<storeVars, notified>>

\* logout ignores an error of Revoke and goes on; in revokeAccountSession and
\* revokeAdminUserSession the request ends there.
RevokeEach(o) ==
    /\ op[o].pc = "revokeEach"
    /\ \E s \in op[o].todo :
         /\ RevokeSession(s) \/ (o \in FaultyOps /\ UNCHANGED accountVars)
         /\ op' = [op EXCEPT ![o] =
               IF op[o].todo = {s} THEN Enter(o, "clean")
                                   ELSE [op[o] EXCEPT !.todo = @ \ {s}]]
    /\ UNCHANGED <<storeVars, notified>>

\* When the sessions cannot be listed, the password handlers go on without
\* them; revokeAllAdminUserSessions gives up.
sessionsForRevocation(o) ==
    /\ op[o].pc = "list"
    /\ \/ op' = [op EXCEPT ![o].pc = "revokeAll",
                    ![o].listed = ListByUser(op[o].user) \ {op[o].keep}]
       \/ o \in FaultyOps /\ op' = [op EXCEPT ![o].pc = "revokeAll"]
       \/ /\ o \in FaultyOps /\ op[o].kind = "sweep"
          /\ op' = [op EXCEPT ![o].pc = "done"]
    /\ opOnly

\* An error of RevokeAll skips the cleanup, not the revocation of the tokens,
\* except in the sweep handlers.
RevokeAllSessions(o) ==
    /\ op[o].pc = "revokeAll"
    /\ \/ RevokeAll(op[o].user, op[o].keep) /\ op' = [op EXCEPT ![o] = Enter(o, "clean")]
       \/ /\ o \in FaultyOps /\ UNCHANGED accountVars
          /\ op' = [op EXCEPT ![o].pc =
                       IF op[o].kind = "sweep" THEN "done" ELSE "userTokens"]
    /\ UNCHANGED <<storeVars, notified>>

-----------------------------------------------------------------------------
(***************************************************************************)
(* cleanupRevokedSessions, notifyOIDCBackchannelLogout.                    *)
(***************************************************************************)
NextStage == [clean |-> "collect", collect |-> "notify", notify |-> "forget"]

Visit(o, s) == op' = [op EXCEPT ![o].todo = @ \ {s}]

\* The CAS service sessions deleted in the same loop are not part of this model.
CleanSession(o) ==
    /\ op[o].pc = "clean"
    /\ \E s \in op[o].todo :
         Visit(o, s) /\ (RevokeSessionTokens(op[o].user, s) \/ Fails(o))
    /\ UNCHANGED <<accountVars, notified>>

\* Every client with a logout URI is notified, a disabled one too.  A session
\* whose clients cannot be listed is not forgotten either.  A client that cannot be
\* looked up is skipped, which is a notification that is never sent.
CollectSession(o) ==
    /\ op[o].pc = "collect"
    /\ \E s \in op[o].todo :
         \/ op' = [op EXCEPT
               ![o].todo = @ \ {s},
               ![o].jobs = @ \union {x \in ListOIDCClientSessions(s) : x[2] \in Backchannel}]
         \/ /\ o \in FaultyOps
            /\ op' = [op EXCEPT ![o].todo = @ \ {s}, ![o].listed = @ \ {s}]
    /\ opOnly

\* The POSTs run in parallel under one 5 second deadline; each of them may fail
\* or never be sent, and is not repeated.
sendOIDCBackchannelLogout(o) ==
    /\ op[o].pc = "notify"
    /\ \E j \in op[o].jobs :
         /\ op' = [op EXCEPT ![o].jobs = @ \ {j}]
         /\ notified' \in {notified, notified \union {j}}
    /\ UNCHANGED <<accountVars, storeVars>>

ForgetSession(o) ==
    /\ op[o].pc = "forget"
    /\ \E s \in op[o].todo :
         Visit(o, s) /\ (DeleteOIDCClientSessions(s) \/ Fails(o))
    /\ UNCHANGED <<accountVars, notified>>

\* The current loop is finished.
StageDone(o) ==
    /\ \/ op[o].pc \in {"clean", "collect"} /\ op[o].todo = {}
       \/ op[o].pc = "notify" /\ op[o].jobs = {}
    /\ op' = [op EXCEPT ![o] = Enter(o, NextStage[op[o].pc])]
    /\ opOnly

CleanupDone(o) ==
    /\ op[o].pc = "forget" /\ op[o].todo = {}
    /\ op' = [op EXCEPT ![o].pc =
                IF op[o].kind = "logout" THEN "done" ELSE "userTokens"]
    /\ opOnly

UserTokens(o) ==
    /\ op[o].pc = "userTokens"
    /\ RevokeUserTokens(op[o].user, op[o].keep) \/ Fails(o)
    /\ op' = [op EXCEPT ![o].pc = "done"]
    /\ UNCHANGED <<accountVars, notified>>

\* What a handler does by itself once it has begun.
OpStep(o) ==
    \/ ClientTokens(o) \/ RevokeEach(o) \/ sessionsForRevocation(o)
    \/ RevokeAllSessions(o) \/ CleanSession(o) \/ CollectSession(o)
    \/ sendOIDCBackchannelLogout(o) \/ ForgetSession(o)
    \/ StageDone(o) \/ CleanupDone(o) \/ UserTokens(o)

RevocationNext ==
    \/ \E o \in Ops :
         \/ \E u \in Users, S \in SUBSET Sessions : StartLogout(o, u, S)
         \/ \E u \in Users : StartReset(o, u) \/ StartDisable(o, u)
         \/ \E s \in Sessions : StartChange(o, s)
         \/ \E c \in Clients : StartDisableClient(o, c)
         \/ OpStep(o)
    \/ \E u \in Users, c \in Clients : revokeAccountConsent(u, c)
=============================================================================
