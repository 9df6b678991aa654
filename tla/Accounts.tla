------------------------------ MODULE Accounts ------------------------------
(***************************************************************************)
(* What the OAuth handlers read of the other stores: whether a user is     *)
(* active (internal/identity), whether a login session is active           *)
(* (internal/session) and whether a client is enabled (internal/client).   *)
(* A session identifier is created for one user and never reused.          *)
(***************************************************************************)
EXTENDS Entities

CONSTANT SessionOwner   \* the user each session identifier is created for

ASSUME SessionOwnerAssumption == SessionOwner \in [Sessions -> Users]

VARIABLES userActive, sessions, clientEnabled

accountVars == <<userActive, sessions, clientEnabled>>

SessionStatus == {"none", "active", "expired", "revoked"}

AccountTypeOK ==
    /\ userActive \in [Users -> BOOLEAN]
    /\ sessions \in [Sessions -> SessionStatus]
    /\ clientEnabled \in [Clients -> BOOLEAN]

AccountInit ==
    /\ userActive = [u \in Users |-> TRUE]
    /\ sessions = [s \in Sessions |-> "none"]
    /\ clientEnabled = [c \in Clients |-> TRUE]

\* createLoginSession: completeLogin does not look at the user's status again,
\* so a login that began before a deactivation may still create its session.
CreateSession(s) ==
    /\ sessions[s] = "none"
    /\ sessions' = [sessions EXCEPT ![s] = "active"]
    /\ UNCHANGED <<userActive, clientEnabled>>

\* The 12 hours of a session are over.
ExpireSession(s) ==
    /\ sessions[s] = "active"
    /\ sessions' = [sessions EXCEPT ![s] = "expired"]
    /\ UNCHANGED <<userActive, clientEnabled>>

\* IsActive: the session is the user's, not revoked and not expired.
SessionActive(u, s) == sessions[s] = "active" /\ SessionOwner[s] = u

\* Revoke marks any existing record.
RevokeSession(s) ==
    /\ sessions' = [sessions EXCEPT ![s] = "revoked"]
    /\ UNCHANGED <<userActive, clientEnabled>>

\* RevokeAll marks the active sessions of the user except one.
RevokeAll(u, except) ==
    /\ sessions' = [s \in Sessions |->
          IF SessionActive(u, s) /\ s # except THEN "revoked" ELSE sessions[s]]
    /\ UNCHANGED <<userActive, clientEnabled>>

ListByUser(u) == {s \in Sessions : SessionActive(u, s)}

\* replaceUser and replaceClient writing an active or enabled record again.
ActivateUser(u) ==
    /\ ~userActive[u]
    /\ userActive' = [userActive EXCEPT ![u] = TRUE]
    /\ UNCHANGED <<sessions, clientEnabled>>

EnableClient(c) ==
    /\ ~clientEnabled[c]
    /\ clientEnabled' = [clientEnabled EXCEPT ![c] = TRUE]
    /\ UNCHANGED <<sessions, userActive>>
=============================================================================
