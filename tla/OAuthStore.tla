----------------------------- MODULE OAuthStore -----------------------------
(***************************************************************************)
(* The OAuth repository (internal/oauth/store.go).  Every method holds the *)
(* repository mutex from its first to its last line, so one method is one  *)
(* atomic action here; what interleaves are the calls of different HTTP    *)
(* handlers (modules TokenEndpoint and Revocation).                        *)
(*                                                                         *)
(* Secrets.  A handler draws fresh random values for the code, the tokens  *)
(* and the token family it creates and the repository stores their hashes. *)
(* Such a value is identified with the request that drew it: accessTokens  *)
(* [q], refreshTokens[q] and family q are the ones drawn by token request  *)
(* q, codes[k] the one of authorization request k, devices[d] the one of   *)
(* device authorization d.  Nothing else is known about a secret.          *)
(*                                                                         *)
(* Time.  Lifetimes differ per client and per kind of credential, so the   *)
(* moment a credential runs out is left open: `expired' becomes TRUE in a  *)
(* step of its own (the Expire actions).                                   *)
(***************************************************************************)
EXTENDS Entities

CONSTANTS
    Codes,        \* authorization requests, and the codes they draw
    Requests,     \* token requests, and the tokens and families they draw
    Devices,      \* device authorizations
    Proofs,       \* (redirect_uri, code_challenge) pairs
    NoFamily, NoOrigin, NoProof,   \* empty strings
    NoConsent,    \* ErrConsentNotFound: there is no consent record
    Expirable     \* bound: the credentials whose lifetime may run out

ASSUME StoreAssumption ==
    /\ NoFamily \notin Requests /\ NoProof \notin Proofs
    /\ NoOrigin \notin Codes \union Devices
    /\ \A S \in SUBSET Scopes : S # NoConsent
    /\ Codes \intersect Devices = {}

VARIABLES codes, accessTokens, refreshTokens, devices, consents, oidcSessions

storeVars ==
    <<codes, accessTokens, refreshTokens, devices, consents, oidcSessions>>

(***************************************************************************)
(* What every stored credential carries of the authorization behind it.    *)
(* `session' is the SessionID column, empty for device and client          *)
(* credentials grants.  `origin' and `by' are not stored by the program:   *)
(* the code or device the credential descends from, and the login session  *)
(* in which the user gave the authorization.  No guard reads them.         *)
(***************************************************************************)
Grant == [client  : Clients \union {NoClient},
          user    : Users \union {NoUser},
          session : Sessions \union {NoSession},
          scope   : SUBSET Scopes,
          origin  : Codes \union Devices \union {NoOrigin},
          by      : Sessions \union {NoSession}]

NoGrant == [client |-> NoClient, user |-> NoUser, session |-> NoSession,
            scope |-> {}, origin |-> NoOrigin, by |-> NoSession]

AuthorizationCode ==
    [saved : BOOLEAN, grant : Grant, proof : Proofs \union {NoProof},
     consumed : BOOLEAN, revoked : BOOLEAN, expired : BOOLEAN]

AccessToken ==
    [saved : BOOLEAN, grant : Grant, family : Requests \union {NoFamily},
     revoked : BOOLEAN, expired : BOOLEAN]

\* parent, which only properties read, is the token this one replaced.
RefreshToken ==
    [saved : BOOLEAN, grant : Grant, family : Requests \union {NoFamily},
     parent : Requests \union {NoFamily},
     consumed : BOOLEAN, revoked : BOOLEAN, expired : BOOLEAN]

DeviceStatus == {"none", "pending", "approved", "denied", "consumed"}

DeviceAuthorization == [status : DeviceStatus, grant : Grant, expired : BOOLEAN]

StoreTypeOK ==
    /\ codes \in [Codes -> AuthorizationCode]
    /\ accessTokens \in [Requests -> AccessToken]
    /\ refreshTokens \in [Requests -> RefreshToken]
    /\ devices \in [Devices -> DeviceAuthorization]
    /\ consents \in [Users -> [Clients -> (SUBSET Scopes) \union {NoConsent}]]
    /\ oidcSessions \in SUBSET (Sessions \X Clients)

StoreInit ==
    /\ codes = [k \in Codes |->
                    [saved |-> FALSE, grant |-> NoGrant, proof |-> NoProof,
                     consumed |-> FALSE, revoked |-> FALSE, expired |-> FALSE]]
    /\ accessTokens = [q \in Requests |->
                    [saved |-> FALSE, grant |-> NoGrant, family |-> NoFamily,
                     revoked |-> FALSE, expired |-> FALSE]]
    /\ refreshTokens = [q \in Requests |->
                    [saved |-> FALSE, grant |-> NoGrant, family |-> NoFamily,
                     parent |-> NoFamily,
                     consumed |-> FALSE, revoked |-> FALSE, expired |-> FALSE]]
    /\ devices = [d \in Devices |->
                    [status |-> "none", grant |-> NoGrant, expired |-> FALSE]]
    /\ consents = [u \in Users |-> [c \in Clients |-> NoConsent]]
    /\ oidcSessions = {}

-----------------------------------------------------------------------------
(***************************************************************************)
(* Authorization codes.                                                    *)
(***************************************************************************)
SaveAuthorizationCode(k, g, p) ==
    /\ codes' = [codes EXCEPT ![k] =
                    [saved |-> TRUE, grant |-> g, proof |-> p,
                     consumed |-> FALSE, revoked |-> FALSE, expired |-> FALSE]]
    /\ UNCHANGED <<accessTokens, refreshTokens, devices, consents, oidcSessions>>

\* Mutant: a consumed code is accepted again.
CodeConsumableAgain(k, c, p) ==
    /\ codes[k].saved
    /\ codes[k].grant.client = c /\ codes[k].proof = p
    /\ ~codes[k].revoked /\ ~codes[k].expired

\* The conditions under which ConsumeAuthorizationCode does not return an error.
CodeConsumable(k, c, p) ==
    /\ codes[k].saved
    /\ codes[k].grant.client = c /\ codes[k].proof = p
    /\ ~codes[k].consumed /\ ~codes[k].revoked /\ ~codes[k].expired

ConsumeAuthorizationCode(k) ==
    /\ codes' = [codes EXCEPT ![k].consumed = TRUE]
    /\ UNCHANGED <<accessTokens, refreshTokens, devices, consents, oidcSessions>>

(***************************************************************************)
(* Access and refresh tokens.                                              *)
(***************************************************************************)
SaveAccessToken(q, g, f) ==
    /\ accessTokens' = [accessTokens EXCEPT ![q] =
                    [saved |-> TRUE, grant |-> g, family |-> f,
                     revoked |-> FALSE, expired |-> FALSE]]
    /\ UNCHANGED <<codes, refreshTokens, devices, consents, oidcSessions>>

\* FindAccessToken and FindRefreshToken succeed for these tokens only.
LiveAccessToken(q) ==
    /\ accessTokens[q].saved
    /\ ~accessTokens[q].revoked /\ ~accessTokens[q].expired

LiveRefreshToken(q) ==
    /\ refreshTokens[q].saved /\ ~refreshTokens[q].consumed
    /\ ~refreshTokens[q].revoked /\ ~refreshTokens[q].expired

RevokeAccessToken(q) ==
    /\ accessTokens' = [accessTokens EXCEPT ![q].revoked = TRUE]
    /\ UNCHANGED <<codes, refreshTokens, devices, consents, oidcSessions>>

\* Mutant: the family is named after the code instead of a fresh identifier.
SaveRefreshTokenOfOrigin(q, g) ==
    /\ refreshTokens' = [refreshTokens EXCEPT ![q] =
                    [saved |-> TRUE, grant |-> g, family |-> g.origin,
                     parent |-> NoFamily, consumed |-> FALSE,
                     revoked |-> FALSE, expired |-> FALSE]]
    /\ UNCHANGED <<codes, accessTokens, devices, consents, oidcSessions>>

SaveRefreshToken(q, g) ==
    /\ refreshTokens' = [refreshTokens EXCEPT ![q] =
                    [saved |-> TRUE, grant |-> g, family |-> q,
                     parent |-> NoFamily, consumed |-> FALSE,
                     revoked |-> FALSE, expired |-> FALSE]]
    /\ UNCHANGED <<codes, accessTokens, devices, consents, oidcSessions>>

\* Both loops over a family: RotateRefreshToken on a replay, RevokeRefreshToken.
RevokeFamily(f) ==
    /\ refreshTokens' = [q \in Requests |->
          IF refreshTokens[q].saved /\ refreshTokens[q].family = f
            THEN [refreshTokens[q] EXCEPT !.revoked = TRUE]
            ELSE refreshTokens[q]]
    /\ accessTokens' = [q \in Requests |->
          IF accessTokens[q].saved /\ accessTokens[q].family = f
            THEN [accessTokens[q] EXCEPT !.revoked = TRUE]
            ELSE accessTokens[q]]
    /\ UNCHANGED <<codes, devices, consents, oidcSessions>>

\* The presented token has been consumed or revoked before: ErrRefreshReuse.
RefreshReused(old, c) ==
    /\ refreshTokens[old].saved /\ refreshTokens[old].grant.client = c
    /\ refreshTokens[old].revoked \/ refreshTokens[old].consumed

\* Mutant: one scope in common is enough.
ScopesOverlap(granted, requested) == requested \intersect granted # {}

\* ScopesCover: the requested scope must not exceed the one of the old token.
ScopesCover(granted, requested) == requested \subseteq granted

\* An absent scope parameter (here the empty set) inherits the old scope.
EffectiveScope(old, requested) ==
    IF requested = {} THEN refreshTokens[old].grant.scope ELSE requested

\* Mutant: the revocation of the presented token is not looked at.
RotatableWhenRevoked(old, c, requested) ==
    /\ refreshTokens[old].grant.client = c
    /\ refreshTokens[old].saved /\ ~refreshTokens[old].consumed
    /\ ~refreshTokens[old].expired
    /\ ScopesCover(refreshTokens[old].grant.scope, EffectiveScope(old, requested))

\* RotateRefreshToken returns no error.
Rotatable(old, c, requested) ==
    /\ refreshTokens[old].grant.client = c
    /\ LiveRefreshToken(old)
    /\ ScopesCover(refreshTokens[old].grant.scope, EffectiveScope(old, requested))

\* Mutant: the old token is not consumed.
RotateKeepsOld(q, old, requested) ==
    /\ refreshTokens' = [refreshTokens EXCEPT
          ![q] = [saved |-> TRUE,
                  grant |-> [refreshTokens[old].grant EXCEPT
                               !.scope = EffectiveScope(old, requested)],
                  family |-> refreshTokens[old].family,
                  parent |-> old,
                  consumed |-> FALSE, revoked |-> FALSE, expired |-> FALSE]]
    /\ UNCHANGED <<codes, accessTokens, devices, consents, oidcSessions>>

\* The replacement inherits family, user and session and is appended while the
\* old token is consumed, under one lock.
RotateRefreshToken(q, old, requested) ==
    /\ refreshTokens' = [refreshTokens EXCEPT
          ![old].consumed = TRUE,
          ![q] = [saved |-> TRUE,
                  grant |-> [refreshTokens[old].grant EXCEPT
                               !.scope = EffectiveScope(old, requested)],
                  family |-> refreshTokens[old].family,
                  parent |-> old,
                  consumed |-> FALSE, revoked |-> FALSE, expired |-> FALSE]]
    /\ UNCHANGED <<codes, accessTokens, devices, consents, oidcSessions>>

-----------------------------------------------------------------------------
(***************************************************************************)
(* Device authorizations.  The pace of polling (slow_down) is left out: it *)
(* delays a redemption and decides nothing about it.                       *)
(***************************************************************************)
SaveDeviceAuthorization(d, c, scope) ==
    /\ devices' = [devices EXCEPT ![d] =
          [status |-> "pending", expired |-> FALSE,
           grant |-> [NoGrant EXCEPT !.client = c, !.scope = scope, !.origin = d]]]
    /\ UNCHANGED <<codes, accessTokens, refreshTokens, consents, oidcSessions>>

\* grantConsentLocked: a new record, or the old scopes and the new ones.
mergeScopes(current, scope) ==
    IF current = NoConsent THEN scope ELSE current \union scope

DeviceDecidable(d) == devices[d].status = "pending" /\ ~devices[d].expired

\* Approval records the consent for the device's scope under the same lock.
DecideDeviceAuthorization(d, u, s, approve) ==
    /\ devices' = [devices EXCEPT
          ![d].status = IF approve THEN "approved" ELSE "denied",
          ![d].grant.user = u,
          ![d].grant.by = s]
    /\ LET g == devices[d].grant IN
         consents' = IF approve
                       THEN [consents EXCEPT ![u][g.client] = mergeScopes(@, g.scope)]
                       ELSE consents
    /\ UNCHANGED <<codes, accessTokens, refreshTokens, oidcSessions>>

DeviceRedeemable(d, c) ==
    /\ devices[d].status = "approved" /\ ~devices[d].expired
    /\ devices[d].grant.client = c

PollDeviceAuthorization(d) ==
    /\ devices' = [devices EXCEPT ![d].status = "consumed"]
    /\ UNCHANGED <<codes, accessTokens, refreshTokens, consents, oidcSessions>>

-----------------------------------------------------------------------------
(***************************************************************************)
(* Consents and OIDC client sessions.                                      *)
(***************************************************************************)
ConsentCovers(u, c, scope) ==
    consents[u][c] # NoConsent /\ ScopesCover(consents[u][c], scope)

GrantConsent(u, c, scope) ==
    /\ consents' = [consents EXCEPT ![u][c] = mergeScopes(@, scope)]
    /\ UNCHANGED <<codes, accessTokens, refreshTokens, devices, oidcSessions>>

SaveOIDCClientSession(s, c) ==
    /\ oidcSessions' = oidcSessions \union {<<s, c>>}
    /\ UNCHANGED <<codes, accessTokens, refreshTokens, devices, consents>>

ListOIDCClientSessions(s) == {x \in oidcSessions : x[1] = s}

DeleteOIDCClientSessions(s) ==
    /\ oidcSessions' = {x \in oidcSessions : x[1] # s}
    /\ UNCHANGED <<codes, accessTokens, refreshTokens, devices, consents>>

-----------------------------------------------------------------------------
(***************************************************************************)
(* Bulk revocation.                                                        *)
(***************************************************************************)
\* The grants that a bulk revocation matches, by user, session and client.
OfUser(u) == {g \in Grant : g.user = u}
OfSession(s) == {g \in Grant : g.session = s}
OfClient(c) == {g \in Grant : g.client = c}

revokeMatchingTokens(matching) ==
    /\ codes' = [k \in Codes |->
          IF codes[k].saved /\ codes[k].grant \in matching
            THEN [codes[k] EXCEPT !.revoked = TRUE] ELSE codes[k]]
    /\ accessTokens' = [q \in Requests |->
          IF accessTokens[q].saved /\ accessTokens[q].grant \in matching
            THEN [accessTokens[q] EXCEPT !.revoked = TRUE] ELSE accessTokens[q]]
    /\ refreshTokens' = [q \in Requests |->
          IF refreshTokens[q].saved /\ refreshTokens[q].grant \in matching
            THEN [refreshTokens[q] EXCEPT !.revoked = TRUE] ELSE refreshTokens[q]]

\* Devices of a matching grant in one of the given states become denied.
denyDevices(matching, states) ==
    devices' = [d \in Devices |->
          IF devices[d].status \in states /\ devices[d].grant \in matching
            THEN [devices[d] EXCEPT !.status = "denied"] ELSE devices[d]]

RevokeSessionTokens(u, s) ==
    /\ revokeMatchingTokens(OfUser(u) \intersect OfSession(s))
    /\ UNCHANGED <<devices, consents, oidcSessions>>

\* Mutant: the session to keep is not excepted.
RevokeUserTokensAll(u, except) ==
    /\ revokeMatchingTokens(OfUser(u))
    /\ denyDevices(OfUser(u), {"approved"})
    /\ UNCHANGED <<consents, oidcSessions>>

\* Mutant: tokens that carry no session are left alone.
RevokeUserTokensOfSessions(u, except) ==
    /\ revokeMatchingTokens(OfUser(u) \ (OfSession(NoSession) \union OfSession(except)))
    /\ denyDevices(OfUser(u), {"approved"})
    /\ UNCHANGED <<consents, oidcSessions>>

RevokeUserTokens(u, except) ==
    /\ revokeMatchingTokens({g \in OfUser(u) : except = NoSession \/ g.session # except})
    /\ denyDevices(OfUser(u), {"approved"})
    /\ UNCHANGED <<consents, oidcSessions>>

RevokeClientTokens(c) ==
    /\ revokeMatchingTokens(OfClient(c))
    /\ denyDevices(OfClient(c), {"pending", "approved"})
    /\ UNCHANGED <<consents, oidcSessions>>

DeleteConsent(u, c) ==
    /\ consents[u][c] # NoConsent
    /\ consents' = [consents EXCEPT ![u][c] = NoConsent]
    /\ revokeMatchingTokens(OfUser(u) \intersect OfClient(c))
    /\ denyDevices(OfUser(u) \intersect OfClient(c), {"approved"})
    /\ UNCHANGED oidcSessions

-----------------------------------------------------------------------------
(***************************************************************************)
(* Time passes: ExpiresAt of a stored credential lies no longer after now. *)
(* Only credentials whose expiry some method still reads are moved.        *)
(***************************************************************************)
ExpireCode(k) ==
    /\ k \in Expirable /\ CodeConsumable(k, codes[k].grant.client, codes[k].proof)
    /\ codes' = [codes EXCEPT ![k].expired = TRUE]
    /\ UNCHANGED <<accessTokens, refreshTokens, devices, consents, oidcSessions>>

ExpireAccessToken(q) ==
    /\ q \in Expirable /\ LiveAccessToken(q)
    /\ accessTokens' = [accessTokens EXCEPT ![q].expired = TRUE]
    /\ UNCHANGED <<codes, refreshTokens, devices, consents, oidcSessions>>

ExpireRefreshToken(q) ==
    /\ q \in Expirable /\ LiveRefreshToken(q)
    /\ refreshTokens' = [refreshTokens EXCEPT ![q].expired = TRUE]
    /\ UNCHANGED <<codes, accessTokens, devices, consents, oidcSessions>>

ExpireDevice(d) ==
    /\ d \in Expirable /\ devices[d].status \in {"pending", "approved"}
    /\ ~devices[d].expired
    /\ devices' = [devices EXCEPT ![d].expired = TRUE]
    /\ UNCHANGED <<codes, accessTokens, refreshTokens, consents, oidcSessions>>

Expiry ==
    \/ \E k \in Codes : ExpireCode(k)
    \/ \E q \in Requests : ExpireAccessToken(q) \/ ExpireRefreshToken(q)
    \/ \E d \in Devices : ExpireDevice(d)
=============================================================================
