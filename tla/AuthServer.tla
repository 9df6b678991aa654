----------------------------- MODULE AuthServer -----------------------------
(***************************************************************************)
(* The token service: the OAuth handlers and the revocation handlers over  *)
(* the same stores, all requests interleaved.                              *)
(***************************************************************************)
EXTENDS TokenEndpoint, Revocation

vars == <<accountVars, storeVars, endpointVars, revocationVars>>

TypeOK == AccountTypeOK /\ StoreTypeOK /\ EndpointTypeOK /\ RevocationTypeOK

Init == AccountInit /\ StoreInit /\ EndpointInit /\ RevocationInit

\* Logins, session lifetimes and administrators that enable things again.
AccountNext ==
    \/ \E s \in Sessions : CreateSession(s)
    \/ \E s \in Sessions \intersect Expirable : ExpireSession(s)
    \/ \E u \in Users : ActivateUser(u)
    \/ \E c \in Clients : EnableClient(c)

Next ==
    \/ EndpointNext /\ UNCHANGED revocationVars
    \/ RevocationNext /\ UNCHANGED endpointVars
    \/ AccountNext /\ UNCHANGED <<storeVars, endpointVars, revocationVars>>
    \/ Expiry /\ UNCHANGED <<accountVars, endpointVars, revocationVars>>

Spec == Init /\ [][Next]_vars

\* A request that has been received runs to its end: net/http does not suspend
\* a handler, and every store call returns.  Users, clients and time owe nothing.
Fairness ==
    /\ \A q \in Requests : WF_vars(TokenStep(q) /\ UNCHANGED revocationVars)
    /\ \A o \in Ops : WF_vars(OpStep(o) /\ UNCHANGED endpointVars)

FairSpec == Spec /\ Fairness

-----------------------------------------------------------------------------
(***************************************************************************)
(* Refresh token families.                                                 *)
(***************************************************************************)
Usable(q) == refreshTokens[q].saved /\ ~refreshTokens[q].consumed /\ ~refreshTokens[q].revoked

SameFamily(q, r) ==
    /\ refreshTokens[q].saved /\ refreshTokens[r].saved
    /\ refreshTokens[q].family = refreshTokens[r].family

\* RotateRefreshToken hands out one successor per token: however many requests
\* present tokens of a family, at most one of its tokens can still be exchanged.
OneUsablePerFamily ==
    \A q, r \in Requests : SameFamily(q, r) /\ Usable(q) /\ Usable(r) => q = r

\* A family is revoked as a whole (replay, revocation, logout, reset, client or
\* consent removed) and stays so: no request in flight adds a usable token to it.
FamilyRevokedTogether ==
    \A q, r \in Requests :
        SameFamily(q, r) /\ refreshTokens[q].revoked => refreshTokens[r].revoked

\* README "refresh tokens may narrow the scope, never recover it": every token is
\* within the scope the user approved for the code or device it descends from, and
\* every refresh token within the one it replaced.
OriginScope(x) == IF x \in Codes THEN authz[x].grant.scope ELSE devices[x].grant.scope

ScopeNeverWidens ==
    /\ \A q \in Requests : accessTokens[q].saved /\ accessTokens[q].grant.origin # NoOrigin
         => accessTokens[q].grant.scope \subseteq OriginScope(accessTokens[q].grant.origin)
    /\ \A q \in Requests : refreshTokens[q].saved /\ refreshTokens[q].parent # NoFamily
         => refreshTokens[q].grant.scope \subseteq
              refreshTokens[refreshTokens[q].parent].grant.scope

\* A code or an approved device is redeemed once, however many requests present
\* it at the same time: two requests never issue tokens from the same one.
Redeemed(q) ==
    accessTokens[q].saved /\ req[q].kind \in {"authorization_code", "device_code"}

OneExchangePerOrigin ==
    \A q, r \in Requests :
        /\ Redeemed(q) /\ Redeemed(r)
        /\ accessTokens[q].grant.origin = accessTokens[r].grant.origin
        => q = r

-----------------------------------------------------------------------------
(***************************************************************************)
(* Revocation against requests in flight.                                  *)
(***************************************************************************)
\* README: after a logout or a session revocation "no associated token is issued
\* or accepted".  A request that reads a grant whose session has already ended
\* never stores an access token, whatever it rotated or consumed before.
NothingIssuedAfterSessionEnd ==
    \A q \in Requests : req[q].stale => ~accessTokens[q].saved

\* ... and no userinfo or introspection request accepts such a token, although
\* requests in flight may have stored it after the revocation.
NothingAcceptedAfterSessionEnd ==
    \A i \in Readers : reader[i].pc = "accepted" => ~reader[i].stale

\* A logout token is received only for a session that has ended: the handlers
\* revoke the sessions before they notify.
LogoutTokenAfterRevocation ==
    \A x \in notified : sessions[x[1]] # "active"

\* validateOAuthUserGrant failed after the rotation: the family the request had
\* already rotated is revoked, and with it the replacement nobody received.
RefusedRefreshRevokesFamily ==
    \A q \in Requests :
        req[q].pc = "abort" ~> \A r \in Requests :
            refreshTokens[r].saved /\ refreshTokens[r].family = req[q].family
              => refreshTokens[r].revoked

\* Nothing of a session is touched: neither its record nor its codes and tokens.
Untouched(s) ==
    /\ sessions'[s] = sessions[s]
    /\ \A k \in Codes : codes[k].grant.session = s => codes'[k] = codes[k]
    /\ \A q \in Requests :
         /\ accessTokens[q].grant.session = s => accessTokens'[q] = accessTokens[q]
         /\ refreshTokens[q].grant.session = s => refreshTokens'[q] = refreshTokens[q]

\* changeAccountPassword keeps the current session: no step of it touches the
\* session the password was changed in, or the codes and tokens of that session.
KeepsCurrentSession ==
    [][\A o \in Ops : op[o].kind = "change" /\ op'[o] # op[o] => Untouched(op[o].keep)]_vars

\* Once a password reset lists the sessions of the user, every refresh token that
\* is stored for the user by then ends up revoked, with or without a session.
ResetReachesRefreshTokens ==
    \A o \in Ops, q \in Requests :
        (/\ op[o].pc = "list" /\ op[o].kind = "reset"
         /\ refreshTokens[q].saved /\ refreshTokens[q].grant.user = op[o].user)
        ~> refreshTokens[q].revoked

=============================================================================
