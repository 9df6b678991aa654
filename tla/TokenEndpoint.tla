--------------------------- MODULE TokenEndpoint ---------------------------
(***************************************************************************)
(* The OAuth handlers (internal/platform/http/oauth.go, consent.go and     *)
(* device.go).  net/http runs each request in a goroutine of its own, and  *)
(* a handler makes several calls on the stores with nothing held between   *)
(* them.  Each call is one step of the request; `pc' is the next call.     *)
(* A handler that returns an error before its first write leaves no trace: *)
(* that early return is a request that takes no further step.  One that    *)
(* returns after a write goes to "done".                                   *)
(***************************************************************************)
EXTENDS Accounts, OAuthStore

CONSTANTS
    GrantTypes,      \* SupportsGrant: the grant types each client may use
    AllowedScopes,   \* the scopes registered for each client
    Confidential,    \* the clients of application type "confidential"
    Introspectors,   \* AllowsIntrospectionBy: who else may introspect
    Decisions,       \* device decision requests
    Readers,         \* userinfo and introspection requests
    ScopeParams,     \* bound: the scope parameters requests carry
    Faulty           \* bound: the token requests whose store calls may fail

Kinds == {"authorization_code", "refresh_token", "device_code",
          "client_credentials"}

ASSUME EndpointAssumption ==
    /\ GrantTypes \in [Clients -> SUBSET Kinds]
    /\ AllowedScopes \in [Clients -> SUBSET Scopes]
    /\ Introspectors \in [Clients -> SUBSET Clients]
    /\ ScopeParams \subseteq SUBSET Scopes

VARIABLES
    authz,    \* authorization requests: GET /oauth2/authorize and the consent form
    asked,    \* device authorization requests
    decision, \* device decisions: POST /device
    req,      \* token requests: POST /oauth2/token
    reader    \* userinfo and introspection requests

endpointVars == <<authz, asked, decision, req, reader>>

AuthzRequest ==
    [pc : {"idle", "user", "consent", "page", "pageUser", "pageClient",
           "grant", "save", "done"},
     grant : Grant, proof : Proofs \union {NoProof}]

DeviceRequest ==
    [pc : {"idle", "save", "done"},
     client : Clients \union {NoClient}, scope : SUBSET Scopes]

DeviceDecision ==
    [pc : {"idle", "user", "decide", "done"},
     device : Devices \union {NoOrigin}, session : Sessions \union {NoSession}]

Validation == {"vUser", "vSession", "vConsent"}

TokenPc ==
    {"idle", "exchange", "saveAccess", "saveRefresh", "saveOIDC", "abort", "done"}
      \union Validation

\* `stale', which only properties read, says that the session behind the grant
\* had ended before this request first read the grant.
TokenRequest ==
    [pc : TokenPc,
     kind : Kinds \union {"none"},
     client : Clients \union {NoClient},
     grant : Grant,
     family : Requests \union {NoFamily},
     stale : BOOLEAN]

ReaderRequest ==
    [pc : {"idle", "find", "issuer", "accepted", "rejected"} \union Validation,
     client : Clients \union {NoClient},
     grant : Grant,
     stale : BOOLEAN]

EndpointTypeOK ==
    /\ authz \in [Codes -> AuthzRequest]
    /\ asked \in [Devices -> DeviceRequest]
    /\ decision \in [Decisions -> DeviceDecision]
    /\ req \in [Requests -> TokenRequest]
    /\ reader \in [Readers -> ReaderRequest]

EndpointInit ==
    /\ authz = [k \in Codes |->
                  [pc |-> "idle", grant |-> NoGrant, proof |-> NoProof]]
    /\ asked = [d \in Devices |-> [pc |-> "idle", client |-> NoClient, scope |-> {}]]
    /\ decision = [j \in Decisions |->
                     [pc |-> "idle", device |-> NoOrigin, session |-> NoSession]]
    /\ req = [q \in Requests |->
                [pc |-> "idle", kind |-> "none", client |-> NoClient,
                 grant |-> NoGrant, family |-> NoFamily, stale |-> FALSE]]
    /\ reader = [i \in Readers |->
                   [pc |-> "idle", client |-> NoClient, grant |-> NoGrant,
                    stale |-> FALSE]]

\* validateOAuthUserGrant, its three reads in order.
ValidUser(g) == userActive[g.user]
ValidSession(g) == SessionActive(g.user, g.session)
ValidConsent(g) == ConsentCovers(g.user, g.client, g.scope)

\* Mutant: the session is never looked up.
AfterUserSkipsSession(g) == "vConsent"

\* A grant without a session (device flow) skips the second read.
AfterUser(g) == IF g.session = NoSession THEN "vConsent" ELSE "vSession"

SessionEnded(g) == g.session # NoSession /\ sessions[g.session] # "active"

-----------------------------------------------------------------------------
(***************************************************************************)
(* GET /oauth2/authorize and the consent form.                             *)
(***************************************************************************)
authzOnly == UNCHANGED <<asked, decision, req, reader, accountVars>>

\* The client is enabled and may use the code grant, and currentSession finds
\* the session of the cookie.
Authorize(k, c, s, scope, p) ==
    /\ authz[k].pc = "idle"
    /\ clientEnabled[c] /\ "authorization_code" \in GrantTypes[c]
    /\ scope \subseteq AllowedScopes[c]
    /\ sessions[s] = "active"
    /\ authz' = [authz EXCEPT ![k] =
          [pc |-> "user", proof |-> p,
           grant |-> [client |-> c, user |-> SessionOwner[s], session |-> s,
                      scope |-> scope, origin |-> k, by |-> s]]]
    /\ UNCHANGED storeVars /\ authzOnly

\* currentSession reads the user after the session.
AuthorizeUser(k) ==
    /\ authz[k].pc \in {"user", "pageUser"}
    /\ authz' = [authz EXCEPT ![k].pc =
          IF ~userActive[authz[k].grant.user] THEN "done"
          ELSE IF authz[k].pc = "user" THEN "consent" ELSE "pageClient"]
    /\ UNCHANGED storeVars /\ authzOnly

\* requiresOAuthConsent: an existing consent that covers the scope is reused
\* unless the request carries prompt=consent.
RequiresConsent(k) ==
    /\ authz[k].pc = "consent"
    /\ authz' = [authz EXCEPT ![k].pc = "page"]
    /\ UNCHANGED storeVars /\ authzOnly

ReuseConsent(k) ==
    /\ authz[k].pc = "consent"
    /\ ValidConsent(authz[k].grant)
    /\ authz' = [authz EXCEPT ![k].pc = "save"]
    /\ UNCHANGED storeVars /\ authzOnly

\* oauthConsentDecision: the form comes back later.  The session is looked up
\* again, then its user, then the client; then the decision is taken.
ConsentForm(k) ==
    /\ authz[k].pc = "page"
    /\ sessions[authz[k].grant.session] = "active"
    /\ authz' = [authz EXCEPT ![k].pc = "pageUser"]
    /\ UNCHANGED storeVars /\ authzOnly

ConsentDecision(k, allow) ==
    /\ authz[k].pc = "pageClient"
    /\ clientEnabled[authz[k].grant.client]
    /\ authz' = [authz EXCEPT ![k].pc = IF allow THEN "grant" ELSE "done"]
    /\ UNCHANGED storeVars /\ authzOnly

RecordConsent(k) ==
    /\ authz[k].pc = "grant"
    /\ LET g == authz[k].grant IN GrantConsent(g.user, g.client, g.scope)
    /\ authz' = [authz EXCEPT ![k].pc = "save"]
    /\ authzOnly

issueAuthorizationCode(k) ==
    /\ authz[k].pc = "save"
    /\ SaveAuthorizationCode(k, authz[k].grant, authz[k].proof)
    /\ authz' = [authz EXCEPT ![k].pc = "done"]
    /\ authzOnly

AuthorizeNext(k) ==
    \/ \E c \in Clients, s \in Sessions, scope \in ScopeParams, p \in Proofs :
          Authorize(k, c, s, scope, p)
    \/ AuthorizeUser(k) \/ RequiresConsent(k) \/ ReuseConsent(k) \/ ConsentForm(k)
    \/ \E allow \in BOOLEAN : ConsentDecision(k, allow)
    \/ RecordConsent(k) \/ issueAuthorizationCode(k)

-----------------------------------------------------------------------------
(***************************************************************************)
(* POST /oauth2/device_authorization and the decision form at /device.     *)
(***************************************************************************)
deviceOnly == UNCHANGED <<authz, req, reader, accountVars>>

deviceAuthorization(d, c, scope) ==
    /\ asked[d].pc = "idle"
    /\ clientEnabled[c] /\ "device_code" \in GrantTypes[c]
    /\ scope \subseteq AllowedScopes[c]
    /\ asked' = [asked EXCEPT ![d] = [pc |-> "save", client |-> c, scope |-> scope]]
    /\ UNCHANGED <<storeVars, decision>> /\ deviceOnly

StoreDevice(d) ==
    /\ asked[d].pc = "save"
    /\ SaveDeviceAuthorization(d, asked[d].client, asked[d].scope)
    /\ asked' = [asked EXCEPT ![d].pc = "done"]
    /\ UNCHANGED decision /\ deviceOnly

\* deviceDecision: currentSession reads the session and then the user; only
\* then is the decision stored.  Several people may have the user code.
DeviceSession(j, d, s) ==
    /\ decision[j].pc = "idle" /\ devices[d].status # "none"
    /\ sessions[s] = "active"
    /\ decision' = [decision EXCEPT ![j] =
                       [pc |-> "user", device |-> d, session |-> s]]
    /\ UNCHANGED <<storeVars, asked>> /\ deviceOnly

DeviceUser(j) ==
    /\ decision[j].pc = "user"
    /\ decision' = [decision EXCEPT ![j].pc =
          IF userActive[SessionOwner[decision[j].session]] THEN "decide" ELSE "done"]
    /\ UNCHANGED <<storeVars, asked>> /\ deviceOnly

DeviceDecide(j, approve) ==
    /\ decision[j].pc = "decide"
    /\ DeviceDecidable(decision[j].device)
    /\ LET s == decision[j].session IN
         DecideDeviceAuthorization(decision[j].device, SessionOwner[s], s, approve)
    /\ decision' = [decision EXCEPT ![j].pc = "done"]
    /\ UNCHANGED asked /\ deviceOnly

DeviceNext ==
    \/ \E d \in Devices, c \in Clients, scope \in ScopeParams :
          deviceAuthorization(d, c, scope)
    \/ \E d \in Devices : StoreDevice(d)
    \/ \E j \in Decisions :
         \/ \E d \in Devices, s \in Sessions : DeviceSession(j, d, s)
         \/ DeviceUser(j)
         \/ \E approve \in BOOLEAN : DeviceDecide(j, approve)

-----------------------------------------------------------------------------
(***************************************************************************)
(* POST /oauth2/token.                                                     *)
(***************************************************************************)
reqOnly == UNCHANGED <<authz, asked, decision, reader, accountVars>>

GoTo(q, pc) == req' = [req EXCEPT ![q].pc = pc]

\* authenticateOAuthClient, and SupportsGrant on the record it returned.
authenticateOAuthClient(q, c, kind) ==
    /\ req[q].pc = "idle"
    /\ clientEnabled[c] /\ kind \in GrantTypes[c]
    /\ req' = [req EXCEPT ![q].pc = "exchange", ![q].kind = kind, ![q].client = c]
    /\ UNCHANGED storeVars /\ reqOnly

\* The request goes on with the grant the exchange returned.
Proceed(q, g, f) ==
    req' = [req EXCEPT ![q].pc = "vUser", ![q].grant = g, ![q].family = f,
                       ![q].stale = SessionEnded(g)]

\* issueUserTokens draws a new family when the client may refresh.
NewFamily(q) ==
    IF "refresh_token" \in GrantTypes[req[q].client] THEN q ELSE NoFamily

authorizationCodeToken(q, k, p) ==
    /\ req[q].pc = "exchange" /\ req[q].kind = "authorization_code"
    /\ CodeConsumable(k, req[q].client, p)
    /\ ConsumeAuthorizationCode(k)
    /\ Proceed(q, codes[k].grant, NewFamily(q))
    /\ reqOnly

\* requestedScopes first holds the scope parameter against the client's scopes.
refreshToken(q, old, scope) ==
    /\ req[q].pc = "exchange" /\ req[q].kind = "refresh_token"
    /\ scope \subseteq AllowedScopes[req[q].client]
    /\ \/ /\ Rotatable(old, req[q].client, scope)
          /\ RotateRefreshToken(q, old, scope)
          /\ Proceed(q, [refreshTokens[old].grant EXCEPT
                           !.scope = EffectiveScope(old, scope)],
                     refreshTokens[old].family)
       \/ /\ RefreshReused(old, req[q].client)
          /\ RevokeFamily(refreshTokens[old].family)
          /\ GoTo(q, "done")
    /\ reqOnly

deviceCodeToken(q, d) ==
    /\ req[q].pc = "exchange" /\ req[q].kind = "device_code"
    /\ DeviceRedeemable(d, req[q].client)
    /\ PollDeviceAuthorization(d)
    /\ Proceed(q, devices[d].grant, NewFamily(q))
    /\ reqOnly

\* No user, no session, no consent to check, and no refresh token.
clientCredentialsToken(q, scope) ==
    /\ req[q].pc = "exchange" /\ req[q].kind = "client_credentials"
    /\ req[q].client \in Confidential
    /\ scope \subseteq AllowedScopes[req[q].client] \ {"openid", "roles"}
    /\ req' = [req EXCEPT ![q].pc = "saveAccess",
          ![q].grant = [NoGrant EXCEPT !.client = req[q].client, !.scope = scope]]
    /\ UNCHANGED storeVars /\ reqOnly

\* A failed validation ends the request; a refresh first revokes what it rotated.
Refused(q) == IF req[q].kind = "refresh_token" THEN "abort" ELSE "done"

\* A read that fails with a storage error refuses the grant as well.
ReadFails(q) ==
    /\ q \in Faulty /\ req[q].pc \in Validation
    /\ GoTo(q, Refused(q))
    /\ UNCHANGED storeVars /\ reqOnly

ValidateUser(q) ==
    /\ req[q].pc = "vUser"
    /\ GoTo(q, IF ValidUser(req[q].grant) THEN AfterUser(req[q].grant) ELSE Refused(q))
    /\ UNCHANGED storeVars /\ reqOnly

ValidateSession(q) ==
    /\ req[q].pc = "vSession"
    /\ GoTo(q, IF ValidSession(req[q].grant) THEN "vConsent" ELSE Refused(q))
    /\ UNCHANGED storeVars /\ reqOnly

ValidateConsent(q) ==
    /\ req[q].pc = "vConsent"
    /\ GoTo(q, IF ValidConsent(req[q].grant) THEN "saveAccess" ELSE Refused(q))
    /\ UNCHANGED storeVars /\ reqOnly

\* The call after the refresh token, if any: the OIDC client session of an ID
\* token that names a session, for a client that wants logout notifications.
AfterTokens(q) ==
    IF /\ "openid" \in req[q].grant.scope /\ req[q].grant.session # NoSession
       /\ req[q].client \in Backchannel
      THEN "saveOIDC" ELSE "done"

AfterAccess(q) ==
    IF req[q].kind \in {"refresh_token", "client_credentials"} THEN "done"
    ELSE IF req[q].family # NoFamily THEN "saveRefresh" ELSE AfterTokens(q)

issueAccessToken(q) ==
    /\ req[q].pc = "saveAccess"
    /\ \/ /\ SaveAccessToken(q, req[q].grant, req[q].family)
          /\ GoTo(q, AfterAccess(q))
       \/ /\ q \in Faulty
          /\ UNCHANGED storeVars /\ GoTo(q, Refused(q))
    /\ reqOnly

issueRefreshToken(q) ==
    /\ req[q].pc = "saveRefresh"
    /\ \/ SaveRefreshToken(q, req[q].grant) /\ GoTo(q, AfterTokens(q))
       \/ q \in Faulty /\ UNCHANGED storeVars /\ GoTo(q, "done")
    /\ reqOnly

issueIDToken(q) ==
    /\ req[q].pc = "saveOIDC"
    /\ \/ SaveOIDCClientSession(req[q].grant.session, req[q].client)
       \/ q \in Faulty /\ UNCHANGED storeVars
    /\ GoTo(q, "done")
    /\ reqOnly

\* Mutant: a refused refresh leaves the rotated family as it is.
AbortRefreshKeeps(q) ==
    /\ req[q].pc = "abort"
    /\ UNCHANGED storeVars /\ GoTo(q, "done")
    /\ reqOnly

\* RevokeRefreshToken on the replacement; its own error is ignored.
AbortRefresh(q) ==
    /\ req[q].pc = "abort"
    /\ \/ RevokeFamily(req[q].family)
       \/ q \in Faulty /\ UNCHANGED storeVars
    /\ GoTo(q, "done")
    /\ reqOnly

\* The steps the server takes by itself once a request has been received.
TokenStep(q) ==
    \/ ReadFails(q) \/ ValidateUser(q) \/ ValidateSession(q) \/ ValidateConsent(q)
    \/ issueAccessToken(q) \/ issueRefreshToken(q) \/ issueIDToken(q)
    \/ AbortRefresh(q)

TokenNext(q) ==
    \/ \E c \in Clients, kind \in Kinds : authenticateOAuthClient(q, c, kind)
    \/ \E k \in Codes, p \in Proofs : authorizationCodeToken(q, k, p)
    \/ \E old \in Requests, scope \in ScopeParams \union {{}} :
          refreshToken(q, old, scope)
    \/ \E d \in Devices : deviceCodeToken(q, d)
    \/ \E scope \in ScopeParams : clientCredentialsToken(q, scope)
    \/ TokenStep(q)

\* POST /oauth2/revoke by the client a token was issued to.
revokeToken(q) ==
    /\ \/ accessTokens[q].saved /\ ~accessTokens[q].revoked /\ RevokeAccessToken(q)
       \/ refreshTokens[q].saved /\ ~refreshTokens[q].revoked
          /\ RevokeFamily(refreshTokens[q].family)
    /\ UNCHANGED req /\ reqOnly

-----------------------------------------------------------------------------
(***************************************************************************)
(* GET and POST /oauth2/userinfo, POST /oauth2/introspect.                 *)
(***************************************************************************)
readerOnly == UNCHANGED <<authz, asked, decision, req, accountVars, storeVars>>

\* The response is decided once the grant is validated; a token without a user
\* has no grant to validate.
Examine(i, g) ==
    reader' = [reader EXCEPT
        ![i].pc = IF g.user = NoUser THEN "accepted" ELSE "vUser",
        ![i].grant = g, ![i].stale = SessionEnded(g)]

userinfo(i, q) ==
    /\ reader[i].pc = "idle"
    /\ LiveAccessToken(q)
    /\ accessTokens[q].grant.user # NoUser /\ "openid" \in accessTokens[q].grant.scope
    /\ Examine(i, accessTokens[q].grant)
    /\ readerOnly

\* introspect: a confidential client authenticates first.
introspect(i, c) ==
    /\ reader[i].pc = "idle"
    /\ clientEnabled[c] /\ c \in Confidential
    /\ reader' = [reader EXCEPT ![i].pc = "find", ![i].client = c]
    /\ readerOnly

\* Another client's token needs one more read, of the client it was issued to.
introspectAccessToken(i, q) ==
    /\ reader[i].pc = "find"
    /\ LiveAccessToken(q)
    /\ LET g == accessTokens[q].grant IN
         IF g.client = reader[i].client
           THEN Examine(i, g)
           ELSE reader' = [reader EXCEPT ![i].pc = "issuer", ![i].grant = g,
                                         ![i].stale = SessionEnded(g)]
    /\ readerOnly

canIntrospectAccessToken(i) ==
    /\ reader[i].pc = "issuer"
    /\ LET g == reader[i].grant IN
         reader' = [reader EXCEPT ![i].pc =
            IF clientEnabled[g.client] /\ reader[i].client \in Introspectors[g.client]
              THEN (IF g.user = NoUser THEN "accepted" ELSE "vUser")
              ELSE "rejected"]
    /\ readerOnly

introspectRefreshToken(i, q) ==
    /\ reader[i].pc = "find"
    /\ LiveRefreshToken(q) /\ refreshTokens[q].grant.client = reader[i].client
    /\ Examine(i, refreshTokens[q].grant)
    /\ readerOnly

ReaderValidate(i) ==
    /\ reader[i].pc \in Validation
    /\ LET g == reader[i].grant IN
         reader' = [reader EXCEPT ![i].pc =
           CASE @ = "vUser"    -> IF ValidUser(g) THEN AfterUser(g) ELSE "rejected"
             [] @ = "vSession" -> IF ValidSession(g) THEN "vConsent" ELSE "rejected"
             [] @ = "vConsent" -> IF ValidConsent(g) THEN "accepted" ELSE "rejected"]
    /\ readerOnly

ReaderNext(i) ==
    \/ \E c \in Clients : introspect(i, c)
    \/ \E q \in Requests : \/ userinfo(i, q)
                           \/ introspectAccessToken(i, q)
                           \/ introspectRefreshToken(i, q)
    \/ canIntrospectAccessToken(i)
    \/ ReaderValidate(i)

EndpointNext ==
    \/ \E k \in Codes : AuthorizeNext(k)
    \/ DeviceNext
    \/ \E q \in Requests : TokenNext(q) \/ revokeToken(q)
    \/ \E i \in Readers : ReaderNext(i)
=============================================================================
