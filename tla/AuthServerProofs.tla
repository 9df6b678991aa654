-------------------------- MODULE AuthServerProofs --------------------------
(***************************************************************************)
(* The token service, for every value of its constants: its types, refresh *)
(* token families, codes and devices and what is issued from them, and     *)
(* what holds once a session is over, whoever revokes it.                  *)
(***************************************************************************)
EXTENDS AuthServer, TLAPS

(***************************************************************************)
(* TypeOK is not inductive: it leaves open that a handler half way through *)
(* has no session or no client in its hands.  The handlers set both first. *)
(***************************************************************************)
Bound ==
    /\ \A j \in Decisions : decision[j].pc \in {"user", "decide"} =>
          decision[j].device \in Devices /\ decision[j].session \in Sessions
    /\ \A q \in Requests :
          /\ req[q].pc # "idle" => req[q].client \in Clients
          /\ req[q].pc = "saveOIDC" => req[q].grant.session \in Sessions

TypeInv == TypeOK /\ Bound

-----------------------------------------------------------------------------
(***************************************************************************)
(* Types of the store operations.                                          *)
(***************************************************************************)
LEMMA RevokedRecords ==
    /\ \A r \in AuthorizationCode : [r EXCEPT !.revoked = TRUE] \in AuthorizationCode
    /\ \A r \in AccessToken : [r EXCEPT !.revoked = TRUE] \in AccessToken
    /\ \A r \in RefreshToken : [r EXCEPT !.revoked = TRUE] \in RefreshToken
    /\ \A r \in DeviceAuthorization :
          [r EXCEPT !.status = "denied"] \in DeviceAuthorization
BY DEF AuthorizationCode, AccessToken, RefreshToken, DeviceAuthorization, DeviceStatus

LEMMA GrantFields ==
    /\ NoGrant \in Grant
    /\ \A g \in Grant : /\ g.client \in Clients \union {NoClient}
                        /\ g.user \in Users \union {NoUser}
                        /\ g.session \in Sessions \union {NoSession}
                        /\ g.scope \in SUBSET Scopes
    /\ \A g \in Grant, S \in SUBSET Scopes : [g EXCEPT !.scope = S] \in Grant
    /\ \A g \in Grant, u \in Users, s \in Sessions :
          [g EXCEPT !.user = u, !.by = s] \in Grant
BY DEF Grant, NoGrant

LEMMA RevokeFamilyType ==
    ASSUME StoreTypeOK, NEW f, RevokeFamily(f)
    PROVE  StoreTypeOK'
<1>1. refreshTokens' \in [Requests -> RefreshToken]
  BY RevokedRecords DEF StoreTypeOK, RevokeFamily
<1>2. accessTokens' \in [Requests -> AccessToken]
  BY RevokedRecords DEF StoreTypeOK, RevokeFamily
<1> QED BY <1>1, <1>2 DEF StoreTypeOK, RevokeFamily

LEMMA BulkType ==
    ASSUME StoreTypeOK, NEW u, NEW s, NEW c
    PROVE  /\ RevokeSessionTokens(u, s) => StoreTypeOK'
           /\ RevokeUserTokens(u, s) => StoreTypeOK'
           /\ RevokeClientTokens(c) => StoreTypeOK'
           /\ DeleteConsent(u, c) => StoreTypeOK'
<1>1. RevokeSessionTokens(u, s) => StoreTypeOK'
  BY RevokedRecords DEF StoreTypeOK, RevokeSessionTokens, revokeMatchingTokens
<1>2. RevokeUserTokens(u, s) => StoreTypeOK'
  BY RevokedRecords DEF StoreTypeOK, RevokeUserTokens, revokeMatchingTokens, denyDevices
<1>3. RevokeClientTokens(c) => StoreTypeOK'
  BY RevokedRecords DEF StoreTypeOK, RevokeClientTokens, revokeMatchingTokens, denyDevices
<1>4. DeleteConsent(u, c) => StoreTypeOK'
  <2> SUFFICES ASSUME DeleteConsent(u, c) PROVE StoreTypeOK'
    OBVIOUS
  <2> DEFINE X == (SUBSET Scopes) \union {NoConsent}
  <2>1. consents \in [Users -> [Clients -> X]] /\ NoConsent \in X
    BY DEF StoreTypeOK
  <2> HIDE DEF X
  <2>2. [consents EXCEPT ![u][c] = NoConsent] \in [Users -> [Clients -> X]]
    BY <2>1
  <2>3. consents' \in [Users -> [Clients -> X]]
    BY <2>2 DEF DeleteConsent
  <2> QED
    BY <2>3, RevokedRecords
    DEF StoreTypeOK, DeleteConsent, revokeMatchingTokens, denyDevices, X
<1> QED BY <1>1, <1>2, <1>3, <1>4

LEMMA CodeType ==
    ASSUME StoreTypeOK, NEW k \in Codes, NEW g \in Grant,
           NEW p \in Proofs \union {NoProof}
    PROVE  /\ SaveAuthorizationCode(k, g, p) => StoreTypeOK'
           /\ ConsumeAuthorizationCode(k) => StoreTypeOK'
<1>1. SaveAuthorizationCode(k, g, p) => StoreTypeOK'
  BY DEF StoreTypeOK, SaveAuthorizationCode, AuthorizationCode
<1>2. ConsumeAuthorizationCode(k) => StoreTypeOK'
  BY DEF StoreTypeOK, ConsumeAuthorizationCode, AuthorizationCode
<1> QED BY <1>1, <1>2

LEMMA TokenType ==
    ASSUME StoreTypeOK, NEW q \in Requests, NEW g \in Grant,
           NEW f \in Requests \union {NoFamily}
    PROVE  /\ SaveAccessToken(q, g, f) => StoreTypeOK'
           /\ SaveRefreshToken(q, g) => StoreTypeOK'
           /\ RevokeAccessToken(q) => StoreTypeOK'
<1>1. SaveAccessToken(q, g, f) => StoreTypeOK'
  BY DEF StoreTypeOK, SaveAccessToken, AccessToken
<1>2. SaveRefreshToken(q, g) => StoreTypeOK'
  BY DEF StoreTypeOK, SaveRefreshToken, RefreshToken
<1>3. RevokeAccessToken(q) => StoreTypeOK'
  BY DEF StoreTypeOK, RevokeAccessToken, AccessToken
<1> QED BY <1>1, <1>2, <1>3

LEMMA RotatedGrant ==
    ASSUME StoreTypeOK, NEW old \in Requests, NEW scope \in SUBSET Scopes
    PROVE  [refreshTokens[old].grant EXCEPT !.scope = EffectiveScope(old, scope)] \in Grant
<1>1. refreshTokens[old].grant \in Grant
  BY DEF StoreTypeOK, RefreshToken
<1>2. EffectiveScope(old, scope) \in SUBSET Scopes
  BY <1>1, GrantFields DEF EffectiveScope
<1> QED BY <1>1, <1>2, GrantFields

LEMMA RotateType ==
    ASSUME StoreTypeOK, NEW q \in Requests, NEW old \in Requests,
           NEW scope \in SUBSET Scopes, RotateRefreshToken(q, old, scope)
    PROVE  StoreTypeOK'
<1> DEFINE g == [refreshTokens[old].grant EXCEPT !.scope = EffectiveScope(old, scope)]
<1>1. g \in Grant
  BY RotatedGrant
<1>2. refreshTokens[old].family \in Requests \union {NoFamily}
  BY DEF StoreTypeOK, RefreshToken
<1> HIDE DEF g
<1>3. [saved |-> TRUE, grant |-> g, family |-> refreshTokens[old].family,
       parent |-> old, consumed |-> FALSE, revoked |-> FALSE, expired |-> FALSE]
        \in RefreshToken
  BY <1>1, <1>2 DEF RefreshToken
<1>4. [refreshTokens[old] EXCEPT !.consumed = TRUE] \in RefreshToken
  BY DEF StoreTypeOK, RefreshToken
<1>5. refreshTokens' \in [Requests -> RefreshToken]
  BY <1>3, <1>4 DEF StoreTypeOK, RotateRefreshToken, g
<1> QED BY <1>5 DEF StoreTypeOK, RotateRefreshToken

LEMMA ConsentType ==
    ASSUME StoreTypeOK, NEW u \in Users, NEW c, NEW scope \in SUBSET Scopes
    PROVE  [consents EXCEPT ![u][c] = mergeScopes(@, scope)]
             \in [Users -> [Clients -> (SUBSET Scopes) \union {NoConsent}]]
<1> DEFINE X == (SUBSET Scopes) \union {NoConsent}
<1>1. c \in Clients => mergeScopes(consents[u][c], scope) \in X
  BY DEF StoreTypeOK, mergeScopes
<1>2. consents \in [Users -> [Clients -> X]]
  BY DEF StoreTypeOK
<1> HIDE DEF X
<1>3. [consents[u] EXCEPT ![c] = mergeScopes(@, scope)] \in [Clients -> X]
  BY <1>1, <1>2
<1>4. [consents EXCEPT ![u][c] = mergeScopes(@, scope)] \in [Users -> [Clients -> X]]
  BY <1>2, <1>3
<1> QED BY <1>4 DEF X

LEMMA SavedDeviceType ==
    ASSUME StoreTypeOK, NEW d \in Devices, NEW c \in Clients \union {NoClient},
           NEW scope \in SUBSET Scopes, SaveDeviceAuthorization(d, c, scope)
    PROVE  StoreTypeOK'
<1> DEFINE g == [NoGrant EXCEPT !.client = c, !.scope = scope, !.origin = d]
<1>1. g \in Grant
  BY DEF Grant, NoGrant
<1> HIDE DEF g
<1>2. [status |-> "pending", expired |-> FALSE, grant |-> g] \in DeviceAuthorization
  BY <1>1 DEF DeviceAuthorization, DeviceStatus
<1> QED BY <1>2 DEF StoreTypeOK, SaveDeviceAuthorization, g

LEMMA DecidedDeviceType ==
    ASSUME StoreTypeOK, NEW d \in Devices, NEW u \in Users, NEW s \in Sessions,
           NEW approve \in BOOLEAN, DecideDeviceAuthorization(d, u, s, approve)
    PROVE  StoreTypeOK'
<1>1. devices[d].grant \in Grant /\ devices[d].grant.scope \in SUBSET Scopes
  BY GrantFields DEF StoreTypeOK, DeviceAuthorization
<1>2. consents' \in [Users -> [Clients -> (SUBSET Scopes) \union {NoConsent}]]
  BY <1>1, ConsentType DEF StoreTypeOK, DecideDeviceAuthorization
<1>3. devices' \in [Devices -> DeviceAuthorization]
  <2>1. devices[d] \in DeviceAuthorization
    BY DEF StoreTypeOK
  <2>2. [[devices[d].grant EXCEPT !.user = u] EXCEPT !.by = s] \in Grant
    BY <1>1 DEF Grant
  <2> DEFINE st == IF approve THEN "approved" ELSE "denied"
             g == [[devices[d].grant EXCEPT !.user = u] EXCEPT !.by = s]
             new == [devices[d] EXCEPT !.status = st, !.grant = g]
  <2>3. st \in DeviceStatus
    BY DEF DeviceStatus
  <2>4. devices' = [devices EXCEPT ![d] = new]
    BY <2>1 DEF DecideDeviceAuthorization, StoreTypeOK, DeviceAuthorization, Grant
  <2> HIDE DEF st, g
  <2>5. new \in DeviceAuthorization
    BY <2>1, <2>2, <2>3 DEF DeviceAuthorization, g
  <2> HIDE DEF new
  <2> QED BY <2>4, <2>5 DEF StoreTypeOK
<1> QED BY <1>2, <1>3 DEF StoreTypeOK, DecideDeviceAuthorization

LEMMA PolledDeviceType ==
    ASSUME StoreTypeOK, NEW d \in Devices, PollDeviceAuthorization(d)
    PROVE  StoreTypeOK'
BY DEF StoreTypeOK, PollDeviceAuthorization, DeviceAuthorization, DeviceStatus

LEMMA ExpiryType ==
    ASSUME StoreTypeOK, Expiry
    PROVE  StoreTypeOK'
<1>1. ASSUME NEW k \in Codes, ExpireCode(k) PROVE StoreTypeOK'
  BY <1>1 DEF StoreTypeOK, ExpireCode, AuthorizationCode
<1>2. ASSUME NEW q \in Requests, ExpireAccessToken(q) PROVE StoreTypeOK'
  BY <1>2 DEF StoreTypeOK, ExpireAccessToken, AccessToken
<1>3. ASSUME NEW q \in Requests, ExpireRefreshToken(q) PROVE StoreTypeOK'
  BY <1>3 DEF StoreTypeOK, ExpireRefreshToken, RefreshToken
<1>4. ASSUME NEW d \in Devices, ExpireDevice(d) PROVE StoreTypeOK'
  BY <1>4 DEF StoreTypeOK, ExpireDevice, DeviceAuthorization
<1> QED BY <1>1, <1>2, <1>3, <1>4 DEF Expiry

-----------------------------------------------------------------------------
(***************************************************************************)
(* Types of the handlers' own state.                                       *)
(***************************************************************************)
LEMMA AccountType ==
    ASSUME AccountTypeOK, AccountNext
    PROVE  AccountTypeOK'
<1>1. ASSUME NEW s \in Sessions, CreateSession(s) PROVE AccountTypeOK'
  BY <1>1 DEF AccountTypeOK, CreateSession, SessionStatus
<1>2. ASSUME NEW s \in Sessions, ExpireSession(s) PROVE AccountTypeOK'
  BY <1>2 DEF AccountTypeOK, ExpireSession, SessionStatus
<1>3. ASSUME NEW u \in Users, ActivateUser(u) PROVE AccountTypeOK'
  BY <1>3 DEF AccountTypeOK, ActivateUser
<1>4. ASSUME NEW c \in Clients, EnableClient(c) PROVE AccountTypeOK'
  BY <1>4 DEF AccountTypeOK, EnableClient
<1> QED BY <1>1, <1>2, <1>3, <1>4 DEF AccountNext

LEMMA AuthorizeType ==
    ASSUME TypeOK, NEW k \in Codes, AuthorizeNext(k)
    PROVE  StoreTypeOK' /\ EndpointTypeOK'
<1> USE DEF TypeOK
<1>0. /\ authz[k] \in AuthzRequest /\ authz[k].grant \in Grant
      /\ authz[k].proof \in Proofs \union {NoProof}
      /\ authz \in [Codes -> AuthzRequest]
  BY DEF EndpointTypeOK, AuthzRequest
<1>1. ASSUME NEW pc \in {"idle", "user", "consent", "page", "pageUser", "pageClient",
                         "grant", "save", "done"},
             authz' = [authz EXCEPT ![k].pc = pc], authzOnly
      PROVE  EndpointTypeOK'
  BY <1>0, <1>1 DEF EndpointTypeOK, AuthzRequest, authzOnly
<1>2. ASSUME NEW c \in Clients, NEW s \in Sessions, NEW scope \in ScopeParams,
             NEW p \in Proofs, Authorize(k, c, s, scope, p)
      PROVE  StoreTypeOK' /\ EndpointTypeOK'
  <2> DEFINE g == [client |-> c, user |-> SessionOwner[s], session |-> s,
                   scope |-> scope, origin |-> k, by |-> s]
  <2>1. g \in Grant
    BY EndpointAssumption, SessionOwnerAssumption DEF Grant
  <2> HIDE DEF g
  <2>2. [pc |-> "user", proof |-> p, grant |-> g] \in AuthzRequest
    BY <2>1 DEF AuthzRequest
  <2>3. authz' \in [Codes -> AuthzRequest]
    BY <1>2, <2>2, <1>0 DEF Authorize, g
  <2> QED BY <1>2, <2>3 DEF Authorize, StoreTypeOK, storeVars, EndpointTypeOK, authzOnly
<1>3. ASSUME AuthorizeUser(k) PROVE StoreTypeOK' /\ EndpointTypeOK'
  BY <1>1, <1>3 DEF AuthorizeUser, StoreTypeOK, storeVars
<1>4. ASSUME RequiresConsent(k) PROVE StoreTypeOK' /\ EndpointTypeOK'
  BY <1>1, <1>4 DEF RequiresConsent, StoreTypeOK, storeVars
<1>5. ASSUME ReuseConsent(k) PROVE StoreTypeOK' /\ EndpointTypeOK'
  BY <1>1, <1>5 DEF ReuseConsent, StoreTypeOK, storeVars
<1>6. ASSUME ConsentForm(k) PROVE StoreTypeOK' /\ EndpointTypeOK'
  BY <1>1, <1>6 DEF ConsentForm, StoreTypeOK, storeVars
<1>7. ASSUME NEW allow \in BOOLEAN, ConsentDecision(k, allow)
      PROVE  StoreTypeOK' /\ EndpointTypeOK'
  BY <1>1, <1>7 DEF ConsentDecision, StoreTypeOK, storeVars
<1>8. ASSUME RecordConsent(k) PROVE StoreTypeOK' /\ EndpointTypeOK'
  <2>1. EndpointTypeOK'
    BY <1>1, <1>8 DEF RecordConsent
  <2>2. authz[k].grant.scope \in SUBSET Scopes
    BY <1>0, GrantFields
  <2>3. consents' \in [Users -> [Clients -> (SUBSET Scopes) \union {NoConsent}]]
    <3>1. CASE authz[k].grant.user \in Users
      BY <1>8, <2>2, <3>1, ConsentType DEF RecordConsent, GrantConsent
    <3>2. CASE authz[k].grant.user \notin Users
      BY <1>8, <3>2 DEF RecordConsent, GrantConsent, StoreTypeOK
    <3> QED BY <3>1, <3>2
  <2> QED BY <1>8, <2>1, <2>3 DEF RecordConsent, GrantConsent, StoreTypeOK
<1>9. ASSUME issueAuthorizationCode(k) PROVE StoreTypeOK' /\ EndpointTypeOK'
  <2>1. EndpointTypeOK'
    BY <1>1, <1>9 DEF issueAuthorizationCode
  <2>2. StoreTypeOK'
    BY <1>0, <1>9, CodeType DEF issueAuthorizationCode
  <2> QED BY <2>1, <2>2
<1> QED
  BY <1>2, <1>3, <1>4, <1>5, <1>6, <1>7, <1>8, <1>9, AuthorizeNext(k) DEF AuthorizeNext

LEMMA DeviceNextType ==
    ASSUME TypeInv, DeviceNext
    PROVE  StoreTypeOK' /\ EndpointTypeOK'
<1> USE DEF TypeInv, TypeOK
<1>0. /\ asked \in [Devices -> DeviceRequest]
      /\ decision \in [Decisions -> DeviceDecision]
  BY DEF EndpointTypeOK
<1>1. ASSUME NEW d \in Devices, NEW c \in Clients, NEW scope \in ScopeParams,
             deviceAuthorization(d, c, scope)
      PROVE  StoreTypeOK' /\ EndpointTypeOK'
  <2>1. [pc |-> "save", client |-> c, scope |-> scope] \in DeviceRequest
    BY EndpointAssumption DEF DeviceRequest
  <2>2. asked' \in [Devices -> DeviceRequest]
    BY <1>0, <1>1, <2>1 DEF deviceAuthorization
  <2> QED BY <1>1, <2>2 DEF deviceAuthorization, StoreTypeOK, storeVars,
                              EndpointTypeOK, deviceOnly
<1>2. ASSUME NEW d \in Devices, StoreDevice(d) PROVE StoreTypeOK' /\ EndpointTypeOK'
  <2>1. asked' \in [Devices -> DeviceRequest]
    BY <1>0, <1>2 DEF StoreDevice, DeviceRequest
  <2>2. asked[d].client \in Clients \union {NoClient} /\ asked[d].scope \in SUBSET Scopes
    BY <1>0 DEF DeviceRequest
  <2>3. StoreTypeOK'
    <3>1. SaveDeviceAuthorization(d, asked[d].client, asked[d].scope)
      BY <1>2 DEF StoreDevice
    <3> QED BY <2>2, <3>1, SavedDeviceType
  <2> QED BY <1>2, <2>1, <2>3 DEF StoreDevice, EndpointTypeOK, deviceOnly
<1>3. ASSUME NEW j \in Decisions, NEW d \in Devices, NEW s \in Sessions,
             DeviceSession(j, d, s)
      PROVE  StoreTypeOK' /\ EndpointTypeOK'
  BY <1>0, <1>3 DEF DeviceSession, DeviceDecision, StoreTypeOK, storeVars,
                    EndpointTypeOK, deviceOnly
<1>4. ASSUME NEW j \in Decisions, DeviceUser(j) PROVE StoreTypeOK' /\ EndpointTypeOK'
  BY <1>0, <1>4 DEF DeviceUser, DeviceDecision, StoreTypeOK, storeVars,
                    EndpointTypeOK, deviceOnly
<1>5. ASSUME NEW j \in Decisions, NEW approve \in BOOLEAN, DeviceDecide(j, approve)
      PROVE  StoreTypeOK' /\ EndpointTypeOK'
  <2>1. decision' \in [Decisions -> DeviceDecision]
    BY <1>0, <1>5 DEF DeviceDecide, DeviceDecision
  <2>2. /\ decision[j].device \in Devices /\ decision[j].session \in Sessions
        /\ SessionOwner[decision[j].session] \in Users
    BY <1>5, SessionOwnerAssumption DEF DeviceDecide, Bound
  <2>3. StoreTypeOK'
    BY <1>5, <2>2, DecidedDeviceType DEF DeviceDecide
  <2> QED BY <1>5, <2>1, <2>3 DEF DeviceDecide, EndpointTypeOK, deviceOnly
<1> QED BY <1>1, <1>2, <1>3, <1>4, <1>5 DEF DeviceNext

LEMMA GoToType ==
    ASSUME TypeInv, NEW q \in Requests, NEW pc \in TokenPc, GoTo(q, pc), reqOnly,
           req[q].pc # "idle", pc = "saveOIDC" => req[q].grant.session \in Sessions
    PROVE  EndpointTypeOK' /\ Bound'
<1>1. req \in [Requests -> TokenRequest]
  BY DEF TypeInv, TypeOK, EndpointTypeOK
<1> DEFINE new == [req[q] EXCEPT !.pc = pc]
<1>2. new \in TokenRequest
  BY <1>1 DEF TokenRequest
<1>3. req' = [req EXCEPT ![q] = new]
  BY <1>1 DEF GoTo
<1>4. new.client = req[q].client /\ new.grant = req[q].grant /\ new.pc = pc
  BY <1>1 DEF TokenRequest
<1> HIDE DEF new
<1>5. req' \in [Requests -> TokenRequest]
  BY <1>1, <1>2, <1>3
<1>6. EndpointTypeOK'
  BY <1>5 DEF TypeInv, TypeOK, EndpointTypeOK, reqOnly
<1>7. Bound'
  BY <1>1, <1>3, <1>4 DEF TypeInv, Bound, reqOnly
<1> QED BY <1>6, <1>7

LEMMA ProceedType ==
    ASSUME TypeInv, NEW q \in Requests, NEW g \in Grant,
           NEW f \in Requests \union {NoFamily}, Proceed(q, g, f), reqOnly,
           req[q].pc # "idle"
    PROVE  EndpointTypeOK' /\ Bound'
<1>1. req \in [Requests -> TokenRequest]
  BY DEF TypeInv, TypeOK, EndpointTypeOK
<1> DEFINE st == SessionEnded(g)
           new == [req[q] EXCEPT !.pc = "vUser", !.grant = g, !.family = f, !.stale = st]
<1>2. st \in BOOLEAN
  BY DEF SessionEnded
<1>3. req' = [req EXCEPT ![q] = new]
  BY <1>1 DEF Proceed
<1> HIDE DEF st
<1>4. new \in TokenRequest
  BY <1>1, <1>2 DEF TokenRequest, TokenPc, Validation
<1>5. new.client = req[q].client /\ new.pc = "vUser"
  BY <1>1 DEF TokenRequest
<1> HIDE DEF new
<1>6. req' \in [Requests -> TokenRequest]
  BY <1>1, <1>3, <1>4
<1>7. EndpointTypeOK'
  BY <1>6 DEF TypeInv, TypeOK, EndpointTypeOK, reqOnly
<1>8. Bound'
  BY <1>1, <1>3, <1>5 DEF TypeInv, Bound, reqOnly
<1> QED BY <1>7, <1>8

LEMMA AuthenticateType ==
    ASSUME TypeInv, NEW q \in Requests, NEW c \in Clients, NEW kind \in Kinds,
           authenticateOAuthClient(q, c, kind)
    PROVE  StoreTypeOK' /\ EndpointTypeOK' /\ Bound'
<1>1. req \in [Requests -> TokenRequest]
  BY DEF TypeInv, TypeOK, EndpointTypeOK
<1> DEFINE new == [req[q] EXCEPT !.pc = "exchange", !.kind = kind, !.client = c]
<1>2. new \in TokenRequest /\ new.pc = "exchange" /\ new.client = c
  BY <1>1 DEF TokenRequest, TokenPc
<1>3. req' = [req EXCEPT ![q] = new]
  BY <1>1 DEF authenticateOAuthClient
<1> HIDE DEF new
<1>4. req' \in [Requests -> TokenRequest]
  BY <1>1, <1>2, <1>3
<1>5. Bound'
  BY <1>1, <1>2, <1>3 DEF TypeInv, Bound, authenticateOAuthClient, reqOnly
<1> QED BY <1>4, <1>5 DEF TypeInv, TypeOK, EndpointTypeOK, StoreTypeOK, storeVars,
                            authenticateOAuthClient, reqOnly

LEMMA CredentialsType ==
    ASSUME TypeInv, NEW q \in Requests, NEW scope \in ScopeParams,
           clientCredentialsToken(q, scope)
    PROVE  StoreTypeOK' /\ EndpointTypeOK' /\ Bound'
<1>1. req \in [Requests -> TokenRequest]
  BY DEF TypeInv, TypeOK, EndpointTypeOK
<1> DEFINE g == [NoGrant EXCEPT !.client = req[q].client, !.scope = scope]
           new == [req[q] EXCEPT !.pc = "saveAccess", !.grant = g]
<1>2. g \in Grant
  BY <1>1, EndpointAssumption DEF Grant, NoGrant, TokenRequest
<1>3. req' = [req EXCEPT ![q] = new]
  BY <1>1 DEF clientCredentialsToken
<1> HIDE DEF g
<1>4. new \in TokenRequest /\ new.pc = "saveAccess" /\ new.client = req[q].client
  BY <1>1, <1>2 DEF TokenRequest, TokenPc
<1> HIDE DEF new
<1>5. req' \in [Requests -> TokenRequest]
  BY <1>1, <1>3, <1>4
<1>6. Bound'
  BY <1>1, <1>3, <1>4 DEF TypeInv, Bound, clientCredentialsToken, reqOnly
<1> QED BY <1>5, <1>6 DEF TypeInv, TypeOK, EndpointTypeOK, StoreTypeOK, storeVars,
                            clientCredentialsToken, reqOnly

LEMMA ExchangeType ==
    ASSUME TypeInv, NEW q \in Requests
    PROVE  /\ \A k \in Codes, p \in Proofs : authorizationCodeToken(q, k, p)
                => StoreTypeOK' /\ EndpointTypeOK' /\ Bound'
           /\ \A old \in Requests, scope \in SUBSET Scopes : refreshToken(q, old, scope)
                => StoreTypeOK' /\ EndpointTypeOK' /\ Bound'
           /\ \A d \in Devices : deviceCodeToken(q, d)
                => StoreTypeOK' /\ EndpointTypeOK' /\ Bound'
<1>0. StoreTypeOK /\ NewFamily(q) \in Requests \union {NoFamily} /\ "done" \in TokenPc
  BY DEF TypeInv, TypeOK, NewFamily, TokenPc
<1>1. ASSUME NEW k \in Codes, NEW p \in Proofs, authorizationCodeToken(q, k, p)
      PROVE  StoreTypeOK' /\ EndpointTypeOK' /\ Bound'
  <2>1. codes[k].grant \in Grant
    BY <1>0 DEF StoreTypeOK, AuthorizationCode
  <2>2. EndpointTypeOK' /\ Bound'
    BY <1>0, <1>1, <2>1, ProceedType DEF authorizationCodeToken
  <2>3. StoreTypeOK'
    BY <1>0, <1>1, <2>1, CodeType DEF authorizationCodeToken
  <2> QED BY <2>2, <2>3
<1>2. ASSUME NEW old \in Requests, NEW scope \in SUBSET Scopes, refreshToken(q, old, scope)
      PROVE  StoreTypeOK' /\ EndpointTypeOK' /\ Bound'
  <2> DEFINE g == [refreshTokens[old].grant EXCEPT !.scope = EffectiveScope(old, scope)]
  <2>1. g \in Grant /\ refreshTokens[old].family \in Requests \union {NoFamily}
    BY <1>0, RotatedGrant DEF StoreTypeOK, RefreshToken
  <2>2. req[q].pc = "exchange" /\ reqOnly
    BY <1>2 DEF refreshToken
  <2>3. CASE RotateRefreshToken(q, old, scope) /\ Proceed(q, g, refreshTokens[old].family)
    <3> HIDE DEF g
    <3>1. EndpointTypeOK' /\ Bound'
      BY <2>1, <2>2, <2>3, ProceedType
    <3> QED BY <1>0, <2>3, <3>1, RotateType
  <2>4. CASE RevokeFamily(refreshTokens[old].family) /\ GoTo(q, "done")
    <3>1. EndpointTypeOK' /\ Bound'
      BY <1>0, <2>2, <2>4, GoToType
    <3> QED BY <1>0, <2>4, <3>1, RevokeFamilyType
  <2> QED BY <1>2, <2>3, <2>4 DEF refreshToken
<1>3. ASSUME NEW d \in Devices, deviceCodeToken(q, d)
      PROVE  StoreTypeOK' /\ EndpointTypeOK' /\ Bound'
  <2>1. devices[d].grant \in Grant
    BY <1>0 DEF StoreTypeOK, DeviceAuthorization
  <2>2. EndpointTypeOK' /\ Bound'
    BY <1>0, <1>3, <2>1, ProceedType DEF deviceCodeToken
  <2>3. StoreTypeOK'
    BY <1>0, <1>3, PolledDeviceType DEF deviceCodeToken
  <2> QED BY <2>2, <2>3
<1> QED BY <1>1, <1>2, <1>3

LEMMA TokenStepType ==
    ASSUME TypeInv, NEW q \in Requests, TokenStep(q)
    PROVE  StoreTypeOK' /\ EndpointTypeOK' /\ Bound'
<1>0. /\ StoreTypeOK /\ req[q] \in TokenRequest /\ req[q].grant \in Grant
      /\ req[q].family \in Requests \union {NoFamily}
      /\ Refused(q) \in TokenPc \ {"saveOIDC"}
      /\ "done" \in TokenPc
  BY DEF TypeInv, TypeOK, EndpointTypeOK, TokenRequest, Refused, TokenPc
<1>1. ASSUME NEW pc \in TokenPc, pc # "saveOIDC", GoTo(q, pc), reqOnly, req[q].pc # "idle"
      PROVE  EndpointTypeOK' /\ Bound'
  BY <1>1, GoToType
<1>2. AfterTokens(q) \in TokenPc
      /\ (AfterTokens(q) = "saveOIDC" => req[q].grant.session \in Sessions)
  BY <1>0, GrantFields DEF AfterTokens, TokenPc
<1>3. CASE ReadFails(q)
  BY <1>0, <1>1, <1>3 DEF ReadFails, Validation, StoreTypeOK, storeVars
<1>4. CASE ValidateUser(q)
  <2>1. AfterUser(req[q].grant) \in TokenPc \ {"saveOIDC"}
    BY DEF AfterUser, TokenPc, Validation
  <2> QED BY <1>0, <1>1, <1>4, <2>1 DEF ValidateUser, StoreTypeOK, storeVars
<1>5. CASE ValidateSession(q)
  <2>1. "vConsent" \in TokenPc
    BY DEF TokenPc, Validation
  <2> QED BY <1>0, <1>1, <1>5, <2>1 DEF ValidateSession, StoreTypeOK, storeVars
<1>6. CASE ValidateConsent(q)
  <2>1. "saveAccess" \in TokenPc
    BY DEF TokenPc
  <2> QED BY <1>0, <1>1, <1>6, <2>1 DEF ValidateConsent, StoreTypeOK, storeVars
<1>7. CASE issueAccessToken(q)
  <2>1. AfterAccess(q) \in TokenPc
        /\ (AfterAccess(q) = "saveOIDC" => req[q].grant.session \in Sessions)
    BY <1>2 DEF AfterAccess, TokenPc
  <2>2. CASE SaveAccessToken(q, req[q].grant, req[q].family) /\ GoTo(q, AfterAccess(q))
    <3>1. EndpointTypeOK' /\ Bound'
      BY <1>7, <2>1, <2>2, GoToType DEF issueAccessToken
    <3> QED BY <1>0, <2>2, <3>1, TokenType
  <2>3. CASE UNCHANGED storeVars /\ GoTo(q, Refused(q))
    BY <1>0, <1>1, <1>7, <2>3 DEF issueAccessToken, StoreTypeOK, storeVars
  <2> QED BY <1>7, <2>2, <2>3 DEF issueAccessToken
<1>8. CASE issueRefreshToken(q)
  <2>1. CASE SaveRefreshToken(q, req[q].grant) /\ GoTo(q, AfterTokens(q))
    <3>1. EndpointTypeOK' /\ Bound'
      BY <1>2, <1>8, <2>1, GoToType DEF issueRefreshToken
    <3> QED BY <1>0, <2>1, <3>1, TokenType
  <2>2. CASE UNCHANGED storeVars /\ GoTo(q, "done")
    BY <1>0, <1>1, <1>8, <2>2 DEF issueRefreshToken, StoreTypeOK, storeVars
  <2> QED BY <1>8, <2>1, <2>2 DEF issueRefreshToken
<1>9. CASE issueIDToken(q)
  <2>1. EndpointTypeOK' /\ Bound'
    BY <1>0, <1>1, <1>9 DEF issueIDToken
  <2>2. req[q].grant.session \in Sessions /\ req[q].client \in Clients
    BY <1>9 DEF issueIDToken, TypeInv, Bound
  <2>3. StoreTypeOK'
    BY <1>0, <1>9, <2>2 DEF issueIDToken, SaveOIDCClientSession, StoreTypeOK, storeVars
  <2> QED BY <2>1, <2>3
<1>10. CASE AbortRefresh(q)
  <2>1. EndpointTypeOK' /\ Bound'
    BY <1>0, <1>1, <1>10 DEF AbortRefresh
  <2>2. CASE RevokeFamily(req[q].family)
    BY <1>0, <2>1, <2>2, RevokeFamilyType
  <2>3. CASE UNCHANGED storeVars
    BY <1>0, <2>1, <2>3 DEF StoreTypeOK, storeVars
  <2> QED BY <1>10, <2>2, <2>3 DEF AbortRefresh
<1> QED
  BY <1>3, <1>4, <1>5, <1>6, <1>7, <1>8, <1>9, <1>10, TokenStep(q) DEF TokenStep

LEMMA TokenNextType ==
    ASSUME TypeInv, NEW q \in Requests, TokenNext(q) \/ revokeToken(q)
    PROVE  StoreTypeOK' /\ EndpointTypeOK' /\ Bound'
<1>1. CASE TokenNext(q)
  <2>1. \A scope \in ScopeParams \union {{}} : scope \in SUBSET Scopes
    BY EndpointAssumption
  <2> QED
    BY <1>1, <2>1, AuthenticateType, ExchangeType, CredentialsType, TokenStepType
    DEF TokenNext
<1>2. CASE revokeToken(q)
  <2>1. EndpointTypeOK' /\ Bound'
    BY <1>2 DEF revokeToken, reqOnly, TypeInv, TypeOK, EndpointTypeOK, Bound
  <2>2. StoreTypeOK /\ NoGrant \in Grant
    BY GrantFields DEF TypeInv, TypeOK
  <2>3. CASE RevokeAccessToken(q)
    BY <2>1, <2>2, <2>3, TokenType
  <2>4. CASE RevokeFamily(refreshTokens[q].family)
    BY <2>1, <2>2, <2>4, RevokeFamilyType
  <2> QED BY <1>2, <2>3, <2>4 DEF revokeToken
<1> QED BY <1>1, <1>2

LEMMA ReaderType ==
    ASSUME TypeInv, NEW i \in Readers, ReaderNext(i)
    PROVE  StoreTypeOK' /\ EndpointTypeOK' /\ Bound'
<1>0. /\ reader \in [Readers -> ReaderRequest] /\ reader[i].grant \in Grant
      /\ \A q \in Requests : accessTokens[q].grant \in Grant /\ refreshTokens[q].grant \in Grant
      /\ \A g : SessionEnded(g) \in BOOLEAN
  BY DEF TypeInv, TypeOK, EndpointTypeOK, ReaderRequest, StoreTypeOK, AccessToken,
         RefreshToken, SessionEnded
<1>1. ASSUME NEW new \in ReaderRequest, reader' = [reader EXCEPT ![i] = new], readerOnly
      PROVE  StoreTypeOK' /\ EndpointTypeOK' /\ Bound'
  BY <1>0, <1>1 DEF TypeInv, TypeOK, EndpointTypeOK, StoreTypeOK, storeVars, Bound, readerOnly
<1>2. ASSUME NEW g \in Grant, Examine(i, g), readerOnly
      PROVE  StoreTypeOK' /\ EndpointTypeOK' /\ Bound'
  <2> DEFINE st == SessionEnded(g)
             pc == IF g.user = NoUser THEN "accepted" ELSE "vUser"
             new == [reader[i] EXCEPT !.pc = pc, !.grant = g, !.stale = st]
  <2>1. reader' = [reader EXCEPT ![i] = new]
    BY <1>0, <1>2 DEF Examine
  <2>2. st \in BOOLEAN /\ pc \in {"accepted", "vUser"}
    BY <1>0
  <2> HIDE DEF st, pc
  <2>3. new \in ReaderRequest
    BY <1>0, <2>2 DEF ReaderRequest, Validation
  <2> HIDE DEF new
  <2> QED BY <1>1, <1>2, <2>1, <2>3
<1>3. ASSUME NEW c \in Clients, introspect(i, c)
      PROVE  StoreTypeOK' /\ EndpointTypeOK' /\ Bound'
  <2>1. [reader[i] EXCEPT !.pc = "find", !.client = c] \in ReaderRequest
    BY <1>0 DEF ReaderRequest
  <2>2. reader' = [reader EXCEPT ![i] = [reader[i] EXCEPT !.pc = "find", !.client = c]]
    BY <1>0, <1>3 DEF introspect
  <2> QED BY <1>1, <1>3, <2>1, <2>2 DEF introspect
<1>4. ASSUME NEW q \in Requests, userinfo(i, q)
      PROVE  StoreTypeOK' /\ EndpointTypeOK' /\ Bound'
  BY <1>0, <1>2, <1>4 DEF userinfo
<1>5. ASSUME NEW q \in Requests, introspectAccessToken(i, q)
      PROVE  StoreTypeOK' /\ EndpointTypeOK' /\ Bound'
  <2> DEFINE g == accessTokens[q].grant
             st == SessionEnded(g)
             new == [reader[i] EXCEPT !.pc = "issuer", !.grant = g, !.stale = st]
  <2>1. CASE Examine(i, g)
    BY <1>0, <1>2, <1>5, <2>1 DEF introspectAccessToken
  <2>2. CASE reader' = [reader EXCEPT ![i] = new]
    <3>1. st \in BOOLEAN /\ g \in Grant
      BY <1>0
    <3> HIDE DEF st, g
    <3>2. new \in ReaderRequest
      BY <1>0, <3>1 DEF ReaderRequest
    <3> QED BY <1>1, <1>5, <2>2, <3>2 DEF introspectAccessToken
  <2> QED BY <1>0, <1>5, <2>1, <2>2 DEF introspectAccessToken
<1>6. ASSUME NEW q \in Requests, introspectRefreshToken(i, q)
      PROVE  StoreTypeOK' /\ EndpointTypeOK' /\ Bound'
  BY <1>0, <1>2, <1>6 DEF introspectRefreshToken
<1>7. ASSUME NEW pc \in {"accepted", "rejected"} \union Validation,
             reader' = [reader EXCEPT ![i].pc = pc], readerOnly
      PROVE  StoreTypeOK' /\ EndpointTypeOK' /\ Bound'
  <2>1. [reader[i] EXCEPT !.pc = pc] \in ReaderRequest
    BY <1>0 DEF ReaderRequest
  <2> QED BY <1>0, <1>1, <1>7, <2>1
<1>8. CASE canIntrospectAccessToken(i)
  BY <1>7, <1>8 DEF canIntrospectAccessToken, Validation
<1>9. CASE ReaderValidate(i)
  BY <1>7, <1>9 DEF ReaderValidate, Validation, AfterUser
<1> QED BY <1>3, <1>4, <1>5, <1>6, <1>8, <1>9, ReaderNext(i) DEF ReaderNext

LEMMA RevokeSessionsType ==
    ASSUME AccountTypeOK, NEW s, NEW u
    PROVE  /\ RevokeSession(s) => AccountTypeOK'
           /\ RevokeAll(u, s) => AccountTypeOK'
BY DEF AccountTypeOK, RevokeSession, RevokeAll, SessionStatus

LEMMA StartType ==
    ASSUME TypeInv, NEW o \in Ops
    PROVE  /\ \A u \in Users, S \in SUBSET Sessions : StartLogout(o, u, S)
                => AccountTypeOK' /\ StoreTypeOK' /\ RevocationTypeOK'
           /\ \A u \in Users : StartReset(o, u) \/ StartDisable(o, u)
                => AccountTypeOK' /\ StoreTypeOK' /\ RevocationTypeOK'
           /\ \A s \in Sessions : StartChange(o, s)
                => AccountTypeOK' /\ StoreTypeOK' /\ RevocationTypeOK'
           /\ \A c \in Clients : StartDisableClient(o, c)
                => AccountTypeOK' /\ StoreTypeOK' /\ RevocationTypeOK'
<1>0. op \in [Ops -> Operation] /\ op[o] \in Operation
  BY DEF TypeInv, TypeOK, RevocationTypeOK
<1>1. ASSUME NEW new \in Operation, op' = [op EXCEPT ![o] = new], UNCHANGED notified
      PROVE  RevocationTypeOK'
  BY <1>0, <1>1 DEF TypeInv, TypeOK, RevocationTypeOK
<1>2. ASSUME opOnly PROVE AccountTypeOK' /\ StoreTypeOK' /\ UNCHANGED notified
  BY <1>2 DEF opOnly, TypeInv, TypeOK, AccountTypeOK, accountVars, StoreTypeOK, storeVars
<1>3. ASSUME NEW u \in Users, NEW S \in SUBSET Sessions, StartLogout(o, u, S)
      PROVE  AccountTypeOK' /\ StoreTypeOK' /\ RevocationTypeOK'
  <2> DEFINE new == [op[o] EXCEPT !.pc = "revokeEach", !.kind = "logout",
                                  !.user = u, !.listed = S, !.todo = S]
  <2>1. new \in Operation
    BY <1>0 DEF Operation
  <2>2. op' = [op EXCEPT ![o] = new]
    BY <1>0, <1>3 DEF StartLogout
  <2> HIDE DEF new
  <2> QED BY <1>1, <1>2, <1>3, <2>1, <2>2 DEF StartLogout
<1>4. ASSUME NEW u \in Users, StartReset(o, u)
      PROVE  AccountTypeOK' /\ StoreTypeOK' /\ RevocationTypeOK'
  <2>1. PICK kind \in {"reset", "sweep"} :
          op' = [op EXCEPT ![o].pc = "list", ![o].kind = kind, ![o].user = u]
    BY <1>4 DEF StartReset
  <2> DEFINE new == [op[o] EXCEPT !.pc = "list", !.kind = kind, !.user = u]
  <2>2. new \in Operation
    BY <1>0 DEF Operation
  <2>3. op' = [op EXCEPT ![o] = new]
    BY <1>0, <2>1
  <2> HIDE DEF new
  <2> QED BY <1>1, <1>2, <1>4, <2>2, <2>3 DEF StartReset
<1>5. ASSUME NEW u \in Users, StartDisable(o, u)
      PROVE  AccountTypeOK' /\ StoreTypeOK' /\ RevocationTypeOK'
  <2> DEFINE new == [op[o] EXCEPT !.pc = "list", !.kind = "disable", !.user = u]
  <2>1. new \in Operation
    BY <1>0 DEF Operation
  <2>2. op' = [op EXCEPT ![o] = new]
    BY <1>0, <1>5 DEF StartDisable
  <2>3. AccountTypeOK' /\ StoreTypeOK'
    BY <1>5 DEF StartDisable, TypeInv, TypeOK, AccountTypeOK, StoreTypeOK, storeVars
  <2> HIDE DEF new
  <2> QED BY <1>1, <1>5, <2>1, <2>2, <2>3 DEF StartDisable
<1>6. ASSUME NEW s \in Sessions, StartChange(o, s)
      PROVE  AccountTypeOK' /\ StoreTypeOK' /\ RevocationTypeOK'
  <2> DEFINE u == SessionOwner[s]
             new == [op[o] EXCEPT !.pc = "list", !.kind = "change", !.user = u, !.keep = s]
  <2>1. u \in Users
    BY SessionOwnerAssumption
  <2>2. op' = [op EXCEPT ![o] = new]
    BY <1>0, <1>6 DEF StartChange
  <2> HIDE DEF u
  <2>3. new \in Operation
    BY <1>0, <2>1 DEF Operation
  <2> HIDE DEF new
  <2> QED BY <1>1, <1>2, <1>6, <2>2, <2>3 DEF StartChange
<1>7. ASSUME NEW c \in Clients, StartDisableClient(o, c)
      PROVE  AccountTypeOK' /\ StoreTypeOK' /\ RevocationTypeOK'
  <2> DEFINE new == [op[o] EXCEPT !.pc = "clientTokens", !.kind = "client", !.client = c]
  <2>1. new \in Operation
    BY <1>0 DEF Operation
  <2>2. op' = [op EXCEPT ![o] = new]
    BY <1>0, <1>7 DEF StartDisableClient
  <2>3. AccountTypeOK' /\ StoreTypeOK'
    BY <1>7 DEF StartDisableClient, TypeInv, TypeOK, AccountTypeOK, StoreTypeOK, storeVars
  <2> HIDE DEF new
  <2> QED BY <1>1, <1>7, <2>1, <2>2, <2>3 DEF StartDisableClient
<1> QED BY <1>3, <1>4, <1>5, <1>6, <1>7

LEMMA OpStepType ==
    ASSUME TypeInv, NEW o \in Ops, OpStep(o)
    PROVE  AccountTypeOK' /\ StoreTypeOK' /\ RevocationTypeOK'
<1>0. /\ op \in [Ops -> Operation] /\ op[o] \in Operation
      /\ AccountTypeOK /\ StoreTypeOK /\ RevocationTypeOK
      /\ op[o].todo \in SUBSET Sessions /\ op[o].listed \in SUBSET Sessions
      /\ op[o].jobs \in SUBSET (Sessions \X Clients)
  BY DEF TypeInv, TypeOK, RevocationTypeOK, Operation
<1>1. ASSUME NEW new \in Operation, op' = [op EXCEPT ![o] = new], UNCHANGED notified
      PROVE  RevocationTypeOK'
  BY <1>0, <1>1 DEF RevocationTypeOK
<1>2. /\ opOnly => AccountTypeOK' /\ StoreTypeOK' /\ UNCHANGED notified
      /\ UNCHANGED accountVars => AccountTypeOK'
      /\ UNCHANGED storeVars => StoreTypeOK'
      /\ Fails(o) => StoreTypeOK'
  BY <1>0 DEF opOnly, AccountTypeOK, accountVars, StoreTypeOK, storeVars, Fails
<1>3. ASSUME NEW pc \in {"revokeAll", "userTokens", "done"}, UNCHANGED notified,
             op' = [op EXCEPT ![o].pc = pc]
      PROVE  RevocationTypeOK'
  <2>1. [op[o] EXCEPT !.pc = pc] \in Operation
    BY <1>0 DEF Operation
  <2> QED BY <1>0, <1>1, <1>3, <2>1
<1>4. ASSUME NEW pc \in Stages, UNCHANGED notified, op' = [op EXCEPT ![o] = Enter(o, pc)]
      PROVE  RevocationTypeOK'
  <2>1. Enter(o, pc) \in Operation
    BY <1>0 DEF Operation, Enter
  <2> QED BY <1>1, <1>4, <2>1
<1>5. ASSUME NEW s, Visit(o, s), UNCHANGED notified
      PROVE  RevocationTypeOK'
  <2>1. [op[o] EXCEPT !.todo = @ \ {s}] \in Operation
    BY <1>0 DEF Operation
  <2> QED BY <1>0, <1>1, <1>5, <2>1 DEF Visit
<1>6. CASE ClientTokens(o)
  BY <1>0, <1>2, <1>3, <1>6, BulkType DEF ClientTokens
<1>7. CASE RevokeEach(o)
  <2>1. PICK s \in op[o].todo :
          /\ RevokeSession(s) \/ UNCHANGED accountVars
          /\ op' = [op EXCEPT ![o] = IF op[o].todo = {s} THEN Enter(o, "clean")
                                       ELSE [op[o] EXCEPT !.todo = op[o].todo \ {s}]]
    BY <1>0, <1>7 DEF RevokeEach
  <2>2. AccountTypeOK' /\ StoreTypeOK'
    BY <1>0, <1>2, <1>7, <2>1, RevokeSessionsType DEF RevokeEach
  <2>3. "clean" \in Stages
    BY DEF Stages
  <2>4. CASE op[o].todo = {s}
    BY <1>4, <1>7, <2>1, <2>2, <2>3, <2>4 DEF RevokeEach
  <2>5. CASE op[o].todo # {s}
    <3>1. [op[o] EXCEPT !.todo = op[o].todo \ {s}] \in Operation
      BY <1>0 DEF Operation
    <3> QED BY <1>1, <1>7, <2>1, <2>2, <2>5, <3>1 DEF RevokeEach
  <2> QED BY <2>4, <2>5
<1>8. CASE sessionsForRevocation(o)
  <2>1. CASE op' = [op EXCEPT ![o].pc = "revokeAll",
                       ![o].listed = ListByUser(op[o].user) \ {op[o].keep}]
    <3> DEFINE L == ListByUser(op[o].user) \ {op[o].keep}
               new == [op[o] EXCEPT !.pc = "revokeAll", !.listed = L]
    <3>1. L \in SUBSET Sessions
      BY DEF ListByUser
    <3>2. op' = [op EXCEPT ![o] = new]
      BY <1>0, <2>1
    <3> HIDE DEF L
    <3>3. new \in Operation
      BY <1>0, <3>1 DEF Operation
    <3> HIDE DEF new
    <3> QED BY <1>1, <1>2, <1>8, <3>2, <3>3 DEF sessionsForRevocation
  <2>2. CASE \E pc \in {"revokeAll", "done"} : op' = [op EXCEPT ![o].pc = pc]
    BY <1>2, <1>3, <1>8, <2>2 DEF sessionsForRevocation
  <2> QED BY <1>8, <2>1, <2>2 DEF sessionsForRevocation
<1>9. CASE RevokeAllSessions(o)
  <2>1. StoreTypeOK' /\ UNCHANGED notified /\ "clean" \in Stages
    BY <1>2, <1>9 DEF RevokeAllSessions, Stages
  <2>2. CASE RevokeAll(op[o].user, op[o].keep) /\ op' = [op EXCEPT ![o] = Enter(o, "clean")]
    BY <1>0, <1>4, <2>1, <2>2, RevokeSessionsType
  <2>3. CASE /\ UNCHANGED accountVars
             /\ \E pc \in {"done", "userTokens"} : op' = [op EXCEPT ![o].pc = pc]
    BY <1>2, <1>3, <2>1, <2>3
  <2> QED BY <1>9, <2>2, <2>3 DEF RevokeAllSessions
<1>10. CASE CleanSession(o)
  BY <1>0, <1>2, <1>5, <1>10, BulkType DEF CleanSession
<1>11. CASE CollectSession(o)
  <2>0. AccountTypeOK' /\ StoreTypeOK' /\ UNCHANGED notified
    BY <1>2, <1>11 DEF CollectSession
  <2>1. PICK s \in op[o].todo :
          \/ op' = [op EXCEPT ![o].todo = @ \ {s},
               ![o].jobs = @ \union {x \in ListOIDCClientSessions(s) : x[2] \in Backchannel}]
          \/ op' = [op EXCEPT ![o].todo = @ \ {s}, ![o].listed = @ \ {s}]
    BY <1>11 DEF CollectSession
  <2> DEFINE J == op[o].jobs \union
                    {x \in ListOIDCClientSessions(s) : x[2] \in Backchannel}
             t == op[o].todo \ {s}
             l == op[o].listed \ {s}
  <2>2. J \in SUBSET (Sessions \X Clients) /\ t \in SUBSET Sessions /\ l \in SUBSET Sessions
    BY <1>0 DEF ListOIDCClientSessions, StoreTypeOK
  <2>3. \/ op' = [op EXCEPT ![o] = [op[o] EXCEPT !.todo = t, !.jobs = J]]
        \/ op' = [op EXCEPT ![o] = [op[o] EXCEPT !.todo = t, !.listed = l]]
    BY <1>0, <2>1
  <2> HIDE DEF J, t, l
  <2>4. /\ [op[o] EXCEPT !.todo = t, !.jobs = J] \in Operation
        /\ [op[o] EXCEPT !.todo = t, !.listed = l] \in Operation
    BY <1>0, <2>2 DEF Operation
  <2> QED BY <1>1, <2>0, <2>3, <2>4
<1>12. CASE sendOIDCBackchannelLogout(o)
  <2>1. PICK j \in op[o].jobs : /\ op' = [op EXCEPT ![o].jobs = @ \ {j}]
                                /\ notified' \in {notified, notified \union {j}}
    BY <1>12 DEF sendOIDCBackchannelLogout
  <2>2. [op[o] EXCEPT !.jobs = op[o].jobs \ {j}] \in Operation
    BY <1>0 DEF Operation
  <2>3. op' = [op EXCEPT ![o] = [op[o] EXCEPT !.jobs = op[o].jobs \ {j}]]
    BY <1>0, <2>1
  <2>4. op' \in [Ops -> Operation]
    BY <1>0, <2>2, <2>3
  <2>5. notified' \in SUBSET (Sessions \X Clients)
    BY <1>0, <2>1 DEF RevocationTypeOK
  <2> QED BY <1>2, <1>12, <2>4, <2>5 DEF sendOIDCBackchannelLogout, RevocationTypeOK
<1>13. CASE ForgetSession(o)
  <2>1. PICK s \in op[o].todo : Visit(o, s) /\ (DeleteOIDCClientSessions(s) \/ Fails(o))
    BY <1>13 DEF ForgetSession
  <2>2. DeleteOIDCClientSessions(s) => StoreTypeOK'
    BY <1>0 DEF StoreTypeOK, DeleteOIDCClientSessions
  <2> QED BY <1>2, <1>5, <1>13, <2>1, <2>2 DEF ForgetSession
<1>14. CASE StageDone(o)
  <2>1. NextStage[op[o].pc] \in Stages
    BY <1>14 DEF StageDone, NextStage, Stages
  <2> QED BY <1>2, <1>4, <1>14, <2>1 DEF StageDone
<1>15. CASE CleanupDone(o)
  BY <1>2, <1>3, <1>15 DEF CleanupDone
<1>16. CASE UserTokens(o)
  BY <1>0, <1>2, <1>3, <1>16, BulkType DEF UserTokens
<1> QED
  BY <1>6, <1>7, <1>8, <1>9, <1>10, <1>11, <1>12, <1>13, <1>14, <1>15, <1>16, OpStep(o)
  DEF OpStep

-----------------------------------------------------------------------------
(***************************************************************************)
(* Type correctness.                                                       *)
(***************************************************************************)
LEMMA TypeInit == Init => TypeInv
<1> SUFFICES ASSUME Init PROVE TypeInv
  OBVIOUS
<1>1. AccountTypeOK
  BY DEF Init, AccountInit, AccountTypeOK, SessionStatus
<1>2. StoreTypeOK
  BY GrantFields DEF Init, StoreInit, StoreTypeOK, AuthorizationCode, AccessToken,
                     RefreshToken, DeviceAuthorization, DeviceStatus
<1>3. EndpointTypeOK
  BY GrantFields DEF Init, EndpointInit, EndpointTypeOK, AuthzRequest, DeviceRequest,
                     DeviceDecision, TokenRequest, TokenPc, ReaderRequest
<1>4. RevocationTypeOK
  BY DEF Init, RevocationInit, RevocationTypeOK, Operation
<1>5. Bound
  BY DEF Init, EndpointInit, Bound
<1> QED BY <1>1, <1>2, <1>3, <1>4, <1>5 DEF TypeInv, TypeOK

LEMMA TypeStep == TypeInv /\ [Next]_vars => TypeInv'
<1> SUFFICES ASSUME TypeInv, [Next]_vars PROVE TypeInv'
  OBVIOUS
<1> USE DEF TypeInv, TypeOK
<1>1. CASE EndpointNext /\ UNCHANGED revocationVars
  <2>0. RevocationTypeOK'
    BY <1>1 DEF RevocationTypeOK, revocationVars
  <2>1. ASSUME UNCHANGED accountVars PROVE AccountTypeOK'
    BY <2>1 DEF AccountTypeOK, accountVars
  <2>2. ASSUME NEW k \in Codes, AuthorizeNext(k) PROVE TypeInv'
    <3>1. UNCHANGED <<asked, decision, req, reader, accountVars>>
      BY <2>2 DEF AuthorizeNext, authzOnly, Authorize, AuthorizeUser, RequiresConsent,
                  ReuseConsent, ConsentForm, ConsentDecision, RecordConsent,
                  issueAuthorizationCode
    <3>2. Bound'
      BY <3>1 DEF Bound
    <3> QED BY <2>0, <2>1, <2>2, <3>1, <3>2, AuthorizeType
  <2>3. ASSUME DeviceNext PROVE TypeInv'
    <3>1. UNCHANGED accountVars
      BY <2>3 DEF DeviceNext, deviceOnly, deviceAuthorization, StoreDevice, DeviceSession,
                  DeviceUser, DeviceDecide
    <3>2. Bound'
      <4>0. decision \in [Decisions -> DeviceDecision]
        BY DEF EndpointTypeOK
      <4> QED
        BY <2>3, <4>0 DEF DeviceNext, deviceOnly, deviceAuthorization, StoreDevice,
                          DeviceSession, DeviceUser, DeviceDecide, Bound, DeviceDecision
    <3> QED BY <2>0, <2>1, <2>3, <3>1, <3>2, DeviceNextType
  <2>4. ASSUME NEW q \in Requests, TokenNext(q) \/ revokeToken(q) PROVE TypeInv'
    <3>1. UNCHANGED accountVars
      BY <2>4 DEF TokenNext, TokenStep, reqOnly, authenticateOAuthClient,
                  authorizationCodeToken, refreshToken, deviceCodeToken,
                  clientCredentialsToken, ReadFails, ValidateUser, ValidateSession,
                  ValidateConsent, issueAccessToken, issueRefreshToken, issueIDToken,
                  AbortRefresh, revokeToken
    <3> QED BY <2>0, <2>1, <2>4, <3>1, TokenNextType
  <2>5. ASSUME NEW i \in Readers, ReaderNext(i) PROVE TypeInv'
    <3>1. UNCHANGED accountVars
      BY <2>5 DEF ReaderNext, readerOnly, introspect, userinfo, introspectAccessToken,
                  introspectRefreshToken, canIntrospectAccessToken, ReaderValidate
    <3> QED BY <2>0, <2>1, <2>5, <3>1, ReaderType
  <2> QED BY <1>1, <2>2, <2>3, <2>4, <2>5 DEF EndpointNext
<1>2. CASE RevocationNext /\ UNCHANGED endpointVars
  <2>0. EndpointTypeOK' /\ Bound'
    BY <1>2 DEF EndpointTypeOK, Bound, endpointVars
  <2>1. ASSUME NEW u \in Users, NEW c \in Clients, revokeAccountConsent(u, c)
        PROVE  AccountTypeOK' /\ StoreTypeOK' /\ RevocationTypeOK'
    <3>1. AccountTypeOK' /\ RevocationTypeOK'
      BY <2>1 DEF revokeAccountConsent, AccountTypeOK, accountVars, RevocationTypeOK,
                  revocationVars
    <3> QED BY <2>1, <3>1, BulkType DEF revokeAccountConsent
  <2> QED BY <1>2, <2>0, <2>1, StartType, OpStepType DEF RevocationNext
<1>3. CASE AccountNext /\ UNCHANGED <<storeVars, endpointVars, revocationVars>>
  BY <1>3, AccountType DEF StoreTypeOK, storeVars, EndpointTypeOK, endpointVars, Bound,
                           RevocationTypeOK, revocationVars
<1>4. CASE Expiry /\ UNCHANGED <<accountVars, endpointVars, revocationVars>>
  BY <1>4, ExpiryType DEF AccountTypeOK, accountVars, EndpointTypeOK, endpointVars, Bound,
                          RevocationTypeOK, revocationVars
<1>5. CASE UNCHANGED vars
  BY <1>5 DEF vars, AccountTypeOK, accountVars, StoreTypeOK, storeVars, EndpointTypeOK,
              endpointVars, Bound, RevocationTypeOK, revocationVars
<1> QED BY <1>1, <1>2, <1>3, <1>4, <1>5 DEF Next

(***************************************************************************)
(* Whatever requests arrive and however they interleave, every record the  *)
(* repositories hold and every handler in flight has its type.             *)
(***************************************************************************)
THEOREM TypeCorrect == Spec => []TypeOK
<1>1. TypeInv => TypeOK
  BY DEF TypeInv
<1> QED BY <1>1, TypeInit, TypeStep, PTL DEF Spec

-----------------------------------------------------------------------------
(***************************************************************************)
(* Refresh token families, for every value of the constants.               *)
(*                                                                         *)
(* Neither OneUsablePerFamily nor FamilyRevokedTogether is inductive.      *)
(* What keeps them is that a family has a root, the token of the request   *)
(* that drew the family identifier, so that a new family is empty; that    *)
(* the tokens of a family agree on user, session and client, so that every *)
(* bulk revocation takes all of them or none; and that a request stores    *)
(* its own token only once.                                                *)
(*                                                                         *)
(* The second part is about what tokens descend from, codes and devices:   *)
(* ScopeNeverWidens and OneExchangePerOrigin, from OriginInv.              *)
(***************************************************************************)
Rooted ==
    \A q \in Requests : refreshTokens[q].saved =>
        LET f == refreshTokens[q].family IN
          f \in Requests /\ refreshTokens[f].saved /\ refreshTokens[f].family = f

Homogeneous ==
    \A q, r \in Requests : SameFamily(q, r) =>
        /\ refreshTokens[q].grant.client = refreshTokens[r].grant.client
        /\ refreshTokens[q].grant.user = refreshTokens[r].grant.user
        /\ refreshTokens[q].grant.session = refreshTokens[r].grant.session

FamilyInv == Rooted /\ Homogeneous /\ OneUsablePerFamily /\ FamilyRevokedTogether

\* The request has yet to store its refresh token.
Undecided(q) ==
    \/ req[q].pc \in {"idle", "exchange", "saveRefresh"}
    \/ /\ req[q].kind # "refresh_token"
       /\ req[q].pc \in Validation \union {"saveAccess"}

OwnTokenOnce == \A q \in Requests : Undecided(q) => ~refreshTokens[q].saved

SameSaved == \A q \in Requests : refreshTokens'[q].saved = refreshTokens[q].saved

\* Marking a set of tokens that contains whole families only.
LEMMA RevokeWholeFamilies ==
    ASSUME StoreTypeOK, FamilyInv, NEW S \in SUBSET Requests,
           \A q, r \in Requests : SameFamily(q, r) /\ q \in S => r \in S,
           refreshTokens' = [q \in Requests |->
               IF refreshTokens[q].saved /\ q \in S
                 THEN [refreshTokens[q] EXCEPT !.revoked = TRUE] ELSE refreshTokens[q]]
    PROVE  FamilyInv' /\ SameSaved
<1>1. \A q \in Requests :
        /\ refreshTokens'[q].saved = refreshTokens[q].saved
        /\ refreshTokens'[q].family = refreshTokens[q].family
        /\ refreshTokens'[q].grant = refreshTokens[q].grant
        /\ refreshTokens'[q].consumed = refreshTokens[q].consumed
        /\ refreshTokens'[q].revoked =
             (refreshTokens[q].revoked \/ (refreshTokens[q].saved /\ q \in S))
  BY DEF StoreTypeOK, RefreshToken
<1>2. Rooted'
  BY <1>1 DEF FamilyInv, Rooted
<1>3. Homogeneous'
  BY <1>1 DEF FamilyInv, Homogeneous, SameFamily
<1>4. OneUsablePerFamily'
  BY <1>1 DEF FamilyInv, OneUsablePerFamily, SameFamily, Usable
<1>5. FamilyRevokedTogether'
  BY <1>1 DEF FamilyInv, FamilyRevokedTogether, SameFamily
<1> QED BY <1>1, <1>2, <1>3, <1>4, <1>5 DEF FamilyInv, SameSaved

LEMMA RevokeFamilyKeeps ==
    ASSUME StoreTypeOK, FamilyInv, NEW f, RevokeFamily(f)
    PROVE  FamilyInv' /\ SameSaved
<1> DEFINE S == {q \in Requests : refreshTokens[q].family = f}
<1>1. \A q, r \in Requests : SameFamily(q, r) /\ q \in S => r \in S
  BY DEF SameFamily
<1>2. refreshTokens' = [q \in Requests |->
         IF refreshTokens[q].saved /\ q \in S
           THEN [refreshTokens[q] EXCEPT !.revoked = TRUE] ELSE refreshTokens[q]]
  BY DEF RevokeFamily
<1> HIDE DEF S
<1> QED BY <1>1, <1>2, RevokeWholeFamilies DEF S

\* The tokens of a family agree on what a bulk revocation matches.
LEMMA BulkKeeps ==
    ASSUME StoreTypeOK, FamilyInv, NEW u, NEW s, NEW c,
           \/ RevokeSessionTokens(u, s) \/ RevokeUserTokens(u, s)
           \/ RevokeClientTokens(c) \/ DeleteConsent(u, c)
    PROVE  FamilyInv' /\ SameSaved
<1>1. \A q \in Requests : refreshTokens[q].grant \in Grant
  BY DEF StoreTypeOK, RefreshToken
<1>2. ASSUME NEW G, revokeMatchingTokens(G),
             \A q, r \in Requests : SameFamily(q, r) /\ refreshTokens[q].grant \in G
               => refreshTokens[r].grant \in G
      PROVE  FamilyInv' /\ SameSaved
  <2> DEFINE S == {q \in Requests : refreshTokens[q].grant \in G}
  <2>1. \A q, r \in Requests : SameFamily(q, r) /\ q \in S => r \in S
    BY <1>2
  <2>2. refreshTokens' = [q \in Requests |->
          IF refreshTokens[q].saved /\ q \in S
            THEN [refreshTokens[q] EXCEPT !.revoked = TRUE] ELSE refreshTokens[q]]
    BY <1>2 DEF revokeMatchingTokens
  <2>3. S \in SUBSET Requests
    OBVIOUS
  <2> HIDE DEF S
  <2> QED BY <2>1, <2>2, <2>3, RevokeWholeFamilies
<1>3. CASE RevokeSessionTokens(u, s)
  <2> DEFINE G == OfUser(u) \intersect OfSession(s)
  <2>1. \A q, r \in Requests : SameFamily(q, r) /\ refreshTokens[q].grant \in G
          => refreshTokens[r].grant \in G
    BY <1>1 DEF FamilyInv, Homogeneous, OfUser, OfSession
  <2>2. revokeMatchingTokens(G)
    BY <1>3 DEF RevokeSessionTokens
  <2> HIDE DEF G
  <2> QED BY <1>2, <2>1, <2>2
<1>4. CASE RevokeUserTokens(u, s)
  <2> DEFINE G == {g \in OfUser(u) : s = NoSession \/ g.session # s}
  <2>1. \A q, r \in Requests : SameFamily(q, r) /\ refreshTokens[q].grant \in G
          => refreshTokens[r].grant \in G
    BY <1>1 DEF FamilyInv, Homogeneous, OfUser
  <2>2. revokeMatchingTokens(G)
    BY <1>4 DEF RevokeUserTokens
  <2> HIDE DEF G
  <2> QED BY <1>2, <2>1, <2>2
<1>5. CASE RevokeClientTokens(c)
  <2> DEFINE G == OfClient(c)
  <2>1. \A q, r \in Requests : SameFamily(q, r) /\ refreshTokens[q].grant \in G
          => refreshTokens[r].grant \in G
    BY <1>1 DEF FamilyInv, Homogeneous, OfClient
  <2>2. revokeMatchingTokens(G)
    BY <1>5 DEF RevokeClientTokens
  <2> HIDE DEF G
  <2> QED BY <1>2, <2>1, <2>2
<1>6. CASE DeleteConsent(u, c)
  <2> DEFINE G == OfUser(u) \intersect OfClient(c)
  <2>1. \A q, r \in Requests : SameFamily(q, r) /\ refreshTokens[q].grant \in G
          => refreshTokens[r].grant \in G
    BY <1>1 DEF FamilyInv, Homogeneous, OfUser, OfClient
  <2>2. revokeMatchingTokens(G)
    BY <1>6 DEF DeleteConsent
  <2> HIDE DEF G
  <2> QED BY <1>2, <2>1, <2>2
<1> QED BY <1>3, <1>4, <1>5, <1>6

LEMMA ExpiryKeeps ==
    ASSUME StoreTypeOK, FamilyInv, Expiry
    PROVE  FamilyInv' /\ SameSaved
<1>1. \A q \in Requests :
        /\ refreshTokens'[q].saved = refreshTokens[q].saved
        /\ refreshTokens'[q].family = refreshTokens[q].family
        /\ refreshTokens'[q].grant = refreshTokens[q].grant
        /\ refreshTokens'[q].consumed = refreshTokens[q].consumed
        /\ refreshTokens'[q].revoked = refreshTokens[q].revoked
  BY DEF StoreTypeOK, RefreshToken, Expiry, ExpireCode, ExpireAccessToken,
         ExpireRefreshToken, ExpireDevice
<1>2. Rooted'
  BY <1>1 DEF FamilyInv, Rooted
<1>3. Homogeneous'
  BY <1>1 DEF FamilyInv, Homogeneous, SameFamily
<1>4. OneUsablePerFamily' /\ FamilyRevokedTogether'
  BY <1>1 DEF FamilyInv, OneUsablePerFamily, FamilyRevokedTogether, SameFamily, Usable
<1> QED BY <1>1, <1>2, <1>3, <1>4 DEF FamilyInv, SameSaved

\* A first token starts a family that had no member before.
LEMMA SaveRefreshKeeps ==
    ASSUME StoreTypeOK, FamilyInv, NEW q \in Requests, NEW g \in Grant,
           SaveRefreshToken(q, g), ~refreshTokens[q].saved
    PROVE  FamilyInv' /\ \A r \in Requests : r # q => refreshTokens'[r] = refreshTokens[r]
<1>1. /\ refreshTokens'[q].saved /\ refreshTokens'[q].family = q
      /\ \A r \in Requests : r # q => refreshTokens'[r] = refreshTokens[r]
  BY DEF StoreTypeOK, SaveRefreshToken
<1>2. \A r \in Requests : refreshTokens[r].saved => refreshTokens[r].family # q
  BY DEF FamilyInv, Rooted
<1>3. Rooted'
  BY <1>1, <1>2 DEF FamilyInv, Rooted
<1>4. \A r \in Requests : r # q => ~SameFamily(q, r)' /\ ~SameFamily(r, q)'
  BY <1>1, <1>2 DEF SameFamily
<1>5. \A r, t \in Requests : r # q /\ t # q /\ SameFamily(r, t)' => SameFamily(r, t)
  BY <1>1 DEF SameFamily
<1>6. Homogeneous'
  BY <1>1, <1>4, <1>5 DEF FamilyInv, Homogeneous
<1>7. OneUsablePerFamily'
  BY <1>1, <1>4, <1>5 DEF FamilyInv, OneUsablePerFamily, Usable
<1>8. FamilyRevokedTogether'
  BY <1>1, <1>4, <1>5 DEF FamilyInv, FamilyRevokedTogether
<1> QED BY <1>1, <1>3, <1>6, <1>7, <1>8 DEF FamilyInv

\* A rotation replaces the one usable token of a family that nobody revoked.
LEMMA RotateKeeps ==
    ASSUME StoreTypeOK, FamilyInv, NEW q \in Requests, NEW old \in Requests,
           NEW scope \in SUBSET Scopes, RotateRefreshToken(q, old, scope),
           LiveRefreshToken(old), ~refreshTokens[q].saved
    PROVE  /\ FamilyInv' /\ refreshTokens'[q].saved
           /\ \A r \in Requests : r # q => refreshTokens'[r].saved = refreshTokens[r].saved
<1> DEFINE g == [refreshTokens[old].grant EXCEPT !.scope = EffectiveScope(old, scope)]
<1>0. q # old /\ refreshTokens[old].saved /\ ~refreshTokens[old].revoked
      /\ ~refreshTokens[old].consumed
  BY DEF LiveRefreshToken
<1>1. /\ g.client = refreshTokens[old].grant.client
      /\ g.user = refreshTokens[old].grant.user
      /\ g.session = refreshTokens[old].grant.session
  BY DEF StoreTypeOK, RefreshToken, Grant
<1>2. /\ refreshTokens'[q].saved /\ refreshTokens'[q].grant = g
      /\ refreshTokens'[q].family = refreshTokens[old].family
      /\ ~refreshTokens'[q].revoked
  BY DEF StoreTypeOK, RotateRefreshToken
<1>3. /\ refreshTokens'[old].consumed
      /\ \A r \in Requests : r # q =>
           /\ refreshTokens'[r].saved = refreshTokens[r].saved
           /\ refreshTokens'[r].family = refreshTokens[r].family
           /\ refreshTokens'[r].grant = refreshTokens[r].grant
           /\ refreshTokens'[r].revoked = refreshTokens[r].revoked
           /\ r # old => refreshTokens'[r].consumed = refreshTokens[r].consumed
  BY <1>0 DEF StoreTypeOK, RefreshToken, RotateRefreshToken
<1> HIDE DEF g
<1>4. Rooted'
  BY <1>0, <1>2, <1>3 DEF FamilyInv, Rooted
<1>5. /\ \A r, t \in Requests : r # q /\ t # q /\ SameFamily(r, t)' => SameFamily(r, t)
      /\ \A r \in Requests : r # q /\ (SameFamily(r, q)' \/ SameFamily(q, r)')
           => SameFamily(r, old) /\ SameFamily(old, r)
  BY <1>0, <1>2, <1>3 DEF SameFamily
<1>6. Homogeneous'
  BY <1>1, <1>2, <1>3, <1>5 DEF FamilyInv, Homogeneous
<1>7. OneUsablePerFamily'
  <2>1. \A r \in Requests : Usable(r)' /\ r # q => Usable(r) /\ r # old
    BY <1>3 DEF Usable
  <2>2. Usable(old)
    BY <1>0 DEF Usable
  <2> QED BY <1>5, <2>1, <2>2 DEF FamilyInv, OneUsablePerFamily
<1>8. FamilyRevokedTogether'
  <2>1. \A r \in Requests : SameFamily(r, old) => ~refreshTokens[r].revoked
    BY <1>0 DEF FamilyInv, FamilyRevokedTogether
  <2> QED BY <1>2, <1>3, <1>5, <2>1 DEF FamilyInv, FamilyRevokedTogether
<1> QED BY <1>2, <1>3, <1>4, <1>6, <1>7, <1>8 DEF FamilyInv

\* A step that leaves the refresh tokens alone and takes no request back.
LEMMA OtherKeeps ==
    ASSUME FamilyInv, OwnTokenOnce, UNCHANGED refreshTokens,
           \A q \in Requests : Undecided(q)' => Undecided(q)
    PROVE  FamilyInv' /\ OwnTokenOnce'
<1>1. FamilyInv'
  BY DEF FamilyInv, Rooted, Homogeneous, OneUsablePerFamily, FamilyRevokedTogether,
         SameFamily, Usable
<1>2. OwnTokenOnce'
  BY DEF OwnTokenOnce
<1> QED BY <1>1, <1>2

LEMMA TokenKeeps ==
    ASSUME TypeInv, FamilyInv, OwnTokenOnce, NEW q \in Requests, TokenNext(q)
    PROVE  FamilyInv' /\ OwnTokenOnce'
<1>0. /\ req \in [Requests -> TokenRequest] /\ req[q] \in TokenRequest
      /\ StoreTypeOK /\ req[q].grant \in Grant
  BY DEF TypeInv, TypeOK, EndpointTypeOK, TokenRequest
<1>1. ASSUME NEW pc, GoTo(q, pc)
      PROVE  /\ req'[q].pc = pc /\ req'[q].kind = req[q].kind
             /\ \A r \in Requests : r # q => req'[r] = req[r]
  BY <1>0, <1>1 DEF GoTo, TokenRequest
<1>2. ASSUME NEW g, NEW f, Proceed(q, g, f)
      PROVE  /\ req'[q].pc = "vUser" /\ req'[q].kind = req[q].kind
             /\ \A r \in Requests : r # q => req'[r] = req[r]
  BY <1>0, <1>2 DEF Proceed, TokenRequest
<1>3. ASSUME \A r \in Requests : r # q =>
               req'[r] = req[r] /\ refreshTokens'[r].saved = refreshTokens[r].saved,
             Undecided(q)' => ~refreshTokens'[q].saved
      PROVE  OwnTokenOnce'
  BY <1>3 DEF OwnTokenOnce, Undecided
<1>4. ASSUME UNCHANGED refreshTokens, Undecided(q)' => Undecided(q),
             \A r \in Requests : r # q => req'[r] = req[r]
      PROVE  FamilyInv' /\ OwnTokenOnce'
  BY <1>4, OtherKeeps DEF Undecided
<1>5. ASSUME NEW c \in Clients, NEW kind \in Kinds, authenticateOAuthClient(q, c, kind)
      PROVE  FamilyInv' /\ OwnTokenOnce'
  <2>1. \A r \in Requests : r # q => req'[r] = req[r]
    BY <1>0, <1>5 DEF authenticateOAuthClient
  <2> QED BY <1>4, <1>5, <2>1 DEF authenticateOAuthClient, Undecided, storeVars
<1>6. ASSUME NEW k \in Codes, NEW p \in Proofs, authorizationCodeToken(q, k, p)
      PROVE  FamilyInv' /\ OwnTokenOnce'
  BY <1>2, <1>4, <1>6 DEF authorizationCodeToken, ConsumeAuthorizationCode, Undecided
<1>7. ASSUME NEW old \in Requests, NEW scope \in SUBSET Scopes, refreshToken(q, old, scope)
      PROVE  FamilyInv' /\ OwnTokenOnce'
  <2> DEFINE g == [refreshTokens[old].grant EXCEPT !.scope = EffectiveScope(old, scope)]
  <2>1. CASE /\ LiveRefreshToken(old) /\ RotateRefreshToken(q, old, scope)
             /\ Proceed(q, g, refreshTokens[old].family)
    <3>1. ~refreshTokens[q].saved /\ req[q].kind = "refresh_token"
      BY <1>7 DEF refreshToken, OwnTokenOnce, Undecided
    <3>2. /\ FamilyInv'
          /\ \A r \in Requests : r # q => refreshTokens'[r].saved = refreshTokens[r].saved
      BY <1>0, <2>1, <3>1, RotateKeeps
    <3> HIDE DEF g
    <3>3. ~Undecided(q)'
      BY <1>2, <2>1, <3>1 DEF Undecided
    <3> QED BY <1>2, <1>3, <2>1, <3>2, <3>3
  <2>2. CASE RevokeFamily(refreshTokens[old].family) /\ GoTo(q, "done")
    <3>1. FamilyInv' /\ SameSaved
      BY <1>0, <2>2, RevokeFamilyKeeps
    <3>2. ~Undecided(q)'
      BY <1>1, <2>2 DEF Undecided, Validation
    <3> QED BY <1>1, <1>3, <2>2, <3>1, <3>2 DEF SameSaved
  <2> QED BY <1>7, <2>1, <2>2 DEF refreshToken, Rotatable
<1>8. ASSUME NEW d \in Devices, deviceCodeToken(q, d) PROVE FamilyInv' /\ OwnTokenOnce'
  BY <1>2, <1>4, <1>8 DEF deviceCodeToken, PollDeviceAuthorization, Undecided
<1>9. ASSUME NEW scope \in ScopeParams, clientCredentialsToken(q, scope)
      PROVE  FamilyInv' /\ OwnTokenOnce'
  <2>1. \A r \in Requests : r # q => req'[r] = req[r]
    BY <1>0, <1>9 DEF clientCredentialsToken
  <2> QED BY <1>4, <1>9, <2>1 DEF clientCredentialsToken, Undecided, storeVars
<1>10. ASSUME NEW pc, GoTo(q, pc), UNCHANGED refreshTokens,
              req[q].pc \in Validation \union {"saveAccess"},
              pc \notin {"idle", "exchange", "saveRefresh"}
       PROVE  FamilyInv' /\ OwnTokenOnce'
  BY <1>1, <1>4, <1>10 DEF Undecided
<1>11. CASE ReadFails(q) \/ ValidateUser(q) \/ ValidateSession(q) \/ ValidateConsent(q)
  BY <1>10, <1>11 DEF ReadFails, ValidateUser, ValidateSession, ValidateConsent, Refused,
                      AfterUser, Validation, storeVars
<1>12. CASE issueAccessToken(q)
  <2>1. \E pc \in {AfterAccess(q), Refused(q)} : GoTo(q, pc)
    BY <1>12 DEF issueAccessToken
  <2>2. req[q].pc = "saveAccess" /\ UNCHANGED refreshTokens
    BY <1>12 DEF issueAccessToken, SaveAccessToken, storeVars
  <2>3. AfterAccess(q) \in {"done", "saveOIDC", "saveRefresh"}
        /\ (AfterAccess(q) = "saveRefresh" => req[q].kind # "refresh_token")
    BY DEF AfterAccess, AfterTokens
  <2>4. Refused(q) \in {"abort", "done"}
    BY DEF Refused
  <2> QED BY <1>1, <1>4, <2>1, <2>2, <2>3, <2>4 DEF Undecided, Validation
<1>13. CASE issueRefreshToken(q)
  <2>1. ~refreshTokens[q].saved
    BY <1>13 DEF issueRefreshToken, OwnTokenOnce, Undecided
  <2>2. AfterTokens(q) \in {"done", "saveOIDC"}
    BY DEF AfterTokens
  <2>3. \E pc \in {"done", "saveOIDC"} : GoTo(q, pc)
    BY <1>13, <2>2 DEF issueRefreshToken
  <2>4. ~Undecided(q)' /\ \A r \in Requests : r # q => req'[r] = req[r]
    BY <1>1, <2>3 DEF Undecided, Validation
  <2>5. CASE SaveRefreshToken(q, req[q].grant)
    <3>1. FamilyInv' /\ \A r \in Requests : r # q => refreshTokens'[r] = refreshTokens[r]
      BY <1>0, <2>1, <2>5, SaveRefreshKeeps
    <3> QED BY <1>3, <2>4, <3>1
  <2>6. CASE UNCHANGED storeVars
    BY <1>4, <2>4, <2>6 DEF storeVars
  <2> QED BY <1>13, <2>5, <2>6 DEF issueRefreshToken
<1>14. CASE issueIDToken(q)
  <2>1. GoTo(q, "done") /\ UNCHANGED refreshTokens
    BY <1>14 DEF issueIDToken, SaveOIDCClientSession, storeVars
  <2> QED BY <1>1, <1>4, <2>1 DEF Undecided, Validation
<1>15. CASE AbortRefresh(q)
  <2>1. GoTo(q, "done")
    BY <1>15 DEF AbortRefresh
  <2>2. ~Undecided(q)' /\ \A r \in Requests : r # q => req'[r] = req[r]
    BY <1>1, <2>1 DEF Undecided, Validation
  <2>3. CASE RevokeFamily(req[q].family)
    BY <1>0, <1>3, <2>2, <2>3, RevokeFamilyKeeps DEF SameSaved
  <2>4. CASE UNCHANGED storeVars
    BY <1>4, <2>2, <2>4 DEF storeVars
  <2> QED BY <1>15, <2>3, <2>4 DEF AbortRefresh
<1>16. \A scope \in ScopeParams \union {{}} : scope \in SUBSET Scopes
  BY EndpointAssumption
<1> QED
  BY <1>5, <1>6, <1>7, <1>8, <1>9, <1>11, <1>12, <1>13, <1>14, <1>15, <1>16, TokenNext(q)
  DEF TokenNext, TokenStep

LEMMA FamilyStep ==
    TypeInv /\ FamilyInv /\ OwnTokenOnce /\ [Next]_vars => FamilyInv' /\ OwnTokenOnce'
<1> SUFFICES ASSUME TypeInv, FamilyInv, OwnTokenOnce, [Next]_vars
             PROVE  FamilyInv' /\ OwnTokenOnce'
  OBVIOUS
<1>0. StoreTypeOK
  BY DEF TypeInv, TypeOK
<1>1. ASSUME UNCHANGED refreshTokens, UNCHANGED req PROVE FamilyInv' /\ OwnTokenOnce'
  BY <1>1, OtherKeeps DEF Undecided
<1>2. ASSUME FamilyInv', SameSaved, UNCHANGED req PROVE FamilyInv' /\ OwnTokenOnce'
  BY <1>2 DEF SameSaved, OwnTokenOnce, Undecided
<1>3. CASE EndpointNext
  <2>1. ASSUME NEW k \in Codes, AuthorizeNext(k) PROVE FamilyInv' /\ OwnTokenOnce'
    BY <1>1, <2>1 DEF AuthorizeNext, authzOnly, Authorize, AuthorizeUser, RequiresConsent,
         ReuseConsent, ConsentForm, ConsentDecision, RecordConsent, issueAuthorizationCode,
         GrantConsent, SaveAuthorizationCode, storeVars
  <2>2. ASSUME DeviceNext PROVE FamilyInv' /\ OwnTokenOnce'
    BY <1>1, <2>2 DEF DeviceNext, deviceOnly, deviceAuthorization, StoreDevice,
         DeviceSession, DeviceUser, DeviceDecide, SaveDeviceAuthorization,
         DecideDeviceAuthorization, storeVars
  <2>3. ASSUME NEW q \in Requests, revokeToken(q) PROVE FamilyInv' /\ OwnTokenOnce'
    <3>1. UNCHANGED req /\ (RevokeAccessToken(q) \/ RevokeFamily(refreshTokens[q].family))
      BY <2>3 DEF revokeToken
    <3>2. CASE RevokeAccessToken(q)
      BY <1>1, <3>1, <3>2 DEF RevokeAccessToken
    <3>3. CASE RevokeFamily(refreshTokens[q].family)
      BY <1>0, <1>2, <3>1, <3>3, RevokeFamilyKeeps
    <3> QED BY <3>1, <3>2, <3>3
  <2>4. ASSUME NEW i \in Readers, ReaderNext(i) PROVE FamilyInv' /\ OwnTokenOnce'
    BY <1>1, <2>4 DEF ReaderNext, readerOnly, introspect, userinfo, introspectAccessToken,
         introspectRefreshToken, canIntrospectAccessToken, ReaderValidate, storeVars
  <2> QED BY <1>3, <2>1, <2>2, <2>3, <2>4, TokenKeeps DEF EndpointNext
<1>4. CASE RevocationNext /\ UNCHANGED endpointVars
  <2>1. UNCHANGED req
    BY <1>4 DEF endpointVars
  <2>2. ASSUME NEW u, NEW s, NEW c,
               \/ RevokeSessionTokens(u, s) \/ RevokeUserTokens(u, s)
               \/ RevokeClientTokens(c) \/ DeleteConsent(u, c)
        PROVE  FamilyInv' /\ OwnTokenOnce'
    BY <1>0, <1>2, <2>1, <2>2, BulkKeeps
  <2>3. ASSUME NEW o \in Ops, ClientTokens(o) \/ CleanSession(o) \/ UserTokens(o)
        PROVE  FamilyInv' /\ OwnTokenOnce'
    BY <1>1, <2>1, <2>2, <2>3 DEF ClientTokens, CleanSession, UserTokens, Fails, storeVars
  <2>4. ASSUME NEW u \in Users, NEW c \in Clients, revokeAccountConsent(u, c)
        PROVE  FamilyInv' /\ OwnTokenOnce'
    BY <2>2, <2>4 DEF revokeAccountConsent
  <2>5. ASSUME NEW o \in Ops, OpStep(o) PROVE FamilyInv' /\ OwnTokenOnce'
    <3>1. CASE \/ RevokeEach(o) \/ sessionsForRevocation(o) \/ RevokeAllSessions(o)
               \/ CollectSession(o) \/ sendOIDCBackchannelLogout(o) \/ ForgetSession(o)
               \/ StageDone(o) \/ CleanupDone(o)
      BY <1>1, <2>1, <3>1 DEF RevokeEach, sessionsForRevocation, RevokeAllSessions,
           CollectSession, sendOIDCBackchannelLogout, ForgetSession, StageDone, CleanupDone,
           DeleteOIDCClientSessions, Fails, opOnly, storeVars
    <3> QED BY <2>3, <2>5, <3>1 DEF OpStep
  <2>6. ASSUME NEW o \in Ops,
               \/ \E u \in Users, S \in SUBSET Sessions : StartLogout(o, u, S)
               \/ \E u \in Users : StartReset(o, u) \/ StartDisable(o, u)
               \/ \E s \in Sessions : StartChange(o, s)
               \/ \E c \in Clients : StartDisableClient(o, c)
        PROVE  FamilyInv' /\ OwnTokenOnce'
    BY <1>1, <2>1, <2>6 DEF StartLogout, StartReset, StartDisable, StartChange,
         StartDisableClient, opOnly, storeVars
  <2> QED BY <1>4, <2>4, <2>5, <2>6 DEF RevocationNext
<1>5. CASE AccountNext /\ UNCHANGED <<storeVars, endpointVars, revocationVars>>
  BY <1>1, <1>5 DEF storeVars, endpointVars
<1>6. CASE Expiry /\ UNCHANGED <<accountVars, endpointVars, revocationVars>>
  BY <1>0, <1>2, <1>6, ExpiryKeeps DEF endpointVars
<1>7. CASE UNCHANGED vars
  BY <1>1, <1>7 DEF vars, storeVars, endpointVars
<1> QED BY <1>3, <1>4, <1>5, <1>6, <1>7 DEF Next

LEMMA FamilyInit == Init => FamilyInv /\ OwnTokenOnce
BY DEF Init, StoreInit, FamilyInv, Rooted, Homogeneous, OneUsablePerFamily,
       FamilyRevokedTogether, SameFamily, Usable, OwnTokenOnce

(***************************************************************************)
(* However many requests race with tokens of one family, at most one token *)
(* of it can be exchanged (RotateRefreshToken consumes and appends under   *)
(* one lock).                                                              *)
(***************************************************************************)
THEOREM OneUsable == Spec => []OneUsablePerFamily
<1>1. FamilyInv => OneUsablePerFamily
  BY DEF FamilyInv
<1> QED BY <1>1, TypeInit, TypeStep, FamilyInit, FamilyStep, PTL DEF Spec

(***************************************************************************)
(* No replay, revocation, logout, reset, client or consent removal leaves  *)
(* a family half revoked, and no request in flight adds a token that is    *)
(* not revoked to a revoked family.                                        *)
(***************************************************************************)
THEOREM WholeFamilies == Spec => []FamilyRevokedTogether
<1>1. FamilyInv => FamilyRevokedTogether
  BY DEF FamilyInv
<1> QED BY <1>1, TypeInit, TypeStep, FamilyInit, FamilyStep, PTL DEF Spec

-----------------------------------------------------------------------------
(***************************************************************************)
(* What tokens descend from.  A code carries the grant of its              *)
(* authorization request and is stored once; a device keeps the scope it   *)
(* was asked for; whoever redeems either has marked it, under the lock,    *)
(* before anybody else could.                                              *)
(***************************************************************************)
Settled(x) == IF x \in Codes THEN authz[x].pc # "idle" ELSE devices[x].status # "none"
Taken(x) == IF x \in Codes THEN codes[x].consumed ELSE devices[x].status = "consumed"

Within(g) ==
    g.origin # NoOrigin => Settled(g.origin) /\ g.scope \subseteq OriginScope(g.origin)

CodesOnce ==
    \A k \in Codes :
        /\ authz[k].pc # "idle" => authz[k].grant.origin = k
        /\ codes[k].saved => authz[k].pc = "done" /\ codes[k].grant = authz[k].grant
        /\ codes[k].consumed => codes[k].saved

DevicesOnce ==
    \A d \in Devices :
        /\ asked[d].pc # "done" => devices[d].status = "none"
        /\ devices[d].status # "none" => devices[d].grant.origin = d

\* The request has got a code or a device for itself.
Redeeming(q) ==
    /\ req[q].kind \in {"authorization_code", "device_code"}
    /\ req[q].pc \notin {"idle", "exchange"}

OneHolder ==
    /\ \A q \in Requests : Redeeming(q) =>
          req[q].grant.origin # NoOrigin /\ Taken(req[q].grant.origin)
    /\ \A q, r \in Requests : /\ Redeeming(q) /\ Redeeming(r)
                              /\ req[q].grant.origin = req[r].grant.origin
                              => q = r

OwnAccess ==
    \A q \in Requests : accessTokens[q].saved =>
        /\ req[q].pc \notin {"idle", "exchange"}
        /\ accessTokens[q].grant = req[q].grant

Narrowing ==
    \A q \in Requests :
        /\ Within(req[q].grant) /\ Within(refreshTokens[q].grant)
        /\ refreshTokens[q].saved /\ refreshTokens[q].parent # NoFamily =>
             /\ refreshTokens[refreshTokens[q].parent].saved
             /\ refreshTokens[q].grant.scope
                  \subseteq refreshTokens[refreshTokens[q].parent].grant.scope

OriginInv == CodesOnce /\ DevicesOnce /\ OneHolder /\ OwnAccess /\ Narrowing

\* A step that takes back nothing of what grants refer to.
OriginsKept ==
    /\ \A k \in Codes :
         /\ authz[k].pc # "idle" => authz'[k].pc # "idle" /\ authz'[k].grant = authz[k].grant
         /\ codes[k].consumed => codes'[k].consumed
    /\ \A d \in Devices :
         /\ devices[d].status # "none" => /\ devices'[d].status # "none"
                                          /\ devices'[d].grant.scope = devices[d].grant.scope
         /\ devices[d].status = "consumed" => devices'[d].status = "consumed"

LEMMA OriginTypes ==
    ASSUME TypeOK
    PROVE  /\ \A k \in Codes : codes[k].grant \in Grant /\ authz[k].grant \in Grant
           /\ \A d \in Devices : devices[d].grant \in Grant
           /\ \A q \in Requests : /\ refreshTokens[q].grant \in Grant
                                  /\ req[q].grant \in Grant
                                  /\ refreshTokens[q].parent \in Requests \union {NoFamily}
           /\ \A g \in Grant : g.origin \in Codes \union Devices \union {NoOrigin}
BY DEF TypeOK, StoreTypeOK, EndpointTypeOK, AuthorizationCode, RefreshToken,
       DeviceAuthorization, AuthzRequest, TokenRequest, Grant

LEMMA StillWithin ==
    ASSUME TypeOK, OriginsKept
    PROVE  /\ \A g \in Grant : Within(g) =>
                 (g.origin # NoOrigin =>
                    Settled(g.origin)' /\ g.scope \subseteq OriginScope(g.origin)')
           /\ \A x \in Codes \union Devices : Taken(x) => Taken(x)'
<1>1. \A x \in Codes \union Devices :
        /\ Settled(x) => Settled(x)' /\ OriginScope(x)' = OriginScope(x)
        /\ Taken(x) => Taken(x)'
  BY DEF OriginsKept, Settled, OriginScope, Taken
<1>2. \A g \in Grant : g.origin # NoOrigin => g.origin \in Codes \union Devices
  BY OriginTypes
<1> QED BY <1>1, <1>2 DEF Within

\* The step of a token request leaves the others where they are.
LEMMA OthersKeep ==
    ASSUME TypeOK, OriginInv, OriginsKept, NEW q \in Requests,
           \A r \in Requests : r # q =>
               /\ req'[r] = req[r]
               /\ accessTokens'[r].saved = accessTokens[r].saved
               /\ accessTokens'[r].grant = accessTokens[r].grant
    PROVE  \A r \in Requests : r # q =>
               /\ Within(req[r].grant)' /\ Redeeming(r)' = Redeeming(r)
               /\ req'[r].grant.origin = req[r].grant.origin
               /\ Redeeming(r) => /\ req[r].grant.origin \in Codes \union Devices
                                  /\ Taken(req[r].grant.origin)
                                  /\ Taken(req[r].grant.origin)'
               /\ accessTokens'[r].saved =>
                    /\ req'[r].pc \notin {"idle", "exchange"}
                    /\ accessTokens'[r].grant = req'[r].grant
<1> SUFFICES ASSUME NEW r \in Requests, r # q
             PROVE  /\ Within(req[r].grant)' /\ Redeeming(r)' = Redeeming(r)
                    /\ req'[r].grant.origin = req[r].grant.origin
                    /\ Redeeming(r) => /\ req[r].grant.origin \in Codes \union Devices
                                       /\ Taken(req[r].grant.origin)
                                       /\ Taken(req[r].grant.origin)'
                    /\ accessTokens'[r].saved =>
                         /\ req'[r].pc \notin {"idle", "exchange"}
                         /\ accessTokens'[r].grant = req'[r].grant
  OBVIOUS
<1>1. req'[r] = req[r]
  OBVIOUS
<1>2. req[r].grant \in Grant /\ Within(req[r].grant)
  BY OriginTypes DEF OriginInv, Narrowing
<1>3. Within(req[r].grant)'
  BY <1>1, <1>2, StillWithin DEF Within
<1>4. Redeeming(r)' = Redeeming(r)
  BY <1>1 DEF Redeeming
<1>5. Redeeming(r) => /\ req[r].grant.origin \in Codes \union Devices
                      /\ Taken(req[r].grant.origin)
  BY <1>2, OriginTypes DEF OriginInv, OneHolder
<1>6. Redeeming(r) => Taken(req[r].grant.origin)'
  <2>1. PICK x : x = req[r].grant.origin
    OBVIOUS
  <2>2. Redeeming(r) => Taken(x)'
    BY <1>5, <2>1, StillWithin
  <2> QED BY <1>1, <2>1, <2>2
<1>7. accessTokens'[r].saved => /\ req'[r].pc \notin {"idle", "exchange"}
                                /\ accessTokens'[r].grant = req'[r].grant
  BY <1>1 DEF OriginInv, OwnAccess
<1> QED BY <1>1, <1>3, <1>4, <1>5, <1>6, <1>7

\* Revocations and expiry mark credentials and change nothing else about them.
Marks ==
    /\ \A k \in Codes : /\ codes'[k].saved = codes[k].saved
                        /\ codes'[k].grant = codes[k].grant
                        /\ codes'[k].consumed = codes[k].consumed
    /\ \A q \in Requests : /\ accessTokens'[q].saved = accessTokens[q].saved
                           /\ accessTokens'[q].grant = accessTokens[q].grant
                           /\ refreshTokens'[q].saved = refreshTokens[q].saved
                           /\ refreshTokens'[q].grant = refreshTokens[q].grant
                           /\ refreshTokens'[q].parent = refreshTokens[q].parent
    /\ \A d \in Devices :
         /\ devices'[d].grant = devices[d].grant
         /\ \/ devices'[d].status = devices[d].status
            \/ devices[d].status \in {"pending", "approved"} /\ devices'[d].status = "denied"

LEMMA RevocationMarks ==
    ASSUME StoreTypeOK, NEW u, NEW s, NEW c, NEW f, NEW q,
           \/ RevokeSessionTokens(u, s) \/ RevokeUserTokens(u, s)
           \/ RevokeClientTokens(c) \/ DeleteConsent(u, c)
           \/ RevokeFamily(f) \/ RevokeAccessToken(q) \/ Expiry
    PROVE  Marks
<1>0. /\ \A k \in Codes : codes[k] \in AuthorizationCode
      /\ \A r \in Requests : accessTokens[r] \in AccessToken /\ refreshTokens[r] \in RefreshToken
      /\ \A d \in Devices : devices[d] \in DeviceAuthorization
  BY DEF StoreTypeOK
<1>1. /\ \A r \in AuthorizationCode : /\ [r EXCEPT !.revoked = TRUE].grant = r.grant
                                      /\ [r EXCEPT !.revoked = TRUE].saved = r.saved
                                      /\ [r EXCEPT !.revoked = TRUE].consumed = r.consumed
      /\ \A r \in AccessToken : /\ [r EXCEPT !.revoked = TRUE].grant = r.grant
                                /\ [r EXCEPT !.revoked = TRUE].saved = r.saved
      /\ \A r \in RefreshToken : /\ [r EXCEPT !.revoked = TRUE].grant = r.grant
                                 /\ [r EXCEPT !.revoked = TRUE].saved = r.saved
                                 /\ [r EXCEPT !.revoked = TRUE].parent = r.parent
      /\ \A r \in DeviceAuthorization : /\ [r EXCEPT !.status = "denied"].grant = r.grant
                                        /\ [r EXCEPT !.status = "denied"].status = "denied"
  BY DEF AuthorizationCode, AccessToken, RefreshToken, DeviceAuthorization
<1>2. CASE RevokeSessionTokens(u, s)
  BY <1>0, <1>1, <1>2 DEF Marks, RevokeSessionTokens, revokeMatchingTokens
<1>3. CASE RevokeUserTokens(u, s)
  BY <1>0, <1>1, <1>3 DEF Marks, RevokeUserTokens, revokeMatchingTokens, denyDevices
<1>4. CASE RevokeClientTokens(c)
  BY <1>0, <1>1, <1>4 DEF Marks, RevokeClientTokens, revokeMatchingTokens, denyDevices
<1>5. CASE DeleteConsent(u, c)
  BY <1>0, <1>1, <1>5 DEF Marks, DeleteConsent, revokeMatchingTokens, denyDevices
<1>6. CASE RevokeFamily(f)
  BY <1>0, <1>1, <1>6 DEF Marks, RevokeFamily
<1>7. CASE RevokeAccessToken(q)
  BY <1>0, <1>1, <1>7 DEF Marks, RevokeAccessToken, StoreTypeOK
<1>8. CASE Expiry
  <2>1. ASSUME NEW k \in Codes, ExpireCode(k) PROVE Marks
    BY <1>0, <2>1 DEF Marks, StoreTypeOK, ExpireCode, AuthorizationCode
  <2>2. ASSUME NEW r \in Requests, ExpireAccessToken(r) PROVE Marks
    BY <1>0, <2>2 DEF Marks, StoreTypeOK, ExpireAccessToken, AccessToken
  <2>3. ASSUME NEW r \in Requests, ExpireRefreshToken(r) PROVE Marks
    BY <1>0, <2>3 DEF Marks, StoreTypeOK, ExpireRefreshToken, RefreshToken
  <2>4. ASSUME NEW d \in Devices, ExpireDevice(d) PROVE Marks
    BY <1>0, <2>4 DEF Marks, StoreTypeOK, ExpireDevice, DeviceAuthorization
  <2> QED BY <1>8, <2>1, <2>2, <2>3, <2>4 DEF Expiry
<1> QED BY <1>2, <1>3, <1>4, <1>5, <1>6, <1>7, <1>8

LEMMA MarksKeep ==
    ASSUME TypeOK, OriginInv, Marks, UNCHANGED <<authz, asked>>
    PROVE  /\ OriginsKept /\ CodesOnce' /\ DevicesOnce'
           /\ \A q \in Requests : Within(refreshTokens[q].grant)'
           /\ UNCHANGED req => OriginInv'
<1>1. OriginsKept
  BY DEF Marks, OriginsKept
<1>2. CodesOnce'
  BY DEF Marks, OriginInv, CodesOnce
<1>3. DevicesOnce'
  BY DEF Marks, OriginInv, DevicesOnce
<1>4. \A q \in Requests : Within(refreshTokens[q].grant)'
  <2> SUFFICES ASSUME NEW q \in Requests PROVE Within(refreshTokens[q].grant)'
    OBVIOUS
  <2>1. refreshTokens'[q].grant = refreshTokens[q].grant
    BY DEF Marks
  <2>2. refreshTokens[q].grant \in Grant /\ Within(refreshTokens[q].grant)
    BY OriginTypes DEF OriginInv, Narrowing
  <2> QED BY <1>1, <2>1, <2>2, StillWithin DEF Within
<1>5. ASSUME UNCHANGED req PROVE OriginInv'
  <2>1. \A q \in Requests : Within(req[q].grant)'
    <3> SUFFICES ASSUME NEW q \in Requests PROVE Within(req[q].grant)'
      OBVIOUS
    <3>1. req[q].grant \in Grant /\ Within(req[q].grant) /\ req'[q].grant = req[q].grant
      BY <1>5, OriginTypes DEF OriginInv, Narrowing
    <3> QED BY <1>1, <3>1, StillWithin DEF Within
  <2>2. Narrowing'
    <3>1. ASSUME NEW q \in Requests, refreshTokens'[q].saved,
                 refreshTokens'[q].parent # NoFamily
          PROVE  /\ refreshTokens'[refreshTokens'[q].parent].saved
                 /\ refreshTokens'[q].grant.scope
                       \subseteq refreshTokens'[refreshTokens'[q].parent].grant.scope
      <4>1. PICK p : p = refreshTokens[q].parent
        OBVIOUS
      <4>2. p \in Requests /\ refreshTokens'[q].parent = p
        BY <3>1, <4>1, OriginTypes DEF Marks
      <4>3. refreshTokens[p].saved /\ refreshTokens[q].grant.scope
                                          \subseteq refreshTokens[p].grant.scope
        BY <3>1, <4>1 DEF OriginInv, Narrowing, Marks
      <4> QED BY <4>2, <4>3 DEF Marks
    <3> QED BY <1>4, <2>1, <3>1 DEF Narrowing
  <2>3. OwnAccess'
    BY <1>5 DEF Marks, OriginInv, OwnAccess
  <2>4. OneHolder'
    <3>1. \A q \in Requests : Redeeming(q)' => /\ Redeeming(q)
                                             /\ req'[q].grant.origin = req[q].grant.origin
      BY <1>5 DEF Redeeming
    <3>2. ASSUME NEW q \in Requests, Redeeming(q)'
          PROVE  req'[q].grant.origin # NoOrigin /\ Taken(req[q].grant.origin)'
      <4>1. PICK x : x = req[q].grant.origin
        OBVIOUS
      <4>2. x # NoOrigin /\ Taken(x) /\ x \in Codes \union Devices
        BY <3>1, <3>2, <4>1, OriginTypes DEF OriginInv, OneHolder
      <4>3. Taken(x)'
        BY <1>1, <4>2, StillWithin
      <4> QED BY <3>1, <3>2, <4>1, <4>2, <4>3
    <3> QED BY <3>1, <3>2 DEF OneHolder, OriginInv
  <2> QED BY <1>2, <1>3, <2>2, <2>3, <2>4 DEF OriginInv
<1> QED BY <1>1, <1>2, <1>3, <1>4, <1>5

-----------------------------------------------------------------------------
(***************************************************************************)
(* The endpoints.                                                          *)
(***************************************************************************)
\* A step that changes only what is behind the codes and the devices.
LEMMA BehindKeeps ==
    ASSUME TypeOK, OriginInv, OriginsKept, CodesOnce', DevicesOnce',
           UNCHANGED <<req, accessTokens, refreshTokens>>
    PROVE  OriginInv'
<1>1. \A g \in Grant : Within(g) =>
        (g.origin # NoOrigin =>
           Settled(g.origin)' /\ g.scope \subseteq OriginScope(g.origin)')
  BY StillWithin
<1>2. \A q \in Requests : Within(req[q].grant)' /\ Within(refreshTokens[q].grant)'
  BY <1>1, OriginTypes DEF OriginInv, Narrowing, Within
<1>3. Narrowing'
  BY <1>2 DEF OriginInv, Narrowing
<1>4. OwnAccess'
  BY DEF OriginInv, OwnAccess
<1>5. OneHolder'
  <2>1. \A q \in Requests : Redeeming(q)' = Redeeming(q)
    BY DEF Redeeming
  <2>2. \A q \in Requests : Redeeming(q) =>
          /\ req[q].grant.origin \in Codes \union Devices /\ req[q].grant.origin # NoOrigin
          /\ Taken(req[q].grant.origin)
    BY OriginTypes DEF OriginInv, OneHolder
  <2>3. ASSUME NEW q \in Requests, Redeeming(q) PROVE Taken(req[q].grant.origin)'
    <3>1. PICK x : x = req[q].grant.origin
      OBVIOUS
    <3>2. Taken(x)'
      BY <2>2, <2>3, <3>1, StillWithin
    <3> QED BY <3>1, <3>2
  <2> QED BY <2>1, <2>2, <2>3 DEF OriginInv, OneHolder
<1> QED BY <1>3, <1>4, <1>5 DEF OriginInv

LEMMA AuthorizeKeepsOrigins ==
    ASSUME TypeOK, OriginInv, NEW k \in Codes, AuthorizeNext(k)
    PROVE  OriginInv'
<1>0. /\ UNCHANGED <<req, accessTokens, refreshTokens, devices, asked>>
      /\ authz \in [Codes -> AuthzRequest] /\ codes \in [Codes -> AuthorizationCode]
  BY DEF AuthorizeNext, authzOnly, accountVars, TypeOK, EndpointTypeOK, StoreTypeOK, storeVars,
         Authorize, AuthorizeUser, RequiresConsent, ReuseConsent, ConsentForm, ConsentDecision,
         RecordConsent, issueAuthorizationCode, GrantConsent, SaveAuthorizationCode
<1>1. DevicesOnce'
  BY <1>0 DEF OriginInv, DevicesOnce
<1>2. ASSUME OriginsKept, CodesOnce' PROVE OriginInv'
  BY <1>0, <1>1, <1>2, BehindKeeps
<1>3. ASSUME NEW c \in Clients, NEW s \in Sessions, NEW scope \in ScopeParams,
             NEW p \in Proofs, Authorize(k, c, s, scope, p)
      PROVE  OriginInv'
  <2>1. /\ authz[k].pc = "idle" /\ authz'[k].pc = "user" /\ authz'[k].grant.origin = k
        /\ \A j \in Codes : j # k => authz'[j] = authz[j]
        /\ UNCHANGED codes
    BY <1>0, <1>3 DEF Authorize, storeVars
  <2>2. OriginsKept
    BY <1>0, <2>1 DEF OriginsKept
  <2>3. CodesOnce'
    BY <2>1 DEF OriginInv, CodesOnce
  <2> QED BY <1>2, <2>2, <2>3
<1>4. ASSUME NEW pc, pc # "idle", authz[k].pc \notin {"idle", "done"},
             authz' = [authz EXCEPT ![k].pc = pc], UNCHANGED codes
      PROVE  OriginInv'
  <2>1. /\ authz'[k].pc # "idle" /\ authz'[k].grant = authz[k].grant
        /\ \A j \in Codes : j # k => authz'[j] = authz[j]
    BY <1>0, <1>4 DEF AuthzRequest
  <2>2. OriginsKept
    BY <1>0, <1>4, <2>1 DEF OriginsKept
  <2>3. CodesOnce'
    BY <1>4, <2>1 DEF OriginInv, CodesOnce
  <2> QED BY <1>2, <2>2, <2>3
<1>5. CASE \/ AuthorizeUser(k) \/ RequiresConsent(k) \/ ReuseConsent(k) \/ ConsentForm(k)
           \/ RecordConsent(k) \/ \E allow \in BOOLEAN : ConsentDecision(k, allow)
  BY <1>4, <1>5 DEF AuthorizeUser, RequiresConsent, ReuseConsent, ConsentForm,
       RecordConsent, ConsentDecision, GrantConsent, storeVars
<1>6. CASE issueAuthorizationCode(k)
  <2>1. /\ authz[k].pc = "save" /\ authz'[k].pc = "done" /\ authz'[k].grant = authz[k].grant
        /\ \A j \in Codes : j # k => authz'[j] = authz[j]
    BY <1>0, <1>6 DEF issueAuthorizationCode, AuthzRequest
  <2>2. /\ codes'[k].grant = authz[k].grant /\ codes'[k].saved /\ ~codes'[k].consumed
        /\ \A j \in Codes : j # k => codes'[j] = codes[j]
    BY <1>0, <1>6 DEF issueAuthorizationCode, SaveAuthorizationCode
  <2>3. ~codes[k].consumed
    BY <2>1 DEF OriginInv, CodesOnce
  <2>4. OriginsKept
    BY <1>0, <2>1, <2>2, <2>3 DEF OriginsKept
  <2>5. CodesOnce'
    BY <2>1, <2>2 DEF OriginInv, CodesOnce
  <2> QED BY <1>2, <2>4, <2>5
<1> QED BY <1>3, <1>5, <1>6, AuthorizeNext(k) DEF AuthorizeNext

LEMMA DeviceKeepsOrigins ==
    ASSUME TypeInv, OriginInv, DeviceNext
    PROVE  OriginInv'
<1>0. /\ UNCHANGED <<authz, req, codes, accessTokens, refreshTokens>>
      /\ TypeOK /\ devices \in [Devices -> DeviceAuthorization]
      /\ asked \in [Devices -> DeviceRequest]
  BY DEF DeviceNext, deviceOnly, TypeInv, TypeOK, StoreTypeOK, EndpointTypeOK, storeVars,
         deviceAuthorization, StoreDevice, DeviceSession, DeviceUser, DeviceDecide,
         SaveDeviceAuthorization, DecideDeviceAuthorization
<1>1. CodesOnce'
  BY <1>0 DEF OriginInv, CodesOnce
<1>2. ASSUME OriginsKept, DevicesOnce' PROVE OriginInv'
  BY <1>0, <1>1, <1>2, BehindKeeps
<1>3. ASSUME NEW d \in Devices, NEW c \in Clients, NEW scope \in ScopeParams,
             deviceAuthorization(d, c, scope)
      PROVE  OriginInv'
  <2>1. /\ asked[d].pc = "idle" /\ UNCHANGED devices
        /\ \A e \in Devices : e # d => asked'[e] = asked[e]
    BY <1>0, <1>3 DEF deviceAuthorization, storeVars
  <2>2. DevicesOnce' /\ OriginsKept
    BY <1>0, <2>1 DEF OriginInv, DevicesOnce, OriginsKept
  <2> QED BY <1>2, <2>2
<1>4. ASSUME NEW d \in Devices, StoreDevice(d) PROVE OriginInv'
  <2>1. /\ asked[d].pc = "save" /\ asked'[d].pc = "done"
        /\ \A e \in Devices : e # d => asked'[e] = asked[e]
    BY <1>0, <1>4 DEF StoreDevice, DeviceRequest
  <2>2. \A c, scope : [NoGrant EXCEPT !.client = c, !.scope = scope, !.origin = d].origin = d
    BY DEF NoGrant
  <2>3. /\ devices'[d].status = "pending" /\ devices'[d].grant.origin = d
        /\ \A e \in Devices : e # d => devices'[e] = devices[e]
    BY <1>0, <1>4, <2>2 DEF StoreDevice, SaveDeviceAuthorization
  <2>4. devices[d].status = "none"
    BY <2>1 DEF OriginInv, DevicesOnce
  <2>5. OriginsKept
    BY <1>0, <2>3, <2>4 DEF OriginsKept
  <2>6. DevicesOnce'
    BY <2>1, <2>3 DEF OriginInv, DevicesOnce
  <2> QED BY <1>2, <2>5, <2>6
<1>5. ASSUME NEW j \in Decisions, NEW approve \in BOOLEAN, DeviceDecide(j, approve)
      PROVE  OriginInv'
  <2>1. PICK d, s, u : /\ d = decision[j].device /\ d \in Devices
                       /\ devices[d].status = "pending"
                       /\ DecideDeviceAuthorization(d, u, s, approve)
                       /\ UNCHANGED asked
    BY <1>5 DEF DeviceDecide, DeviceDecidable, TypeInv, Bound
  <2>2. PICK g : g = [[devices[d].grant EXCEPT !.user = u] EXCEPT !.by = s]
    OBVIOUS
  <2>3. g.origin = devices[d].grant.origin /\ g.scope = devices[d].grant.scope
    BY <1>0, <2>1, <2>2, OriginTypes DEF Grant
  <2>4. /\ devices'[d].grant = g /\ devices'[d].status \in {"approved", "denied"}
        /\ \A e \in Devices : e # d => devices'[e] = devices[e]
    BY <1>0, <2>1, <2>2 DEF DecideDeviceAuthorization, DeviceAuthorization
  <2>5. OriginsKept
    BY <1>0, <2>1, <2>3, <2>4 DEF OriginsKept
  <2>6. DevicesOnce'
    BY <2>1, <2>3, <2>4 DEF OriginInv, DevicesOnce
  <2> QED BY <1>2, <2>5, <2>6
<1>6. ASSUME UNCHANGED <<devices, asked>> PROVE OriginInv'
  <2>1. DevicesOnce' /\ OriginsKept
    BY <1>0, <1>6 DEF OriginInv, DevicesOnce, OriginsKept
  <2> QED BY <1>2, <2>1
<1> QED
  BY <1>3, <1>4, <1>5, <1>6 DEF DeviceNext, DeviceSession, DeviceUser, storeVars

\* The refresh tokens of a step that stores the one of q, if any, and marks others.
TokensNarrow(q) ==
    \/ \A r \in Requests : /\ refreshTokens'[r].saved = refreshTokens[r].saved
                           /\ refreshTokens'[r].grant = refreshTokens[r].grant
                           /\ refreshTokens'[r].parent = refreshTokens[r].parent
    \/ /\ ~refreshTokens[q].saved
       /\ \A r \in Requests : r # q =>
             /\ refreshTokens'[r].saved = refreshTokens[r].saved
             /\ refreshTokens'[r].grant = refreshTokens[r].grant
             /\ refreshTokens'[r].parent = refreshTokens[r].parent
       /\ refreshTokens'[q].grant = req'[q].grant
       /\ refreshTokens'[q].saved
       /\ refreshTokens'[q].parent # NoFamily =>
             /\ refreshTokens'[q].parent \in Requests \ {q}
             /\ refreshTokens[refreshTokens'[q].parent].saved
             /\ refreshTokens'[q].grant.scope
                  \subseteq refreshTokens[refreshTokens'[q].parent].grant.scope

\* What is left to show of a step of token request q.
LEMMA TokenFrame ==
    ASSUME TypeOK, OriginInv, OriginsKept, CodesOnce', DevicesOnce', NEW q \in Requests,
           \A r \in Requests : r # q =>
               /\ req'[r] = req[r]
               /\ accessTokens'[r].saved = accessTokens[r].saved
               /\ accessTokens'[r].grant = accessTokens[r].grant,
           TokensNarrow(q),
           Within(req[q].grant)',
           accessTokens'[q].saved => /\ req'[q].pc \notin {"idle", "exchange"}
                                     /\ accessTokens'[q].grant = req'[q].grant,
           Redeeming(q)' =>
               /\ req'[q].grant.origin # NoOrigin /\ Taken(req[q].grant.origin)'
               /\ \/ Redeeming(q) /\ req'[q].grant.origin = req[q].grant.origin
                  \/ \A r \in Requests : Redeeming(r) =>
                        req[r].grant.origin # req'[q].grant.origin
    PROVE  OriginInv'
<1>1. \A r \in Requests : r # q =>
        /\ Within(req[r].grant)' /\ Redeeming(r)' = Redeeming(r)
        /\ req'[r].grant.origin = req[r].grant.origin
        /\ Redeeming(r) => /\ req[r].grant.origin \in Codes \union Devices
                           /\ Taken(req[r].grant.origin)
                           /\ Taken(req[r].grant.origin)'
        /\ accessTokens'[r].saved =>
             /\ req'[r].pc \notin {"idle", "exchange"}
             /\ accessTokens'[r].grant = req'[r].grant
  BY OthersKeep
<1>2. OwnAccess'
  BY <1>1 DEF OwnAccess
<1>3. OneHolder'
  <2>1. \A r \in Requests : Redeeming(r)' =>
          req'[r].grant.origin # NoOrigin /\ Taken(req[r].grant.origin)'
    BY <1>1 DEF OriginInv, OneHolder
  <2>2. \A r, t \in Requests : /\ Redeeming(r) /\ Redeeming(t)
                               /\ req[r].grant.origin = req[t].grant.origin
                               => r = t
    BY DEF OriginInv, OneHolder
  <2>3. \A r, t \in Requests : /\ Redeeming(r)' /\ Redeeming(t)'
                               /\ req'[r].grant.origin = req'[t].grant.origin
                               => r = t
    BY <1>1, <2>2
  <2> QED BY <2>1, <2>3 DEF OneHolder
<1>4. \A r \in Requests : refreshTokens'[r].grant = refreshTokens[r].grant
                            => Within(refreshTokens[r].grant)'
  BY StillWithin, OriginTypes DEF OriginInv, Narrowing, Within
<1>5. \A r \in Requests : Within(refreshTokens[r].grant)'
  BY <1>4 DEF TokensNarrow, Within
<1>6. ASSUME NEW r \in Requests, refreshTokens'[r].saved, refreshTokens'[r].parent # NoFamily
      PROVE  /\ refreshTokens'[refreshTokens'[r].parent].saved
             /\ refreshTokens'[r].grant.scope
                  \subseteq refreshTokens'[refreshTokens'[r].parent].grant.scope
  <2>1. PICK x : x = refreshTokens'[r].parent
    OBVIOUS
  <2>2. CASE /\ refreshTokens'[r].saved = refreshTokens[r].saved
             /\ refreshTokens'[r].grant = refreshTokens[r].grant
             /\ refreshTokens'[r].parent = refreshTokens[r].parent
    <3>1. /\ x \in Requests /\ refreshTokens[x].saved
          /\ refreshTokens[r].grant.scope \subseteq refreshTokens[x].grant.scope
      BY <1>6, <2>1, <2>2, OriginTypes DEF OriginInv, Narrowing
    <3>2. refreshTokens'[x].saved /\ refreshTokens'[x].grant = refreshTokens[x].grant
      BY <3>1 DEF TokensNarrow
    <3> QED BY <2>1, <2>2, <3>1, <3>2
  <2>3. CASE ~ /\ refreshTokens'[r].saved = refreshTokens[r].saved
               /\ refreshTokens'[r].grant = refreshTokens[r].grant
               /\ refreshTokens'[r].parent = refreshTokens[r].parent
    <3>1. /\ r = q /\ x \in Requests \ {q} /\ refreshTokens[x].saved
          /\ refreshTokens'[q].grant.scope \subseteq refreshTokens[x].grant.scope
          /\ \A t \in Requests : t # q => /\ refreshTokens'[t].saved = refreshTokens[t].saved
                                          /\ refreshTokens'[t].grant = refreshTokens[t].grant
      BY <1>6, <2>1, <2>3 DEF TokensNarrow
    <3> QED BY <2>1, <3>1
  <2> QED BY <2>2, <2>3
<1>7. \A r \in Requests : Within(req[r].grant)'
  BY <1>1
<1>8. Narrowing'
  BY <1>5, <1>6, <1>7 DEF Narrowing
<1> QED BY <1>2, <1>3, <1>8 DEF OriginInv

LEMMA TokenKeepsOrigins ==
    ASSUME TypeInv, OwnTokenOnce, OriginInv, NEW q \in Requests, TokenNext(q)
    PROVE  OriginInv'
<1>0. /\ TypeOK /\ StoreTypeOK /\ req \in [Requests -> TokenRequest]
      /\ req[q] \in TokenRequest /\ req[q].grant \in Grant
  BY DEF TypeInv, TypeOK, EndpointTypeOK, TokenRequest
<1>1. UNCHANGED <<authz, asked>>
  BY TokenNext(q)
  DEF TokenNext, TokenStep, reqOnly, authenticateOAuthClient, authorizationCodeToken,
      refreshToken, deviceCodeToken, clientCredentialsToken, ReadFails, ValidateUser,
      ValidateSession, ValidateConsent, issueAccessToken, issueRefreshToken, issueIDToken,
      AbortRefresh
<1>2. Within(req[q].grant)
  BY DEF OriginInv, Narrowing
<1>3. /\ accessTokens[q].saved => req[q].pc \notin {"idle", "exchange"}
      /\ accessTokens[q].saved => accessTokens[q].grant = req[q].grant
  BY DEF OriginInv, OwnAccess
<1>4. UNCHANGED storeVars => Marks
  BY DEF Marks, storeVars
<1>5. Marks => OriginsKept /\ CodesOnce' /\ DevicesOnce' /\ TokensNarrow(q)
  BY <1>0, <1>1, MarksKeep DEF Marks, TokensNarrow
<1>6. ASSUME NEW g \in Grant, NEW f, Proceed(q, g, f)
      PROVE  /\ req'[q].pc = "vUser" /\ req'[q].kind = req[q].kind /\ req'[q].grant = g
             /\ \A r \in Requests : r # q => req'[r] = req[r]
  BY <1>0, <1>6 DEF Proceed, TokenRequest
<1>7. ASSUME NEW pc, GoTo(q, pc)
      PROVE  /\ req'[q].pc = pc /\ req'[q].kind = req[q].kind /\ req'[q].grant = req[q].grant
             /\ \A r \in Requests : r # q => req'[r] = req[r]
  BY <1>0, <1>7 DEF GoTo, TokenRequest
<1>8. ASSUME OriginsKept, req'[q].grant = req[q].grant PROVE Within(req[q].grant)'
  BY <1>0, <1>2, <1>8, StillWithin DEF Within
\* The request has exchanged something before, or has not and only ends.
<1>9. ASSUME NEW pc, GoTo(q, pc), OriginsKept, CodesOnce', DevicesOnce', TokensNarrow(q),
             pc \notin {"idle", "exchange"},
             req[q].pc \notin {"idle", "exchange"} \/ req[q].kind = "refresh_token",
             \A r \in Requests : r # q =>
               /\ accessTokens'[r].saved = accessTokens[r].saved
               /\ accessTokens'[r].grant = accessTokens[r].grant,
             accessTokens'[q].saved => accessTokens'[q].grant = req[q].grant
      PROVE  OriginInv'
  <2>1. /\ req'[q].pc = pc /\ req'[q].kind = req[q].kind /\ req'[q].grant = req[q].grant
        /\ \A r \in Requests : r # q => req'[r] = req[r]
    BY <1>7, <1>9
  <2>2. Redeeming(q)' => Redeeming(q) /\ req'[q].grant.origin = req[q].grant.origin
    BY <1>9, <2>1 DEF Redeeming
  <2>3. Redeeming(q) => /\ req[q].grant.origin \in Codes \union Devices
                        /\ req[q].grant.origin # NoOrigin /\ Taken(req[q].grant.origin)
    BY <1>0, OriginTypes DEF OriginInv, OneHolder
  <2>4. Redeeming(q) => Taken(req[q].grant.origin)'
    <3>1. PICK x : x = req[q].grant.origin
      OBVIOUS
    <3>2. Redeeming(q) => Taken(x)'
      BY <1>0, <1>9, <2>3, <3>1, StillWithin
    <3> QED BY <2>1, <3>1, <3>2
  <2>5. Within(req[q].grant)'
    BY <1>8, <1>9, <2>1
  <2> QED BY <1>0, <1>9, <2>1, <2>2, <2>3, <2>4, <2>5, TokenFrame
<1>10. ASSUME NEW pc, GoTo(q, pc), Marks, pc \notin {"idle", "exchange"},
              req[q].pc \notin {"idle", "exchange"} \/ req[q].kind = "refresh_token"
       PROVE  OriginInv'
  <2>1. /\ \A r \in Requests : /\ accessTokens'[r].saved = accessTokens[r].saved
                               /\ accessTokens'[r].grant = accessTokens[r].grant
        /\ accessTokens'[q].saved => accessTokens'[q].grant = req[q].grant
    BY <1>3, <1>10 DEF Marks
  <2> QED BY <1>5, <1>9, <1>10, <2>1
<1>11. ASSUME NEW c \in Clients, NEW kind \in Kinds, authenticateOAuthClient(q, c, kind)
       PROVE  OriginInv'
  <2>1. /\ req[q].pc = "idle" /\ req'[q].pc = "exchange" /\ req'[q].grant = req[q].grant
        /\ \A r \in Requests : r # q => req'[r] = req[r]
    BY <1>0, <1>11 DEF authenticateOAuthClient, TokenRequest
  <2>2. Marks /\ UNCHANGED accessTokens
    BY <1>4, <1>11 DEF authenticateOAuthClient, storeVars
  <2>3. ~Redeeming(q)' /\ ~accessTokens'[q].saved
    BY <1>3, <2>1, <2>2 DEF Redeeming
  <2>4. Within(req[q].grant)'
    BY <1>5, <1>8, <2>1, <2>2
  <2> QED BY <1>0, <1>5, <2>1, <2>2, <2>3, <2>4, TokenFrame
\* The exchange of a code or a device that nobody has taken before.
<1>12. ASSUME NEW x \in Codes \union Devices, NEW g \in Grant, NEW f, Proceed(q, g, f),
              OriginsKept, CodesOnce', DevicesOnce', UNCHANGED <<accessTokens, refreshTokens>>,
              req[q].pc = "exchange", g.origin = x, Within(g), ~Taken(x), Taken(x)'
       PROVE  OriginInv'
  <2>1. /\ req'[q].grant = g
        /\ \A r \in Requests : r # q => req'[r] = req[r]
    BY <1>6, <1>12
  <2>2. x # NoOrigin
    BY StoreAssumption
  <2>3. Within(req[q].grant)'
    BY <1>0, <1>12, <2>1, StillWithin DEF Within
  <2>4. Taken(req[q].grant.origin)'
    BY <1>12, <2>1
  <2>5. \A r \in Requests : Redeeming(r) => req[r].grant.origin # x
    BY <1>12 DEF OriginInv, OneHolder
  <2>6. ~accessTokens'[q].saved
    BY <1>3, <1>12
  <2>7. TokensNarrow(q)
    BY <1>12 DEF TokensNarrow
  <2> QED BY <1>0, <1>12, <2>1, <2>2, <2>3, <2>4, <2>5, <2>6, <2>7, TokenFrame
<1>13. ASSUME NEW k \in Codes, NEW p \in Proofs, authorizationCodeToken(q, k, p)
       PROVE  OriginInv'
  <2>1. /\ req[q].pc = "exchange" /\ codes[k].saved /\ ~codes[k].consumed
        /\ Proceed(q, codes[k].grant, NewFamily(q)) /\ ConsumeAuthorizationCode(k)
    BY <1>13 DEF authorizationCodeToken, CodeConsumable
  <2>2. /\ codes'[k].consumed /\ codes'[k].saved /\ codes'[k].grant = codes[k].grant
        /\ \A j \in Codes : j # k => codes'[j] = codes[j]
        /\ UNCHANGED <<accessTokens, refreshTokens, devices>>
    BY <1>0, <2>1 DEF ConsumeAuthorizationCode, StoreTypeOK, AuthorizationCode
  <2>3. OriginsKept
    BY <1>1, <2>2 DEF OriginsKept
  <2>4. CodesOnce' /\ DevicesOnce'
    <3>1. CodesOnce'
      BY <1>1, <2>1, <2>2 DEF OriginInv, CodesOnce
    <3>2. DevicesOnce'
      BY <1>1, <2>2 DEF OriginInv, DevicesOnce
    <3> QED BY <3>1, <3>2
  <2>5. /\ codes[k].grant \in Grant /\ codes[k].grant = authz[k].grant
        /\ authz[k].pc = "done" /\ codes[k].grant.origin = k
    BY <1>0, <2>1, OriginTypes DEF OriginInv, CodesOnce
  <2>6. Within(codes[k].grant)
    BY <2>5 DEF Within, Settled, OriginScope
  <2>7. ~Taken(k) /\ Taken(k)'
    BY <2>1, <2>2 DEF Taken
  <2> QED BY <1>12, <2>1, <2>2, <2>3, <2>4, <2>5, <2>6, <2>7
<1>14. ASSUME NEW d \in Devices, deviceCodeToken(q, d) PROVE OriginInv'
  <2>1. /\ req[q].pc = "exchange" /\ devices[d].status = "approved"
        /\ Proceed(q, devices[d].grant, NewFamily(q)) /\ PollDeviceAuthorization(d)
    BY <1>14 DEF deviceCodeToken, DeviceRedeemable
  <2>2. /\ devices'[d].status = "consumed" /\ devices'[d].grant = devices[d].grant
        /\ \A e \in Devices : e # d => devices'[e] = devices[e]
        /\ UNCHANGED <<accessTokens, refreshTokens, codes>>
    BY <1>0, <2>1 DEF PollDeviceAuthorization, StoreTypeOK, DeviceAuthorization
  <2>3. OriginsKept
    BY <1>1, <2>1, <2>2 DEF OriginsKept
  <2>4. CodesOnce' /\ DevicesOnce'
    BY <1>1, <2>1, <2>2 DEF OriginInv, CodesOnce, DevicesOnce
  <2>5. d \notin Codes /\ devices[d].grant \in Grant /\ devices[d].grant.origin = d
    BY <1>0, <2>1, OriginTypes, StoreAssumption DEF OriginInv, DevicesOnce
  <2>6. Within(devices[d].grant)
    BY <2>1, <2>5 DEF Within, Settled, OriginScope
  <2>7. ~Taken(d) /\ Taken(d)'
    BY <2>1, <2>2, <2>5 DEF Taken
  <2> QED BY <1>12, <2>1, <2>2, <2>3, <2>4, <2>5, <2>6, <2>7
<1>15. ASSUME NEW old \in Requests, NEW scope \in SUBSET Scopes, refreshToken(q, old, scope)
       PROVE  OriginInv'
  <2>0. req[q].pc = "exchange" /\ req[q].kind = "refresh_token" /\ ~refreshTokens[q].saved
    BY <1>15 DEF refreshToken, OwnTokenOnce, Undecided
  <2>1. CASE RevokeFamily(refreshTokens[old].family) /\ GoTo(q, "done")
    <3>1. Marks
      BY <1>0, <2>1, RevocationMarks
    <3> QED BY <1>10, <2>0, <2>1, <3>1
  <2>2. PICK g : g = [refreshTokens[old].grant EXCEPT !.scope = EffectiveScope(old, scope)]
    OBVIOUS
  <2>3. CASE /\ Rotatable(old, req[q].client, scope) /\ RotateRefreshToken(q, old, scope)
             /\ Proceed(q, g, refreshTokens[old].family)
    <3>1. /\ g \in Grant /\ g.origin = refreshTokens[old].grant.origin
          /\ g.scope = EffectiveScope(old, scope)
      BY <1>0, <2>2, RotatedGrant, OriginTypes DEF Grant
    <3>2. refreshTokens[old].saved /\ old # q /\ g.scope \subseteq refreshTokens[old].grant.scope
      BY <2>0, <2>3, <3>1 DEF Rotatable, LiveRefreshToken, ScopesCover
    <3>3. /\ req'[q].grant = g /\ req'[q].kind = "refresh_token"
          /\ \A r \in Requests : r # q => req'[r] = req[r]
      BY <1>6, <2>0, <2>3, <3>1
    <3>4. /\ UNCHANGED <<codes, accessTokens, devices>>
          /\ refreshTokens'[q].saved /\ refreshTokens'[q].grant = g
          /\ refreshTokens'[q].parent = old
          /\ \A r \in Requests : r # q =>
               /\ refreshTokens'[r].saved = refreshTokens[r].saved
               /\ refreshTokens'[r].grant = refreshTokens[r].grant
               /\ refreshTokens'[r].parent = refreshTokens[r].parent
      BY <1>0, <2>2, <2>3 DEF RotateRefreshToken, StoreTypeOK, RefreshToken
    <3>5. TokensNarrow(q)
      BY <2>0, <3>2, <3>3, <3>4 DEF TokensNarrow
    <3>6. OriginsKept /\ CodesOnce' /\ DevicesOnce'
      BY <1>1, <3>4 DEF OriginsKept, OriginInv, CodesOnce, DevicesOnce
    <3>7. Within(g)
      BY <3>1, <3>2 DEF OriginInv, Narrowing, Within
    <3>8. Within(req[q].grant)'
      BY <1>0, <3>1, <3>3, <3>6, <3>7, StillWithin DEF Within
    <3>9. ~accessTokens'[q].saved /\ ~Redeeming(q)'
      BY <1>3, <2>0, <3>3, <3>4 DEF Redeeming
    <3> QED BY <1>0, <3>3, <3>4, <3>5, <3>6, <3>8, <3>9, TokenFrame
  <2> QED BY <1>15, <2>1, <2>2, <2>3 DEF refreshToken
<1>16. ASSUME NEW scope \in ScopeParams, clientCredentialsToken(q, scope) PROVE OriginInv'
  <2>1. \A c : [NoGrant EXCEPT !.client = c, !.scope = scope].origin = NoOrigin
    BY DEF NoGrant
  <2>2. /\ req'[q].grant.origin = NoOrigin /\ req'[q].kind = "client_credentials"
        /\ req[q].pc = "exchange"
        /\ \A r \in Requests : r # q => req'[r] = req[r]
    BY <1>0, <1>16, <2>1 DEF clientCredentialsToken, TokenRequest
  <2>3. Marks /\ UNCHANGED accessTokens
    BY <1>4, <1>16 DEF clientCredentialsToken, storeVars
  <2>4. ~Redeeming(q)' /\ ~accessTokens'[q].saved
    BY <1>3, <2>2, <2>3 DEF Redeeming
  <2>5. Within(req[q].grant)'
    BY <2>2 DEF Within
  <2> QED BY <1>0, <1>5, <2>2, <2>3, <2>4, <2>5, TokenFrame
<1>17. Refused(q) \in {"abort", "done"} /\ AfterUser(req[q].grant) \in {"vSession", "vConsent"}
  BY DEF Refused, AfterUser
<1>18. CASE ReadFails(q) \/ ValidateUser(q) \/ ValidateSession(q) \/ ValidateConsent(q)
  <2>1. req[q].pc \in Validation /\ Marks
        /\ \E pc \in {"abort", "done", "vSession", "vConsent", "saveAccess"} : GoTo(q, pc)
    BY <1>4, <1>17, <1>18 DEF ReadFails, ValidateUser, ValidateSession, ValidateConsent,
         Validation
  <2> QED BY <1>10, <2>1 DEF Validation
<1>19. CASE issueAccessToken(q)
  <2>1. CASE SaveAccessToken(q, req[q].grant, req[q].family) /\ GoTo(q, AfterAccess(q))
    <3>1. AfterAccess(q) \notin {"idle", "exchange"} /\ req[q].pc = "saveAccess"
      BY <1>19 DEF AfterAccess, AfterTokens, issueAccessToken
    <3>2. /\ accessTokens'[q].grant = req[q].grant
          /\ \A r \in Requests : r # q => accessTokens'[r] = accessTokens[r]
          /\ UNCHANGED <<codes, refreshTokens, devices>>
      BY <1>0, <2>1 DEF SaveAccessToken, StoreTypeOK
    <3>3. OriginsKept /\ CodesOnce' /\ DevicesOnce' /\ TokensNarrow(q)
      BY <1>1, <3>2 DEF OriginsKept, OriginInv, CodesOnce, DevicesOnce, TokensNarrow
    <3> QED BY <1>9, <2>1, <3>1, <3>2, <3>3
  <2>2. CASE UNCHANGED storeVars /\ GoTo(q, Refused(q))
    BY <1>4, <1>10, <1>17, <1>19, <2>2 DEF issueAccessToken
  <2> QED BY <1>19, <2>1, <2>2 DEF issueAccessToken
<1>20. CASE issueRefreshToken(q)
  <2>0. ~refreshTokens[q].saved /\ req[q].pc = "saveRefresh"
    BY <1>20 DEF issueRefreshToken, OwnTokenOnce, Undecided
  <2>1. CASE SaveRefreshToken(q, req[q].grant) /\ GoTo(q, AfterTokens(q))
    <3>1. AfterTokens(q) \notin {"idle", "exchange"}
      BY DEF AfterTokens
    <3>2. /\ refreshTokens'[q].grant = req[q].grant /\ refreshTokens'[q].saved
          /\ refreshTokens'[q].parent = NoFamily
          /\ \A r \in Requests : r # q => refreshTokens'[r] = refreshTokens[r]
          /\ UNCHANGED <<codes, accessTokens, devices>>
      BY <1>0, <2>1 DEF SaveRefreshToken, StoreTypeOK
    <3>3. req'[q].grant = req[q].grant
      BY <1>7, <2>1
    <3>4. TokensNarrow(q)
      BY <2>0, <3>2, <3>3 DEF TokensNarrow
    <3>5. OriginsKept /\ CodesOnce' /\ DevicesOnce'
      BY <1>1, <3>2 DEF OriginsKept, OriginInv, CodesOnce, DevicesOnce
    <3> QED BY <1>3, <1>9, <2>0, <2>1, <3>1, <3>2, <3>4, <3>5
  <2>2. CASE UNCHANGED storeVars /\ GoTo(q, "done")
    BY <1>4, <1>10, <2>0, <2>2
  <2> QED BY <1>20, <2>1, <2>2 DEF issueRefreshToken
<1>21. CASE issueIDToken(q)
  <2>1. Marks /\ GoTo(q, "done") /\ req[q].pc = "saveOIDC"
    BY <1>4, <1>21 DEF issueIDToken, SaveOIDCClientSession, Marks
  <2> QED BY <1>10, <2>1
<1>22. CASE AbortRefresh(q)
  <2>1. Marks
    BY <1>0, <1>4, <1>22, RevocationMarks DEF AbortRefresh
  <2> QED BY <1>10, <1>22, <2>1 DEF AbortRefresh
<1>23. \A scope \in ScopeParams \union {{}} : scope \in SUBSET Scopes
  BY EndpointAssumption
<1> QED
  BY <1>11, <1>13, <1>14, <1>15, <1>16, <1>18, <1>19, <1>20, <1>21, <1>22, <1>23, TokenNext(q)
  DEF TokenNext, TokenStep

LEMMA OriginStep ==
    TypeInv /\ OwnTokenOnce /\ OriginInv /\ [Next]_vars => OriginInv'
<1> SUFFICES ASSUME TypeInv, OwnTokenOnce, OriginInv, [Next]_vars PROVE OriginInv'
  OBVIOUS
<1>0. TypeOK /\ StoreTypeOK
  BY DEF TypeInv, TypeOK
<1>1. ASSUME Marks, UNCHANGED <<authz, asked, req>> PROVE OriginInv'
  BY <1>0, <1>1, MarksKeep
<1>2. UNCHANGED <<codes, accessTokens, refreshTokens, devices>> => Marks
  BY DEF Marks
<1>3. CASE EndpointNext
  <2>1. ASSUME NEW q \in Requests, revokeToken(q) PROVE OriginInv'
    <3>1. UNCHANGED <<authz, asked, req>>
      BY <2>1 DEF revokeToken, reqOnly
    <3>2. RevokeAccessToken(q) \/ RevokeFamily(refreshTokens[q].family)
      BY <2>1 DEF revokeToken
    <3>3. Marks
      BY <1>0, <3>2, RevocationMarks
    <3> QED BY <1>1, <3>1, <3>3
  <2>2. ASSUME NEW i \in Readers, ReaderNext(i) PROVE OriginInv'
    BY <1>1, <1>2, <2>2 DEF ReaderNext, readerOnly, introspect, userinfo, storeVars,
         introspectAccessToken, introspectRefreshToken, canIntrospectAccessToken,
         ReaderValidate
  <2> QED
    BY <1>0, <1>3, <2>1, <2>2, AuthorizeKeepsOrigins, DeviceKeepsOrigins, TokenKeepsOrigins
    DEF EndpointNext
<1>4. CASE RevocationNext /\ UNCHANGED endpointVars
  <2>1. UNCHANGED <<authz, asked, req>>
    BY <1>4 DEF endpointVars
  <2>2. ASSUME NEW u, NEW s, NEW c,
               \/ RevokeSessionTokens(u, s) \/ RevokeUserTokens(u, s)
               \/ RevokeClientTokens(c) \/ DeleteConsent(u, c)
        PROVE  OriginInv'
    <3>1. Marks
      BY <1>0, <2>2, RevocationMarks
    <3> QED BY <1>1, <2>1, <3>1
  <2>3. UNCHANGED <<codes, accessTokens, refreshTokens, devices>> => OriginInv'
    BY <1>1, <1>2, <2>1
  <2>4. ASSUME NEW o \in Ops, ClientTokens(o) \/ CleanSession(o) \/ UserTokens(o)
        PROVE  OriginInv'
    BY <2>2, <2>3, <2>4 DEF ClientTokens, CleanSession, UserTokens, Fails, storeVars
  <2>5. ASSUME NEW u \in Users, NEW c \in Clients, revokeAccountConsent(u, c)
        PROVE  OriginInv'
    BY <2>2, <2>5 DEF revokeAccountConsent
  <2>6. ASSUME NEW o \in Ops, OpStep(o) PROVE OriginInv'
    <3>1. CASE \/ RevokeEach(o) \/ sessionsForRevocation(o) \/ RevokeAllSessions(o)
               \/ CollectSession(o) \/ sendOIDCBackchannelLogout(o) \/ ForgetSession(o)
               \/ StageDone(o) \/ CleanupDone(o)
      BY <2>3, <3>1 DEF RevokeEach, sessionsForRevocation, RevokeAllSessions,
           CollectSession, sendOIDCBackchannelLogout, ForgetSession, StageDone, CleanupDone,
           DeleteOIDCClientSessions, Fails, opOnly, storeVars
    <3> QED BY <2>4, <2>6, <3>1 DEF OpStep
  <2>7. ASSUME NEW o \in Ops,
               \/ \E u \in Users, S \in SUBSET Sessions : StartLogout(o, u, S)
               \/ \E u \in Users : StartReset(o, u) \/ StartDisable(o, u)
               \/ \E s \in Sessions : StartChange(o, s)
               \/ \E c \in Clients : StartDisableClient(o, c)
        PROVE  OriginInv'
    BY <2>3, <2>7 DEF StartLogout, StartReset, StartDisable, StartChange,
         StartDisableClient, opOnly, storeVars
  <2> QED BY <1>4, <2>5, <2>6, <2>7 DEF RevocationNext
<1>5. CASE AccountNext /\ UNCHANGED <<storeVars, endpointVars, revocationVars>>
  BY <1>1, <1>2, <1>5 DEF storeVars, endpointVars
<1>6. CASE Expiry /\ UNCHANGED <<accountVars, endpointVars, revocationVars>>
  <2>1. Marks
    BY <1>0, <1>6, RevocationMarks
  <2> QED BY <1>1, <1>6, <2>1 DEF endpointVars
<1>7. CASE UNCHANGED vars
  BY <1>1, <1>2, <1>7 DEF vars, storeVars, endpointVars
<1> QED BY <1>3, <1>4, <1>5, <1>6, <1>7 DEF Next

LEMMA OriginInit == Init => OriginInv
<1> SUFFICES ASSUME Init PROVE OriginInv
  OBVIOUS
<1>1. /\ \A k \in Codes : authz[k].pc = "idle" /\ ~codes[k].saved /\ ~codes[k].consumed
      /\ \A d \in Devices : asked[d].pc = "idle" /\ devices[d].status = "none"
      /\ \A q \in Requests :
           /\ req[q].pc = "idle" /\ ~accessTokens[q].saved /\ ~refreshTokens[q].saved
           /\ req[q].grant.origin = NoOrigin /\ refreshTokens[q].grant.origin = NoOrigin
  BY DEF Init, StoreInit, EndpointInit, NoGrant
<1>2. CodesOnce /\ DevicesOnce
  BY <1>1 DEF CodesOnce, DevicesOnce
<1>3. OneHolder /\ OwnAccess
  BY <1>1 DEF OneHolder, OwnAccess, Redeeming
<1>4. Narrowing
  BY <1>1 DEF Narrowing, Within
<1> QED BY <1>2, <1>3, <1>4 DEF OriginInv

(***************************************************************************)
(* No token carries a scope its authorization code, its device or the      *)
(* token it was rotated from did not have: refreshToken hands the request  *)
(* the narrowed grant, and neither a code nor a device is stored again     *)
(* once a grant refers to it.                                              *)
(***************************************************************************)
THEOREM ScopesNarrow == Spec => []ScopeNeverWidens
<1>1. OriginInv => ScopeNeverWidens
  <2> SUFFICES ASSUME OriginInv PROVE ScopeNeverWidens
    OBVIOUS
  <2>1. \A q \in Requests : accessTokens[q].saved => Within(accessTokens[q].grant)
    BY DEF OriginInv, OwnAccess, Narrowing
  <2>2. \A q \in Requests : accessTokens[q].saved /\ accessTokens[q].grant.origin # NoOrigin
          => accessTokens[q].grant.scope \subseteq OriginScope(accessTokens[q].grant.origin)
    BY <2>1 DEF Within
  <2> QED BY <2>2 DEF OriginInv, Narrowing, ScopeNeverWidens
<1> QED BY <1>1, TypeInit, TypeStep, FamilyInit, FamilyStep, OriginInit, OriginStep, PTL DEF Spec

(***************************************************************************)
(* Two requests never issue tokens from one authorization code or one      *)
(* device: ConsumeAuthorizationCode and PollDeviceAuthorization test and   *)
(* set under one lock, and nothing resets what they set.                   *)
(***************************************************************************)
THEOREM OneExchange == Spec => []OneExchangePerOrigin
<1>1. OriginInv => OneExchangePerOrigin
  <2> SUFFICES ASSUME OriginInv PROVE OneExchangePerOrigin
    OBVIOUS
  <2>1. \A q \in Requests : Redeemed(q) =>
          Redeeming(q) /\ accessTokens[q].grant.origin = req[q].grant.origin
    BY DEF OriginInv, OwnAccess, Redeemed, Redeeming
  <2> QED BY <2>1 DEF OriginInv, OneHolder, OneExchangePerOrigin
<1> QED BY <1>1, TypeInit, TypeStep, FamilyInit, FamilyStep, OriginInit, OriginStep, PTL DEF Spec

-----------------------------------------------------------------------------
(***************************************************************************)
(* Nothing is issued or accepted on a grant whose session has ended, for   *)
(* every value of the constants.                                           *)
(*                                                                         *)
(* The invariant says two things that the properties leave out.  A session *)
(* named by a stored grant, or by one a request holds, was created: it is  *)
(* active, or it has ended and never becomes active again.  And a request  *)
(* that started from an ended session is stopped by the session check, so  *)
(* it has not got past it.                                                 *)
(***************************************************************************)
Known(g) == g.session # NoSession => g.user # NoUser /\ sessions[g.session] # "none"

GrantsKnown ==
    /\ \A k \in Codes : Known(codes[k].grant) /\ Known(authz[k].grant)
    /\ \A q \in Requests : /\ Known(accessTokens[q].grant)
                           /\ Known(refreshTokens[q].grant)
    /\ \A d \in Devices : devices[d].grant.session = NoSession

Ended(g) == g.session # NoSession /\ sessions[g.session] \in {"expired", "revoked"}

RequestStops ==
    \A q \in Requests :
        /\ Known(req[q].grant)
        /\ req[q].pc \in {"idle", "exchange"} => ~accessTokens[q].saved /\ ~req[q].stale
        /\ req[q].stale => /\ Ended(req[q].grant) /\ ~accessTokens[q].saved
                           /\ req[q].pc \in {"vUser", "vSession", "abort", "done"}

ReaderStops ==
    \A i \in Readers :
        /\ Known(reader[i].grant)
        /\ reader[i].stale => /\ Ended(reader[i].grant)
                              /\ reader[i].pc \in {"issuer", "vUser", "vSession", "rejected"}

SessionInv == GrantsKnown /\ RequestStops /\ ReaderStops

-----------------------------------------------------------------------------
\* Sessions only move forward.
SessionsMove ==
    \A s \in Sessions :
        /\ sessions[s] # "none" => sessions'[s] # "none"
        /\ sessions[s] \in {"expired", "revoked"} => sessions'[s] \in {"expired", "revoked"}

SameGrants ==
    /\ \A k \in Codes : codes'[k].grant = codes[k].grant
    /\ \A q \in Requests : /\ accessTokens'[q].grant = accessTokens[q].grant
                           /\ accessTokens'[q].saved = accessTokens[q].saved
                           /\ refreshTokens'[q].grant = refreshTokens[q].grant
    /\ \A d \in Devices : devices'[d].grant = devices[d].grant

LEMMA SessionTypes ==
    ASSUME TypeOK
    PROVE  /\ \A k \in Codes : codes[k].grant \in Grant /\ authz[k].grant \in Grant
           /\ \A q \in Requests : /\ accessTokens[q].grant \in Grant
                                  /\ refreshTokens[q].grant \in Grant
                                  /\ req[q].grant \in Grant
           /\ \A i \in Readers : reader[i].grant \in Grant
           /\ \A g \in Grant : g.session # NoSession => g.session \in Sessions
BY GrantFields DEF TypeOK, StoreTypeOK, EndpointTypeOK, AuthorizationCode, AccessToken,
                   RefreshToken, AuthzRequest, TokenRequest, ReaderRequest

\* Steps that neither move a grant nor advance a request of the endpoints.
LEMMA QuietKeeps ==
    ASSUME TypeOK, SessionInv, SessionsMove, SameGrants, UNCHANGED <<authz, req, reader>>
    PROVE  SessionInv'
<1>1. \A g \in Grant :
        /\ Known(g) => (g.session # NoSession => g.user # NoUser /\ sessions'[g.session] # "none")
        /\ Ended(g) => (g.session # NoSession /\ sessions'[g.session] \in {"expired", "revoked"})
  BY SessionTypes DEF Known, Ended, SessionsMove
<1>2. GrantsKnown'
  BY <1>1, SessionTypes DEF SessionInv, GrantsKnown, SameGrants, Known
<1>3. RequestStops'
  BY <1>1, SessionTypes DEF SessionInv, RequestStops, SameGrants, Known, Ended
<1>4. ReaderStops'
  BY <1>1, SessionTypes DEF SessionInv, ReaderStops, Known, Ended
<1> QED BY <1>2, <1>3, <1>4 DEF SessionInv

LEMMA MarkedGrants ==
    ASSUME StoreTypeOK, NEW u, NEW s, NEW c, NEW f,
           \/ RevokeSessionTokens(u, s) \/ RevokeUserTokens(u, s)
           \/ RevokeClientTokens(c) \/ DeleteConsent(u, c)
           \/ RevokeFamily(f) \/ Expiry
    PROVE  SameGrants
<1>0. /\ \A k \in Codes : codes[k] \in AuthorizationCode
      /\ \A q \in Requests : accessTokens[q] \in AccessToken /\ refreshTokens[q] \in RefreshToken
      /\ \A d \in Devices : devices[d] \in DeviceAuthorization
  BY DEF StoreTypeOK
<1>1. /\ \A r \in AuthorizationCode : [r EXCEPT !.revoked = TRUE].grant = r.grant
      /\ \A r \in AccessToken : /\ [r EXCEPT !.revoked = TRUE].grant = r.grant
                                /\ [r EXCEPT !.revoked = TRUE].saved = r.saved
      /\ \A r \in RefreshToken : [r EXCEPT !.revoked = TRUE].grant = r.grant
      /\ \A r \in DeviceAuthorization : [r EXCEPT !.status = "denied"].grant = r.grant
  BY DEF AuthorizationCode, AccessToken, RefreshToken, DeviceAuthorization
<1>2. CASE RevokeSessionTokens(u, s)
  BY <1>0, <1>1, <1>2 DEF SameGrants, RevokeSessionTokens, revokeMatchingTokens
<1>3. CASE RevokeUserTokens(u, s)
  BY <1>0, <1>1, <1>3 DEF SameGrants, RevokeUserTokens, revokeMatchingTokens, denyDevices
<1>4. CASE RevokeClientTokens(c)
  BY <1>0, <1>1, <1>4 DEF SameGrants, RevokeClientTokens, revokeMatchingTokens, denyDevices
<1>5. CASE DeleteConsent(u, c)
  BY <1>0, <1>1, <1>5 DEF SameGrants, DeleteConsent, revokeMatchingTokens, denyDevices
<1>6. CASE RevokeFamily(f)
  BY <1>0, <1>1, <1>6 DEF SameGrants, RevokeFamily
<1>7. CASE Expiry
  BY <1>0, <1>7 DEF SameGrants, StoreTypeOK, Expiry, ExpireCode, ExpireAccessToken,
       ExpireRefreshToken, ExpireDevice, AuthorizationCode, AccessToken, RefreshToken,
       DeviceAuthorization
<1> QED BY <1>2, <1>3, <1>4, <1>5, <1>6, <1>7

-----------------------------------------------------------------------------
(***************************************************************************)
(* The endpoints: they move grants, and leave the sessions alone.          *)
(***************************************************************************)
LEMMA AuthorizeKeepsSessions ==
    ASSUME TypeOK, SessionInv, NEW k \in Codes, AuthorizeNext(k)
    PROVE  SessionInv'
<1>0. /\ UNCHANGED <<sessions, req, reader>>
      /\ authz \in [Codes -> AuthzRequest] /\ codes \in [Codes -> AuthorizationCode]
      /\ UNCHANGED <<accessTokens, refreshTokens, devices>>
  BY DEF AuthorizeNext, authzOnly, accountVars, TypeOK, EndpointTypeOK, StoreTypeOK, storeVars,
         Authorize, AuthorizeUser, RequiresConsent, ReuseConsent, ConsentForm, ConsentDecision,
         RecordConsent, issueAuthorizationCode, GrantConsent, SaveAuthorizationCode
<1>1. ASSUME \A j \in Codes : Known(authz'[j].grant) /\ Known(codes'[j].grant)
      PROVE  SessionInv'
  <2>1. GrantsKnown'
    BY <1>0, <1>1 DEF SessionInv, GrantsKnown, Known
  <2>2. RequestStops' /\ ReaderStops'
    BY <1>0 DEF SessionInv, RequestStops, ReaderStops, Known, Ended
  <2> QED BY <2>1, <2>2 DEF SessionInv
<1>2. \A j \in Codes : Known(authz[j].grant) /\ Known(codes[j].grant)
  BY DEF SessionInv, GrantsKnown
<1>3. ASSUME NEW c \in Clients, NEW s \in Sessions, NEW scope \in ScopeParams,
             NEW p \in Proofs, Authorize(k, c, s, scope, p)
      PROVE  SessionInv'
  <2>1. SessionOwner[s] # NoUser /\ sessions[s] = "active"
    BY <1>3, SessionOwnerAssumption, EntityAssumption DEF Authorize
  <2>2. /\ authz'[k].grant.session = s /\ authz'[k].grant.user = SessionOwner[s]
        /\ \A j \in Codes : j # k => authz'[j] = authz[j]
        /\ UNCHANGED codes
    BY <1>0, <1>3 DEF Authorize, storeVars
  <2> QED BY <1>1, <1>2, <2>1, <2>2 DEF Known
<1>4. ASSUME NEW pc, authz' = [authz EXCEPT ![k].pc = pc], UNCHANGED codes
      PROVE  SessionInv'
  <2>1. \A j \in Codes : authz'[j].grant = authz[j].grant
    BY <1>0, <1>4 DEF AuthzRequest
  <2> QED BY <1>1, <1>2, <1>4, <2>1
<1>5. CASE \/ AuthorizeUser(k) \/ RequiresConsent(k) \/ ReuseConsent(k) \/ ConsentForm(k)
           \/ RecordConsent(k) \/ \E allow \in BOOLEAN : ConsentDecision(k, allow)
  BY <1>4, <1>5 DEF AuthorizeUser, RequiresConsent, ReuseConsent, ConsentForm,
       RecordConsent, ConsentDecision, GrantConsent, storeVars
<1>6. CASE issueAuthorizationCode(k)
  <2>1. \A j \in Codes : /\ authz'[j].grant = authz[j].grant
                         /\ codes'[j].grant \in {codes[j].grant, authz[j].grant}
    BY <1>0, <1>6 DEF issueAuthorizationCode, SaveAuthorizationCode, AuthzRequest
  <2> QED BY <1>1, <1>2, <2>1
<1> QED BY <1>3, <1>5, <1>6, AuthorizeNext(k) DEF AuthorizeNext

LEMMA DeviceKeepsSessions ==
    ASSUME TypeInv, SessionInv, DeviceNext
    PROVE  SessionInv'
<1>0. /\ UNCHANGED <<sessions, authz, req, reader, codes, accessTokens, refreshTokens>>
      /\ devices \in [Devices -> DeviceAuthorization]
  BY DEF DeviceNext, deviceOnly, accountVars, TypeInv, TypeOK, StoreTypeOK, storeVars,
         deviceAuthorization, StoreDevice, DeviceSession, DeviceUser, DeviceDecide,
         SaveDeviceAuthorization, DecideDeviceAuthorization
<1>1. \A d \in Devices : devices[d].grant.session = NoSession /\ devices[d].grant \in Grant
  BY <1>0 DEF SessionInv, GrantsKnown, DeviceAuthorization
<1>2. \A d \in Devices : devices'[d].grant.session = NoSession
  <2>1. ASSUME NEW d \in Devices, StoreDevice(d)
        PROVE  \A e \in Devices : devices'[e].grant.session = NoSession
    <3>1. \A c, scope : [NoGrant EXCEPT !.client = c, !.scope = scope, !.origin = d].session
                           = NoSession
      BY DEF NoGrant
    <3>2. devices'[d].grant.session = NoSession
      BY <1>0, <2>1, <3>1 DEF StoreDevice, SaveDeviceAuthorization
    <3>3. \A e \in Devices : e # d => devices'[e] = devices[e]
      BY <1>0, <2>1 DEF StoreDevice, SaveDeviceAuthorization
    <3> QED BY <1>1, <3>2, <3>3
  <2>2. ASSUME NEW j \in Decisions, NEW approve \in BOOLEAN, DeviceDecide(j, approve)
        PROVE  \A e \in Devices : devices'[e].grant.session = NoSession
    <3> DEFINE d == decision[j].device
               s == decision[j].session
               u == SessionOwner[s]
               g == [[devices[d].grant EXCEPT !.user = u] EXCEPT !.by = s]
    <3>1. d \in Devices
      BY <2>2 DEF DeviceDecide, TypeInv, Bound
    <3>2. DecideDeviceAuthorization(d, u, s, approve)
      BY <2>2 DEF DeviceDecide
    <3> HIDE DEF d, s, u
    <3>3. devices'[d].grant = g
      BY <1>0, <3>1, <3>2 DEF DecideDeviceAuthorization, DeviceAuthorization
    <3>4. g.session = devices[d].grant.session
      BY <1>1, <3>1 DEF Grant
    <3>5. \A e \in Devices : e # d => devices'[e] = devices[e]
      BY <1>0, <3>2 DEF DecideDeviceAuthorization
    <3> QED BY <1>1, <3>1, <3>3, <3>4, <3>5
  <2>3. ASSUME UNCHANGED storeVars
        PROVE  \A e \in Devices : devices'[e].grant.session = NoSession
    BY <1>1, <2>3 DEF storeVars
  <2> QED BY <2>1, <2>2, <2>3 DEF DeviceNext, deviceAuthorization, DeviceSession, DeviceUser
<1>3. GrantsKnown'
  BY <1>0, <1>2 DEF SessionInv, GrantsKnown, Known
<1>4. RequestStops' /\ ReaderStops'
  BY <1>0 DEF SessionInv, RequestStops, ReaderStops, Known, Ended
<1> QED BY <1>3, <1>4 DEF SessionInv

LEMMA ReaderKeepsSessions ==
    ASSUME TypeOK, SessionInv, NEW i \in Readers, ReaderNext(i)
    PROVE  SessionInv'
<1>0. /\ UNCHANGED <<sessions, authz, req, codes, accessTokens, refreshTokens, devices>>
      /\ reader \in [Readers -> ReaderRequest] /\ reader[i] \in ReaderRequest
  BY DEF ReaderNext, readerOnly, accountVars, storeVars, TypeOK, EndpointTypeOK, introspect,
         userinfo, introspectAccessToken, introspectRefreshToken, canIntrospectAccessToken,
         ReaderValidate
<1>1. GrantsKnown' /\ RequestStops'
  BY <1>0 DEF SessionInv, GrantsKnown, RequestStops, Known, Ended
<1>2. /\ Known(reader[i].grant)
      /\ reader[i].stale => /\ Ended(reader[i].grant)
                            /\ reader[i].pc \in {"issuer", "vUser", "vSession", "rejected"}
      /\ \A q \in Requests : Known(accessTokens[q].grant) /\ Known(refreshTokens[q].grant)
  BY DEF SessionInv, ReaderStops, GrantsKnown
<1>3. ASSUME \A j \in Readers : j # i => reader'[j] = reader[j],
             Known(reader'[i].grant),
             reader'[i].stale => /\ Ended(reader'[i].grant)
                                 /\ reader'[i].pc \in {"issuer", "vUser", "vSession", "rejected"}
      PROVE  SessionInv'
  <2>1. ReaderStops'
    BY <1>0, <1>3 DEF SessionInv, ReaderStops, Known, Ended
  <2> QED BY <1>1, <2>1 DEF SessionInv
<1>4. \A g \in Grant : Known(g) /\ SessionEnded(g) => Ended(g) /\ g.user # NoUser
  BY SessionTypes DEF Known, SessionEnded, Ended, TypeOK, AccountTypeOK, SessionStatus
<1>5. ASSUME NEW g \in Grant, Known(g), Examine(i, g) PROVE SessionInv'
  <2>1. /\ reader'[i].pc = IF g.user = NoUser THEN "accepted" ELSE "vUser"
        /\ reader'[i].grant = g /\ reader'[i].stale = SessionEnded(g)
        /\ \A j \in Readers : j # i => reader'[j] = reader[j]
    BY <1>0, <1>5 DEF Examine, ReaderRequest
  <2> QED BY <1>3, <1>4, <1>5, <2>1
<1>6. ASSUME NEW q \in Requests,
             userinfo(i, q) \/ introspectAccessToken(i, q) \/ introspectRefreshToken(i, q)
      PROVE  SessionInv'
  <2>0. accessTokens[q].grant \in Grant /\ refreshTokens[q].grant \in Grant
    BY SessionTypes
  <2>1. CASE Examine(i, accessTokens[q].grant) \/ Examine(i, refreshTokens[q].grant)
    BY <1>2, <1>5, <2>0, <2>1
  <2> DEFINE g == accessTokens[q].grant
  <2>2. CASE reader' = [reader EXCEPT ![i].pc = "issuer", ![i].grant = g,
                                      ![i].stale = SessionEnded(g)]
    <3> HIDE DEF g
    <3>1. /\ reader'[i].pc = "issuer"
          /\ reader'[i].grant = g /\ reader'[i].stale = SessionEnded(g)
          /\ \A j \in Readers : j # i => reader'[j] = reader[j]
      BY <1>0, <2>2 DEF ReaderRequest
    <3>2. Known(g) /\ g \in Grant
      BY <1>2, <2>0 DEF g
    <3> QED BY <1>3, <1>4, <3>1, <3>2
  <2> QED BY <1>6, <2>1, <2>2 DEF userinfo, introspectAccessToken, introspectRefreshToken
<1>7. ASSUME NEW c \in Clients, introspect(i, c) PROVE SessionInv'
  <2>1. /\ reader'[i].grant = reader[i].grant /\ reader'[i].stale = reader[i].stale
        /\ reader[i].pc = "idle"
        /\ \A j \in Readers : j # i => reader'[j] = reader[j]
    BY <1>0, <1>7 DEF introspect, ReaderRequest
  <2> QED BY <1>2, <1>3, <2>1
<1>8. ASSUME NEW pc, reader' = [reader EXCEPT ![i].pc = pc],
             reader[i].stale => pc \in {"issuer", "vUser", "vSession", "rejected"}
      PROVE  SessionInv'
  <2>1. /\ reader'[i].grant = reader[i].grant /\ reader'[i].stale = reader[i].stale
        /\ reader'[i].pc = pc
        /\ \A j \in Readers : j # i => reader'[j] = reader[j]
    BY <1>0, <1>8 DEF ReaderRequest
  <2> QED BY <1>2, <1>3, <1>8, <2>1
<1>9. reader[i].stale => /\ ~ValidSession(reader[i].grant) /\ reader[i].pc # "vConsent"
                         /\ reader[i].grant.user # NoUser
                         /\ AfterUser(reader[i].grant) = "vSession"
  BY <1>2 DEF Known, Ended, ValidSession, SessionActive, AfterUser
<1>10. CASE canIntrospectAccessToken(i)
  BY <1>8, <1>9, <1>10 DEF canIntrospectAccessToken
<1>11. CASE ReaderValidate(i)
  BY <1>8, <1>9, <1>11 DEF ReaderValidate, Validation
<1> QED BY <1>6, <1>7, <1>10, <1>11, ReaderNext(i) DEF ReaderNext

LEMMA TokenKeepsSessions ==
    ASSUME TypeInv, SessionInv, NEW q \in Requests, TokenNext(q)
    PROVE  SessionInv'
<1>0. /\ UNCHANGED <<sessions, authz, reader>>
      /\ req \in [Requests -> TokenRequest] /\ req[q] \in TokenRequest
      /\ StoreTypeOK /\ TypeOK
  BY DEF TokenNext, TokenStep, reqOnly, accountVars, TypeInv, TypeOK, EndpointTypeOK,
         authenticateOAuthClient, authorizationCodeToken, refreshToken, deviceCodeToken,
         clientCredentialsToken, ReadFails, ValidateUser, ValidateSession, ValidateConsent,
         issueAccessToken, issueRefreshToken, issueIDToken, AbortRefresh
<1>1. /\ Known(req[q].grant)
      /\ req[q].pc \in {"idle", "exchange"} => ~accessTokens[q].saved /\ ~req[q].stale
      /\ req[q].stale => /\ Ended(req[q].grant) /\ ~accessTokens[q].saved
                         /\ req[q].pc \in {"vUser", "vSession", "abort", "done"}
  BY DEF SessionInv, RequestStops
\* What an action has to show: the new grants are known, and q still stops.
<1>2. ASSUME \A k \in Codes : codes'[k].grant = codes[k].grant,
             \A r \in Requests : Known(accessTokens'[r].grant) /\ Known(refreshTokens'[r].grant),
             \A d \in Devices : devices'[d].grant = devices[d].grant,
             \A r \in Requests : r # q =>
                 req'[r] = req[r] /\ accessTokens'[r].saved = accessTokens[r].saved,
             Known(req'[q].grant),
             req'[q].pc \in {"idle", "exchange"} => ~accessTokens'[q].saved /\ ~req'[q].stale,
             req'[q].stale => /\ Ended(req'[q].grant) /\ ~accessTokens'[q].saved
                              /\ req'[q].pc \in {"vUser", "vSession", "abort", "done"}
      PROVE  SessionInv'
  <2>1. GrantsKnown'
    BY <1>0, <1>2 DEF SessionInv, GrantsKnown, Known
  <2>2. RequestStops'
    BY <1>0, <1>2 DEF SessionInv, RequestStops, Known, Ended
  <2>3. ReaderStops'
    BY <1>0 DEF SessionInv, ReaderStops, Known, Ended
  <2> QED BY <2>1, <2>2, <2>3 DEF SessionInv
<1>3. \A r \in Requests : Known(accessTokens[r].grant) /\ Known(refreshTokens[r].grant)
  BY DEF SessionInv, GrantsKnown
<1>4. \A g \in Grant : Known(g) /\ SessionEnded(g) => Ended(g)
  BY <1>0, SessionTypes DEF Known, SessionEnded, Ended, TypeOK, AccountTypeOK, SessionStatus
<1>5. ASSUME NEW g \in Grant, NEW f, Known(g), Proceed(q, g, f), req[q].pc = "exchange",
             \A k \in Codes : codes'[k].grant = codes[k].grant,
             \A r \in Requests : Known(refreshTokens'[r].grant),
             \A d \in Devices : devices'[d].grant = devices[d].grant,
             UNCHANGED accessTokens
      PROVE  SessionInv'
  <2>1. /\ req'[q].pc = "vUser" /\ req'[q].grant = g /\ req'[q].stale = SessionEnded(g)
        /\ \A r \in Requests : r # q => req'[r] = req[r]
    BY <1>0, <1>5 DEF Proceed, TokenRequest
  <2> QED BY <1>1, <1>2, <1>3, <1>4, <1>5, <2>1
<1>6. ASSUME NEW pc \in TokenPc \ {"idle", "exchange"}, GoTo(q, pc), SameGrants,
             req[q].stale => pc \in {"vUser", "vSession", "abort", "done"}
      PROVE  SessionInv'
  <2>1. /\ req'[q].pc = pc /\ req'[q].grant = req[q].grant /\ req'[q].stale = req[q].stale
        /\ \A r \in Requests : r # q => req'[r] = req[r]
    BY <1>0, <1>6 DEF GoTo, TokenRequest
  <2> QED BY <1>1, <1>2, <1>3, <1>6, <2>1 DEF SameGrants
<1>7. ASSUME UNCHANGED storeVars PROVE SameGrants
  BY <1>7 DEF SameGrants, storeVars
<1>8. ASSUME NEW c \in Clients, NEW kind \in Kinds, authenticateOAuthClient(q, c, kind)
      PROVE  SessionInv'
  <2>1. /\ req'[q].grant = req[q].grant /\ req'[q].stale = req[q].stale
        /\ req[q].pc = "idle"
        /\ \A r \in Requests : r # q => req'[r] = req[r]
    BY <1>0, <1>8 DEF authenticateOAuthClient, TokenRequest
  <2>2. SameGrants
    BY <1>7, <1>8 DEF authenticateOAuthClient
  <2> QED BY <1>1, <1>2, <1>3, <2>1, <2>2 DEF SameGrants
<1>9. ASSUME NEW k \in Codes, NEW p \in Proofs, authorizationCodeToken(q, k, p)
      PROVE  SessionInv'
  <2>1. codes[k].grant \in Grant /\ Known(codes[k].grant)
    BY <1>0, SessionTypes DEF SessionInv, GrantsKnown
  <2>2. \A j \in Codes : codes'[j].grant = codes[j].grant
    BY <1>0, <1>9 DEF authorizationCodeToken, ConsumeAuthorizationCode, StoreTypeOK,
                      AuthorizationCode
  <2> QED BY <1>3, <1>5, <1>9, <2>1, <2>2 DEF authorizationCodeToken, ConsumeAuthorizationCode
<1>10. ASSUME NEW old \in Requests, NEW scope \in SUBSET Scopes, refreshToken(q, old, scope)
       PROVE  SessionInv'
  <2> DEFINE g == [refreshTokens[old].grant EXCEPT !.scope = EffectiveScope(old, scope)]
  <2>1. g \in Grant
    BY <1>0, RotatedGrant
  <2>2. g.session = refreshTokens[old].grant.session /\ g.user = refreshTokens[old].grant.user
    BY <1>0, SessionTypes DEF Grant
  <2>3. Known(g)
    BY <1>3, <2>2 DEF Known
  <2>4. CASE RotateRefreshToken(q, old, scope) /\ Proceed(q, g, refreshTokens[old].family)
    <3>1. \A r \in Requests : refreshTokens'[r].grant \in {refreshTokens[r].grant, g}
      BY <1>0, <2>4 DEF RotateRefreshToken, StoreTypeOK, RefreshToken
    <3> HIDE DEF g
    <3>2. req[q].pc = "exchange" /\ UNCHANGED <<codes, accessTokens, devices>>
      BY <1>10, <2>4 DEF refreshToken, RotateRefreshToken
    <3>3. \A r \in Requests : Known(refreshTokens'[r].grant)
      BY <1>3, <2>3, <3>1
    <3> QED BY <1>5, <2>1, <2>3, <2>4, <3>2, <3>3
  <2>5. CASE RevokeFamily(refreshTokens[old].family) /\ GoTo(q, "done")
    <3>1. SameGrants /\ "done" \in TokenPc \ {"idle", "exchange"}
      BY <1>0, <2>5, MarkedGrants DEF TokenPc
    <3> QED BY <1>6, <2>5, <3>1
  <2> QED BY <1>10, <2>4, <2>5 DEF refreshToken
<1>11. ASSUME NEW d \in Devices, deviceCodeToken(q, d) PROVE SessionInv'
  <2>1. devices[d].grant \in Grant /\ Known(devices[d].grant)
    BY <1>0 DEF SessionInv, GrantsKnown, Known, StoreTypeOK, DeviceAuthorization
  <2>2. \A e \in Devices : devices'[e].grant = devices[e].grant
    BY <1>0, <1>11 DEF deviceCodeToken, PollDeviceAuthorization, StoreTypeOK,
                       DeviceAuthorization
  <2> QED BY <1>3, <1>5, <1>11, <2>1, <2>2 DEF deviceCodeToken, PollDeviceAuthorization
<1>12. ASSUME NEW scope \in ScopeParams, clientCredentialsToken(q, scope) PROVE SessionInv'
  <2>1. \A c : [NoGrant EXCEPT !.client = c, !.scope = scope].session = NoSession
    BY DEF NoGrant
  <2>2. /\ req'[q].grant.session = NoSession /\ req'[q].stale = req[q].stale
        /\ req[q].pc = "exchange" /\ req'[q].pc = "saveAccess"
        /\ \A r \in Requests : r # q => req'[r] = req[r]
    BY <1>0, <1>12, <2>1 DEF clientCredentialsToken, TokenRequest
  <2>3. SameGrants /\ Known(req'[q].grant)
    BY <1>7, <1>12, <2>2 DEF clientCredentialsToken, Known
  <2> QED BY <1>1, <1>2, <1>3, <2>2, <2>3 DEF SameGrants
<1>13. Refused(q) \in {"abort", "done"} /\ {"abort", "done"} \subseteq TokenPc
  BY DEF Refused, TokenPc
<1>14. CASE ReadFails(q)
  BY <1>6, <1>7, <1>13, <1>14 DEF ReadFails
<1>15. CASE ValidateUser(q)
  <2>1. AfterUser(req[q].grant) \in {"vSession", "vConsent"}
        /\ (req[q].stale => AfterUser(req[q].grant) = "vSession")
    BY <1>1 DEF AfterUser, Ended
  <2>2. {"vSession", "vConsent"} \subseteq TokenPc
    BY DEF TokenPc, Validation
  <2> QED BY <1>6, <1>7, <1>13, <1>15, <2>1, <2>2 DEF ValidateUser
<1>16. CASE ValidateSession(q)
  <2>1. req[q].stale => ~ValidSession(req[q].grant)
    BY <1>1 DEF Ended, ValidSession, SessionActive
  <2>2. "vConsent" \in TokenPc
    BY DEF TokenPc, Validation
  <2> QED BY <1>6, <1>7, <1>13, <1>16, <2>1, <2>2 DEF ValidateSession
<1>17. CASE ValidateConsent(q)
  <2>1. ~req[q].stale /\ "saveAccess" \in TokenPc
    BY <1>1, <1>17 DEF ValidateConsent, TokenPc
  <2> QED BY <1>6, <1>7, <1>13, <1>17, <2>1 DEF ValidateConsent
<1>18. CASE issueAccessToken(q)
  <2>1. ~req[q].stale
    BY <1>1, <1>18 DEF issueAccessToken
  <2>2. CASE SaveAccessToken(q, req[q].grant, req[q].family) /\ GoTo(q, AfterAccess(q))
    <3>1. AfterAccess(q) \notin {"idle", "exchange"}
      BY DEF AfterAccess, AfterTokens
    <3>2. /\ req'[q].pc = AfterAccess(q) /\ req'[q].grant = req[q].grant
          /\ req'[q].stale = req[q].stale
          /\ \A r \in Requests : r # q => req'[r] = req[r]
      BY <1>0, <2>2 DEF GoTo, TokenRequest
    <3>3. /\ accessTokens'[q].grant = req[q].grant
          /\ \A r \in Requests : r # q => accessTokens'[r] = accessTokens[r]
          /\ UNCHANGED <<codes, refreshTokens, devices>>
      BY <1>0, <2>2 DEF SaveAccessToken, StoreTypeOK
    <3>4. \A r \in Requests : Known(accessTokens'[r].grant) /\ Known(refreshTokens'[r].grant)
      BY <1>1, <1>3, <3>3
    <3> QED BY <1>1, <1>2, <2>1, <3>1, <3>2, <3>3, <3>4
  <2>3. CASE UNCHANGED storeVars /\ GoTo(q, Refused(q))
    BY <1>6, <1>7, <1>13, <2>3
  <2> QED BY <1>18, <2>2, <2>3 DEF issueAccessToken
<1>19. CASE issueRefreshToken(q)
  <2>1. ~req[q].stale
    BY <1>1, <1>19 DEF issueRefreshToken
  <2>2. CASE SaveRefreshToken(q, req[q].grant) /\ GoTo(q, AfterTokens(q))
    <3>1. AfterTokens(q) \notin {"idle", "exchange"}
      BY DEF AfterTokens
    <3>2. /\ req'[q].pc = AfterTokens(q) /\ req'[q].grant = req[q].grant
          /\ req'[q].stale = req[q].stale
          /\ \A r \in Requests : r # q => req'[r] = req[r]
      BY <1>0, <2>2 DEF GoTo, TokenRequest
    <3>3. /\ refreshTokens'[q].grant = req[q].grant
          /\ \A r \in Requests : r # q => refreshTokens'[r] = refreshTokens[r]
          /\ UNCHANGED <<codes, accessTokens, devices>>
      BY <1>0, <2>2 DEF SaveRefreshToken, StoreTypeOK
    <3>4. \A r \in Requests : Known(accessTokens'[r].grant) /\ Known(refreshTokens'[r].grant)
      BY <1>1, <1>3, <3>3
    <3> QED BY <1>1, <1>2, <2>1, <3>1, <3>2, <3>3, <3>4
  <2>3. CASE UNCHANGED storeVars /\ GoTo(q, "done")
    BY <1>6, <1>7, <1>13, <2>3
  <2> QED BY <1>19, <2>2, <2>3 DEF issueRefreshToken
<1>20. CASE issueIDToken(q)
  <2>1. SameGrants /\ GoTo(q, "done")
    BY <1>20 DEF issueIDToken, SaveOIDCClientSession, SameGrants, storeVars
  <2> QED BY <1>6, <1>13, <2>1
<1>21. CASE AbortRefresh(q)
  <2>1. SameGrants
    BY <1>0, <1>7, <1>21, MarkedGrants DEF AbortRefresh
  <2> QED BY <1>6, <1>13, <1>21, <2>1 DEF AbortRefresh
<1>22. \A scope \in ScopeParams \union {{}} : scope \in SUBSET Scopes
  BY EndpointAssumption
<1> QED
  BY <1>8, <1>9, <1>10, <1>11, <1>12, <1>14, <1>15, <1>16, <1>17, <1>18, <1>19, <1>20,
     <1>21, <1>22, TokenNext(q)
  DEF TokenNext, TokenStep

-----------------------------------------------------------------------------
LEMMA SessionStep ==
    TypeInv /\ SessionInv /\ [Next]_vars => SessionInv'
<1> SUFFICES ASSUME TypeInv, SessionInv, [Next]_vars PROVE SessionInv'
  OBVIOUS
<1>0. TypeOK /\ StoreTypeOK /\ sessions \in [Sessions -> SessionStatus]
  BY DEF TypeInv, TypeOK, AccountTypeOK
<1>1. ASSUME UNCHANGED sessions PROVE SessionsMove
  BY <1>1 DEF SessionsMove
<1>2. ASSUME UNCHANGED storeVars PROVE SameGrants
  BY <1>2 DEF SameGrants, storeVars
<1>3. CASE EndpointNext
  <2>1. ASSUME NEW q \in Requests, revokeToken(q) PROVE SessionInv'
    <3>1. UNCHANGED <<authz, req, reader, sessions>>
      BY <2>1 DEF revokeToken, reqOnly, accountVars
    <3>2. CASE RevokeAccessToken(q)
      <4>1. SameGrants
        BY <1>0, <3>2 DEF SameGrants, RevokeAccessToken, StoreTypeOK, AccessToken
      <4> QED BY <1>0, <1>1, <3>1, <4>1, QuietKeeps
    <3>3. CASE RevokeFamily(refreshTokens[q].family)
      BY <1>0, <1>1, <3>1, <3>3, MarkedGrants, QuietKeeps
    <3> QED BY <2>1, <3>2, <3>3 DEF revokeToken
  <2> QED
    BY <1>0, <1>3, <2>1, AuthorizeKeepsSessions, DeviceKeepsSessions, TokenKeepsSessions,
       ReaderKeepsSessions
    DEF EndpointNext
<1>4. CASE RevocationNext /\ UNCHANGED endpointVars
  <2>1. UNCHANGED <<authz, req, reader>>
    BY <1>4 DEF endpointVars
  <2>2. ASSUME NEW o \in Ops, OpStep(o) PROVE SessionsMove /\ SameGrants
    <3>1. CASE ClientTokens(o) \/ CleanSession(o) \/ UserTokens(o)
      <4>1. UNCHANGED sessions
        BY <3>1 DEF ClientTokens, CleanSession, UserTokens, accountVars
      <4>2. SameGrants
        BY <1>0, <1>2, <3>1, MarkedGrants DEF ClientTokens, CleanSession, UserTokens, Fails
      <4> QED BY <1>1, <4>1, <4>2
    <3>2. CASE RevokeEach(o) \/ RevokeAllSessions(o)
      <4>1. SameGrants
        BY <1>2, <3>2 DEF RevokeEach, RevokeAllSessions
      <4>2. SessionsMove
        BY <1>0, <3>2 DEF RevokeEach, RevokeAllSessions, RevokeSession, RevokeAll,
             accountVars, SessionsMove
      <4> QED BY <4>1, <4>2
    <3>3. CASE ForgetSession(o)
      BY <1>1, <3>3 DEF ForgetSession, DeleteOIDCClientSessions, Fails, SameGrants,
           accountVars, storeVars
    <3>4. CASE \/ sessionsForRevocation(o) \/ CollectSession(o) \/ StageDone(o)
               \/ sendOIDCBackchannelLogout(o) \/ CleanupDone(o)
      BY <1>1, <1>2, <3>4 DEF sessionsForRevocation, CollectSession, StageDone,
           sendOIDCBackchannelLogout, CleanupDone, opOnly, accountVars
    <3> QED BY <2>2, <3>1, <3>2, <3>3, <3>4 DEF OpStep
  <2>3. ASSUME NEW u \in Users, NEW c \in Clients, revokeAccountConsent(u, c)
        PROVE  SessionsMove /\ SameGrants
    BY <1>0, <1>1, <2>3, MarkedGrants DEF revokeAccountConsent, accountVars
  <2>4. ASSUME NEW o \in Ops,
               \/ \E u \in Users, S \in SUBSET Sessions : StartLogout(o, u, S)
               \/ \E u \in Users : StartReset(o, u) \/ StartDisable(o, u)
               \/ \E s \in Sessions : StartChange(o, s)
               \/ \E c \in Clients : StartDisableClient(o, c)
        PROVE  SessionsMove /\ SameGrants
    BY <1>1, <1>2, <2>4 DEF StartLogout, StartReset, StartDisable, StartChange,
         StartDisableClient, opOnly, accountVars
  <2>5. SessionsMove /\ SameGrants
    BY <1>4, <2>2, <2>3, <2>4 DEF RevocationNext
  <2> QED BY <1>0, <2>1, <2>5, QuietKeeps
<1>5. CASE AccountNext /\ UNCHANGED <<storeVars, endpointVars, revocationVars>>
  <2>1. SessionsMove
    BY <1>0, <1>5 DEF AccountNext, CreateSession, ExpireSession, ActivateUser, EnableClient,
         SessionsMove
  <2> QED BY <1>0, <1>2, <1>5, <2>1, QuietKeeps DEF endpointVars
<1>6. CASE Expiry /\ UNCHANGED <<accountVars, endpointVars, revocationVars>>
  BY <1>0, <1>1, <1>6, MarkedGrants, QuietKeeps DEF accountVars, endpointVars
<1>7. CASE UNCHANGED vars
  BY <1>0, <1>1, <1>2, <1>7, QuietKeeps DEF vars, accountVars, endpointVars
<1> QED BY <1>3, <1>4, <1>5, <1>6, <1>7 DEF Next

LEMMA SessionInit == Init => SessionInv
BY DEF Init, StoreInit, EndpointInit, SessionInv, GrantsKnown, RequestStops, ReaderStops,
       Known, NoGrant

(***************************************************************************)
(* The token endpoint never stores an access token for a grant whose       *)
(* session had ended when the request read it, although the code or the    *)
(* refresh token was still good (validateOAuthUserGrant comes last).       *)
(***************************************************************************)
THEOREM NothingIssued == Spec => []NothingIssuedAfterSessionEnd
<1>1. SessionInv => NothingIssuedAfterSessionEnd
  BY DEF SessionInv, RequestStops, NothingIssuedAfterSessionEnd
<1> QED BY <1>1, TypeInit, TypeStep, SessionInit, SessionStep, PTL DEF Spec

(***************************************************************************)
(* Userinfo and introspection accept no token whose session had ended when *)
(* the token was looked up, whoever stored it and however late.            *)
(***************************************************************************)
THEOREM NothingAccepted == Spec => []NothingAcceptedAfterSessionEnd
<1>1. SessionInv => NothingAcceptedAfterSessionEnd
  BY DEF SessionInv, ReaderStops, NothingAcceptedAfterSessionEnd
<1> QED BY <1>1, TypeInit, TypeStep, SessionInit, SessionStep, PTL DEF Spec

-----------------------------------------------------------------------------
(***************************************************************************)
(* The revocation handlers.  A handler visits the sessions it has listed;  *)
(* a change of password never lists the session it keeps.                  *)
(***************************************************************************)
Loops(o) ==
    /\ op[o].todo \subseteq op[o].listed
    /\ op[o].pc \in {"idle", "list"} => op[o].listed = {}
    /\ op[o].pc = "idle" => op[o].kind = "none"
    /\ op[o].kind = "change" =>
          /\ op[o].keep \in Sessions /\ op[o].keep \notin op[o].listed
          /\ op[o].pc \notin {"revokeEach", "clientTokens"}

Over(s) == sessions[s] \in {"expired", "revoked"}

\* The sessions a handler cleans up after, and those it tells clients about, are over.
Reaches(o) ==
    /\ \A s \in op[o].listed : sessions[s] # "none"
    /\ op[o].pc = "revokeEach" => /\ "logout" \in OpKinds
                                  /\ \A s \in op[o].listed \ op[o].todo : Over(s)
    /\ op[o].pc = "revokeAll" => \A s \in op[o].listed :
                                    SessionOwner[s] = op[o].user /\ s # op[o].keep
    /\ op[o].pc \in Stages => \A s \in op[o].listed : Over(s)
    /\ \A x \in op[o].jobs : Over(x[1])

LoopInv == \A o \in Ops : Loops(o)
LogoutInv == (\A o \in Ops : Reaches(o)) /\ \A x \in notified : Over(x[1])

\* The next state of one handler, and what the steps of OpStep do with its record.
OpFields(o) ==
    /\ \A p \in Ops : p # o => op'[p] = op[p]
    /\ op'[o].kind = op[o].kind /\ op'[o].keep = op[o].keep /\ op'[o].user = op[o].user

LEMMA OpStepFields ==
    ASSUME TypeOK, NEW o \in Ops, OpStep(o)
    PROVE  OpFields(o)
<1>0. op \in [Ops -> Operation] /\ op[o] \in Operation
  BY DEF TypeOK, RevocationTypeOK
<1>1. \A pc : /\ Enter(o, pc).kind = op[o].kind /\ Enter(o, pc).keep = op[o].keep
              /\ Enter(o, pc).user = op[o].user
  BY <1>0 DEF Enter, Operation
<1>2. CASE RevokeEach(o)
  BY <1>0, <1>1, <1>2 DEF RevokeEach, OpFields, Operation
<1>3. CASE RevokeAllSessions(o)
  BY <1>0, <1>1, <1>3 DEF RevokeAllSessions, OpFields, Operation
<1>4. CASE StageDone(o)
  BY <1>0, <1>1, <1>4 DEF StageDone, OpFields, Operation
<1>5. CASE sessionsForRevocation(o)
  BY <1>0, <1>5 DEF sessionsForRevocation, OpFields, Operation
<1>6. CASE CollectSession(o)
  BY <1>0, <1>6 DEF CollectSession, OpFields, Operation
<1>7. CASE \/ ClientTokens(o) \/ CleanSession(o) \/ sendOIDCBackchannelLogout(o)
           \/ ForgetSession(o) \/ CleanupDone(o) \/ UserTokens(o)
  BY <1>0, <1>7 DEF ClientTokens, CleanSession, sendOIDCBackchannelLogout, ForgetSession,
       CleanupDone, UserTokens, Visit, OpFields, Operation
<1> QED BY <1>2, <1>3, <1>4, <1>5, <1>6, <1>7, OpStep(o) DEF OpStep

\* What each step of a handler does to its position and its lists.
LEMMA OpStepLists ==
    ASSUME TypeOK, NEW o \in Ops
    PROVE  /\ RevokeEach(o) => \E s \in op[o].todo :
                \/ /\ op[o].todo = {s} /\ op'[o].pc = "clean"
                   /\ op'[o].todo = op[o].listed
                \/ /\ op[o].todo # {s} /\ op'[o].pc = op[o].pc
                   /\ op'[o].todo = op[o].todo \ {s}
           /\ RevokeEach(o) => op'[o].listed = op[o].listed /\ op'[o].jobs = op[o].jobs
           /\ sessionsForRevocation(o) =>
                /\ op'[o].pc \in {"revokeAll", "done"} /\ op'[o].todo = op[o].todo
                /\ op'[o].jobs = op[o].jobs
                /\ \/ op'[o].listed = ListByUser(op[o].user) \ {op[o].keep}
                   \/ op'[o].listed = op[o].listed
           /\ RevokeAllSessions(o) =>
                /\ op'[o].listed = op[o].listed /\ op'[o].jobs = op[o].jobs
                /\ \/ RevokeAll(op[o].user, op[o].keep)
                     /\ op'[o].pc = "clean" /\ op'[o].todo = op[o].listed
                   \/ /\ UNCHANGED accountVars
                      /\ op'[o].pc \in {"done", "userTokens"} /\ op'[o].todo = op[o].todo
           /\ CleanSession(o) \/ ForgetSession(o) =>
                /\ op'[o].pc = op[o].pc /\ op'[o].listed = op[o].listed
                /\ op'[o].jobs = op[o].jobs /\ op'[o].todo \subseteq op[o].todo
           /\ StageDone(o) =>
                /\ op[o].pc \in {"clean", "collect", "notify"}
                /\ op'[o].pc \in {"collect", "notify", "forget"}
                /\ op'[o].listed = op[o].listed /\ op'[o].todo = op[o].listed
                /\ op'[o].jobs = op[o].jobs
           /\ ClientTokens(o) \/ CleanupDone(o) \/ UserTokens(o) =>
                /\ op'[o].pc \in {"done", "userTokens"} /\ op'[o].listed = op[o].listed
                /\ op'[o].jobs = op[o].jobs /\ op'[o].todo = op[o].todo
<1>0. op \in [Ops -> Operation] /\ op[o] \in Operation
  BY DEF TypeOK, RevocationTypeOK
<1>1. \A pc : /\ Enter(o, pc).pc = pc /\ Enter(o, pc).todo = op[o].listed
              /\ Enter(o, pc).listed = op[o].listed /\ Enter(o, pc).jobs = op[o].jobs
  BY <1>0 DEF Enter, Operation
<1>2. ASSUME RevokeEach(o)
      PROVE  /\ \E s \in op[o].todo :
                \/ /\ op[o].todo = {s} /\ op'[o].pc = "clean"
                   /\ op'[o].todo = op[o].listed
                \/ /\ op[o].todo # {s} /\ op'[o].pc = op[o].pc
                   /\ op'[o].todo = op[o].todo \ {s}
             /\ op'[o].listed = op[o].listed /\ op'[o].jobs = op[o].jobs
  <2>1. PICK s \in op[o].todo :
          op' = [op EXCEPT ![o] = IF op[o].todo = {s} THEN Enter(o, "clean")
                                  ELSE [op[o] EXCEPT !.todo = @ \ {s}]]
    BY <1>2 DEF RevokeEach
  <2>2. CASE op[o].todo = {s}
    BY <1>0, <1>1, <2>1, <2>2
  <2>3. CASE op[o].todo # {s}
    BY <1>0, <2>1, <2>3 DEF Operation
  <2> QED BY <2>2, <2>3
<1>3. sessionsForRevocation(o) =>
        /\ op'[o].pc \in {"revokeAll", "done"} /\ op'[o].todo = op[o].todo
        /\ op'[o].jobs = op[o].jobs
        /\ \/ op'[o].listed = ListByUser(op[o].user) \ {op[o].keep}
           \/ op'[o].listed = op[o].listed
  BY <1>0 DEF sessionsForRevocation, Operation
<1>4. RevokeAllSessions(o) =>
        /\ op'[o].listed = op[o].listed /\ op'[o].jobs = op[o].jobs
        /\ \/ RevokeAll(op[o].user, op[o].keep)
             /\ op'[o].pc = "clean" /\ op'[o].todo = op[o].listed
           \/ /\ UNCHANGED accountVars
              /\ op'[o].pc \in {"done", "userTokens"} /\ op'[o].todo = op[o].todo
  BY <1>0, <1>1 DEF RevokeAllSessions, Operation
<1>5. CleanSession(o) \/ ForgetSession(o) =>
        /\ op'[o].pc = op[o].pc /\ op'[o].listed = op[o].listed
        /\ op'[o].jobs = op[o].jobs /\ op'[o].todo \subseteq op[o].todo
  BY <1>0 DEF CleanSession, ForgetSession, Visit, Operation
<1>6. StageDone(o) =>
        /\ op[o].pc \in {"clean", "collect", "notify"}
        /\ op'[o].pc \in {"collect", "notify", "forget"}
        /\ op'[o].listed = op[o].listed /\ op'[o].todo = op[o].listed
        /\ op'[o].jobs = op[o].jobs
  BY <1>0, <1>1 DEF StageDone, NextStage
<1>7. ClientTokens(o) \/ CleanupDone(o) \/ UserTokens(o) =>
        /\ op'[o].pc \in {"done", "userTokens"} /\ op'[o].listed = op[o].listed
        /\ op'[o].jobs = op[o].jobs /\ op'[o].todo = op[o].todo
  BY <1>0 DEF ClientTokens, CleanupDone, UserTokens, Operation
<1> QED BY <1>2, <1>3, <1>4, <1>5, <1>6, <1>7

LEMMA CollectLists ==
    ASSUME TypeOK, NEW o \in Ops
    PROVE  /\ CollectSession(o) =>
                /\ op'[o].pc = op[o].pc /\ op'[o].listed \subseteq op[o].listed
                /\ \E s \in op[o].todo :
                     /\ op'[o].todo = op[o].todo \ {s}
                     /\ op'[o].listed \in {op[o].listed, op[o].listed \ {s}}
                     /\ \A x \in op'[o].jobs : x \in op[o].jobs \/ x[1] = s
           /\ sendOIDCBackchannelLogout(o) =>
                /\ op'[o].pc = op[o].pc /\ op'[o].listed = op[o].listed
                /\ op'[o].todo = op[o].todo /\ op'[o].jobs \subseteq op[o].jobs
                /\ \A x \in notified' : x \in notified \/ x \in op[o].jobs
<1>0. op \in [Ops -> Operation] /\ op[o] \in Operation
  BY DEF TypeOK, RevocationTypeOK
<1>1. ASSUME CollectSession(o)
      PROVE  /\ op'[o].pc = op[o].pc /\ op'[o].listed \subseteq op[o].listed
             /\ \E s \in op[o].todo :
                  /\ op'[o].todo = op[o].todo \ {s}
                  /\ op'[o].listed \in {op[o].listed, op[o].listed \ {s}}
                  /\ \A x \in op'[o].jobs : x \in op[o].jobs \/ x[1] = s
  <2>1. PICK s \in op[o].todo :
          \/ op' = [op EXCEPT
               ![o].todo = @ \ {s},
               ![o].jobs = @ \union {x \in ListOIDCClientSessions(s) : x[2] \in Backchannel}]
          \/ op' = [op EXCEPT ![o].todo = @ \ {s}, ![o].listed = @ \ {s}]
    BY <1>1 DEF CollectSession
  <2> QED BY <1>0, <2>1 DEF Operation, ListOIDCClientSessions
<1>2. sendOIDCBackchannelLogout(o) =>
        /\ op'[o].pc = op[o].pc /\ op'[o].listed = op[o].listed
        /\ op'[o].todo = op[o].todo /\ op'[o].jobs \subseteq op[o].jobs
        /\ \A x \in notified' : x \in notified \/ x \in op[o].jobs
  BY <1>0 DEF sendOIDCBackchannelLogout, Operation
<1> QED BY <1>1, <1>2

\* A handler starts with the sessions that the request names, or with none yet.
Starts(o) ==
    \/ \E u \in Users, S \in SUBSET Sessions : StartLogout(o, u, S)
    \/ \E u \in Users : StartReset(o, u) \/ StartDisable(o, u)
    \/ \E s \in Sessions : StartChange(o, s)
    \/ \E c \in Clients : StartDisableClient(o, c)

LEMMA StartLists ==
    ASSUME TypeOK, NEW o \in Ops, Starts(o)
    PROVE  /\ op[o].pc = "idle" /\ op'[o].jobs = op[o].jobs
           /\ \A p \in Ops : p # o => op'[p] = op[p]
           /\ \/ /\ op'[o].pc = "revokeEach" /\ op'[o].kind = "logout"
                 /\ "logout" \in OpKinds /\ op'[o].todo = op'[o].listed
                 /\ \A s \in op'[o].listed : sessions[s] # "none"
              \/ /\ op'[o].pc \in {"list", "clientTokens"} /\ op'[o].listed = op[o].listed
                 /\ op'[o].todo = op[o].todo
                 /\ \/ op'[o].kind # "change"
                    \/ op'[o].pc = "list" /\ op'[o].keep \in Sessions
           /\ UNCHANGED <<sessions, storeVars, notified>>
<1>0. op \in [Ops -> Operation] /\ op[o] \in Operation
  BY DEF TypeOK, RevocationTypeOK
<1>1. ASSUME NEW u \in Users, NEW S \in SUBSET Sessions, StartLogout(o, u, S)
      PROVE  /\ op'[o].pc = "revokeEach" /\ op'[o].kind = "logout"
             /\ op'[o].todo = S /\ op'[o].listed = S /\ op'[o].jobs = op[o].jobs
             /\ \A s \in S : sessions[s] # "none"
  BY <1>0, <1>1 DEF StartLogout, Operation
<1>2. ASSUME NEW u \in Users, StartReset(o, u)
      PROVE  /\ op'[o].pc = "list" /\ op'[o].kind # "change"
             /\ op'[o].todo = op[o].todo /\ op'[o].listed = op[o].listed
             /\ op'[o].jobs = op[o].jobs
  BY <1>0, <1>2 DEF StartReset, Operation
<1>3. ASSUME NEW u \in Users, StartDisable(o, u)
      PROVE  /\ op'[o].pc = "list" /\ op'[o].kind # "change"
             /\ op'[o].todo = op[o].todo /\ op'[o].listed = op[o].listed
             /\ op'[o].jobs = op[o].jobs
  BY <1>0, <1>3 DEF StartDisable, Operation
<1>4. ASSUME NEW s \in Sessions, StartChange(o, s)
      PROVE  /\ op'[o].pc = "list" /\ op'[o].keep = s
             /\ op'[o].todo = op[o].todo /\ op'[o].listed = op[o].listed
             /\ op'[o].jobs = op[o].jobs
  BY <1>0, <1>4 DEF StartChange, Operation
<1>5. ASSUME NEW c \in Clients, StartDisableClient(o, c)
      PROVE  /\ op'[o].pc = "clientTokens" /\ op'[o].kind # "change"
             /\ op'[o].todo = op[o].todo /\ op'[o].listed = op[o].listed
             /\ op'[o].jobs = op[o].jobs
  BY <1>0, <1>5 DEF StartDisableClient, Operation
<1>6. /\ op[o].pc = "idle" /\ \A p \in Ops : p # o => op'[p] = op[p]
      /\ UNCHANGED <<sessions, storeVars, notified>>
  BY <1>0, Starts(o) DEF Starts, StartLogout, StartReset, StartDisable, StartChange,
       StartDisableClient, opOnly, accountVars
<1>7. (\E u \in Users, S \in SUBSET Sessions : StartLogout(o, u, S)) => "logout" \in OpKinds
  BY DEF StartLogout
<1> QED BY <1>1, <1>2, <1>3, <1>4, <1>5, <1>6, <1>7, Starts(o) DEF Starts

LEMMA LoopStep == TypeInv /\ LoopInv /\ [Next]_vars => LoopInv'
<1> SUFFICES ASSUME TypeInv, LoopInv, [Next]_vars PROVE LoopInv'
  OBVIOUS
<1>0. TypeOK
  BY DEF TypeInv
<1>1. ASSUME UNCHANGED op PROVE LoopInv'
  BY <1>1 DEF LoopInv, Loops
<1>2. ASSUME NEW o \in Ops, \A p \in Ops : p # o => op'[p] = op[p], Loops(o)'
      PROVE  LoopInv'
  BY <1>2 DEF LoopInv, Loops
<1>3. ASSUME NEW o \in Ops, OpStep(o) PROVE LoopInv'
  <2>0. OpFields(o) /\ Loops(o)
    BY <1>0, <1>3, OpStepFields DEF LoopInv
  <2>1. CASE RevokeEach(o)
    <3>1. op[o].pc = "revokeEach"
      BY <2>1 DEF RevokeEach
    <3> QED BY <1>0, <1>2, <2>0, <2>1, <3>1, OpStepLists DEF OpFields, Loops
  <2>2. CASE sessionsForRevocation(o)
    <3>1. op[o].pc = "list" /\ ListByUser(op[o].user) \subseteq Sessions
      BY <2>2 DEF sessionsForRevocation, ListByUser
    <3> QED BY <1>0, <1>2, <2>0, <2>2, <3>1, OpStepLists DEF OpFields, Loops
  <2>3. CASE RevokeAllSessions(o)
    BY <1>0, <1>2, <2>0, <2>3, OpStepLists DEF OpFields, Loops
  <2>4. CASE CleanSession(o) \/ ForgetSession(o)
    BY <1>0, <1>2, <2>0, <2>4, OpStepLists DEF OpFields, Loops
  <2>5. CASE StageDone(o)
    BY <1>0, <1>2, <2>0, <2>5, OpStepLists DEF OpFields, Loops
  <2>6. CASE ClientTokens(o) \/ CleanupDone(o) \/ UserTokens(o)
    BY <1>0, <1>2, <2>0, <2>6, OpStepLists DEF OpFields, Loops
  <2>7. CASE CollectSession(o)
    <3>1. op[o].pc = "collect"
      BY <2>7 DEF CollectSession
    <3> QED BY <1>0, <1>2, <2>0, <2>7, <3>1, CollectLists DEF OpFields, Loops
  <2>8. CASE sendOIDCBackchannelLogout(o)
    BY <1>0, <1>2, <2>0, <2>8, CollectLists DEF OpFields, Loops
  <2> QED BY <1>3, <2>1, <2>2, <2>3, <2>4, <2>5, <2>6, <2>7, <2>8 DEF OpStep
<1>4. ASSUME NEW o \in Ops, Starts(o) PROVE LoopInv'
  <2>1. Loops(o)
    BY DEF LoopInv
  <2>2. Loops(o)'
    BY <1>0, <1>4, <2>1, StartLists DEF Loops
  <2> QED BY <1>0, <1>2, <1>4, <2>2, StartLists
<1>5. CASE RevocationNext
  BY <1>1, <1>3, <1>4, <1>5 DEF RevocationNext, Starts, revokeAccountConsent, revocationVars
<1> QED BY <1>1, <1>5 DEF Next, vars, revocationVars

LEMMA LoopInit == Init => LoopInv
BY DEF Init, RevocationInit, LoopInv, Loops

\* A call that matches no grant of the session leaves its codes and tokens alone.
LEMMA KeptByRevocation ==
    ASSUME TypeOK, NEW u, NEW s \in Sessions, NEW t, t # s,
           RevokeSessionTokens(u, t) \/ RevokeUserTokens(u, s)
    PROVE  /\ \A k \in Codes : codes[k].grant.session = s => codes'[k] = codes[k]
           /\ \A q \in Requests :
                /\ accessTokens[q].grant.session = s => accessTokens'[q] = accessTokens[q]
                /\ refreshTokens[q].grant.session = s => refreshTokens'[q] = refreshTokens[q]
<1>1. PICK G : revokeMatchingTokens(G) /\ \A g \in G : g.session # s
  <2>1. s # NoSession
    BY EntityAssumption
  <2>2. CASE RevokeSessionTokens(u, t)
    BY <2>2 DEF RevokeSessionTokens, OfSession
  <2>3. CASE RevokeUserTokens(u, s)
    BY <2>1, <2>3 DEF RevokeUserTokens
  <2> QED BY <2>2, <2>3
<1> QED BY <1>1 DEF revokeMatchingTokens

(***************************************************************************)
(* A change of password leaves alone the session it was made in and every  *)
(* code and token of that session, whatever else is revoked at the same    *)
(* time and whichever of its own calls fail (changeAccountPassword,        *)
(* RevokeAll and RevokeUserTokens with the session to keep).               *)
(***************************************************************************)
THEOREM CurrentSessionKept == Spec => KeepsCurrentSession
<1>1. TypeInv /\ LoopInv /\ [Next]_vars =>
        [\A o \in Ops : op[o].kind = "change" /\ op'[o] # op[o]
           => Untouched(op[o].keep)]_vars
  <2> SUFFICES ASSUME TypeInv, LoopInv, Next, NEW o \in Ops, op[o].kind = "change",
                      op'[o] # op[o]
               PROVE  Untouched(op[o].keep)
    OBVIOUS
  <2>0. /\ TypeOK /\ op[o].keep \in Sessions /\ op[o].keep \notin op[o].listed
        /\ op[o].todo \subseteq op[o].listed
        /\ op[o].pc \notin {"idle", "revokeEach", "clientTokens"}
    BY DEF TypeInv, LoopInv, Loops
  <2>1. RevocationNext
    BY DEF Next, revocationVars
  <2>2. PICK p \in Ops : Starts(p) \/ OpStep(p)
    BY <2>1 DEF RevocationNext, Starts, revokeAccountConsent, revocationVars
  <2>3. p = o
    BY <2>0, <2>2, StartLists, OpStepFields DEF OpFields
  <2>4. OpStep(o)
    BY <2>0, <2>2, <2>3, StartLists
  <2>5. CASE CleanSession(o)
    <3>1. UNCHANGED sessions
      BY <2>5 DEF CleanSession, accountVars
    <3>2. PICK t \in op[o].todo : RevokeSessionTokens(op[o].user, t) \/ UNCHANGED storeVars
      BY <2>5 DEF CleanSession, Fails
    <3>3. t # op[o].keep
      BY <2>0
    <3>4. CASE RevokeSessionTokens(op[o].user, t)
      BY <2>0, <3>1, <3>3, <3>4, KeptByRevocation DEF Untouched
    <3>5. CASE UNCHANGED storeVars
      BY <3>1, <3>5 DEF Untouched, storeVars
    <3> QED BY <3>2, <3>4, <3>5
  <2>6. CASE UserTokens(o)
    <3>1. UNCHANGED sessions
      BY <2>6 DEF UserTokens, accountVars
    <3>2. CASE RevokeUserTokens(op[o].user, op[o].keep)
      <4>1. NoSession # op[o].keep
        BY <2>0, EntityAssumption
      <4> QED BY <2>0, <3>1, <3>2, <4>1, KeptByRevocation DEF Untouched
    <3>3. CASE UNCHANGED storeVars
      BY <3>1, <3>3 DEF Untouched, storeVars
    <3> QED BY <2>6, <3>2, <3>3 DEF UserTokens, Fails
  <2>7. CASE RevokeAllSessions(o)
    <3>1. UNCHANGED storeVars
      BY <2>7 DEF RevokeAllSessions
    <3>2. sessions'[op[o].keep] = sessions[op[o].keep]
      BY <2>0, <2>7 DEF RevokeAllSessions, RevokeAll, accountVars
    <3> QED BY <3>1, <3>2 DEF Untouched, storeVars
  <2>8. CASE ForgetSession(o)
    BY <2>8 DEF ForgetSession, DeleteOIDCClientSessions, Fails, Untouched, accountVars, storeVars
  <2>9. CASE \/ sessionsForRevocation(o) \/ CollectSession(o) \/ StageDone(o)
             \/ sendOIDCBackchannelLogout(o) \/ CleanupDone(o)
    BY <2>9 DEF sessionsForRevocation, CollectSession, StageDone, sendOIDCBackchannelLogout,
         CleanupDone, opOnly, Untouched, accountVars, storeVars
  <2> QED
    BY <2>0, <2>4, <2>5, <2>6, <2>7, <2>8, <2>9 DEF OpStep, ClientTokens, RevokeEach
<1> QED
  BY <1>1, TypeInit, TypeStep, LoopInit, LoopStep, PTL DEF Spec, KeepsCurrentSession

-----------------------------------------------------------------------------
(***************************************************************************)
(* Logout tokens.  logout ignores an error of Revoke and goes on, so its   *)
(* calls must not fail; all other handlers may fail anywhere.              *)
(***************************************************************************)
LogoutsSucceed == FaultyOps = {} \/ "logout" \notin OpKinds

LEMMA SessionsForward ==
    ASSUME TypeOK, [Next]_vars
    PROVE  SessionsMove
<1>0. sessions \in [Sessions -> SessionStatus]
  BY DEF TypeOK, AccountTypeOK
<1>1. ASSUME UNCHANGED sessions PROVE SessionsMove
  BY <1>1 DEF SessionsMove
<1>2. CASE EndpointNext
  <2>1. ASSUME NEW k \in Codes, AuthorizeNext(k) PROVE UNCHANGED sessions
    BY <2>1 DEF AuthorizeNext, authzOnly, accountVars, Authorize, AuthorizeUser,
         RequiresConsent, ReuseConsent, ConsentForm, ConsentDecision, RecordConsent,
         issueAuthorizationCode
  <2>2. DeviceNext => UNCHANGED sessions
    BY DEF DeviceNext, deviceOnly, accountVars, deviceAuthorization, StoreDevice,
         DeviceSession, DeviceUser, DeviceDecide
  <2>3. ASSUME NEW q \in Requests, TokenNext(q) \/ revokeToken(q) PROVE UNCHANGED sessions
    <3>1. CASE TokenStep(q)
      BY <3>1 DEF TokenStep, reqOnly, accountVars, ReadFails, ValidateUser, ValidateSession,
           ValidateConsent, issueAccessToken, issueRefreshToken, issueIDToken, AbortRefresh
    <3>2. CASE revokeToken(q)
      BY <3>2 DEF revokeToken, reqOnly, accountVars
    <3>3. CASE TokenNext(q) /\ ~TokenStep(q)
      BY <3>3 DEF TokenNext, reqOnly, accountVars, authenticateOAuthClient,
           authorizationCodeToken, refreshToken, deviceCodeToken, clientCredentialsToken
    <3> QED BY <2>3, <3>1, <3>2, <3>3
  <2>4. ASSUME NEW i \in Readers, ReaderNext(i) PROVE UNCHANGED sessions
    BY <2>4 DEF ReaderNext, readerOnly, accountVars, introspect, userinfo,
         introspectAccessToken, introspectRefreshToken, canIntrospectAccessToken,
         ReaderValidate
  <2> QED BY <1>1, <1>2, <2>1, <2>2, <2>3, <2>4 DEF EndpointNext
<1>3. CASE RevocationNext
  <2>1. ASSUME NEW o \in Ops, OpStep(o) PROVE SessionsMove
    <3>1. CASE RevokeEach(o) \/ RevokeAllSessions(o)
      BY <1>0, <3>1 DEF RevokeEach, RevokeAllSessions, RevokeSession, RevokeAll,
           accountVars, SessionsMove
    <3>2. CASE ~(RevokeEach(o) \/ RevokeAllSessions(o))
      BY <1>1, <2>1, <3>2 DEF OpStep, ClientTokens, CleanSession, UserTokens, ForgetSession,
           sessionsForRevocation, CollectSession, StageDone, sendOIDCBackchannelLogout,
           CleanupDone, opOnly, accountVars
    <3> QED BY <3>1, <3>2
  <2>2. ASSUME NEW o \in Ops, Starts(o) PROVE SessionsMove
    BY <1>1, <2>2, StartLists
  <2>3. ASSUME NEW u \in Users, NEW c \in Clients, revokeAccountConsent(u, c)
        PROVE  SessionsMove
    BY <1>1, <2>3 DEF revokeAccountConsent, accountVars
  <2> QED BY <1>3, <2>1, <2>2, <2>3 DEF RevocationNext, Starts
<1>4. CASE AccountNext
  BY <1>0, <1>4 DEF AccountNext, CreateSession, ExpireSession, ActivateUser, EnableClient,
       SessionsMove
<1> QED BY <1>1, <1>2, <1>3, <1>4 DEF Next, vars, accountVars

LEMMA LogoutStep ==
    ASSUME LogoutsSucceed
    PROVE  TypeInv /\ LoopInv /\ LogoutInv /\ [Next]_vars => LogoutInv'
<1> SUFFICES ASSUME TypeInv, LoopInv, LogoutInv, [Next]_vars PROVE LogoutInv'
  OBVIOUS
<1>0. /\ TypeOK /\ op \in [Ops -> Operation] /\ sessions \in [Sessions -> SessionStatus]
      /\ \A o \in Ops : /\ op[o].listed \subseteq Sessions
                         /\ \A x \in op[o].jobs : x[1] \in Sessions
      /\ \A x \in notified : x[1] \in Sessions
  BY DEF TypeInv, TypeOK, AccountTypeOK, RevocationTypeOK, Operation
<1>1. SessionsMove
  BY <1>0, SessionsForward
<1>2. \A s \in Sessions : /\ Over(s) => Over(s)'
                          /\ sessions[s] # "none" => sessions'[s] # "none"
  BY <1>1 DEF SessionsMove, Over
<1>3. \A o \in Ops : op'[o] = op[o] => Reaches(o)'
  BY <1>0, <1>2 DEF LogoutInv, Reaches
<1>4. UNCHANGED notified => \A x \in notified' : Over(x[1])'
  BY <1>0, <1>2 DEF LogoutInv
<1>5. ASSUME NEW o \in Ops, Reaches(o)', UNCHANGED notified,
             \A p \in Ops : p # o => op'[p] = op[p]
      PROVE  LogoutInv'
  BY <1>3, <1>4, <1>5 DEF LogoutInv
<1>6. ASSUME NEW o \in Ops, OpStep(o) PROVE LogoutInv'
  <2>0. OpFields(o) /\ Loops(o) /\ Reaches(o)
    BY <1>0, <1>6, OpStepFields DEF LoopInv, LogoutInv
  <2>1. \A s \in op[o].listed : /\ Over(s) => Over(s)'
                                /\ sessions[s] # "none" => sessions'[s] # "none"
    BY <1>0, <1>2
  <2>2. \A x \in op[o].jobs : Over(x[1])'
    BY <1>0, <1>2, <2>0 DEF Reaches
  <2>3. CASE RevokeEach(o)
    <3>1. o \notin FaultyOps /\ op[o].pc = "revokeEach" /\ UNCHANGED notified
      BY <2>0, <2>3 DEF RevokeEach, Reaches, LogoutsSucceed
    <3>2. PICK s \in op[o].todo :
            /\ RevokeSession(s)
            /\ op' = [op EXCEPT ![o] =
                 IF op[o].todo = {s} THEN Enter(o, "clean")
                                     ELSE [op[o] EXCEPT !.todo = @ \ {s}]]
      BY <2>3, <3>1 DEF RevokeEach
    <3>3. Over(s)'
      BY <1>0, <2>0, <3>2 DEF RevokeSession, Over, Loops
    <3>4. op'[o].listed = op[o].listed /\ op'[o].jobs = op[o].jobs
      BY <1>0, <2>3, OpStepLists
    <3>5. CASE op[o].todo = {s}
      <4>1. op'[o].pc = "clean"
        BY <1>0, <3>2, <3>5 DEF Enter, Operation
      <4>2. \A t \in op[o].listed : Over(t)'
        BY <2>0, <2>1, <3>1, <3>3, <3>5 DEF Reaches
      <4>3. Reaches(o)'
        BY <2>0, <2>1, <2>2, <3>4, <4>1, <4>2 DEF Reaches
      <4> QED BY <1>5, <2>0, <3>1, <4>3 DEF OpFields
    <3>6. CASE op[o].todo # {s}
      <4>1. op'[o].pc = "revokeEach" /\ op'[o].todo = op[o].todo \ {s}
        BY <1>0, <3>1, <3>2, <3>6 DEF Operation
      <4>2. \A t \in op[o].listed \ (op[o].todo \ {s}) : Over(t)'
        BY <2>0, <2>1, <3>1, <3>3 DEF Reaches
      <4>3. Reaches(o)'
        BY <2>0, <2>1, <2>2, <3>1, <3>4, <4>1, <4>2 DEF Reaches, Stages
      <4> QED BY <1>5, <2>0, <3>1, <4>3 DEF OpFields
    <3> QED BY <3>5, <3>6
  <2>4. CASE sessionsForRevocation(o)
    <3>1. /\ op[o].pc = "list" /\ UNCHANGED <<notified, sessions>>
          /\ \A s \in ListByUser(op[o].user) :
               sessions[s] = "active" /\ SessionOwner[s] = op[o].user
      BY <2>4 DEF sessionsForRevocation, ListByUser, SessionActive, opOnly, accountVars
    <3>2. /\ op'[o].pc \in {"revokeAll", "done"} /\ op'[o].jobs = op[o].jobs
          /\ op'[o].listed \subseteq ListByUser(op[o].user) \ {op[o].keep}
      BY <1>0, <2>0, <2>4, <3>1, OpStepLists DEF Loops
    <3>3. Reaches(o)'
      BY <2>0, <2>2, <3>1, <3>2 DEF Reaches, OpFields, Stages
    <3> QED BY <1>5, <2>0, <3>1, <3>3 DEF OpFields
  <2>5. CASE RevokeAllSessions(o)
    <3>1. /\ op[o].pc = "revokeAll" /\ UNCHANGED notified
          /\ op'[o].listed = op[o].listed /\ op'[o].jobs = op[o].jobs
      BY <1>0, <2>5, OpStepLists DEF RevokeAllSessions
    <3>2. CASE RevokeAll(op[o].user, op[o].keep) /\ op'[o].pc = "clean"
      <4>1. \A s \in op[o].listed : Over(s)'
        BY <1>0, <2>0, <3>1, <3>2 DEF RevokeAll, SessionActive, Reaches, Over, SessionStatus
      <4>2. Reaches(o)'
        BY <2>1, <2>2, <2>0, <3>1, <3>2, <4>1 DEF Reaches
      <4> QED BY <1>5, <2>0, <3>1, <4>2 DEF OpFields
    <3>3. CASE op'[o].pc \in {"done", "userTokens"}
      <4>1. Reaches(o)'
        BY <2>0, <2>1, <2>2, <3>1, <3>3 DEF Reaches, Stages
      <4> QED BY <1>5, <2>0, <3>1, <4>1 DEF OpFields
    <3> QED BY <1>0, <2>5, <3>2, <3>3, OpStepLists
  <2>6. CASE CleanSession(o) \/ ForgetSession(o)
    <3>1. op[o].pc \in Stages /\ UNCHANGED notified
      BY <2>6 DEF CleanSession, ForgetSession, Stages
    <3>2. /\ op'[o].pc = op[o].pc /\ op'[o].listed = op[o].listed
          /\ op'[o].jobs = op[o].jobs
      BY <1>0, <2>6, OpStepLists
    <3>3. Reaches(o)'
      BY <2>0, <2>1, <2>2, <3>1, <3>2 DEF Reaches, Stages
    <3> QED BY <1>5, <2>0, <3>1, <3>3 DEF OpFields
  <2>7. CASE StageDone(o)
    <3>1. op[o].pc \in Stages /\ op'[o].pc \in Stages /\ UNCHANGED notified
          /\ op'[o].listed = op[o].listed /\ op'[o].jobs = op[o].jobs
      BY <1>0, <2>7, OpStepLists DEF StageDone, opOnly, Stages
    <3>2. Reaches(o)'
      BY <2>0, <2>1, <2>2, <3>1 DEF Reaches, Stages
    <3> QED BY <1>5, <2>0, <3>1, <3>2 DEF OpFields
  <2>8. CASE ClientTokens(o) \/ CleanupDone(o) \/ UserTokens(o)
    <3>1. op'[o].pc \in {"done", "userTokens"} /\ UNCHANGED notified
          /\ op'[o].listed = op[o].listed /\ op'[o].jobs = op[o].jobs
      BY <1>0, <2>8, OpStepLists DEF ClientTokens, CleanupDone, UserTokens, opOnly
    <3>2. Reaches(o)'
      BY <2>0, <2>1, <2>2, <3>1 DEF Reaches, Stages
    <3> QED BY <1>5, <2>0, <3>1, <3>2 DEF OpFields
  <2>9. CASE CollectSession(o)
    <3>1. /\ op[o].pc = "collect" /\ op'[o].pc = "collect" /\ UNCHANGED notified
          /\ op'[o].listed \subseteq op[o].listed
      BY <1>0, <2>9, CollectLists DEF CollectSession, opOnly
    <3>2. PICK s \in op[o].todo : \A x \in op'[o].jobs : x \in op[o].jobs \/ x[1] = s
      BY <1>0, <2>9, CollectLists
    <3>3. \A t \in op[o].listed : Over(t)'
      BY <2>0, <2>1, <3>1 DEF Reaches, Stages
    <3>4. \A x \in op'[o].jobs : Over(x[1])'
      BY <2>0, <2>2, <3>2, <3>3 DEF Loops, Over
    <3>5. Reaches(o)'
      BY <2>0, <2>1, <3>1, <3>3, <3>4 DEF Reaches
    <3> QED BY <1>5, <2>0, <3>1, <3>5 DEF OpFields
  <2>10. CASE sendOIDCBackchannelLogout(o)
    <3>1. /\ op[o].pc = "notify" /\ op'[o].pc = "notify"
          /\ op'[o].listed = op[o].listed /\ op'[o].jobs \subseteq op[o].jobs
          /\ \A x \in notified' : x \in notified \/ x \in op[o].jobs
      BY <1>0, <2>10, CollectLists DEF sendOIDCBackchannelLogout
    <3>2. Reaches(o)'
      BY <2>0, <2>1, <2>2, <3>1 DEF Reaches, Stages
    <3>3. \A x \in notified : Over(x[1])'
      BY <1>0, <1>2 DEF LogoutInv
    <3>4. \A x \in notified' : Over(x[1])'
      BY <2>2, <3>1, <3>3 DEF Over
    <3> QED BY <1>3, <2>0, <3>2, <3>4 DEF OpFields, LogoutInv
  <2> QED
    BY <1>6, <2>3, <2>4, <2>5, <2>6, <2>7, <2>8, <2>9, <2>10 DEF OpStep
<1>7. ASSUME NEW o \in Ops, Starts(o) PROVE LogoutInv'
  <2>1. Reaches(o) /\ Loops(o)
    BY DEF LogoutInv, LoopInv
  <2>2. UNCHANGED <<sessions, notified>> /\ op'[o].jobs = op[o].jobs /\ op[o].listed = {}
        /\ \A p \in Ops : p # o => op'[p] = op[p]
    BY <1>0, <1>7, <2>1, StartLists DEF Loops
  <2>3. \A x \in op'[o].jobs : Over(x[1])'
    BY <2>1, <2>2 DEF Reaches, Over
  <2>4. \/ /\ op'[o].pc = "revokeEach" /\ "logout" \in OpKinds /\ op'[o].todo = op'[o].listed
           /\ \A s \in op'[o].listed : sessions[s] # "none"
        \/ op'[o].pc \in {"list", "clientTokens"} /\ op'[o].listed = {}
    BY <1>0, <1>7, <2>2, StartLists
  <2>5. Reaches(o)'
    BY <2>2, <2>3, <2>4 DEF Reaches, Stages
  <2> QED BY <1>5, <2>2, <2>5
<1>8. ASSUME UNCHANGED revocationVars PROVE LogoutInv'
  BY <1>3, <1>4, <1>8 DEF LogoutInv, revocationVars
<1>9. CASE RevocationNext
  BY <1>6, <1>7, <1>8, <1>9 DEF RevocationNext, Starts, revokeAccountConsent
<1> QED BY <1>8, <1>9 DEF Next, vars

(***************************************************************************)
(* Clients are told to log out only about sessions that are over, for any  *)
(* number of handlers, sessions and clients, however late a client is      *)
(* recorded or a notification sent.  All calls but those of logout may     *)
(* fail: the handlers that end several sessions skip the notification then.*)
(***************************************************************************)
THEOREM LogoutTokensLate ==
    ASSUME LogoutsSucceed
    PROVE  Spec => []LogoutTokenAfterRevocation
<1>1. Init => LogoutInv
  BY DEF Init, RevocationInit, LogoutInv, Reaches, Stages
<1>2. LogoutInv => LogoutTokenAfterRevocation
  BY DEF LogoutInv, LogoutTokenAfterRevocation, Over
<1>3. TypeInv /\ LoopInv /\ LogoutInv /\ [Next]_vars => LogoutInv'
  BY LogoutStep
<1> QED BY <1>1, <1>2, <1>3, TypeInit, TypeStep, LoopInit, LoopStep, PTL DEF Spec
=============================================================================
