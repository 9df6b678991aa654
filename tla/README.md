# Certus in TLA+

Certus is a single sign-on server in Go: OAuth 2.0 / OpenID Connect, CAS, local
passwords, LDAP and external OIDC logins, multi-factor authentication, an
administration API. This directory specifies its core, model-checks it with TLC
and proves part of it with TLAPS. Paths below are relative to the repository.

## 1. Inventory

Every HTTP request is a goroutine of its own. Handlers (`internal/platform/http`)
call services, services call repositories. A method of an in-memory repository
holds that repository's mutex from start to end (in PostgreSQL it is one
statement or one transaction); **between two repository calls a handler holds
nothing**. What is hard in Certus is therefore what happens between the calls of
a handler: revocation against requests in flight, read-then-write of counters and
credentials, a call in the middle that fails, a notification that gets lost.

| Part | Source | State | Operations | Must hold | Module |
|---|---|---|---|---|---|
| OAuth store | `oauth/store.go` | codes, access and refresh tokens, devices, consents, clients visited per session | save, consume, rotate, revoke (family, session, user, client, consent) | single use, families, scopes only narrow | `OAuthStore` |
| OAuth endpoints | `platform/http/oauth.go`, `consent.go` | none of their own | authorize, consent, token, revoke, userinfo, introspect | nothing issued or accepted on an ended session | `TokenEndpoint` |
| Device flow | `platform/http/device.go` | in the store | request, decide, redeem, poll | redeemed once, by the user who decided | `TokenEndpoint`, `OAuthRepository` |
| Sessions | `session/` | records with owner, expiry, revocation | create, revoke, revoke all, list, check | an ended session stays ended | `Accounts` |
| Revocation, back-channel logout | `platform/http/account.go`, `admin_users.go`, `client_status.go`, `auth.go`, `oidc_backchannel.go` | none of their own | logout, reset, change, deactivate, disable client, withdraw consent | reaches every token; notifies after revoking; keeps what it must keep | `Revocation` |
| Passwords, login | `identity/password.go`, `platform/http/auth.go` | hash, failed attempts, lock, reset tokens | authenticate, upgrade, change, reset, set | lock exactly after failures; reset token once | `Passwords` |
| Multi-factor | `mfa/`, `platform/http/mfa.go` | secret, last used step, recovery codes, lock, trusted devices | setup, enable, verify, regenerate, disable, reset, trust | every factor serves once; trust ends with the enrolment | `Mfa` |
| Users, registration, email verification | `identity/`, `platform/http/registration.go`, `admin_users.go`, `email_verification.go` | rows with address, flag and status, verification tokens | register, create, import, replace, change address, issue, verify, mark | a verified address is one somebody confirmed | `Directory` |
| External identities, federation | `federation/`, `platform/http/auth.go`, `admin_external_identities.go` | links | log in, link, provision, unlink | the last way to log in is not removed | `Directory` |
| Administrator roles | `administration/`, `platform/http/admin_auth.go` | grants | replace, check before deactivation | a super administrator remains | `Directory` |
| CAS | `cas/`, `platform/http/cas.go` | service, proxy and proxy granting tickets, service sessions | login, validate, proxy, single logout | a ticket validates once; chains and renew are true; logout tells the services | `Cas`, `SingleUse` |
| Client registry, identity sources | `client/`, `federation/source.go`, `platform/http/admin_clients.go`, `admin_identity_sources.go` | systems, clients and the tables of their values, sources and their sealed secrets | create, replace, rotate secret, archive, delete, rewrap | whole configurations, archived rows frozen, a secret stays until another is chosen | `Registry`; `enabled` also in `Accounts` |
| Access control | `access/`, `platform/http/access.go` | roles, permissions, mappings, grants | create, delete, map, grant | nothing is lost as a side effect | `Access` |
| Signing keys, key ring | `oidc/signer.go`, `platform/http/signing_keys.go`, `secrets/` | a table shared by the instances, a cache in each | start, rewrap, refresh, sign, verify, publish, rotate, delete | one active key; what was signed verifies during its lifetime | `SigningKeys` |
| Maintenance | `maintenance/`, `storage/postgres/maintenance_repository.go` | none | delete old rows | nothing that is still needed | in `OAuthRepository`, `SigningKeys` |
| PostgreSQL repositories | `storage/postgres/` | tables | the same interfaces | the same as in memory | `OAuthRepository`; the stores of `Cas`, `Directory`, `SigningKeys`, `Registry`, `Access` |
| Rate limiting | `ratelimit/` | windows, at most 10000 | allow | | not modelled |
| Audit, mail, metrics, tracing, configuration, UI | | | I/O, formatting | | not modelled |

`PROJECT.json` names the files and the status of each part, every source range a
definition stands for, and the hazards at their lines.

## 2. Modules

    Entities      identifiers
      Accounts      sessions, user status, client status, as the OAuth handlers see them
      OAuthStore    one operator per method of oauth.MemoryRepository
        TokenEndpoint   authorize, consent, device, token, revoke, userinfo, introspect
        Revocation      the handlers that take authority away
          AuthServer      both over the same stores, with the properties
            MCAuthServer                           instances for TLC
            AuthServerProofs                       types, families, origins, sessions
    Passwords                  one account's password and its handlers
      MCPasswords, PasswordsProofs
    Mfa                        one account's second factor and its handlers
      MCMfa, MfaProofs
    OAuthRepository            the OAuth store of PostgreSQL, statement by statement
      MCOAuthRepository, OAuthRepositoryProofs
    SingleUse                  what a one-time ticket promises
    Cas                        tickets and single logout; implements SingleUse
      MCCas, CasProofs
    Directory                  accounts, addresses, links, administrators
      MCDirectory, DirectoryProofs
    SigningKeys                the signing keys of several instances
      MCSigningKeys, SigningKeysProofs
    Registry                   systems, clients, identity sources
      Access                     roles and permissions of clients
        MCAccess, AccessProofs

**From code to state.** A repository method is one operator and one step. A
request is a record whose `pc` names its next repository call; an action is that
call together with everything the handler computes until the following one. The
guards are the handler's conditions. An early return before the first write
leaves no trace, so the request simply takes no further step; one after a write
goes to `done`. Store errors are explicit branches, for the requests in `Faulty`
and `FaultyOps`.

**PostgreSQL.** `AuthServer`, `Passwords` and `Mfa` are over the in-memory stores,
whose methods are atomic. `OAuthRepository` has the same OAuth store as PostgreSQL
runs it, at READ COMMITTED: a statement decides with the snapshot of its beginning
which rows it is about, locks them one by one, waits for a transaction that holds
one, and looks again at each row it has got; it never sees a row that was inserted
meanwhile. A method is a list of statements (`Execute`, `LockRow`), a branch after
`SELECT ... FOR UPDATE` (`RotateLocked`, `PollLocked`) and a commit; at any statement
the transaction may end with an error, be it a lost connection or a deadlock
(`Fail`). `Cas`, `Directory`, `SigningKeys`, `Registry` and `Access` are over the
PostgreSQL stores too. There a transaction is one step when one of its statements
decides and the rest follow under the lock it took, and several steps where other
requests can come between (the locked rows are `rowLock`, `objectLock`; what a
`DELETE` saw is `seen`). What a handler carries from one statement to the next, a
row it read among it, is in its record, and is written as it was read.

**Refinement.** `SingleUse` says what a one-time ticket is: issued, claimed by one
redemption, answered for at most once, or lapsed. `Cas` implements it
(`TicketsAreSingleUse`): a ticket is claimed while the handler that consumed it has
not answered yet, and spent when its row is anything but live.

**Random values.** A code, token, family identifier, TOTP secret, recovery code
set or device token is identified with the request that drew it, which is exact
as long as 256-bit random values do not collide. A TOTP code is the pair of
secret and time step. PKCE and redirect URI together are an element of `Proofs`:
the exchange succeeds with the right one only. The UUIDs of roles and permissions are
drawn before their rows are inserted (`access.go:106`): `Access` keeps the ones drawn
so far (`drawn`) and draws none twice.

**Time.** Lifetimes are configurable per client, so the order in which things
expire is left open: expiry is a step of its own and can happen at any moment.
`Mfa` counts time in 30-second TOTP steps, because the window of one step either way
matters there; `Cas` in seconds, because a re-authentication marker has that
precision; `SigningKeys` keeps the ages of keys, caches and calls, since retention
is about the sum of such times. Time changes between two requests' calls, never within
one repository call.

**Fields that only properties read**: `origin`, `by`, `parent`, `stale` in the
token service, `version` in `Passwords`, `factor` in `Mfa`, `from`, `issued`, `accepted`,
`told` and `before` in `Cas`, `confirmed` in `Directory`, `signed` and `replaced` in
`SigningKeys`, `written`, `version` and `blank` in `Registry`, `granted` and `dead` in
`OAuthRepository`. No guard looks at them, except that a token is verified only as long
as it is valid (`signed`).

**Left out of the modelled parts**: parsing and wording of requests, claims and
ID token contents, hashing, encryption of TOTP secrets, CSRF, audit records,
rate limits in front of the handlers, reauthentication (`prompt`, `max_age`).

## 3. What is checked

All instances but those of `OAuthRepository` have `CHECK_DEADLOCK FALSE`: the request
identifiers, or the number of requests, are used up after a while and an idle server
legitimately does nothing. `OAuthRepository` stutters only when every transaction has
ended, so TLC also shows that no set of transactions waits for ever once PostgreSQL
ends a deadlock.

### Runs that hold

| Run | Instance | Shows |
|---|---|---|
| `MCCodeFlow` | one code, four token requests that may all fail at any store call, one logout, two scope parameters | `TypeOK`; a family never has two exchangeable tokens (`OneUsablePerFamily`); it is revoked as a whole and stays so (`FamilyRevokedTogether`); scopes only narrow along a chain (`ScopeNeverWidens`); one code gives tokens to one request (`OneExchangePerOrigin`); nothing is issued on a session that had ended when the request read the grant (`NothingIssuedAfterSessionEnd`) |
| `MCReaders` | two clients, each may introspect for the other, all four grants, one reader, logout / sweep / client disabled with failing store calls, expiring session and token | userinfo and introspection accept no token of a session that had ended when they read it (`NothingAcceptedAfterSessionEnd`) although they check user, session and consent in three reads |
| `MCDevice` | one device, two decisions, two token requests, one of reset / disable / client / consent; fair | a refresh refused after its rotation ends with the family revoked (`RefusedRefreshRevokesFamily`); a reset reaches every refresh token stored when it began, with or without a session (`ResetReachesRefreshTokens`) |
| `MCBackchannel` | two sessions, two concurrent revocation requests, a token request that still records its client | a logout token is received only for an ended session (`LogoutTokenAfterRevocation`); a password change touches nothing of the session it keeps (`KeepsCurrentSession`) |
| `MCLockout` | four requests of all kinds, threshold two | the count of failures is never ahead of the wrong passwords presented and a lock needs `Threshold` of them (`LockNeedsFailures`), also when a count is read before a success and written after it; a reset token is used once (`ResetTokenOnce`) |
| `MCSecondFactor` | three requests of all seven kinds, three time steps, one trusted device, one recovery code | a TOTP code, a recovery code, a device token serves one request (`FactorsServeOnce`); trusted devices exist only while MFA is enabled and within the limit (`TrustedOnlyWhileEnabled`) |
| `MCRepository` | three transactions of twelve kinds on a code, a family of two tokens, an access token, a device and a consent, in five workloads | a family has one exchangeable token (`OneUsablePerFamily`), a row is worth one grant (`GrantedOnce`), nothing a committed revocation reached for is exchanged by a transaction already under way (`NothingGrantedAfterRevocation`), an approved device has the consent of its user (`ApprovedHasConsent`) |
| `MCCas` | one session, two services that both may proxy, two concurrent requests, three tickets, one mishap (expiry, disabled client or user, failed revocation) | tickets implement `SingleUse` (`TicketsAreSingleUse`); the proxies a validation reports are the way the ticket came (`ProxyChainIsTrue`); a ticket that passes `renew` goes back to fresh credentials (`PrimaryIsFresh`); a logout tells the service of every service ticket that was saved when it read its list (`LogoutTells`) |
| `MCDirectory` | two accounts, two addresses, two external identities, two concurrent requests, three in all, in three workloads, from every small directory | the flag of an address means that somebody confirmed this address of this account (`VerifiedWasConfirmed`); a super administrator remains (`SuperAdminRemains`); the last way to log in is kept (`LastMethodKept`) |
| `MCSigning` | two instances, two calls in progress, three keys, a restart with the next key ring, database errors at any call; unbounded time | one active key (`OneActiveKey`); a key outlives the tokens it signed, though others sign with it after it was retired (`SignedTokensVerify`); an automatic rotation replaces a key that is old (`RotationsAreSpaced`) |
| `MCAccess` | two clients, one source, two roles, one permission, two administrators on each side, three requests in all, in four workloads | configurations are whole (`ConfigIsWhole`), archived rows frozen (`ArchivedIsFrozen`), secrets change by a rotation of the client or a replacement of the source only, and by a replacement that leaves the secret blank only if it read the source too early (`SecretsKept`), grants and mappings never lost as a side effect (`NothingLostSilently`); `TypeOK` includes the references between the tables |

### The run that shows a disagreement

| Run | The documentation says | The code does |
|---|---|---|
| `MCReplayRace` | a replay revokes the whole family and the user has to log in again (`docs/auth-center-guide.md:454`) | the `UPDATE` of the replay (`oauth_repository.go:227`) sees the rows of its snapshot. A rotation that holds the current token commits its replacement while the replay waits for that row; the replay revokes the old row and never sees the new one, which stays usable |

The in-memory store does not have this race: `FamilyRevokedTogether` holds there, and
is proved.

### Races of the code that are in the models without a run

They follow from the sequence of calls, and a reader of the code should know them:

* A token request in flight stores its access token after its client was disabled,
  its family revoked by a replay, or, for device codes, which name no session, the
  password of its user reset (`oauth.go:521`, `device.go:214`); `README.md:459` and
  `:549` say that such tokens are not accepted. The next refresh is refused.
* `Authenticate` stores the count it read plus one: concurrent wrong passwords count
  as one (`password.go:151`; `README.md:182`).
* A login that verified the old password creates its session after a reset has
  revoked all sessions (`auth.go:616`; `README.md:223`).
* `mfa.Setup` checks and replaces in two calls: a pending record replaces one
  enabled meanwhile, and the next login needs no second factor (`mfa.go:187`).
* `Enable` (`mfa/memory_repository.go:117`) writes its time step unconditionally, so an activation still in
  flight can set the last used step back and a code serves again; `TOTPOnce` excludes
  exactly that: an activation beyond the one that enabled the code's own secret.
* A client recorded by a token request after a logout has forgotten the session's
  clients is not notified (`README.md:555` says every visited client is).
* `changeAccountEmail` writes back the status it read: an account disabled meanwhile
  is active again (`email_verification.go:139`).
* Deactivating one super administrator while the other one is demoted leaves a
  grant, as `SuperAdminRemains` says, but of an account that is not active
  (`admin_auth.go:296`).
* Two overlapping replacements of a user's roles leave the roles of both
  (`access_repository.go:355`); a source is archived while a client is about to bind
  it (`admin_identity_sources.go:64`).
* CAS keeps the last ticket per session and service (`cas_repository.go:43`), so a
  logout names that one only; `docs/auth-center-guide.md:289` says every ticket is
  recorded. A service that learned the user's name from a proxy ticket is never told:
  `SaveProxyTicket` writes no service session. `casLogout` tells the services before it
  revokes and ignores an error of `Revoke` (`cas.go:452`). A service ticket can be
  validated after its session has ended, since `ConsumeServiceTicket` does not look at
  the session (`cas_repository.go:62`; for proxy tickets it does).
* A ticket that `casLogin` issues after `casLogout` has listed the services (`cas.go:423`)
  and before it revokes the session (`cas.go:452`) is accepted, its service is never told
  and its row is deleted; `docs/auth-center-guide.md:289` says that every service is
  told. `LogoutTells` is about the tickets that were there when the list was read.
* A replacement of a source that leaves the secret blank writes back the ciphertext it
  has read (`federation/source.go:505`, `source_repository.go:150`): a secret that another
  replacement stored meanwhile is lost and the one before it is back, though the form
  says that a secret left blank is kept (`web/templates/admin-clients.html:124`). After
  a starting instance has sealed the secrets again it is the same secret under the old
  master key, which nobody opens once that key has left the ring. `SecretsKept` allows
  this replacement, if another one was written since it read the row, and nothing else.
* Replays and `RevokeRefreshToken` lock refresh tokens before access tokens, the bulk
  revocations the other way round; the transaction PostgreSQL ends revokes nothing.

### Bounds and why they are enough

* **Requests.** The races are between a handful of calls. Four token requests
  give exchange, two rotations and a replay, or exchange and three presentations
  of one refresh token, in every order; `OneUsablePerFamily` and its companions are
  also proved without the bound. Two revocation requests, two decisions, two
  sessions cover the pairwise interleavings of handlers that never wait for each
  other.
* **Clients, users.** Operations on different users touch different records; one
  user suffices where nothing compares users. `MCReaders` has two clients since
  introspection by another client is a case of its own.
* **Scopes.** Two, so that a scope can be narrowed and asked for again.
* **`Expirable`.** The credentials whose lifetime can end in a run; the others are
  covered by other runs. `Faulty`, `FaultyOps`: which requests may see store errors.
* **`Threshold`.** Two instead of five in `MCLockout`, so that four requests reach a
  lock, run past it and start again.
* **`MaxDevices`, `CodeNumbers`.** One of each: the limit is then reached by the
  second login, and the last recovery code by the first.
* **`LastStep`.** Three steps: a code can be a step early, on time, a step late and
  out of its window.

* **Workloads.** In `OAuthRepository`, `Directory` and `Registry` a behaviour draws its
  requests from one of a few sets of kinds; kinds that write no common row are not
  put together. Three transactions give a holder of a lock, one that waits with an
  old snapshot and one that commits in between; three requests, two at a time, give
  a stale handler and what it missed.
* **`LongChainsInPeace`, `ThirdKeyInPeace`.** Three tickets (a chain of two proxies)
  only without mishaps and markers, three keys only while one call follows the other,
  none is slow and nothing is restarted; after a restart calls overlap or are slow, not
  both; otherwise, with two of each, everything happens. The proofs have no such bounds.
  `MCSigning` has a `VIEW` that leaves out the lists of keys to verify with, on which no
  other part of the next state depends.
* **`MaxCall`, `MaxIdle`, `MaxBlind`** are assumptions rather than bounds: the retention
  must be longer than the life of a token plus the time for which an instance may
  sign with a retired key. `SigningKeysAssumption` says how much that is, with three
  slow calls and not two: a rotation dates the retirement from its own beginning, a
  refresh that loaded the table before it applies its list after it, and a second
  refresh that loaded even earlier may store the old list once more. With two, TLC
  finds a token that outlives its key, on one instance with three calls at once of two
  units of time each; in `MCSigning` a call takes one unit, and the strict comparison of
  `Deletable` makes up for it. `config.go:140` asks for at least an hour and
  defaults to a day. `MaxIdle` is the time for which a stale cache is not refreshed,
  for want of a request or because the database answers with errors (`DatabaseError`,
  at any call); `MaxBlind` the time for which an instance cannot decrypt the table,
  after another one was restarted with the next ring. A longer outage may leave an
  instance signing with a key that is then deleted.

Token requests, and the requests of `Passwords` and `Mfa`, are interchangeable and
are permuted (`RequestSymmetry`) in runs that check invariants only, where `Faulty`
and `Expirable` contain all of them or none; so are handlers, transactions, instances
and unnamed users, addresses, identities and roles in the newer modules, whose
temporal properties are all of the form `[][A]_vars`. `MCDevice`, which checks
liveness, and `MCBackchannel` use no symmetry.

### Fairness

Only `FairSpec` has any: weak fairness of every step of a token request and of a
revocation request that has begun. net/http runs a handler to its end, no handler
waits for another one, and a repository call returns. Users, clients, administrators
and time owe nothing: there is no fairness on starting a request, on a decision,
on expiry. The store calls of `MCDevice` do not fail; with a failing
`RevokeUserTokens` or `RevokeRefreshTokenFamily`, whose errors the handlers log and
ignore, neither liveness property would hold.
`LogoutTokenAfterRevocation` likewise is about revocations that succeed: `logout`
ignores an error of `Revoke`, and a client is then told about a session that
is still active.

### Mutants

For every property of a passing run `PROJECT.json` names a mutant: an operator in
the module, next to the one it replaces, that is wrong in a way the code could
plausibly be wrong, and for which the property fails in the same instance.

## 4. What is proved

For all users, clients, sessions, scopes, codes, devices and requests (in the
token service any sets, also infinite), for any failure pattern and any expiry:

| Theorem | States |
|---|---|
| `AuthServerProofs!TypeCorrect` | `Spec => []TypeOK` |
| `AuthServerProofs!OneUsable` | `Spec => []OneUsablePerFamily` |
| `AuthServerProofs!WholeFamilies` | `Spec => []FamilyRevokedTogether` |
| `AuthServerProofs!ScopesNarrow` | `Spec => []ScopeNeverWidens` |
| `AuthServerProofs!OneExchange` | `Spec => []OneExchangePerOrigin` |
| `AuthServerProofs!NothingIssued` | `Spec => []NothingIssuedAfterSessionEnd` |
| `AuthServerProofs!NothingAccepted` | `Spec => []NothingAcceptedAfterSessionEnd` |
| `AuthServerProofs!CurrentSessionKept` | `Spec => KeepsCurrentSession`, an action property |
| `AuthServerProofs!LogoutTokensLate` | `Spec => []LogoutTokenAfterRevocation`, given `LogoutsSucceed` |
| `PasswordsProofs!PasswordTypes` | `Spec => []TypeOK` |
| `PasswordsProofs!LockEarned` | `Spec => []LockNeedsFailures` |
| `PasswordsProofs!ResetOnce` | `Spec => []ResetTokenOnce` |
| `MfaProofs!MfaTypes` | `Spec => []TypeOK` |
| `MfaProofs!FactorsOnce` | `Spec => []FactorsServeOnce` |
| `MfaProofs!TrustEnds` | `Spec => []TrustedOnlyWhileEnabled` |
| `DirectoryProofs!DirectoryTypes` | `Spec => []TypeOK` |
| `DirectoryProofs!AddressesConfirmed` | `Spec => []VerifiedWasConfirmed` |
| `DirectoryProofs!MethodKept` | `Spec => LastMethodKept`, an action property |
| `DirectoryProofs!SuperAdminKept` | `Spec => []SuperAdminRemains` |
| `CasProofs!CasTypes` | `Spec => []TypeOK` |
| `CasProofs!LogoutTellsListed` | `Spec => []LogoutTells` |
| `CasProofs!ChainsAreTrue` | `Spec => []ProxyChainIsTrue` |
| `CasProofs!PrimaryFresh` | `Spec => []PrimaryIsFresh` |
| `CasProofs!TicketsOnce` | `Spec => TicketsAreSingleUse`: `Cas` implements `SingleUse` |
| `SigningKeysProofs!SigningTypes` | `Spec => []TypeOK` |
| `SigningKeysProofs!OneKeyActive` | `Spec => []OneActiveKey` |
| `SigningKeysProofs!TokensVerify` | `Spec => []SignedTokensVerify` |
| `SigningKeysProofs!Spaced` | `Spec => []RotationsAreSpaced` |
| `OAuthRepositoryProofs!RepositoryTypes` | `Spec => []TypeOK` |
| `OAuthRepositoryProofs!FamilyHasOne` | `Spec => []OneUsablePerFamily` |
| `OAuthRepositoryProofs!OneGrantPerRow` | `Spec => []GrantedOnce` |
| `OAuthRepositoryProofs!ApprovalHasConsent` | `Spec => []ApprovedHasConsent` |
| `OAuthRepositoryProofs!RevokedStaysRevoked` | `Spec => NothingGrantedAfterRevocation`, an action property |
| `AccessProofs!AccessTypes` | `Spec => []TypeOK`, the references between the tables included |
| `AccessProofs!ConfigWhole` | `Spec => []ConfigIsWhole` |
| `AccessProofs!ArchivedStays` | `Spec => ArchivedIsFrozen`, an action property |
| `AccessProofs!SecretsStay` | `Spec => SecretsKept`, an action property |
| `AccessProofs!NothingLost` | `Spec => NothingLostSilently`, an action property |

**Assumptions.** They are the named `ASSUME`s of the modules. In the token service: the
empty identifiers are not identifiers, codes and devices are different, the
registrations have their types, every session has an owner. `Passwords`: there are
finitely many requests (their number is unbounded; the property counts them), the
threshold is positive. `Mfa`: the limits and the last time step are positive.
`Directory`: there are finitely many external identities, because the deletion
counts those of an account. `Cas`: the life of a marker is positive. `SigningKeys`:
the inequality on the retention explained under the bounds, and at least one key in
the ring. `OAuthRepository`: the tables name their rows apart, and every workload is
one the server can meet. `WellStored` is about the rows: a family has one token that can
be exchanged when it starts, a device is saved pending, one that was approved has a
user and a consent, and the token of a rotation is not there before it. `WellAsked` is
about the requests: each names a row of its own table, who decides or consents is
known, and a decision consents for the client of its device. `Registry` and `Access`:
roles are not permissions, clients not sources, and the empty identifiers are not
identifiers. The bounds on tickets, keys, requests and time are arbitrary numbers.
`LogoutTokensLate` alone has a hypothesis of its own: no store call of a revocation
handler fails, or there are no logouts (`LogoutsSucceed`), since `logout` ignores an
error of `Revoke` and tells the clients anyway (`auth.go:699`). The other handlers may
fail anywhere.

**Types.** `TypeOK` is not inductive alone: a request between two calls has to know
that it carries a client, a user, a device. `Bound` says so, and
`TypeInv == TypeOK /\ Bound` is.

**Families.** Neither property is inductive. `FamilyInv` adds `Rooted` (the token of
the request that drew a family identifier is stored under it, so a new family is
empty) and `Homogeneous` (the tokens of a family agree on client, user and session,
so each bulk revocation takes all of a family or none). A second part,
`OwnTokenOnce`, says that a request that has yet to store its refresh token has
stored none. The rotation is the interesting case: it consumes the one usable
token and stores its successor in the same critical section.

**Sessions.** `SessionInv` adds `GrantsKnown` (a session named by a grant was
created, so it is active or over for good) and `RequestStops`, `ReaderStops` (a
request that started from an ended session is still before the session check, or
was stopped by it). Sessions only move forward, so the check cannot pass later.

**Origins.** `ScopeNeverWidens` compares a token with a code or a device that other
requests write. `OriginInv` says what they may write: a code is stored once, with the
grant of its authorization request, and consumed only when stored (`CodesOnce`); a
device keeps the scope it was asked for (`DevicesOnce`); every grant, also one that a
request holds and has not stored yet, lies within its origin, and every rotated token
within its parent (`Narrowing`). For `OneExchangePerOrigin` it adds that a request past
its exchange has marked its code or device as taken, that no two such requests have
the same one (`OneHolder`), and that an access token has the grant of its request
(`OwnAccess`). Each revocation and each expiry only marks rows, which is one lemma.

**Revocation handlers.** `LoopInv`: a handler visits only sessions it has listed, and a
password change never lists the session it keeps. `LogoutInv`: the sessions that a
handler has revoked, cleans up after or has put in a notification are over, although
other handlers revoke and log in meanwhile; sessions only move forward.

**Passwords.** `LockNeedsFailures` is not inductive since a request that is about to
record a failure carries a count it read earlier. `Counted` bounds that count plus
one by the wrong passwords presented, its own among them, and no step takes a
request out of that set. `Spent` says that a token held by a reset request was
issued and is not the one in the store, so it can be consumed by nobody else.
`Carries` gives the types what they need: a request about to write has a password.

**Second factor.** `MfaInv` ties what has served to what is stored. A device token that
served has been rotated away, a recovery code that served is not among the stored
ones and its set was issued by a request that has ended, a TOTP step that served is
not after the last used step of its secret, unless an activation has put that step
back (the race named in section 3). `FlowInv` says that a request passes once.
Trusted devices are bounded by a count over finite sets.

**Directory.** `Holds` says what a request carries at each statement. `RowsConfirmed`: a
request about to write back a row it read earlier has a row whose flag, if set, was
earned. `DeletionInv`: a deletion of a link holds the row lock of the account from its
count to its `DELETE`, and what it counted is still there.

**CAS.** `TableInv` relates neighbours: a proxy ticket to its PGT, a PGT to the ticket it
was issued for. `ProxyChainIsTrue` and `PrimaryIsFresh` follow a ticket back over a chain
of any length by recursion (`Path`, `Root`). The step from neighbours to chains is a
minimal counterexample: a ticket hangs on earlier tickets only, so among those that
fail there would be a least one (`WellFoundedInduction!WFMin`), whose neighbour does not
fail, and its link contradicts it. `RowInv`: while its session is active, a service
ticket has a row, its own or a later one's. With it `ToldOK` follows a logout from its
list to the end: the service of each ticket saved before the list is among those told
or still to be told. For the refinement, `HandlerInv` says that no two handlers hold one consumed ticket;
each action then is an `Issue`, `Claim`, `Answer`, `Waste` or `Lapse` of `SingleUse`, or
a stutter.

**Signing keys.** `KeyInv`: one active key from the first one on. `HolderInv` bounds, for
every call, every cache and every signed token, how long ago the key it holds was
retired; the bound grows with the age of the holder and never passes the retention.
An error of the database ends a call and changes nothing that the bounds are about.

**OAuth repository.** The properties speak of committed rows, the transactions of what
they have read, locked and written since. `StoreInv` is about the rows: a row that
something was given for is consumed or gone, one that a revocation has reached for is
revoked or gone (`HistoryOK`), and at most one token of a family is unspent, those not
saved yet included (`OneUnspent`). `TxOK` is about a transaction at each of its
statements. A row it holds nobody else changes, and it becomes what `Later` allows:
consumed, revoked, denied and deleted are for good, and the columns that revocations
select by stay (`HeldOK`). What it means to revoke is dead in its own view, or is still
to be taken and will still qualify (`TargetsOK`): this is where the snapshot of a
statement and the second look at a row meet. A transaction that is going to give
something holds a row that is live in the database, from the lock to the commit
(`GrantsOK`); hence `GrantedOnce` and `NothingGrantedAfterRevocation`, since a row given
for or revoked is not live. An approval inserts the consent last and a withdrawal
deletes it first; both hold that row until they commit, so one of them waits and
then sees what the other has committed (`DecisionOK`, `WithdrawalOK`). `LocalStep` and
`Elsewhere` say what a step of one transaction leaves of what the others know.
`RevokedFamilyUnusable`, which `MCReplayRace` refutes, is the property that would need
more: the snapshot of a replay to contain a row that is inserted later.

**Registry and access.** `RegistryInv`: a request on a client past its checks has sources
that exist (they are archived, never deleted) and holds the row of its client from the
`INSERT` or `UPDATE` to the commit; what its `DELETE` saw still covers the relations of
the client, so that what it commits is all there is (`LocksOK`). A replacement of a source knows the
version of the row it has read; as long as that version is the stored one, the secret
it carries is the stored one too, perhaps sealed again (`SourceOK`). `AccessInv`: a
deletion holds the row of its role or permission from the lookup of the use to the
`DELETE`, and it is still not in use (`ObjectOK`); an identifier that is about to be
inserted was drawn by this request alone. The last fact rests on
`drawn`: if an identifier could come back, a row could be deleted and inserted again
for another client between the check of a mapping and its commit.

**Only model-checked**: the two liveness properties of `MCDevice`, since fairness is out
of the prover's reach. The violation of `MCReplayRace` is TLC's too. Every other property
of the runs is proved. What the recursive functions of `Cas` compute is proved only
where a least counterexample does it, since the library's induction theorems cannot
be instantiated here.

## 5. Not modelled

Audit, mail, metrics, tracing, configuration and the web UI are I/O or formatting.
The conversations with LDAP and external OIDC servers are I/O; what they lead to is
in `Directory`. Cryptography is assumed: hashes and signatures are matched by whoever
has the secret and nobody else, and a key ring opens what one of its keys sealed.
Rate limiting counts requests behind one mutex, or in one statement, and only refuses
them; at 10000 buckets the in-memory variant forgets the oldest window
(`ratelimit.go:132`). The validation of a client's URIs and grant types, of passwords
and of forms depends on one request alone and is left to unit tests. The growing
polling interval of the device flow is reduced to polls that are too early.

Smaller omissions: signing keys without a key ring, which `config.go:227` refuses in
production with PostgreSQL and the code then stores as they are; the cascade from the
maintenance's `DELETE` of old sessions to their codes and tokens, which only removes
rows; the callback URL of a CAS proxy, which is checked by its host (`cas.go:266`) and
is the service here; the client that a back-channel logout cannot look up, which is
one of the notifications that are never sent.

The session, password and MFA repositories are modelled as in memory. In PostgreSQL
at least one differs: a failure recorded from an old read writes a NULL lock
(`user_repository.go:576`).

## 6. Plan

Models: the composition of `Passwords` and `Mfa` (remembering a device against a
reset), the password and MFA tables of PostgreSQL, rate limiting.

Theorems: that `OAuthRepository` implements the methods of `OAuthStore` wherever the race
of `MCReplayRace` does not happen.
