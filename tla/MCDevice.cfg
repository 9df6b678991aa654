SPECIFICATION FairSpec
CONSTANTS
    u1 = u1
    c1 = c1
    c2 = c2
    NoUser = NoUser
    NoClient = NoClient
    NoSession = NoSession
    NoFamily = NoFamily
    NoOrigin = NoOrigin
    NoProof = NoProof
    NoConsent = NoConsent
    Users = {u1}
    Clients = {c1}
    Sessions = {s1}
    Scopes <- AllScopes
    Backchannel = {}
    Codes = {}
    Requests = {q1, q2}
    Devices = {d1}
    Proofs = {p1}
    Expirable = {d1}
    SessionOwner <- OneOwner
    GrantTypes <- DeviceAndRefresh
    AllowedScopes <- AllAllowed
    Confidential = {c1}
    Introspectors <- NoIntrospectors
    Decisions = {j1, j2}
    Readers = {}
    ScopeParams <- FullScope
    Faulty = {}
    Ops = {o1}
    OpKinds = {"reset", "disable", "client", "consent"}
    FaultyOps = {}
PROPERTIES
    RefusedRefreshRevokesFamily
    ResetReachesRefreshTokens
CHECK_DEADLOCK FALSE
