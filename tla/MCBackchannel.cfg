SPECIFICATION Spec
CONSTANTS
    u1 = u1
    c1 = c1
    c2 = c2
    NoUser = NoUser
    NoClient = NoClient
    NoSession = NoSession
    NoFamily = NoFamily
    NoOrigin = NoOrigin
    NoProof = NoProof
    NoConsent = NoConsent
    Users = {u1}
    Clients = {c1}
    Sessions = {s1, s2}
    Scopes <- AllScopes
    Backchannel = {c1}
    Codes = {k1}
    Requests = {q1}
    Devices = {}
    Proofs = {p1}
    Expirable = {}
    SessionOwner <- OneOwner
    GrantTypes <- CodeAndRefresh
    AllowedScopes <- AllAllowed
    Confidential = {c1}
    Introspectors <- NoIntrospectors
    Decisions = {}
    Readers = {}
    ScopeParams <- FullScope
    Faulty = {q1}
    Ops = {o1, o2}
    OpKinds = {"logout", "reset", "change"}
    FaultyOps = {}
INVARIANTS
    LogoutTokenAfterRevocation
PROPERTIES
    KeepsCurrentSession
CHECK_DEADLOCK FALSE
