SPECIFICATION Spec
CONSTANTS
    u1 = u1
    c1 = c1
    c2 = c2
    NoUser = NoUser
    NoClient = NoClient
    NoSession = NoSession
    NoFamily = NoFamily
    NoOrigin = NoOrigin
    NoProof = NoProof
    NoConsent = NoConsent
    Users = {u1}
    Clients = {c1, c2}
    Sessions = {s1}
    Scopes <- AllScopes
    Backchannel = {}
    Codes = {k1}
    Requests = {q1, q2}
    Devices = {}
    Proofs = {p1}
    Expirable = {s1, q1, q2}
    SessionOwner <- OneOwner
    GrantTypes <- AllGrants
    AllowedScopes <- AllAllowed
    Confidential = {c1, c2}
    Introspectors <- EachOther
    Decisions = {}
    Readers = {i1}
    ScopeParams <- FullScope
    Faulty = {}
    Ops = {o1}
    OpKinds = {"logout", "sweep", "client"}
    FaultyOps = {o1}
SYMMETRY RequestSymmetry
INVARIANTS
    NothingAcceptedAfterSessionEnd
CHECK_DEADLOCK FALSE
