SPECIFICATION Spec
CONSTANTS
    u1 = u1
    c1 = c1
    c2 = c2
    NoUser = NoUser
    NoClient = NoClient
    NoSession = NoSession
    NoFamily = NoFamily
    NoOrigin = NoOrigin
    NoProof = NoProof
    NoConsent = NoConsent
    Users = {u1}
    Clients = {c1}
    Sessions = {s1}
    Scopes <- AllScopes
    Backchannel = {}
    Codes = {k1}
    Requests = {q1, q2, q3, q4}
    Devices = {}
    Proofs = {p1}
    Expirable = {k1}
    SessionOwner <- OneOwner
    GrantTypes <- CodeAndRefresh
    AllowedScopes <- AllAllowed
    Confidential = {c1}
    Introspectors <- NoIntrospectors
    Decisions = {}
    Readers = {}
    ScopeParams <- FullAndOpenID
    Faulty = {q1, q2, q3, q4}
    Ops = {o1}
    OpKinds = {"logout"}
    FaultyOps = {}
SYMMETRY RequestSymmetry
INVARIANTS
    TypeOK
    OneUsablePerFamily
    FamilyRevokedTogether
    ScopeNeverWidens
    OneExchangePerOrigin
    NothingIssuedAfterSessionEnd
CHECK_DEADLOCK FALSE
