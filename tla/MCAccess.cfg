SPECIFICATION Spec
CONSTANTS
    c1 = c1
    c2 = c2
    y1 = y1
    s1 = s1
    Clients = {c1, c2}
    Sources = {s1}
    Systems = {c1, c2, y1}
    Keys = {k1, k2}
    Handlers = {h1, h2}
    Inputs <- MCInputs
    Workloads <- MCWorkloads
    MaxRequests = 3
    NoSystem = NoSystem
    NoClient = NoClient
    NoSource = NoSource
    NoHandler = NoHandler
    NoKey = NoKey
    NoInput = NoInput
    Roles = {r1, r2}
    Permissions = {p1}
    Users = {u1}
    Clerks = {w1, w2}
SYMMETRY AccessSymmetry
INVARIANTS
    TypeOK
    ConfigIsWhole
PROPERTIES
    ArchivedIsFrozen
    SecretsKept
    NothingLostSilently
CHECK_DEADLOCK FALSE
