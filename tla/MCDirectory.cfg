SPECIFICATION Spec
CONSTANTS
    Users = {u1, u2}
    Emails = {e1, e2}
    Identities = {x1, x2}
    Handlers = {h1, h2}
    Workloads <- MCWorkloads
    MaxRequests = 3
    MaxTokens = 2
    NoUser = NoUser
    NoEmail = NoEmail
    NoHandler = NoHandler
SYMMETRY DirectorySymmetry
INVARIANTS
    TypeOK
    VerifiedWasConfirmed
    SuperAdminRemains
PROPERTIES
    LastMethodKept
CHECK_DEADLOCK FALSE
