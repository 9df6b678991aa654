SPECIFICATION Spec
CONSTANTS
    Services = {a, b}
    Proxying = {a, b}
    Renewing = {a}
    LoginSessions = {s1}
    Handlers = {h1, h2}
    MarkerLife = 1
    MaxTickets = 3
    MaxPGTs = 2
    MaxClock = 1
    MaxMishaps = 1
    MaxMarkers = 1
    Visited = {a}
    NoService = NoService
    NoLogin = NoLogin
CONSTRAINT LongChainsInPeace
SYMMETRY HandlerSymmetry
INVARIANTS
    TypeOK
    ProxyChainIsTrue
    PrimaryIsFresh
    LogoutTells
PROPERTY
    TicketsAreSingleUse
CHECK_DEADLOCK FALSE
