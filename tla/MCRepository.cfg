SPECIFICATION Spec
CONSTANTS
    k1 = k1
    a1 = a1
    r0 = r0
    r1 = r1
    d1 = d1
    c1 = c1
    c2 = c2
    u1 = u1
    s1 = s1
    s2 = s2
    f1 = f1
    None = None
    Codes = {k1}
    AccessTokens = {a1}
    RefreshTokens = {r0, r1}
    Devices = {d1}
    Txs = {t1, t2, t3}
    Clients = {c1, c2}
    Users = {u1}
    Sessions = {s1, s2}
    Families = {f1}
    Workload <- MCWorkload
SYMMETRY TxSymmetry
INVARIANTS
    TypeOK
    OneUsablePerFamily
    GrantedOnce
    ApprovedHasConsent
PROPERTIES
    NothingGrantedAfterRevocation
