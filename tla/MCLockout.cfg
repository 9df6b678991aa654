SPECIFICATION Spec
CONSTANTS
    NoWord = NoWord
    NoToken = NoToken
    NoRequest = NoRequest
    Requests = {r1, r2, r3, r4}
    Tokens = {t1}
    Words = {w1, w2}
    FirstWord = w1
    Threshold = 2
    RequestKinds <- AllKinds
    Faulty = {r1, r2, r3, r4}
SYMMETRY RequestSymmetry
INVARIANTS
    TypeOK
    LockNeedsFailures
    ResetTokenOnce
CHECK_DEADLOCK FALSE
