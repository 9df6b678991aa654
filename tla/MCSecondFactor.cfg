SPECIFICATION Spec
CONSTANTS
    Initial = Initial
    None = None
    Requests = {r1, r2, r3}
    CodeNumbers = {1}
    MaxDevices = 1
    Threshold = 2
    RequestKinds <- AllKinds
    LastStep = 3
SYMMETRY RequestSymmetry
INVARIANTS
    TypeOK
    FactorsServeOnce
    TrustedOnlyWhileEnabled
CHECK_DEADLOCK FALSE
