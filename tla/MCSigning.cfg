SPECIFICATION Spec
CONSTANTS
    Instances = {i1, i2}
    Calls = {c1, c2}
    Staleness = 1
    MaxAge = 1
    Retention = 6
    TokenLife = 1
    MaxCall = 1
    MaxIdle = 0
    MaxBlind = 1
    MaxKeys = 3
    MaxRing = 2
    MaxStops = 1
    NoInstance = NoInstance
CONSTRAINT ThirdKeyInPeace
VIEW WithoutLists
SYMMETRY SigningSymmetry
INVARIANTS
    TypeOK
    OneActiveKey
    SignedTokensVerify
    RotationsAreSpaced
CHECK_DEADLOCK FALSE
