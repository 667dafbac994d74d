SPECIFICATION Spec
CONSTANTS
    s1 = s1
    s2 = s2
    k1 = k1
    k2 = k2
    k3 = k3
    None = none
    Sessions <- MCSessions
    Keys <- MCKeys
    hash <- MCHash
    Slots = {1, 2}
    KeyLen = 1
    Lengths <- MCLengths
    MaxValue = 1
    MaxPiece = 2
    MaxReqs = 2
SYMMETRY Symmetric
INVARIANTS MemcachedInv NoSessionAssert CasIdentifies
CHECK_DEADLOCK FALSE
