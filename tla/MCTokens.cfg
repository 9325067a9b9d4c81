SPECIFICATION Spec
CONSTANTS
    Keys = {k1}
    Sessions = {s1}
    Holders = {h1}
    Requests = {r1, r2}
    TTL = 2
    Skew = 1
    Expiries = {3, 20}
    Never = 20
    MaxTime = 5
INVARIANTS TokensIInv
PROPERTIES KeyExpiryIsFinal LapsesWithinTTL
SYMMETRY Symmetry
CHECK_DEADLOCK FALSE
