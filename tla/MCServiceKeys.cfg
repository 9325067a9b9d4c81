SPECIFICATION Spec
CONSTANTS
    Services = {s1}
    Creds = {k1, k2}
    Requests = {r1, r2}
    Expiries = {1, 9}
    Never = 9
    MaxTime = 2
    None = None
INVARIANTS KeysIInv RevokedKeysDoNothing RetiredForGood NothingAfterExpiry
SYMMETRY Symmetry
CHECK_DEADLOCK FALSE
