SPECIFICATION Spec
CONSTANTS
    Kids = {k1, k2}
    First = k1
    Workers = {w1, w2}
    Apps = {a1}
    Requests = {r1, r2}
    JwksTTL = 1
    Lifetimes = {2}
    MaxTime = 2
    None = None
INVARIANT AuthenticateNeverThrows
CHECK_DEADLOCK FALSE
