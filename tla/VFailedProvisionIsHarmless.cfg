SPECIFICATION Spec
CONSTANTS
    Services = {s1}
    Creds = {k1, k2, k3}
    Requests = {r1, r2}
    Expiries = {1, 9}
    Never = 9
    MaxTime = 1
    None = None
PROPERTY FailedProvisionIsHarmless
CHECK_DEADLOCK FALSE
