SPECIFICATION AdminSpec
CONSTANTS
    Callers = {"session", "key", "link", "token", "provisioning", "nothing"}
    Kind <- MCKind
    Scopes <- MCScopes
    Arrivals <- MCArrivals
    Requests = {r1, r2}
    PerMs = 2
    MaxMs = 2
    Limit = 1
    Retention = 0
    MaxEvents = 2
INVARIANTS AdminInv WalkMissesNothing
PROPERTIES NoChangeWithoutAuthority
SYMMETRY Symmetry
CHECK_DEADLOCK FALSE
