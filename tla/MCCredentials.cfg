SPECIFICATION Spec
CONSTANTS
    Star <- MCStar
    Global = Global
    p1 = p1
    Principals = {p1}
    Bootstrap = {}
    Keys = {k1}
    Requests = {r1, r2, r3}
    Segments <- MCSegments
    RoleKeys = {"editor"}
    RoleDefs <- MCRoleDefs
    GrantRows <- MCGrantRows
    Inlines <- MCInlines
    Actions <- MCActions
    Scopes <- MCScopes
    AdminAction <- MCAdmin
    None = None
INVARIANTS CredentialsIInv WithinAccountable DownscopeRestricts ScopedToAgreesWithCan BarredGetsNoToken
SYMMETRY Symmetry
CHECK_DEADLOCK FALSE
