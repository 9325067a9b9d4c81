SPECIFICATION GrantsSpec
CONSTANTS
    Star <- MCStar
    Global = Global
    u1 = u1
    s1 = s1
    Segments <- MCSegments
    RoleKeys = {"admin", "editor"}
    Builtin = {"admin"}
    ScopeTypes = {"team"}
    Schemas <- MCSchemas
    PatternSets <- MCPatternSets
    Admins = {a1}
    People = {u1}
    Services = {s1}
    ServiceRows <- MCServiceRows
    GrantRows <- MCGrantRows
    Askers = {q1}
INVARIANTS GrantsIInv DanglingGrantsAreInert NothingInvented PutEchoes DeclaredInForce AppRolesWithinCatalog
PROPERTIES CustomSurvivesRedeploy CrossAppGrantsAreFixed
CHECK_DEADLOCK FALSE
