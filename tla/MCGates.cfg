SPECIFICATION Spec
CONSTANTS
    k1 = k1
    j1 = j1
    s1 = s1
    s2 = s2
    ann = ann
    r1 = r1
    r2 = r2
    None = None
    Junk = Junk
    Keys = {k1}
    Jwts = {j1}
    Sessions = {s1, s2}
    Personas = {ann}
    Requests = {r1}
    Paths <- MCPaths
    Apps <- MCApps
    MaxEvents = 3
    Pipelines <- MCPipelines
    Loads <- MCLoads
INVARIANTS GatesInv DecidedByTheRules
CHECK_DEADLOCK FALSE
