CONSTANTS
    h1 = h1
    h2 = h2
    s1 = s1
    s2 = s2
    p1 = p1
    Hosts = {h1}
    Sessions = {s1}
    Principals = {p1}
    PrincipalOf <- OnePrincipal
    InRouter = {}
    LeaseTicks = 2
    DedupLimit = 1
    MaxSockets = 2
    MaxBacklog = 1
    Scenarios <- TickScenarios
SPECIFICATION FairSpec
PROPERTY ActiveHostsRecover
CHECK_DEADLOCK FALSE
