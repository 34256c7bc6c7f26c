CONSTANTS
    h1 = h1
    h2 = h2
    s1 = s1
    s2 = s2
    p1 = p1
    Hosts = {h1}
    Sessions = {s1}
    Principals = {p1}
    PrincipalOf <- OnePrincipal
    InRouter = {}
    LeaseTicks = 1
    DedupLimit = 1
    MaxSockets = 3
    MaxBacklog = 1
    Scenarios <- ExactScenarios
    a = a
    b = b
    Senders = {a, b}
SPECIFICATION ExactFairSpec
PROPERTIES
    WorkEnds
    HostsReconnect
    AnswersHold
    NeverReplayed
CHECK_DEADLOCK FALSE
