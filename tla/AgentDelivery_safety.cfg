CONSTANTS
    h1 = h1
    h2 = h2
    s1 = s1
    s2 = s2
    p1 = p1
    Hosts = {h1, h2}
    Sessions = {s1, s2}
    Principals = {p1}
    PrincipalOf <- OnePrincipal
    InRouter = {s2}
    LeaseTicks = 2
    DedupLimit = 1
    MaxSockets = 2
    MaxBacklog = 2
    Scenarios <- DeliveryScenarios
SPECIFICATION Spec
SYMMETRY Twins
INVARIANTS
    TablesAgree
    NoForgottenHost
    NoSelfSupersede
    NoRepeatInWindow
PROPERTIES
    KeepsLedger
    NoStaleAcceptance
    DrainSkipsNothing
CHECK_DEADLOCK FALSE
