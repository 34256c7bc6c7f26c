\* A process with sqlite-vec, one without and a hook open a database that
\* earlier releases left, beside their writers.
CONSTANTS
    c = c
    n = n
    h = h
    Entity <- Entities
    Process = {c, n, h}
    Hooks = {h}
    VecHosts = {c}
    Careless = {"untitled", "unscored"}
    Legacy <- UpgradeScenarios
SPECIFICATION Spec
INVARIANTS
    IndexesAreTrue
PROPERTIES
    StampsAreEarned
    PassesFinish
CHECK_DEADLOCK FALSE
