\* Two readers of one recipient share its tokens while they wait and poll and
\* a sender commits; one crash or restart; fairness.
CONSTANTS
    w1 = w1
    w2 = w2
    d1 = d1
    d2 = d2
    Writers = {w1}
    Readers = {d1, d2}
    Requests <- MCOneRequest
    ScopeOf <- MCSharedScope
    PollLimit = 1
    MaxCrashes = 1
    NoRequest = NoRequest
SPECIFICATION FairSpec
PROPERTIES
    EventReachesReader
