\* Two messages are settled or not and pruned one at a time, under a quota
\* that holds both until the smaller one is replaced by its tombstone; or two
\* senders and two recorders race on one message over three tables while it
\* is pruned. Facts tie in a second.
CONSTANTS
    m1 = m1
    m2 = m2
    Messages = {m1, m2}
    Bytes <- MCTwoSizes
    TombstoneBytes = 2
    Quota = 4
    Senders = {s1, s2}
    Recorders = {r1, r2}
    Tables = {"ack", "ackFact", "disposition", "workflow"}
    Keys = {k1}
    States = {"completed", "deferred"}
    BatchSize = 1
    MaxTime = 1
    MaxFacts = 4
    Nothing = Nothing
SYMMETRY MCSymmetry
CONSTRAINT Either
SPECIFICATION Spec
INVARIANTS
    ErasuresAreAudited
    RetryIsNeverCharged
    RecordersAreToldTheTruth
PROPERTIES
    OnlySettledIsErased
CHECK_DEADLOCK FALSE
