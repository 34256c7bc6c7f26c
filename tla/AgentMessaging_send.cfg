\* Two senders race: an exact retry, a conflict, another key; a reader pages,
\* and may be restarted with the cursor of the reader of another recipient.
CONSTANTS
    w1 = w1
    w2 = w2
    d1 = d1
    d2 = d2
    Writers = {w1, w2}
    Readers = {d1, d2}
    Requests <- MCSenderRequests
    ScopeOf <- MCTwoScopes
    PollLimit = 1
    MaxCrashes = 1
    NoRequest = NoRequest
SPECIFICATION Spec
SYMMETRY Twins
CONSTRAINTS
    OtherReaderFirst
    PollsOnly
INVARIANTS
    OneMessagePerKey
    AnswersAreTrue
    NoGapNoRepeat
PROPERTIES
    ImplementsLedger
