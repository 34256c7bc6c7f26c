CONSTANTS
    n1 = n1
    n2 = n2
    n3 = n3
    n4 = n4
    c1 = c1
    c2 = c2
    a = a
    b = b
    g = g
    None = None
    Memory <- Memories
    Name <- PairsAndNames
    Text = {a, b}
    Term <- Vocabulary
    Terms <- WordsOf
    Slug = {g}
    Caller = {c1, c2}
    Summary = n4
    NoiseThreshold = 1
    ClusterSize = 2
    MaxProposals = 3
    Proposal <- Ids3
    Kind <- Kinds
    Scenarios <- DreamScenarios
SPECIFICATION Spec
SYMMETRY Twins
INVARIANTS
    IndexIsExact
    ActiveIsFound
    OneDigestPerSource
    OneEffectPerProposal
PROPERTIES
    DecidedForGood
    RivalsAreUnseen
CHECK_DEADLOCK FALSE
