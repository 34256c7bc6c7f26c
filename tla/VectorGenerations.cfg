CONSTANTS
    Entities <- MCEntities
    Knowns <- MCKnowns
    First = a
    Observations <- MCObservations
    Namespace <- MCNamespace
    Rebuilders <- MCRebuilders
    Widths <- MCWidths
    Built = 1
    FailureLimit = 2
    Budgets <- MCBudgets
    None = None
    a = a
    b = b
    r1 = r1
    r2 = r2
SPECIFICATION Spec
PROPERTIES
    SwapKeepsVectors
    ForgottenStaysOut
    PromotesWhatItVerified
    OwedUntilBuilt
SYMMETRY AnyRebuilder
CHECK_DEADLOCK FALSE
