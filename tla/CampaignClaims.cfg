SPECIFICATION Spec
CONSTANTS
    r1 = r1
    r2 = r2
    t1 = t1
    t2 = t2
    Recipients <- MCRecipients
    Ticks <- MCTicks
    None = None
    BatchSize = 1
    PageSize = 1
    MaxPasses = 2
    MaxFaults = 1
SYMMETRY Symmetry
INVARIANTS
    TypeOK
    ClaimsAreExclusive
    SecondMessageHasACause
    OverMeansOver
CHECK_DEADLOCK FALSE
