SPECIFICATION Spec
CONSTANTS
    e1 = e1
    m1 = m1
    m2 = m2
    w1 = w1
    w2 = w2
    Events = {e1}
    Messages = {m1, m2}
    Carried <- MCCarried
    SentAt <- MCSentAt
    Workers <- MCWorkers
    NoJob = NoJob
    RetryLimit = 1
    MaxReplays = 1
    MaxReads = 1
    MaxFaults = 2
SYMMETRY Symmetry
INVARIANTS
    TypeOK
    NothingDroppedWithoutCause
    ThreadIsTrue
CHECK_DEADLOCK FALSE
