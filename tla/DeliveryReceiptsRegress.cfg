SPECIFICATION Spec
CONSTANTS
    m1 = m1
    Messages <- MCMessages
    Batches <- MCBatches
    e1 = e1
    e2 = e2
    w1 = w1
    w2 = w2
    Events = {e1}
    Workers = {w1}
    MaxOrphanAttempts = 1
    MaxAborts = 0
PROPERTIES
    StrictlyMonotonic
CHECK_DEADLOCK FALSE
