SPECIFICATION ReportsSpec
CONSTANTS
    m1 = m1
    Messages <- MCMessages
    Batches <- MCBatches
    e1 = e1
    e2 = e2
    w1 = w1
    w2 = w2
    Events <- MCEvents
    Workers <- MCWorkers
    MaxOrphanAttempts = 1
    MaxAborts = 1
    Contacts = {c1}
    Counters = {"queuedCount", "deliveredCount"}
    v1 = v1
    v2 = v2
    Movers <- MCMovers
    u1 = u1
    u2 = u2
    Recounts <- MCRecounts
    Reported = {"READ"}
    MaxNotes = 2
    MaxSlips = 1
SYMMETRY ReportsSymmetry
INVARIANTS
    ReportsTypeOK
    ReceiptsAreTrue
    ProcessedMeansHandled
    

    
CHECK_DEADLOCK FALSE
