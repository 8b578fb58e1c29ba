SPECIFICATION OfficeSpec
CONSTANTS
    n1 = n1
    b1 = b1
    a4 = a4
    t2 = t2
    m2 = m2
    d2 = d2
    e2 = e2
    Workspaces = {w1, w2}
    Numbers = {n1, n2}
    Wabas = {b1, b2}
    Nobody = Nobody
    Acts = {a1, a2, a3, a4}
    Stored = {r1, r2, r3}
    Pictures = {r1}
    Batch = 1
    Passes = 2
    MaxAttempts = 2
    KeptDays = 2
    DaysPerRun = 2
    FirstDay = 5
    LastDay = 9
    MaxTroubles = 2
    Threads = {t1, t2}
    Messages = {m1, m2}
    Recipients = {g1}
    ConsentEvents = {d1, d2}
    NoEvent = NoEvent
    Erasers = {e1, e2}
    ErasureRounds = 2
    MaxLapses = 1
    KeyCount = 2
    Deliveries = {a1, a2, a3}
    ReplayCap = 2
    Calls = {w1, w2}
    MaxPresses = 5
    MaxNews = 1
    MaxFaults = 1
SYMMETRY OfficeSymmetry
INVARIANTS
    OfficeTypeOK
    AccountsAreRouted
    
    
    SettingsAreTrue
CHECK_DEADLOCK FALSE
