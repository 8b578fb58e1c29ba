SPECIFICATION ConductSpec
CONSTANTS
    a1 = a1
    a2 = a2
    Actors <- MCActors
    LastPage = 2
    MaxBuilds = 2
    MaxRetries = 1
    People = {p1, p2}
    Nobody = Nobody
    Primary = {p1}
    k1 = k1
    k2 = k2
    Words <- MCWords
    Reps = {r1}
    WindowLength = 1
    MaxClock = 1
    MaxMishaps = 1
    MaxCauses = 1
    Intents <- MCIntents
    Accounts <- MCAccounts
CONSTRAINT FewCauses
SYMMETRY ConductSymmetry
INVARIANTS
    ConductTypeOK
    AudienceIsWhole
    RowIsTrue

    
CHECK_DEADLOCK FALSE
