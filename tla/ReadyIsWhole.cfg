SPECIFICATION Spec
CONSTANTS
    a1 = a1
    a2 = a2
    Actors = {a1}
    LastPage = 2
    MaxBuilds = 2
    MaxRetries = 0
INVARIANTS
    ReadyMeansWhole
CHECK_DEADLOCK FALSE
