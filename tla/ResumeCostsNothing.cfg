SPECIFICATION StudioSpec
CONSTANTS
    a = a
    b = b
    h1 = h1
    h2 = h2
    Phones = {a, b}
    NoPhone = NoPhone
    Contacts <- MCContacts
    Blocked = {b}
    PersonCount = 3
    PageSize = 2
    Hands = {h1, h2}
    MaxBuildAsks = 1
    MaxThrows = 1
    MaxEdits = 0
    BuildPages = 2
    MaxStrokes = 2
    MaxBreaks = 1
    MaxSamples = 2
    MaxOpens = 2
SYMMETRY StudioSymmetry
INVARIANTS
    ResumeCostsNothing
CHECK_DEADLOCK FALSE
