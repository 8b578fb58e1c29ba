SPECIFICATION DeskSpec
CONSTANTS
    h1 = h1
    h2 = h2
    s1 = s1
    s2 = s2
    a1 = a1
    Conversations = {h1, h2}
    Sends = {s1, s2}
    Arrivals = {a1}
    None = None
    DeltaRows = 1
    MaxClock = 1
    MaxUpsets = 2
    Presses = {q1, q2, q3}
    Emojis = {"", "+"}
    Unpressed = Unpressed
    MaxDisturbances = 2
    LastPage = 2
    Shapes = {1, 2}
    MaxChanges = 1
    MaxActs = 3
    MaxPasses = 1
    Calls = {c1, c2, c3}
    Asks = {i1, i2}
    Nothing = Nothing
    MaxTurns = 2
    x1 = x1
    x2 = x2
    x3 = x3
    e1 = e1
    e2 = e2
    Threads = {x1, x2, x3}
    Found = {x1}
    Filters = {"mine", "unassigned", "closed"}
    PageSize = 2
    MaxToasts = 1
    Deeds = {e1, e2}
    Nobody = Nobody
    Nowhere = Nowhere
    MaxHitches = 3
SYMMETRY DeskSymmetry
INVARIANTS
    DeskTypeOK
    PaneIsHonest
    PressesAreTrue
    
    TemplatesAreSafe
PROPERTIES
    RequestsAreOne
CHECK_DEADLOCK FALSE
