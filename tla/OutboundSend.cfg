SPECIFICATION FairSendingSpec
CONSTANTS
    Messages = {m1}
    Workers = {w1, w2}
    NoMessage = NoMessage
    MaxSendAttempts = 1
    SweepLimit = 1
    MaxRedeliveries = 1
    MaxSweepAborts = 1
    Pacers = {p1, p2}
    Ceiling = 4
    Share = 4
    Second = 6
    LaneMinimum = 5
    MaxBatch = 2
    MaxCursor = 2
    MaxClock = 1
    MaxCeiling = 20
    Campaigns = {c1, c2, c3}
    PerTick = 2
    RollupPage = 2
    MaxSteers = 1
    Audience = {u1, u2}
    Allowance = 1
    ClaimSize = 1
    Days = 2
    MaxLapses = 1
INVARIANTS
    TypeOK
    SecondCopyHasACause
    DeliveredFailureHasACause
    RequeuedAtMostOnce
    AttemptsBounded
    SendingTypeOK
    AllowancesAreKept
PROPERTIES
    NothingInLimbo
    NobodyWaitsForEver
CHECK_DEADLOCK FALSE
