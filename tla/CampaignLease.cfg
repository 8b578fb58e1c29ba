SPECIFICATION FairSpec
CONSTANTS
    r1 = r1
    r2 = r2
    t1 = t1
    t2 = t2
    Recipients = {r1}
    Ticks <- MCTicks
    None = None
    BatchSize = 1
    PageSize = 1
    MaxPasses = 1
    MaxFaults = 1
PROPERTIES
    EveryoneIsReached
CHECK_DEADLOCK FALSE
