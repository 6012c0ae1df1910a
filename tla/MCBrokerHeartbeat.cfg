SPECIFICATION FairSpec
CONSTANTS
    Preparers = {p1, p2}
    Keeper = keeper
    Nobody = nobody
    Interval = 2
    MissLimit = 3
    MaxWait = 1
    MaxTime = 4
    MaxCounter = 2
CHECK_DEADLOCK FALSE
INVARIANT LinkInStep
PROPERTY CallsReturn
