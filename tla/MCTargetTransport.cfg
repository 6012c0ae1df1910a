SPECIFICATION FairSpec
CONSTANTS
    MaxStreams = 2
    StaleTicks = 3
    LostTicks = 2
CHECK_DEADLOCK FALSE
INVARIANTS TimersKept ShellInStep
PROPERTY LeaseEnds
