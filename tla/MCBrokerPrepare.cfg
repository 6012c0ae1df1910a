SPECIFICATION FairSpec
CONSTANTS
    Preparers = {p1, p2}
    Digests = {d1, d2}
    NoDigest = none
INVARIANTS LaunchesInOrder NothingForgotten
PROPERTIES CleanedOnce EveryCallReturns
