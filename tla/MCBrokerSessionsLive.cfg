SPECIFICATION FairSpec
CONSTANTS
    Clients = {c1, c2}
    Tokens = {k1}
    Ids = {s1}
    NoId = none
    SessionIdle = 1
    ReferenceTTL = 1
    LeaseIdle = 1
    LeaseAbsolute = 2
    MaxTime = 2
CHECK_DEADLOCK FALSE
PROPERTY ServedToTheEnd
