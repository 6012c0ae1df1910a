SPECIFICATION Spec
CONSTANTS
    Clients = {c1, c2}
    Tokens = {k1}
    Ids = {s1, s2}
    NoId = none
    SessionIdle = 1
    ReferenceTTL = 1
    LeaseIdle = 2
    LeaseAbsolute = 3
    MaxTime = 3
SYMMETRY Symmetry
CHECK_DEADLOCK FALSE
INVARIANT SessionsSound
PROPERTY SessionHistory
