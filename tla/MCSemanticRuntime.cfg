SPECIFICATION Spec
CONSTANTS
    Platforms = {"ios", "android"}
    Runtimes = {a, b}
    Requests = {r1, r2}
    Mixed = {r1}
    MaxCalls = 2
    MaxSessions = 2
    MaxCursors = 2
    Items = 2
    PageItems = 1
    MaxResponse = 3
    PageBase = 1
    None = None
SYMMETRY Symmetry
CHECK_DEADLOCK FALSE
INVARIANTS OneWriter RetryProof CursorsLive NoStaleReply
