SPECIFICATION Spec
CONSTANTS
    RecordHeaderLen = 1
    RecordDataMax = 2
    RecordLimit = 8
    ByteLimit = 17
    FinishedLen = 1
    HeartbeatLen = 2
    CloseLen = 1
    FirstOpenBytes = 1
    RequestBytes = 3
    ResponseBytes = 5
    PayloadSizes = {0, 1, 3, 5, 6}
    SafeGeneration = 2
    Generations = {0, 1, 2}
    Bindings = {b1, b2}
    Keys = {k1, k2}
    Counters = {0, 1, 2, 3, 4, 6}
    LeaseGenerations = {0, 1, 2, 3}
    LeaseEpochs = {1, 2}
    SafeInteger = 2
    Streams <- ByteStreams
    MaxChunk = 4
    Deadlines = {2, 4, 6}
    IncompleteOuterMs = 2
    MaxNow = 6
    MaxReads = 4
    CommandDeadlines = {0, 2, 4, 9}
    SessionTotalMs = 4
    SessionConnectMs = 1
    SessionHandshakeMs = 1
    SessionOpenResponseMs = 2
    CleanupMs = 2
    RequestFrames = 2
    ResponseFrames = 2
    LastTime = 7
    Threads = {a, b}
    Tags = {"bytes", "connect", "eligibility", "lease", "internal", "timer"}
    TimerTokens = {1}
    MaxCreates = 2
    MaxCalls = 4
    LastGeneration = 9
    NoEntry = NoEntry
CHECK_DEADLOCK FALSE
INVARIANTS RecordsHonest FramesExact RawOperationsHonest HandlesExact
PROPERTIES LatchedTerminalWins ReadsEnd
