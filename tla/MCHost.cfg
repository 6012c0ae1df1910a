SPECIFICATION HostSpec
CONSTANTS
    Launches = {l1, l2}
    SimTargets = {t1}
    SimPorts = {1, 2}
    Pids = {1}
    MaxSimStarts = 2
    MaxMeddling = 1
    NoLaunchOwner = NoLaunchOwner
    AdbLaunches = {a1, a2}
    AdbPorts = {1, 2}
    MaxEdits = 2
    NoLaunch = NoLaunch
    OutputCap = 1
    MaxOutput = 2
    MaxWrites = 3
    MaxEntries = 4
    EntryLimit = 3
    DepthLimit = 4
    MaxRecords = 10
    PlistDepth = 3
    PlistNodes = 6
    MaxTokens = 12
    Processes = {p1, p2}
    Instances = {1, 2}
    MaxBinds = 4
    Free = Free
    LenUnits = 2
    OpUnits = 4
    WindowUnits = 5
    SmallCap = 4
    OpenCap = 5
    ExchangeCap = 6
    CapabilityIds = {1, 2, 3}
    CapabilityLimit = 2
    CborDepth = 2
    CborTokens = 5
    Clients = {c1}
    MaxStarts = 2
    MaxCrashes = 1
    Nobody = Nobody
SYMMETRY Symmetry
CHECK_DEADLOCK FALSE
INVARIANTS AdaptersRollBack ToolRunHonest InputsReadWhole OneInstance ControlExact ShutdownInOrder CliHonest
