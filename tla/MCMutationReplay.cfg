SPECIFICATION CommandSpec
CONSTANTS
    Clients = {c1}
    MaxStarts = 2
    MaxCrashes = 1
    Nobody = Nobody
CHECK_DEADLOCK FALSE
INVARIANT MutationNeverReplayable
