SPECIFICATION FairSpec
CONSTANTS
    Threads = {t1, t2, t3}
    Supervisor = supervisor
    Reaper = reaper
INVARIANTS IInv TerminalSafety
PROPERTIES Implements CloseCompletes
