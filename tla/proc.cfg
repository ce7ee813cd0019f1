CONSTANTS
    Slots <- SmallTable
    initproc = 1
    None = None
    MAX_THREADS = 2
    CLEARED = 1
    Loads <- SmallLoads
SPECIFICATION FairSpec
INVARIANTS
    CpuMatchesState
    ParentCanWait
PROPERTIES
    WaitReturns
CHECK_DEADLOCK FALSE
