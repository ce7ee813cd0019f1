CONSTANTS
    p1 = p1
    p2 = p2
    Procs <- TwoProcs
    None = None
    NINODES = 5
    NINODE = 4
    NBLOCKS = 7
    NDIRECT = 1
    NINDIRECT = 1
    BSIZE = 3
    NOFILE = 1
    Calls <- SmallCalls
    MaxCalls = 4
    Files <- TwoFiles
    FirstCalls = 2
SPECIFICATION Spec
INVARIANTS
    TreeConsistent
    BlocksOwned
    NoPanic
    IputNeverBlocks
