CONSTANTS
    p1 = p1
    p2 = p2
    b1 = b1
    b2 = b2
    b3 = b3
    v0 = v0
    v1 = v1
    Procs <- TwoProcs
    InitProc = p1
    Blocks <- TwoBlocks
    Vals <- TwoVals
    InitVal = v0
    NoData = NoData
    LOGSIZE = 4
    SIZE = 3
    MAXOPBLOCKS = 2
SPECIFICATION FairSpec
INVARIANTS
    LogNeverOverflows
PROPERTIES
    ImplementsAtomicDisk
    SleeperWakes
