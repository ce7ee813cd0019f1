CONSTANTS
    p1 = p1
    p2 = p2
    g1 = g1
    Procs <- TwoProcs
    FirstProc = p1
    Pages <- TwoPages
    None = None
    NFILE = 2
    NOFILE = 2
    PIPESIZE = 2
    CtrMod = 4
    Lens = {3}
    MaxBytes = 5
    g2 = g2
    MAX_SOCKET_CAPACITY = 2
    MAX_PORT_BINDINGS = 6
    Byte = 3
    Ports = {1, 5, 6}
    SocketArgs <- ThreeArgs
    Loads <- IoOrCalls
SYMMETRY EitherPage
SPECIFICATION SSpec
CHECK_DEADLOCK FALSE
INVARIANTS
    FifoExact
    PipeLives
    SleepersHaveReason
    SocketsReachable
    FaultNeedsMisuse
