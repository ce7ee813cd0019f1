CONSTANTS
    NPROC = 3
    END = 1
    NPAGES = 30
    PER = 8
    HOME = 4
    MaxSz = 3
    SPAN = 2
    MAX_THREADS = 2
    CLEARED = 1
    Loads <- SmallLoads
SPECIFICATION Spec
INVARIANTS
    
    
    
    ImageWhole
