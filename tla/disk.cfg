CONSTANTS
    p1 = p1
    p2 = p2
    p3 = p3
    b1 = b1
    b2 = b2
    b3 = b3
    v0 = v0
    v1 = v1
    Procs <- ThreeProcs
    Nobody = Nobody
    Blocks <- ThreeBlocks
    NoBlock = NoBlock
    Vals <- TwoVals
    InitVal = v0
    NBUF = 2
    NUM = {3, 5, 6}
    MaxReads = 4
SPECIFICATION Spec
SYMMETRY Symmetry
INVARIANTS
    BreadReturnsBlock
    NoLostWakeup
