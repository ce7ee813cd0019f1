------------------------------- MODULE MCBlockIO -------------------------------
EXTENDS BlockIO, TLC

CONSTANTS p1, p2, p3, b1, b2, b3, v0, v1

ThreeProcs == {p1, p2, p3}

ThreeBlocks == {b1, b2, b3}
TwoVals == {v0, v1}

Symmetry == Permutations(ThreeProcs) \cup Permutations(ThreeBlocks)
================================================================================
