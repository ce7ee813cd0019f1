--------------------------------- MODULE MCLog ---------------------------------
EXTENDS Log

CONSTANTS p1, p2, b1, b2, b3, v0, v1

TwoProcs == {p1, p2}
TwoBlocks == {b1, b2}
ThreeBlocks == {b1, b2, b3}
TwoVals == {v0, v1}
================================================================================
