------------------------------ MODULE MCReader ------------------------------
EXTENDS Reader, TLC

CONSTANTS p1, t1, t2

Symmetry == Permutations(Tabs)
=============================================================================
