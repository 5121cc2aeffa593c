------------------------------- MODULE MCDestLock -------------------------------
EXTENDS DestLock, TLC

CONSTANTS p1, p2, p3, f1, f2, f3, f4

Procs3 == {p1, p2, p3}
Files4 == {f1, f2, f3, f4}

Symmetry == Permutations(Procs3) \cup Permutations(Files4)
================================================================================
