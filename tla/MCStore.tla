------------------------------ MODULE MCStore -------------------------------
\* A small instance of WriteQueue, whose appends, syncs and tables may fail.
EXTENDS WriteQueue, TLC
CONSTANTS t1, t2, t3
Symmetry == Permutations(Threads)
=============================================================================
