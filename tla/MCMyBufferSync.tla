---------------------------- MODULE MCMyBufferSync ----------------------------
EXTENDS MyBufferSync, TLC

Symmetry == Permutations(Threads)
=============================================================================
