---------------------------- MODULE MCTwoLockQueue ----------------------------
EXTENDS TwoLockQueue, TLC

Symmetry == Permutations(Threads) \cup Permutations(Nodes)
=============================================================================
