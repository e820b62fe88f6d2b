---------------------------- MODULE MCFdManager ----------------------------
EXTENDS FdManager, TLC
CONSTANTS t1, t2, t3, p1, p2, e1, e2, e3
Perms == Permutations(Threads) \cup Permutations(Paths) \cup Permutations(Entities)
=============================================================================
