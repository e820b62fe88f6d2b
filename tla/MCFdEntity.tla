---------------------------- MODULE MCFdEntity ----------------------------
EXTENDS FdEntity, TLC
CONSTANT f1, f2
Perms == Permutations(Fds)
=============================================================================
