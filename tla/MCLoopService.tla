---------------------------- MODULE MCLoopService ----------------------------
EXTENDS LoopService, TLC
Symmetry == Permutations(Loops)
=============================================================================
