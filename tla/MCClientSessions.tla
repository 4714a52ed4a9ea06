---------------------------- MODULE MCClientSessions ----------------------------
EXTENDS ClientSessions, TLC
Symmetry == Permutations(Requests)
=============================================================================
