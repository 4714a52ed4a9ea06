---------------------------- MODULE MCAgentStorage ----------------------------
EXTENDS AgentStorage, TLC
CallerSymmetry == Permutations(Callers)
=============================================================================
