-------------------------- MODULE MCCommandQueue --------------------------
EXTENDS CommandQueue, TLC

ClientSymmetry == Permutations(Clients)
=============================================================================
