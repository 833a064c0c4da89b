------------------------- MODULE MCClientRequests -------------------------
EXTENDS ClientRequests, TLC

Symmetry == Permutations(Request)
============================================================================
