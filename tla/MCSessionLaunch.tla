--------------------------- MODULE MCSessionLaunch ---------------------------
EXTENDS SessionLaunch, TLC

Symmetry == Permutations(Bases)
=============================================================================
