----------------------------- MODULE MCSessions -----------------------------
EXTENDS SessionProperties, TLC
CONSTANTS a, u, n, s, t1, t2
Symmetry == Permutations(Tabs)
=============================================================================
