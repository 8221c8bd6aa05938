------------------------------- MODULE MCNode -------------------------------
EXTENDS NodeLogProperties, TLC
CONSTANTS p, q, a, b, c1, c2, s1
SomeUploads == {<<a, b>>}
Symmetry == Permutations(Calls) \cup Permutations(Paths)
=============================================================================
