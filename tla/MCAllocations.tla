---------------------------- MODULE MCAllocations ----------------------------
(* Instances of AllocationProperties for TLC. *)
EXTENDS AllocationProperties, TLC

CONSTANTS r1, r2, s1, s2, a1, a2, a3, far, here, there

\* One allocation, far, is of another node than the rest.
Nodes == [x \in Servers \cup Allocs |-> IF x = far THEN there ELSE here]

Symmetry == Permutations(Requests) \cup Permutations(Servers)
                \cup Permutations(Allocs \ {far})
=============================================================================
