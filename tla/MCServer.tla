------------------------------- MODULE MCServer -------------------------------
(* Instances of ServerProperties for TLC. *)
EXTENDS ServerProperties, TLC

CONSTANTS r1, r2, r3, s1, s2

RequestSymmetry == Permutations(Requests)

StatusOps    == {"create", "start", "stop"}
RestartOps   == {"create", "restart", "suspend"}

\* Failures that every handler hears of.
AnsweredHazards == {"refuse", "lost", "exit"}
=============================================================================
