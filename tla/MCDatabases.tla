----------------------------- MODULE MCDatabases -----------------------------
(* Instances of DatabaseProperties for TLC. *)
EXTENDS DatabaseProperties, TLC

CONSTANTS r1, r2, v1, v2, d1, d2, h1, h2, m1, n1, n2, u1, u2, p1, p2

OneMysql == [h \in Hosts |-> m1]

Symmetry == Permutations(Requests) \cup Permutations(Servers) \cup Permutations(Dbs)
                \cup Permutations(Hosts) \cup Permutations(Names)
                \cup Permutations(Users) \cup Permutations(Passwords)
=============================================================================
