------------------------------ MODULE MCAccess ------------------------------
(* Instances of AccessProperties for TLC. *)
EXTENDS AccessProperties, TLC

CONSTANTS admin, owner, v1, v2, s1, s2, b1, r1, r2

\* The owner has one server, and may be given permissions on the
\* administrator's.
OneEach == (v1 :> owner) @@ (v2 :> admin)

SomeBodies == {{}, {"user.create", "user.update", "backup.delete"}}

SomeOps == {"create_subuser", "update_subuser", "delete_subuser", "create_backup",
            "delete_backup", "toggle_lock", "get_server_stats"}

Symmetry == Permutations(Requests) \cup Permutations(Subs)
=============================================================================
