---------------------------- MODULE ServerRowLife ----------------------------
(***************************************************************************)
(* What the status column of a server promises however requests overlap:   *)
(* a row is inserted once, as 'installing', never becomes 'installing'     *)
(* again, and once deleted is never written again.                         *)
(***************************************************************************)
CONSTANT Servers
VARIABLE status

Settled == {"running", "stopped", "error", "suspended"}

Init == status = [s \in Servers |-> "unborn"]

Insert(s) ==
    /\ status[s] = "unborn"
    /\ status' = [status EXCEPT ![s] = "installing"]

Change(s) ==
    /\ status[s] \in Settled \cup {"installing"}
    /\ \E st \in Settled : status' = [status EXCEPT ![s] = st]

Remove(s) ==
    /\ status[s] \in Settled \cup {"installing"}
    /\ status' = [status EXCEPT ![s] = "deleted"]

Next == \E s \in Servers : Insert(s) \/ Change(s) \/ Remove(s)

Spec == Init /\ [][Next]_status

=============================================================================
