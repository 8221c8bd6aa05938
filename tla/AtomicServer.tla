----------------------------- MODULE AtomicServer -----------------------------
(***************************************************************************)
(* The life of a server as its callers imagine it: every operation changes *)
(* the status and the container together, in one step.  This is the        *)
(* transition table of the status-tracking design, with the container      *)
(* beside the status.                                                      *)
(***************************************************************************)
CONSTANT Servers
VARIABLES status, container

Live == {"installing", "running", "stopped", "error", "suspended"}

Init ==
    /\ status = [s \in Servers |-> "unborn"]
    /\ container = [s \in Servers |-> "none"]

Become(s, st, c) ==
    /\ status' = [status EXCEPT ![s] = st]
    /\ container' = [container EXCEPT ![s] = c]

Insert(s) == status[s] = "unborn" /\ Become(s, "installing", "none")

\* The first provision ends the installation; a later one only makes the
\* container anew.
Provision(s) ==
    /\ status[s] \in Live
    /\ container[s] = "none"
    /\ \/ status[s] = "installing" /\ Become(s, "stopped", "stopped")
       \/ Become(s, status[s], "stopped")

InstallFails(s) ==
    /\ status[s] = "installing"
    /\ container[s] = "none"
    /\ Become(s, "deleted", "none")

Start(s) ==
    /\ status[s] \in Live
    /\ container[s] # "none"
    /\ Become(s, "running", "running")

StartFails(s) ==
    /\ status[s] \in Live
    /\ container[s] # "running"
    /\ Become(s, "error", container[s])

Stop(s) ==
    /\ status[s] \in Live
    /\ container[s] # "none"
    /\ Become(s, "stopped", "stopped")

Delete(s) ==
    /\ status[s] \in Live
    /\ container[s] # "running"
    /\ Become(s, "deleted", "none")

Next == \E s \in Servers :
    \/ Insert(s) \/ Provision(s) \/ InstallFails(s)
    \/ Start(s) \/ StartFails(s) \/ Stop(s) \/ Delete(s)

Spec == Init /\ [][Next]_<<status, container>>

=============================================================================
