--------------------------- MODULE ServerProperties ---------------------------
(***************************************************************************)
(* What is claimed of ServerLifecycle: the inductive invariant behind the  *)
(* agreement of status and container, the two abstract specifications it   *)
(* implements, and the liveness of its handlers.                           *)
(***************************************************************************)
EXTENDS ServerLifecycle

\* Status and container tell the same story.
Agree(s) ==
    /\ row[s] \in {"unborn", "deleted"}   => container[s] = "none"
    /\ row[s] \in {"installing", "error"} => container[s] # "running"
    /\ row[s] = "stopped"                 => container[s] = "stopped"
    /\ row[s] = "running"                 => container[s] = "running"
    /\ row[s] # "suspended"

\* Once its handlers have ended, a server that met no overlap, no hazard, no
\* suspension and no scheduled power task has the status its container
\* deserves, however many handlers of however many kinds ran before
\* (servers.rs:233-470, settings.rs:58-178).
StatusTold ==
    \A s \in Servers \ disturbed : InFlight(s) = {} => Agree(s)

\* At most one handler works on a server that was never disturbed.
OneHandler ==
    \A r1, r2 \in Requests :
        /\ req[r1].srv = req[r2].srv
        /\ req[r1].srv \in Servers \ disturbed
        => r1 = r2

\* What is true of an undisturbed server in the middle of its handler.
Installing == {"link", "install", "undo", "finish"}
Untouched  == {"start", "stop", "restart", "delete", "provision", "reinstall",
               "unsuspend"}
Deciding   == {"setRunning", "setError", "setStopped", "restartStart",
               "deleteRemove", "deleteRow"}

Halfway(r) ==
    LET s  == req[r].srv
        pc == req[r].pc
    IN  /\ pc \in Installing \cup Untouched \cup Deciding
        /\ pc \in Installing => row[s] = "installing"
        /\ pc \in Untouched \cup Deciding => row[s] \in Live
        /\ pc \in Untouched => Agree(s)
        /\ pc \in {"link", "install", "undo", "deleteRow"} => container[s] = "none"
        /\ pc \in {"finish", "setStopped"} => container[s] = "stopped"
        /\ pc = "setRunning" => container[s] = "running"
        /\ pc \in {"setError", "restartStart", "deleteRemove"} =>
               container[s] # "running"

\* An idle slot has no server, a busy one has.
Slots == \A r \in Requests : (req[r].srv = NoServer) <=> (req[r].pc = "idle")

\* No handler works on a row that was never inserted, and no container is
\* made for one.
Inserted ==
    \A s \in Servers : row[s] = "unborn" =>
        container[s] = "none" /\ InFlight(s) = {} /\ s \notin disturbed

\* The strengthening of StatusTold that every step preserves.
IInv ==
    /\ TypeOK
    /\ Slots
    /\ Inserted
    /\ OneHandler
    /\ \A r \in Requests : req[r].srv \in Servers \ disturbed => Halfway(r)
    /\ StatusTold

-----------------------------------------------------------------------------
\* Whatever overlaps and fails, a deleted row is never written again and no
\* row returns to 'installing' (every UPDATE names the id it read earlier).
RowLife == INSTANCE ServerRowLife WITH status <- row
RowLifeSpec == RowLife!Spec

\* A handler of s is about to do one of pcs.
At(s, pcs) == \E r \in InFlight(s) : req[r].pc \in pcs

\* The call that decides an operation is the moment it takes effect: the
\* status an undisturbed server is about to get.
Decided(s) ==
    IF At(s, {"setRunning"})                THEN "running"
    ELSE IF At(s, {"setError"})             THEN "error"
    ELSE IF At(s, {"setStopped", "finish"}) THEN "stopped"
    ELSE IF At(s, {"deleteRow", "undo"})    THEN "deleted"
    ELSE IF /\ At(s, {"restartStart", "deleteRemove"})
            /\ container[s] = "stopped"     THEN "stopped"
    ELSE row[s]

Atomic == INSTANCE AtomicServer
              WITH status <- [s \in Servers |-> Decided(s)]

AtomicVars == <<[s \in Servers |-> Decided(s)], container>>

\* As long as nothing disturbs a server, the panel implements the atomic life.
AtomicSpec ==
    /\ Atomic!Init
    /\ [][disturbed = {} /\ disturbed' = {} => Atomic!Next]_AtomicVars

-----------------------------------------------------------------------------
\* Every handler comes to its end, whatever the others do meanwhile.
EveryRequestEnds ==
    \A r \in Requests : req[r].pc # "idle" ~> req[r].pc = "idle"

\* A server does not stay 'installing': the installation ends or its row is
\* deleted (create_server, the transition table of the status design).
InstallEnds ==
    \A s \in Servers : row[s] = "installing" ~> row[s] # "installing"

\* A delete that was admitted removes the row, whatever the node answers.
DeleteRemovesRow ==
    \A s \in Servers :
        (\E r \in InFlight(s) : req[r].pc \in {"delete", "deleteRemove"})
            ~> row[s] = "deleted"

-----------------------------------------------------------------------------
(* What the design documents say and the code does not do.                 *)

\* "os clientes conseguem saber o estado real de cada servidor": with nobody
\* working on a server, 'running' and 'stopped' say what its container does.
RealState ==
    \A s \in Servers : InFlight(s) = {} =>
        /\ row[s] = "running" => container[s] = "running"
        /\ row[s] = "stopped" => container[s] # "running"

=============================================================================
