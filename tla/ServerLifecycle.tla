--------------------------- MODULE ServerLifecycle ---------------------------
(***************************************************************************)
(* The life of a game server: the row of the panel's `servers` table and   *)
(* the Docker container the node keeps under the same id, driven by        *)
(* concurrent HTTP handlers of crates/panel/src/{servers,settings}.rs and  *)
(* by the power tasks of crates/panel/src/scheduler.rs.                    *)
(*                                                                         *)
(* Every handler is a process that runs one statement or one call between  *)
(* two awaits; no handler holds a transaction or a lock, so any two may    *)
(* interleave at every step.  A request slot holds the server it works on  *)
(* and a program counter: the name of the statement or call it is about to *)
(* make.                                                                   *)
(***************************************************************************)
EXTENDS FiniteSets

CONSTANTS
    Servers,   \* ids the panel may draw for a new server (Uuid::new_v4)
    Requests,  \* slots for handlers in flight
    NoServer,  \* the server of an idle slot
    Ops,       \* the operations the clients and the scheduler issue
    Hazards    \* the failures the environment may cause

AllOps == {"create", "start", "stop", "restart", "delete", "provision",
           "reinstall", "suspend", "unsuspend",
           "schedStart", "schedStop", "schedRestart"}

(***************************************************************************)
(* "unreachable": get_node_client fails before anything is sent.           *)
(* "refuse": the node answers a call with an error and does nothing.       *)
(* "lost": the node obeys, and the answer becomes a transport error.       *)
(* "dberror": a statement of the panel fails.                              *)
(* "abandon": the handler's future is dropped (client gone, panel exit).   *)
(* "exit": the process in the container ends by itself.                    *)
(***************************************************************************)
AllHazards == {"unreachable", "refuse", "lost", "dberror", "abandon", "exit"}

ASSUME ConstantsOK ==
    /\ NoServer \notin Servers
    /\ Ops \subseteq AllOps
    /\ Hazards \subseteq AllHazards

\* Operators named after another with a word added (SetStatusUpsert, ...) are
\* what a plausible slip would make of it.  Nothing uses them; each shows that a
\* property of ServerProperties notices the slip.

VARIABLES
    row,        \* servers.status, or "unborn" / "deleted" when there is no row
    container,  \* the container of that name on the node
    req,        \* the handlers in flight
    disturbed   \* history: servers whose requests overlapped or met a hazard

vars == <<row, container, req, disturbed>>

Live      == {"installing", "running", "stopped", "error", "suspended"}
Statuses  == Live \cup {"unborn", "deleted"}
Container == {"none", "stopped", "running"}

\* The statement or call each handler is about to make.
NodeCalls == {"install", "start", "restartStart", "stop", "restart",
              "delete", "deleteRemove", "provision", "reinstall",
              "schedStart", "schedStop", "schedRestart"}
Late      == {"lateStart", "lateStop", "lateRemove", "lateCreate"}
DbWrites  == {"link", "undo", "finish", "setRunning", "setError",
              "setStopped", "deleteRow", "suspend", "unsuspend"}
PCs       == {"idle"} \cup NodeCalls \cup Late \cup DbWrites

Idle == [srv |-> NoServer, pc |-> "idle"]

TypeOK ==
    /\ row \in [Servers -> Statuses]
    /\ container \in [Servers -> Container]
    /\ req \in [Requests -> [srv : Servers \cup {NoServer}, pc : PCs]]
    /\ disturbed \in SUBSET Servers

Init ==
    /\ row = [s \in Servers |-> "unborn"]
    /\ container = [s \in Servers |-> "none"]
    /\ req = [r \in Requests |-> Idle]
    /\ disturbed = {}

InFlight(s) == {r \in Requests : req[r].srv = s}

Goto(r, pc) == req' = [req EXCEPT ![r].pc = pc]
Finish(r)   == req' = [req EXCEPT ![r] = Idle]
Disturb(s)  == disturbed' = disturbed \cup {s}

-----------------------------------------------------------------------------
(* The node: node/src/docker.rs, called through node_client.rs.            *)

\* What the container must be for Docker to obey, and what it then becomes.
\* Starting a started or stopping a stopped container is a success; a
\* duplicate name, a missing container, and the removal (force = false) of a
\* running container are errors.
Needs == [start  |-> {"stopped", "running"}, stop   |-> {"stopped", "running"},
          remove |-> {"stopped"},            create |-> {"none"}]
Gives == [start  |-> "running", stop   |-> "stopped",
          remove |-> "none",    create |-> "stopped"]

Obeyed(s, c) ==
    /\ container[s] \in Needs[c]
    /\ container' = [container EXCEPT ![s] = Gives[c]]

Refused(s, c) ==
    /\ container[s] \notin Needs[c]
    /\ UNCHANGED container

\* History only: a refusal the handler copes with.  It misleads a handler that
\* ignores errors, and one that answers the refused start of a running
\* container with 'error'.
Harmless(r) ==
    \/ req[r].pc \in {"install", "stop", "provision", "reinstall"}
    \/ /\ req[r].pc \in {"start", "restartStart"}
       /\ container[req[r].srv] # "running"

\* One unary call: the handler goes on at `ok` or at `err` ("idle" ends it).
Call(r, c, ok, err) ==
    LET s == req[r].srv
        then(pc) == IF pc = "idle" THEN Finish(r) ELSE Goto(r, pc)
    IN  /\ UNCHANGED row
        /\ \/ Obeyed(s, c) /\ then(ok) /\ UNCHANGED disturbed
           \/ Refused(s, c) /\ then(err) /\ UNCHANGED disturbed
           \/ /\ "refuse" \in Hazards
              /\ UNCHANGED container
              /\ then(err)
              /\ IF Harmless(r) THEN UNCHANGED disturbed ELSE Disturb(s)
           \/ /\ "lost" \in Hazards
              /\ Obeyed(s, c)
              /\ then(err)
              /\ Disturb(s)

-----------------------------------------------------------------------------
(* Statements on the row.  An UPDATE or DELETE of a row that is gone       *)
(* changes nothing and reports no error.                                   *)

SetStatusUpsert(s, st) == row' = [row EXCEPT ![s] = st]

SetStatus(s, st) ==
    row' = IF row[s] \in Live THEN [row EXCEPT ![s] = st] ELSE row

DeleteRow(s) == SetStatus(s, "deleted")

\* The last statement of a handler; an error is returned or ignored.
LastWrite(r, from, Write(_)) ==
    /\ req[r].pc = from
    /\ Finish(r)
    /\ UNCHANGED container
    /\ \/ Write(req[r].srv) /\ UNCHANGED disturbed
       \/ "dberror" \in Hazards /\ UNCHANGED row /\ Disturb(req[r].srv)

-----------------------------------------------------------------------------
(* create_server                                                           *)

\* INSERT ... 'installing' under a fresh id.
CreateInsert(r, s) ==
    /\ "create" \in Ops
    /\ req[r] = Idle
    /\ row[s] = "unborn"
    /\ row' = [row EXCEPT ![s] = "installing"]
    /\ req' = [req EXCEPT ![r] = [srv |-> s, pc |-> "link"]]
    /\ UNCHANGED <<container, disturbed>>

\* UPDATE allocations ... WHERE server_id IS NULL, when one was asked for;
\* zero rows updated deletes the new row, a failed statement leaves it.
CreateLink(r) ==
    /\ req[r].pc = "link"
    /\ \/ Goto(r, "install")
       \/ Goto(r, "undo")
       \/ "dberror" \in Hazards /\ Finish(r)
    /\ UNCHANGED <<row, container, disturbed>>

CreateProvisionIgnored(r) ==
    /\ req[r].pc = "install"
    /\ Call(r, "create", "finish", "finish")

CreateProvisionUncompensated(r) ==
    /\ req[r].pc = "install"
    /\ Call(r, "create", "finish", "idle")

CreateProvision(r) ==
    /\ req[r].pc = "install"
    /\ Call(r, "create", "finish", "undo")

\* The compensating delete, also the one after a failed link.
CreateUndo(r)   == LastWrite(r, "undo", DeleteRow)
CreateFinish(r) == LastWrite(r, "finish", LAMBDA s : SetStatus(s, "stopped"))

-----------------------------------------------------------------------------
(* Handlers that begin by reading the row.                                 *)

\* fetch_server; the row must exist.  Only start_server looks at the status.
\* The access check of each handler is modelled in module Access.
Begin(r, s, op) ==
    /\ op \in Ops \ {"create"}
    /\ req[r] = Idle
    /\ row[s] \in Live
    /\ op = "start" => row[s] # "suspended"
    /\ req' = [req EXCEPT ![r] = [srv |-> s, pc |-> op]]
    /\ disturbed' =
          IF \/ InFlight(s) # {}
             \/ op \in {"suspend", "schedStart", "schedStop", "schedRestart"}
          THEN disturbed \cup {s}
          ELSE disturbed
    /\ UNCHANGED <<row, container>>

\* get_node_client fails and the handler returns.  In create_server the row
\* stays 'installing': only a failed provision is compensated.
ConnectFails(r) ==
    /\ "unreachable" \in Hazards
    /\ req[r].pc \in NodeCalls \ {"restartStart", "delete", "deleteRemove"}
    /\ Finish(r)
    /\ UNCHANGED <<row, container, disturbed>>

StartCall(r) ==
    /\ req[r].pc \in {"start", "restartStart"}
    /\ Call(r, "start", "setRunning", "setError")
StartOk(r)  == LastWrite(r, "setRunning", LAMBDA s : SetStatus(s, "running"))
StartErr(r) == LastWrite(r, "setError", LAMBDA s : SetStatus(s, "error"))

StopCallIgnored(r) ==
    /\ req[r].pc = "stop"
    /\ Call(r, "stop", "setStopped", "setStopped")

StopCall(r) ==
    /\ req[r].pc = "stop"
    /\ Call(r, "stop", "setStopped", "idle")
StopOk(r) == LastWrite(r, "setStopped", LAMBDA s : SetStatus(s, "stopped"))

\* restart_server ignores the outcome of its stop.
RestartStopRetried(r) ==
    /\ req[r].pc = "restart"
    /\ Call(r, "stop", "restartStart", "restart")

RestartStop(r) ==
    /\ req[r].pc = "restart"
    /\ Call(r, "stop", "restartStart", "restartStart")

\* delete_server ignores the outcome of both calls, and skips them when the
\* node cannot be reached.
DeleteStopOnly(r) ==
    /\ req[r].pc = "delete"
    /\ Call(r, "stop", "deleteRow", "deleteRow")

DeleteStop(r) ==
    /\ req[r].pc = "delete"
    /\ Call(r, "stop", "deleteRemove", "deleteRemove")
DeleteUnreachable(r) ==
    /\ "unreachable" \in Hazards
    /\ req[r].pc = "delete"
    /\ Goto(r, "deleteRow")
    /\ Disturb(req[r].srv)
    /\ UNCHANGED <<row, container>>
DeleteRemoveStrict(r) ==
    /\ req[r].pc = "deleteRemove"
    /\ Call(r, "remove", "deleteRow", "idle")

DeleteRemove(r) ==
    /\ req[r].pc = "deleteRemove"
    /\ Call(r, "remove", "deleteRow", "deleteRow")
DeleteFinish(r) == LastWrite(r, "deleteRow", DeleteRow)

\* provision_server and the task reinstall_server spawns: neither writes the
\* status, before or after.
Provision(r) ==
    /\ req[r].pc \in {"provision", "reinstall"}
    /\ Call(r, "create", "idle", "idle")

\* settings::fetch_server_ports decodes an INTEGER column as text, so the task
\* gives up silently when the server has an allocation.
ReinstallGivesUp(r) ==
    /\ req[r].pc = "reinstall"
    /\ Finish(r)
    /\ UNCHANGED <<row, container, disturbed>>

Suspend(r) == LastWrite(r, "suspend", LAMBDA s : SetStatus(s, "suspended"))

\* UPDATE ... WHERE status = 'suspended'.
Unsuspend(r) ==
    LastWrite(r, "unsuspend",
              LAMBDA s : IF row[s] = "suspended" THEN SetStatus(s, "stopped")
                                                 ELSE UNCHANGED row)

-----------------------------------------------------------------------------
(* scheduler::run_task, action "power": calls the node, writes no status.  *)

SchedPower(r) ==
    \/ req[r].pc = "schedStart"   /\ Call(r, "start", "idle", "idle")
    \/ req[r].pc = "schedStop"    /\ Call(r, "stop", "idle", "idle")
    \/ req[r].pc = "schedRestart" /\ Call(r, "stop", "schedStart", "idle")

-----------------------------------------------------------------------------
(* The environment.                                                        *)

CallOf == [install |-> "lateCreate", provision |-> "lateCreate",
           reinstall |-> "lateCreate",
           start |-> "lateStart", restartStart |-> "lateStart",
           schedStart |-> "lateStart",
           stop |-> "lateStop", restart |-> "lateStop", delete |-> "lateStop",
           schedStop |-> "lateStop", schedRestart |-> "lateStop",
           deleteRemove |-> "lateRemove"]

\* The future is dropped at an await; a call already sent may still be obeyed.
Abandon(r) ==
    /\ "abandon" \in Hazards
    /\ req[r].pc \notin {"idle"} \cup Late
    /\ \/ Finish(r)
       \/ req[r].pc \in NodeCalls /\ Goto(r, CallOf[req[r].pc])
    /\ Disturb(req[r].srv)
    /\ UNCHANGED <<row, container>>

LateEffect(r) ==
    /\ \E c \in {<<"lateStart", "start">>, <<"lateStop", "stop">>,
                 <<"lateRemove", "remove">>, <<"lateCreate", "create">>} :
          /\ req[r].pc = c[1]
          /\ Obeyed(req[r].srv, c[2]) \/ Refused(req[r].srv, c[2])
    /\ Finish(r)
    /\ UNCHANGED <<row, disturbed>>

ContainerExits(s) ==
    /\ "exit" \in Hazards
    /\ container[s] = "running"
    /\ container' = [container EXCEPT ![s] = "stopped"]
    /\ Disturb(s)
    /\ UNCHANGED <<row, req>>

-----------------------------------------------------------------------------
Step(r) ==
    \/ CreateLink(r) \/ CreateProvision(r) \/ CreateUndo(r) \/ CreateFinish(r)
    \/ StartCall(r) \/ StartOk(r) \/ StartErr(r)
    \/ StopCall(r) \/ StopOk(r) \/ RestartStop(r)
    \/ DeleteStop(r) \/ DeleteRemove(r) \/ DeleteFinish(r)
    \/ Provision(r) \/ Suspend(r) \/ Unsuspend(r)
    \/ SchedPower(r) \/ LateEffect(r)

Next ==
    \/ \E r \in Requests, s \in Servers :
          CreateInsert(r, s) \/ \E op \in AllOps : Begin(r, s, op)
    \/ \E r \in Requests :
          \/ Step(r) \/ ConnectFails(r) \/ DeleteUnreachable(r)
          \/ ReinstallGivesUp(r) \/ Abandon(r)
    \/ \E s \in Servers : ContainerExits(s)

Spec == Init /\ [][Next]_vars

\* tokio polls every handler whose reply or statement has completed, and every
\* call is answered: Docker bounds a stop by its 10 s timeout, and an error
\* ends a call whose node died.  No client is obliged to send a request.
Fairness == \A r \in Requests : WF_vars(Step(r))
FairSpec == Spec /\ Fairness

=============================================================================
