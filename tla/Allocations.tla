------------------------------ MODULE Allocations ------------------------------
(***************************************************************************)
(* The network allocations of a panel: the table `allocations` with its    *)
(* nullable column server_id (here owner), and the column allocation_id of *)
(* `servers` (here primary), written by concurrent handlers of             *)
(* crates/panel/src/{servers,allocations}.rs.                              *)
(*                                                                         *)
(* Every handler is a list of single statements with an await after each,  *)
(* and what an earlier statement read decides whether a later one is made. *)
(* A slot holds the server and the allocation the request names and the    *)
(* statement to be made next.                                              *)
(***************************************************************************)
EXTENDS Naturals, FiniteSets

CONSTANTS
    Servers,   \* ids of servers
    Allocs,    \* ids of allocations; each stands for one (node, ip, port)
    Requests,  \* slots for handlers in flight
    NoServer,  \* NULL in owner, and the server of a slot that names none
    NoAlloc,   \* NULL in primary, and the allocation of a slot that names none
    NodeOf,    \* the node_id of every server and allocation
    Limit,     \* servers.allocation_limit; no handler writes it
    MayFail    \* whether a statement may fail or a handler be dropped

ASSUME ConstantsOK ==
    /\ IsFiniteSet(Allocs) /\ IsFiniteSet(Requests)
    /\ NoServer \notin Servers /\ NoAlloc \notin Allocs
    /\ Limit \in Nat \ {0}
    /\ MayFail \in BOOLEAN

\* Operators named after another with a word added (MayRemoveAny, ...) are what
\* a plausible slip would make of it.  Nothing uses them; each shows that a
\* property of AllocationProperties notices the slip.

VARIABLES
    server,    \* is there a row of this id in `servers`?
    alloc,     \* is there a row of this id in `allocations`?
    owner,     \* allocations.server_id, no foreign key
    primary,   \* servers.allocation_id, a foreign key
    req,       \* the handlers in flight
    disturbed  \* history: servers whose requests overlapped another's

vars == <<server, alloc, owner, primary, req, disturbed>>

Row == {"unborn", "live", "deleted"}
PCs == {"idle", "link", "setFirst", "provision", "undo", "deleteServer",
        "count", "check", "assign", "remove", "verify", "makePrimary",
        "deleteAlloc"}

Idle == [srv |-> NoServer, alloc |-> NoAlloc, pc |-> "idle"]

TypeOK ==
    /\ server \in [Servers -> Row]
    /\ alloc \in [Allocs -> Row]
    /\ owner \in [Allocs -> Servers \cup {NoServer}]
    /\ primary \in [Servers -> Allocs \cup {NoAlloc}]
    /\ req \in [Requests -> [srv : Servers \cup {NoServer},
                             alloc : Allocs \cup {NoAlloc}, pc : PCs]]
    /\ disturbed \in SUBSET Servers

Init ==
    /\ server = [s \in Servers |-> "unborn"]
    /\ alloc = [a \in Allocs |-> "unborn"]
    /\ owner = [a \in Allocs |-> NoServer]
    /\ primary = [s \in Servers |-> NoAlloc]
    /\ req = [r \in Requests |-> Idle]
    /\ disturbed = {}

Owned(s) == {a \in Allocs : alloc[a] = "live" /\ owner[a] = s}

Goto(r, pc) == req' = [req EXCEPT ![r].pc = pc]
Finish(r)   == req' = [req EXCEPT ![r] = Idle]

\* A handler for s (or none) that names a starts beside those that name either.
Overlapped(s, a) ==
    LET beside == {q \in Requests : \/ req[q].srv = s
                                    \/ req[q].alloc = a /\ a # NoAlloc}
    IN  IF beside = {} THEN {}
        ELSE Servers \cap ({s} \cup {req[q].srv : q \in beside})

Admit(r, s, a, pc) ==
    /\ req[r] = Idle
    /\ req' = [req EXCEPT ![r] = [srv |-> s, alloc |-> a, pc |-> pc]]
    /\ disturbed' = disturbed \cup Overlapped(s, a)

-----------------------------------------------------------------------------
(* The statements.                                                         *)

\* DELETE FROM servers: allocations.server_id has no foreign key, so whatever
\* the server owned still names it.
DeleteServerRow(s) ==
    /\ server' = [server EXCEPT ![s] = "deleted"]
    /\ primary' = [primary EXCEPT ![s] = NoAlloc]
    /\ UNCHANGED <<alloc, owner, disturbed>>

\* UPDATE servers SET allocation_id: the foreign key wants the allocation.
SetPrimary(s, a) ==
    /\ server[s] = "live" => alloc[a] = "live"
    /\ primary' = IF server[s] = "live" THEN [primary EXCEPT ![s] = a]
                                        ELSE primary
    /\ UNCHANGED <<server, alloc, owner, disturbed>>

\* UPDATE allocations SET server_id; nothing happens to a row that is gone.
SetOwner(a, s) ==
    /\ owner' = IF alloc[a] = "live" THEN [owner EXCEPT ![a] = s] ELSE owner
    /\ UNCHANGED <<server, alloc, primary, disturbed>>

-----------------------------------------------------------------------------
(* create_server, as far as allocations go.                                *)

\* INSERT INTO servers; the request may name an allocation, existing or not.
CreateInsert(r, s, a) ==
    /\ server[s] = "unborn"
    /\ server' = [server EXCEPT ![s] = "live"]
    /\ Admit(r, s, a, IF a = NoAlloc THEN "provision" ELSE "link")
    /\ UNCHANGED <<alloc, owner, primary>>

\* UPDATE ... WHERE id AND node_id AND server_id IS NULL; no row: undo.
CreateLink(r) ==
    LET s == req[r].srv
        a == req[r].alloc
    IN  /\ req[r].pc = "link"
        /\ IF alloc[a] = "live" /\ NodeOf[a] = NodeOf[s] /\ owner[a] = NoServer
           THEN SetOwner(a, s) /\ Goto(r, "setFirst")
           ELSE Goto(r, "undo") /\ UNCHANGED <<server, alloc, owner, primary, disturbed>>

CreateSetPrimary(r) ==
    /\ req[r].pc = "setFirst"
    /\ SetPrimary(req[r].srv, req[r].alloc)
    /\ Goto(r, "provision")

\* The node provisions the container, or fails and the row is deleted.
CreateProvision(r) ==
    /\ req[r].pc = "provision"
    /\ Finish(r) \/ Goto(r, "undo")
    /\ UNCHANGED <<server, alloc, owner, primary, disturbed>>

CreateUndo(r) ==
    /\ req[r].pc = "undo"
    /\ DeleteServerRow(req[r].srv)
    /\ Finish(r)

-----------------------------------------------------------------------------
(* Handlers that begin with fetch_server.                                  *)

MayRemoveAny(s, a) == TRUE

\* remove_allocation compares the primary it reads here, not at its UPDATE.
MayRemove(s, a) == a # primary[s]

Begin(r, s, a) ==
    /\ server[s] = "live"
    /\ \/ Admit(r, s, a, "count")
       \/ MayRemove(s, a) /\ Admit(r, s, a, "remove")
       \/ Admit(r, s, a, "verify")
       \/ Admit(r, s, NoAlloc, "deleteServer")
    /\ UNCHANGED <<server, alloc, owner, primary>>

DeleteServer(r) ==
    /\ req[r].pc = "deleteServer"
    /\ DeleteServerRow(req[r].srv)
    /\ Finish(r)

AssignCountAbove(r) ==
    /\ req[r].pc = "count"
    /\ IF Cardinality(Owned(req[r].srv)) > Limit THEN Finish(r)
                                                 ELSE Goto(r, "check")
    /\ UNCHANGED <<server, alloc, owner, primary, disturbed>>

AssignCount(r) ==
    /\ req[r].pc = "count"
    /\ IF Cardinality(Owned(req[r].srv)) >= Limit THEN Finish(r)
                                                  ELSE Goto(r, "check")
    /\ UNCHANGED <<server, alloc, owner, primary, disturbed>>

AssignCheckAnywhere(r) ==
    LET a == req[r].alloc
    IN  /\ req[r].pc = "check"
        /\ IF alloc[a] = "live" /\ owner[a] = NoServer THEN Goto(r, "assign")
                                                       ELSE Finish(r)
        /\ UNCHANGED <<server, alloc, owner, primary, disturbed>>

AssignCheck(r) ==
    LET s == req[r].srv
        a == req[r].alloc
    IN  /\ req[r].pc = "check"
        /\ IF alloc[a] = "live" /\ NodeOf[a] = NodeOf[s] /\ owner[a] = NoServer
           THEN Goto(r, "assign")
           ELSE Finish(r)
        /\ UNCHANGED <<server, alloc, owner, primary, disturbed>>

\* UPDATE allocations SET server_id = $1 WHERE id = $2: unconditional.
AssignWrite(r) ==
    /\ req[r].pc = "assign"
    /\ SetOwner(req[r].alloc, req[r].srv)
    /\ Finish(r)

\* UPDATE ... SET server_id = NULL WHERE id AND server_id.
Remove(r) ==
    LET s == req[r].srv
        a == req[r].alloc
    IN  /\ req[r].pc = "remove"
        /\ IF owner[a] = s THEN SetOwner(a, NoServer)
           ELSE UNCHANGED <<server, alloc, owner, primary, disturbed>>
        /\ Finish(r)

PrimaryVerifyExists(r) ==
    /\ req[r].pc = "verify"
    /\ IF alloc[req[r].alloc] = "live" THEN Goto(r, "makePrimary") ELSE Finish(r)
    /\ UNCHANGED <<server, alloc, owner, primary, disturbed>>

PrimaryVerify(r) ==
    LET s == req[r].srv
        a == req[r].alloc
    IN  /\ req[r].pc = "verify"
        /\ IF a \in Owned(s) THEN Goto(r, "makePrimary") ELSE Finish(r)
        /\ UNCHANGED <<server, alloc, owner, primary, disturbed>>

PrimaryWrite(r) ==
    /\ req[r].pc = "makePrimary"
    /\ SetPrimary(req[r].srv, req[r].alloc)
    /\ Finish(r)

-----------------------------------------------------------------------------
(* allocations.rs.                                                         *)

\* One INSERT of create_allocations, of an address that is not in the table
\* (ON CONFLICT DO NOTHING).  The batch is a loop of them: it keeps nothing
\* between two, and an error ends it where it is.
InsertAlloc(a) ==
    /\ alloc[a] = "unborn"
    /\ alloc' = [alloc EXCEPT ![a] = "live"]
    /\ UNCHANGED <<server, owner, primary, req, disturbed>>

\* delete_allocation: a SELECT finds the row unassigned ...
DeleteAllocCheck(r, a) ==
    /\ alloc[a] = "live"
    /\ owner[a] = NoServer
    /\ Admit(r, NoServer, a, "deleteAlloc")
    /\ UNCHANGED <<server, alloc, owner, primary>>

\* ... and the DELETE no longer asks; servers.allocation_id may forbid it.
DeleteAlloc(r) ==
    LET a == req[r].alloc
    IN  /\ req[r].pc = "deleteAlloc"
        /\ IF \E s \in Servers : primary[s] = a
           THEN UNCHANGED <<alloc, owner>>
           ELSE /\ alloc' = [alloc EXCEPT ![a] = "deleted"]
                /\ owner' = [owner EXCEPT ![a] = NoServer]
        /\ Finish(r)
        /\ UNCHANGED <<server, primary, disturbed>>

-----------------------------------------------------------------------------
\* A statement fails (also on a foreign key), the connection to the node does,
\* or the handler is dropped: it ends here.
Stops(r) ==
    /\ req[r].pc # "idle"
    /\ \/ MayFail
       \/ /\ req[r].pc \in {"setFirst", "makePrimary"}
          /\ server[req[r].srv] = "live" /\ alloc[req[r].alloc] # "live"
    /\ Finish(r)
    /\ UNCHANGED <<server, alloc, owner, primary, disturbed>>

Step(r) ==
    \/ CreateLink(r) \/ CreateSetPrimary(r) \/ CreateProvision(r)
    \/ CreateUndo(r) \/ DeleteServer(r)
    \/ AssignCount(r) \/ AssignCheck(r) \/ AssignWrite(r)
    \/ Remove(r) \/ PrimaryVerify(r) \/ PrimaryWrite(r)
    \/ DeleteAlloc(r) \/ Stops(r)

Next ==
    \/ \E r \in Requests :
          \/ Step(r)
          \/ \E s \in Servers :
                \/ \E a \in Allocs \cup {NoAlloc} : CreateInsert(r, s, a)
                \/ \E a \in Allocs : Begin(r, s, a)
          \/ \E a \in Allocs : DeleteAllocCheck(r, a)
    \/ \E a \in Allocs : InsertAlloc(a)

Spec == Init /\ [][Next]_vars

=============================================================================
