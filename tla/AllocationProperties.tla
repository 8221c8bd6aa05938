------------------------- MODULE AllocationProperties -------------------------
(***************************************************************************)
(* What is claimed of Allocations.                                         *)
(***************************************************************************)
EXTENDS Allocations

\* The handlers that may still give s an allocation it does not count yet.
Adding(s) ==
    {r \in Requests : req[r].srv = s /\ req[r].pc \in {"link", "check", "assign"}}

\* assign_allocation counts and writes in separate statements, so requests in
\* flight together may pass the limit, but never by more than the others there
\* are (servers.rs:589-620).  With one request at a time the limit is kept.
LimitOvershoot ==
    \A s \in Servers :
        Cardinality(Owned(s)) <= Limit + Cardinality(Requests) - 1

\* Its strengthening: who may still add is counted with what was added.
LimitBudget ==
    \A s \in Servers :
        Cardinality(Owned(s)) + Cardinality(Adding(s))
            <= Limit + Cardinality(Requests) - 1

\* A server owns, and has as its primary, addresses of its own node only
\* (servers.rs:281-298, 606-620): create_server tests the node in the UPDATE,
\* assign_allocation one statement earlier, make_allocation_primary not at all.
SameNode ==
    /\ \A s \in Servers, a \in Allocs : a \in Owned(s) => NodeOf[a] = NodeOf[s]
    /\ \A s \in Servers : primary[s] # NoAlloc => NodeOf[primary[s]] = NodeOf[s]

\* A server whose requests never overlapped another's owns its primary, and is
\* within its limit, in every state: between the statements of a handler, and
\* wherever one stops half-way.
PrimaryOwned ==
    \A s \in Servers \ disturbed : primary[s] # NoAlloc => owner[primary[s]] = s

LimitKept ==
    \A s \in Servers \ disturbed : Cardinality(Owned(s)) <= Limit

Kept == PrimaryOwned /\ LimitKept

-----------------------------------------------------------------------------
(* The inductive invariant behind Kept.                                    *)

Busy(s) == {r \in Requests : req[r].srv = s}

\* One handler works for an undisturbed server, and nobody else names what it
\* names.
Alone ==
    \A q, r \in Requests :
        /\ req[r].srv \in Servers \ disturbed
        /\ \/ req[q].srv = req[r].srv
           \/ req[q].alloc = req[r].alloc /\ req[r].alloc # NoAlloc
        => q = r

\* What an idle slot, a create or delete and the others name.
Slots ==
    \A r \in Requests :
        /\ (req[r].pc = "idle") <=> (req[r] = Idle)
        /\ req[r].pc = "deleteAlloc" => req[r].srv = NoServer
        /\ req[r].pc \notin {"idle", "deleteAlloc"} => req[r].srv \in Servers
        /\ req[r].pc \notin {"idle", "provision", "undo", "deleteServer"} =>
               req[r].alloc \in Allocs

\* Past its test of the node, a handler names an allocation of that node.
Located ==
    \A r \in Requests : req[r].pc \in {"assign", "setFirst", "makePrimary"} =>
        NodeOf[req[r].alloc] = NodeOf[req[r].srv]

\* A row that is not there has no columns.
NoGhosts ==
    /\ \A s \in Servers : server[s] # "live" => primary[s] = NoAlloc
    /\ \A s \in Servers : server[s] = "unborn" =>
           /\ Busy(s) = {}
           /\ s \notin disturbed
           /\ \A a \in Allocs : owner[a] # s
    /\ \A a \in Allocs : alloc[a] # "live" => owner[a] = NoServer
    /\ \A s \in Servers : primary[s] # NoAlloc => alloc[primary[s]] = "live"

\* Nobody is about to overwrite or delete what an undisturbed server owns.
Unthreatened ==
    \A r \in Requests :
        /\ req[r].pc \in {"assign", "deleteAlloc"}
        /\ alloc[req[r].alloc] = "live"
        => owner[req[r].alloc] \in {NoServer} \cup disturbed

\* The handler of an undisturbed server half-way.
Halfway ==
    \A r \in Requests : req[r].srv \in Servers \ disturbed =>
        LET s == req[r].srv
            a == req[r].alloc
        IN  /\ req[r].pc = "link" => Owned(s) = {} /\ primary[s] = NoAlloc
            /\ req[r].pc \in {"check", "assign"} => Cardinality(Owned(s)) < Limit
            /\ req[r].pc \in {"setFirst", "makePrimary"} /\ server[s] = "live" =>
                   owner[a] = s
            /\ req[r].pc = "remove" => primary[s] # a

IInv ==
    /\ TypeOK /\ Slots /\ NoGhosts
    /\ Located /\ SameNode
    /\ Alone /\ Unthreatened /\ Halfway /\ Kept
    /\ LimitBudget

=============================================================================
