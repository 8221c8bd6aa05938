-------------------------- MODULE AccessProperties --------------------------
(* What the checks of subusers.rs, servers.rs and backups.rs are for.      *)
EXTENDS Access

Ask  == UNION {Asks(op) : op \in Ops}
Slot == {Idle} \cup [pc : PCs, user : Users, ask : Ask]

TypeOK ==
    /\ users \subseteq Users
    /\ servers \subseteq Servers
    /\ sub \in [Subs -> [row : Row, srv : Servers \cup {None},
                         user : Users \cup {None}, perms : Bodies \cup {{}}]]
    /\ backup \in [Backups -> [row : Row, srv : Servers \cup {None}]]
    /\ locked \subseteq Backups /\ done \subseteq Backups /\ working \subseteq Backups
    /\ req \in [Requests -> Slot]
    /\ begun \in Nat
    /\ had \subseteq Requests /\ free \subseteq Requests
    /\ odd \subseteq Backups /\ crowded \subseteq Backups

-----------------------------------------------------------------------------
\* A request that has come to statements of its own held the right to them at
\* some moment since it began, though its server and its permissions are read
\* one after the other.
Rightful == \A r \in Requests :
    req[r].pc \in {"act", "erase", "lock", "unlock"} => r \in had

Noted == \A r \in Requests : Busy(r) =>
    /\ Holds(r) => r \in had
    /\ Open(r) => r \in free

Opened == \A r \in Requests : req[r].pc = "erase" => r \in free

Placed == \A r \in Requests :
    /\ req[r].pc = "erase" => req[r].ask.op = "delete_backup"
    /\ req[r].pc \in {"lock", "unlock"} => req[r].ask.op = "toggle_lock"

\* The foreign keys and the unique pair of `server_subusers`.
References ==
    /\ \A v \in servers : OwnerOf[v] \in users
    /\ \A s \in Subs : LiveSub(s) => sub[s].srv \in servers /\ sub[s].user \in users
    /\ \A b \in Backups : LiveBackup(b) => backup[b].srv \in servers
    /\ \A s, t \in Subs : LiveSub(s) /\ LiveSub(t) /\ sub[s].srv = sub[t].srv
                              /\ sub[s].user = sub[t].user => s = t

\* The lock of a backup whose toggles did not overlap is what the toggles
\* make of it, the pending one included.
Toggled == \A b \in Backups \ crowded :
    /\ LiveBackup(b) => (b \in locked <=> b \in odd)
    /\ \A r \in Toggling(b) :
          /\ Toggling(b) = {r}
          /\ LiveBackup(b) => (req[r].pc = "lock" <=> b \notin locked)

Born ==
    /\ \A r \in Requests : req[r].pc \in {"erase", "lock", "unlock"}
          => backup[req[r].ask.row].row # "unborn"
    /\ \A b \in Backups : backup[b].row = "unborn" => b \notin locked \cup odd

\* The inductive invariant.
IInv ==
    /\ TypeOK /\ Rightful /\ Noted /\ Opened /\ Placed /\ References
    /\ Toggled /\ Born

-----------------------------------------------------------------------------
\* A deleted user, unless an administrator whose token still says so, may do
\* nothing to any server: the foreign keys leave him neither a server nor a
\* row of permissions, and none is inserted for him later.
GhostsHoldNothing ==
    \A u \in Users \ (users \cup Admins), v \in Servers, op \in DOMAIN Need :
        ~Allowed(u, v, Need[op])

\* A backup ends as locked as the toggles that were answered left it, unless
\* two of them overlapped, one reading before the other wrote.
LockParity == \A b \in Backups :
    LiveBackup(b) /\ b \notin crowded => (b \in locked <=> b \in odd)

\* Each change of a row of permissions is the work of one request about that
\* row's server whose caller held the permission for just that change while
\* the request ran, or follows from the end of the server or the user.
Change(s) ==
    IF sub[s].row = "unborn" THEN "create_subuser"
    ELSE IF sub'[s].row = "deleted" THEN "delete_subuser"
    ELSE "update_subuser"

ByRight == [][\A s \in Subs : sub'[s] # sub[s] =>
    \/ sub[s].srv \in servers \ servers'
    \/ sub[s].user \in users \ users'
    \/ \E r \in had : /\ Busy(r) /\ ~Busy(r)'
                      /\ req[r].ask.op = Change(s)
                      /\ req[r].ask.srv = sub'[s].srv]_vars

\* A backup that is locked goes with its server, or by a deletion during
\* which it was unlocked for a moment.
LockedStays == [][\A b \in Backups :
    LiveBackup(b) /\ ~LiveBackup(b)' /\ b \in locked =>
        \/ backup[b].srv \in servers \ servers'
        \/ \E r \in free : req[r].pc = "erase" /\ req[r].ask.row = b]_vars

=============================================================================
