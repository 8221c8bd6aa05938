------------------------------- MODULE Access -------------------------------
(***************************************************************************)
(* Who may do what to a game server: the tables `servers`, `users`,        *)
(* `server_subusers` and `backups`, check_server_access of                 *)
(* crates/panel/src/servers.rs, check_access of subusers.rs, and the       *)
(* handlers of subusers.rs and backups.rs.                                 *)
(*                                                                         *)
(* Every handler first reads whether its caller may go on, and then runs   *)
(* statements of its own.  Rows change between any two of them: a right    *)
(* may be taken back, a backup locked, a server deleted.                   *)
(***************************************************************************)
EXTENDS FiniteSets, Naturals

CONSTANTS
    Users,       \* ids of users
    Admins,      \* those with the administrator's claim in their token
    Servers,     \* ids of servers
    OwnerOf,     \* servers.user_id, which no handler changes
    Subs,        \* ids of server_subusers
    Backups,     \* ids of backups
    Bodies,      \* lists of permissions a request may carry
    Ops,         \* the operations clients ask for
    Requests,    \* slots for handlers in flight
    MaxBegun,    \* bound: requests over the whole behaviour
    None         \* no user, server, row

\* permissions.rs: ALL_PERMISSIONS.
ALL_PERMISSIONS ==
    {"control.console", "control.start", "control.stop", "control.restart",
     "user.create", "user.read", "user.update", "user.delete",
     "file.create", "file.read", "file.read-content", "file.update",
     "file.delete", "file.archive", "file.sftp",
     "backup.create", "backup.read", "backup.delete", "backup.download",
     "backup.restore", "network.read", "network.create", "network.update",
     "network.delete", "startup.read", "startup.update",
     "startup.docker-image", "database.create", "database.read",
     "database.update", "database.delete", "database.view-password",
     "schedule.create", "schedule.read", "schedule.update",
     "schedule.delete", "importer.access", "settings.rename",
     "settings.reinstall", "settings.change-egg", "activity.read"}

is_valid_permission(p) == p \in ALL_PERMISSIONS

\* What a handler asks of a caller who is neither administrator nor owner:
\* a permission, "any" row with permissions at all, or nothing will do.
Need ==
    [list_subusers |-> "user.read", create_subuser |-> "user.create",
     update_subuser |-> "user.update", delete_subuser |-> "user.delete",
     list_backups |-> "backup.read", create_backup |-> "backup.create",
     delete_backup |-> "backup.delete", toggle_lock |-> "owner",
     get_server |-> "owner", get_server_stats |-> "any",
     start_server |-> "control.start", stop_server |-> "control.stop",
     restart_server |-> "control.restart", send_command |-> "control.console",
     stream_server_logs |-> "control.console",
     list_network |-> "network.read", assign_allocation |-> "network.update",
     remove_allocation |-> "network.delete", make_primary |-> "network.update",
     list_files |-> "file.read", get_file |-> "file.read-content",
     write_file |-> "file.update", create_directory |-> "file.create",
     delete_files |-> "file.delete", rename_file |-> "file.update",
     rename_server |-> "settings.rename",
     reinstall_server |-> "settings.reinstall",
     get_startup |-> "any", update_startup |-> "any"]

SubuserOps == {"list_subusers", "create_subuser", "update_subuser", "delete_subuser"}
OfSub      == {"update_subuser", "delete_subuser"}
OfBackup   == {"delete_backup", "toggle_lock"}
WithBody   == {"create_subuser", "update_subuser"}

\* What the requests of an operation say.
Asks(op) ==
    [op : {op}, srv : Servers,
     row : IF op \in OfSub THEN Subs ELSE IF op \in OfBackup THEN Backups ELSE {None},
     who : IF op = "create_subuser" THEN Users ELSE {None},
     perms : IF op \in WithBody THEN Bodies ELSE {{}}]

ASSUME ConstantsOK ==
    /\ Admins \subseteq Users
    /\ OwnerOf \in [Servers -> Users]
    /\ None \notin Users \cup Servers \cup Subs \cup Backups
    /\ Subs \cap Backups = {}
    /\ Bodies \subseteq SUBSET STRING
    /\ Ops \subseteq DOMAIN Need
    /\ MaxBegun \in Nat

VARIABLES
    users,       \* rows of `users`
    servers,     \* rows of `servers`
    sub,         \* `server_subusers`
    backup,      \* `backups`: the row and its server
    locked,      \* backups.is_locked
    done,        \* backups.is_successful
    working,     \* backups whose provision_backup_async has not run
    req,         \* handlers in flight
    begun,       \* how many requests there were
    had,         \* history: requests whose right was held at some moment
                 \* since they began
    free,        \* history: requests whose backup was not locked at some
                 \* moment since they began
    odd,         \* history: backups whose lock was toggled an odd number of times
    crowded      \* history: backups two toggles of which overlapped

rows == <<users, servers, sub, backup, locked, done, working>>
vars == <<rows, req, begun, had, free, odd, crowded>>

-----------------------------------------------------------------------------
Row      == {"unborn", "live", "deleted"}
NoSub    == [row |-> "unborn", srv |-> None, user |-> None, perms |-> {}]
NoBackup == [row |-> "unborn", srv |-> None]
Idle     == [pc |-> "idle", user |-> None, ask |-> None]
PCs      == {"fetch", "permissions", "act", "erase", "lock", "unlock"}

LiveSub(s)    == sub[s].row = "live"
LiveBackup(b) == backup[b].row = "live"
Busy(r)       == req[r].pc # "idle"

\* The permissions of u's row for server v; UNIQUE(server_id, user_id) makes
\* it one row.
RowsOf(u, v) == {s \in Subs : LiveSub(s) /\ sub[s].srv = v /\ sub[s].user = u}

Grants(s, need) ==
    \/ need = "any" /\ sub[s].perms # {}
    \/ need \in sub[s].perms

\* What the two checks decide, were they made in one instant.
Allowed(u, v, need) ==
    \/ u \in Admins
    \/ v \in servers /\ (OwnerOf[v] = u \/ \E s \in RowsOf(u, v) : Grants(s, need))

Holds(r) == Allowed(req[r].user, req[r].ask.srv, Need[req[r].ask.op])

Open(r) == req[r].ask.op \in OfBackup /\ req[r].ask.row \notin locked

Init ==
    /\ users = Users
    /\ servers = Servers
    /\ sub = [s \in Subs |-> NoSub]
    /\ backup = [b \in Backups |-> NoBackup]
    /\ locked = {} /\ done = {} /\ working = {}
    /\ req = [r \in Requests |-> Idle]
    /\ begun = 0
    /\ had = {} /\ free = {} /\ odd = {} /\ crowded = {}

-----------------------------------------------------------------------------
Goto(r, pc) == req' = [req EXCEPT ![r].pc = pc]
Finish(r)   == req' = [req EXCEPT ![r] = Idle]

\* The administrator of check_access in subusers.rs does not need the server.
Begin(r, u, a) ==
    /\ ~Busy(r) /\ begun < MaxBegun
    /\ begun' = begun + 1
    /\ req' = [req EXCEPT ![r] =
          [pc |-> IF a.op \in SubuserOps /\ u \in Admins THEN "act" ELSE "fetch",
           user |-> u, ask |-> a]]
    /\ UNCHANGED <<rows, odd, crowded>>

\* fetch_server, and the first test of check_server_access and check_access.
Fetch(r) ==
    LET v == req[r].ask.srv
    IN  /\ req[r].pc = "fetch"
        /\ IF v \notin servers THEN Finish(r)
           ELSE IF req[r].user \in Admins \/ OwnerOf[v] = req[r].user
           THEN Goto(r, "act")
           ELSE IF Need[req[r].ask.op] = "owner" THEN Finish(r)
           ELSE Goto(r, "permissions")
        /\ UNCHANGED <<rows, begun, odd, crowded>>

\* A check that is content with any row at all.
AnyRowWillDo(r) ==
    /\ req[r].pc = "permissions"
    /\ IF RowsOf(req[r].user, req[r].ask.srv) # {} THEN Goto(r, "act") ELSE Finish(r)
    /\ UNCHANGED <<rows, begun, odd, crowded>>

ReadPermissions(r) ==
    /\ req[r].pc = "permissions"
    /\ IF \E s \in RowsOf(req[r].user, req[r].ask.srv) :
              Grants(s, Need[req[r].ask.op])
       THEN Goto(r, "act") ELSE Finish(r)
    /\ UNCHANGED <<rows, begun, odd, crowded>>

Acting(r, op) == req[r].pc = "act" /\ req[r].ask.op = op

-----------------------------------------------------------------------------
(* subusers.rs *)

InsertUnchecked(a) == TRUE

\* The foreign keys and UNIQUE(server_id, user_id).
Insertable(a) ==
    /\ a.srv \in servers /\ a.who \in users
    /\ RowsOf(a.who, a.srv) = {}

Valid(a) == \A p \in a.perms : is_valid_permission(p)

create_subuser(r) ==
    LET a == req[r].ask
    IN  /\ Acting(r, "create_subuser")
        /\ IF Valid(a) /\ Insertable(a)
           THEN \E s \in Subs :
                   /\ sub[s].row = "unborn"
                   /\ sub' = [sub EXCEPT ![s] =
                         [row |-> "live", srv |-> a.srv, user |-> a.who,
                          perms |-> a.perms]]
           ELSE UNCHANGED sub
        /\ Finish(r)
        /\ UNCHANGED <<users, servers, backup, locked, done, working,
                       begun, odd, crowded>>

MatchesId(a) == LiveSub(a.row)

\* WHERE id = $2 AND server_id = $3.
Matches(a) == LiveSub(a.row) /\ sub[a.row].srv = a.srv

update_subuser(r) ==
    LET a == req[r].ask
    IN  /\ Acting(r, "update_subuser")
        /\ sub' = IF Valid(a) /\ Matches(a)
                  THEN [sub EXCEPT ![a.row].perms = a.perms] ELSE sub
        /\ Finish(r)
        /\ UNCHANGED <<users, servers, backup, locked, done, working,
                       begun, odd, crowded>>

delete_subuser(r) ==
    LET a == req[r].ask
    IN  /\ Acting(r, "delete_subuser")
        /\ sub' = IF Matches(a) THEN [sub EXCEPT ![a.row].row = "deleted"] ELSE sub
        /\ Finish(r)
        /\ UNCHANGED <<users, servers, backup, locked, done, working,
                       begun, odd, crowded>>

-----------------------------------------------------------------------------
(* backups.rs *)

\* The INSERT, refused by the foreign key once the server is gone, and the
\* task that is spawned after it.
create_backup(r) ==
    /\ Acting(r, "create_backup")
    /\ IF req[r].ask.srv \in servers
       THEN \E b \in Backups :
               /\ backup[b].row = "unborn"
               /\ backup' = [backup EXCEPT ![b] =
                                [row |-> "live", srv |-> req[r].ask.srv]]
               /\ working' = working \cup {b}
       ELSE UNCHANGED <<backup, working>>
    /\ Finish(r)
    /\ UNCHANGED <<users, servers, sub, locked, done, begun, odd, crowded>>

\* Also for a backup deleted by then, of which no row is found.
provision_backup_async(b) ==
    /\ b \in working
    /\ working' = working \ {b}
    /\ done' = IF LiveBackup(b) THEN done \cup {b} ELSE done
    /\ UNCHANGED <<users, servers, sub, backup, locked, req, begun, odd, crowded>>

Found(a) == LiveBackup(a.row) /\ backup[a.row].srv = a.srv

FindAny(r) ==
    /\ Acting(r, "delete_backup")
    /\ IF Found(req[r].ask) THEN Goto(r, "erase") ELSE Finish(r)
    /\ UNCHANGED <<rows, begun, odd, crowded>>

FindUnlocked(r) ==
    /\ Acting(r, "delete_backup")
    /\ IF Found(req[r].ask) /\ req[r].ask.row \notin locked
       THEN Goto(r, "erase") ELSE Finish(r)
    /\ UNCHANGED <<rows, begun, odd, crowded>>

\* DELETE FROM backups WHERE id = $1, whatever became of is_locked.
Erase(r) ==
    LET b == req[r].ask.row
    IN  /\ req[r].pc = "erase"
        /\ backup' = [c \in Backups |-> IF c = b THEN [backup[c] EXCEPT !.row = "deleted"]
                                        ELSE backup[c]]
        /\ Finish(r)
        /\ UNCHANGED <<users, servers, sub, locked, done, working,
                       begun, odd, crowded>>

Toggling(b) == {r \in Requests : req[r].pc \in {"lock", "unlock"} /\ req[r].ask.row = b}

ReadLock(r) ==
    LET b == req[r].ask.row
    IN  /\ Acting(r, "toggle_lock")
        /\ IF Found(req[r].ask)
           THEN /\ Goto(r, IF b \in locked THEN "unlock" ELSE "lock")
                /\ crowded' = IF Toggling(b) = {} THEN crowded ELSE crowded \cup {b}
           ELSE Finish(r) /\ UNCHANGED crowded
        /\ UNCHANGED <<rows, begun, odd>>

\* A toggle that writes what it read.
WriteBack(r) ==
    LET b == req[r].ask.row
    IN  /\ req[r].pc \in {"lock", "unlock"}
        /\ odd' = IF b \in odd THEN odd \ {b} ELSE odd \cup {b}
        /\ Finish(r)
        /\ UNCHANGED <<rows, begun, crowded>>

WriteLock(r) ==
    LET b == req[r].ask.row
    IN  /\ req[r].pc \in {"lock", "unlock"}
        /\ locked' = IF ~LiveBackup(b) THEN locked
                      ELSE IF req[r].pc = "lock" THEN locked \cup {b}
                      ELSE locked \ {b}
        /\ odd' = IF b \in odd THEN odd \ {b} ELSE odd \cup {b}
        /\ Finish(r)
        /\ UNCHANGED <<users, servers, sub, backup, done, working, begun, crowded>>

-----------------------------------------------------------------------------
\* The statements of the other handlers, which change none of these rows:
\* the lists, get_server, and what the other modules say of power, files and
\* allocations.
Elsewhere(r) ==
    /\ req[r].pc = "act"
    /\ req[r].ask.op \notin {"create_subuser", "update_subuser", "delete_subuser",
                             "create_backup", "delete_backup", "toggle_lock"}
    /\ Finish(r)
    /\ UNCHANGED <<rows, begun, odd, crowded>>

\* DELETE FROM servers, which cascades to both tables.
delete_server(v) ==
    /\ v \in servers
    /\ servers' = servers \ {v}
    /\ sub' = [s \in Subs |-> IF LiveSub(s) /\ sub[s].srv = v
                              THEN [sub[s] EXCEPT !.row = "deleted"] ELSE sub[s]]
    /\ backup' = [b \in Backups |-> IF LiveBackup(b) /\ backup[b].srv = v
                              THEN [backup[b] EXCEPT !.row = "deleted"] ELSE backup[b]]
    /\ UNCHANGED <<users, locked, done, working, req, begun, odd, crowded>>

\* servers.user_id REFERENCES users(id), without an action.
Ownerless(u) == \A v \in servers : OwnerOf[v] # u

\* DELETE FROM users cascades to server_subusers.
delete_user(u) ==
    /\ u \in users /\ Ownerless(u)
    /\ users' = users \ {u}
    /\ sub' = [s \in Subs |-> IF LiveSub(s) /\ sub[s].user = u
                              THEN [sub[s] EXCEPT !.row = "deleted"] ELSE sub[s]]
    /\ UNCHANGED <<servers, backup, locked, done, working, req, begun, odd, crowded>>

\* The client goes away, or a statement fails: nothing undoes the earlier ones.
Drop(r) ==
    /\ Busy(r)
    /\ Finish(r)
    /\ UNCHANGED <<rows, begun, odd, crowded>>

Handler(r) ==
    \/ Fetch(r) \/ ReadPermissions(r)
    \/ create_subuser(r) \/ update_subuser(r) \/ delete_subuser(r)
    \/ create_backup(r) \/ FindUnlocked(r) \/ Erase(r)
    \/ ReadLock(r) \/ WriteLock(r)
    \/ Elsewhere(r) \/ Drop(r)

Step ==
    \/ \E r \in Requests, u \in Users, op \in Ops : \E a \in Asks(op) : Begin(r, u, a)
    \/ \E r \in Requests : Handler(r)
    \/ \E b \in Backups : provision_backup_async(b)
    \/ \E v \in servers : delete_server(v)
    \/ \E u \in users : delete_user(u)

Watch ==
    /\ had'  = {r \in Requests : Busy(r)' /\ (Holds(r)' \/ (r \in had /\ Busy(r)))}
    /\ free' = {r \in Requests : Busy(r)' /\ (Open(r)' \/ (r \in free /\ Busy(r)))}

Next == Step /\ Watch

Spec == Init /\ [][Next]_vars

=============================================================================
