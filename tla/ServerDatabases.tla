--------------------------- MODULE ServerDatabases ---------------------------
(***************************************************************************)
(* The databases of game servers: the tables `database_hosts` and          *)
(* `server_databases` of the panel, and what the handlers of               *)
(* crates/panel/src/{server_databases,database_hosts}.rs make of them on   *)
(* MySQL servers: databases, accounts and grants.                          *)
(*                                                                         *)
(* A handler runs its statements on the MySQL server one by one, each of   *)
(* which commits at once, and then one on the panel's tables.  Nothing is  *)
(* undone when a later one fails.                                          *)
(***************************************************************************)
CONSTANTS
    Servers,     \* ids of game servers
    Hosts,       \* ids of database_hosts
    MysqlOf,     \* the MySQL server a host's address names; two may name one
    Mysqls,
    Names,       \* names of databases
    Users,       \* MySQL accounts of one server: 'username'@'remote'
    Passwords,   \* drawn at random (Uuid::new_v4)
    Dbs,         \* ids of server_databases
    Requests,    \* slots for handlers in flight
    None,        \* no id, no name, no password
    MayFail      \* whether a statement may fail or a handler be dropped

ASSUME ConstantsOK ==
    /\ MysqlOf \in [Hosts -> Mysqls]
    /\ None \notin Servers \cup Hosts \cup Names \cup Users \cup Passwords \cup Dbs
    /\ MayFail \in BOOLEAN

\* Operators named after another with a word added (StoreForgets, ...) are
\* what a plausible slip would make of it.  Nothing uses them; each shows that
\* a property of DatabaseProperties notices the slip.

VARIABLES
    server,      \* is there a row of this id in `servers`?
    host,        \* is there a row of this id in `database_hosts`?
    db,          \* `server_databases`
    schemas,     \* databases on the MySQL servers
    password,    \* the accounts there, and their passwords
    grants,      \* who may use what there
    req,         \* the handlers in flight
    disturbed    \* history: accounts whose requests overlapped, stopped
                 \* half-way, or asked for an account that was there already

mysql == <<schemas, password, grants>>
vars  == <<server, host, db, mysql, req, disturbed>>

Row == {"unborn", "live", "deleted"}
PCs == {"idle", "createDb", "createUser", "grant", "insert",
        "dropUser", "dropDb", "deleteRow", "alter", "store"}

Accounts == Mysqls \X Users
Schemas  == Mysqls \X Names

Idle    == [pc |-> "idle", db |-> None, srv |-> None, host |-> None,
            name |-> None, user |-> None, pass |-> None]
Unborn  == [row |-> "unborn", srv |-> None, host |-> None,
            name |-> None, user |-> None, pass |-> None]
Deleted == [Unborn EXCEPT !.row = "deleted"]

DbRow == [row : Row, srv : Servers \cup {None}, host : Hosts \cup {None},
          name : Names \cup {None}, user : Users \cup {None},
          pass : Passwords \cup {None}]
Slot  == [pc : PCs, db : Dbs \cup {None}, srv : Servers \cup {None},
          host : Hosts \cup {None}, name : Names \cup {None},
          user : Users \cup {None}, pass : Passwords \cup {None}]

TypeOK ==
    /\ server \in [Servers -> Row]
    /\ host \in [Hosts -> Row]
    /\ db \in [Dbs -> DbRow]
    /\ schemas \in SUBSET Schemas
    /\ password \in [Accounts -> Passwords \cup {None}]
    /\ grants \in SUBSET (Accounts \X Names)
    /\ req \in [Requests -> Slot]
    /\ disturbed \in SUBSET Accounts

\* The MySQL servers are taken to hold nothing of these names yet.
Init ==
    /\ server = [s \in Servers |-> "live"]
    /\ host = [h \in Hosts |-> "unborn"]
    /\ db = [d \in Dbs |-> Unborn]
    /\ schemas = {}
    /\ password = [a \in Accounts |-> None]
    /\ grants = {}
    /\ req = [r \in Requests |-> Idle]
    /\ disturbed = {}

Live(d) == db[d].row = "live"

\* The account and the database a row or a request is about.
AccountOf(x) == <<MysqlOf[x.host], x.user>>
SchemaOf(x)  == <<MysqlOf[x.host], x.name>>

Working(a) == {r \in Requests : req[r].pc # "idle" /\ AccountOf(req[r]) = a}

Goto(r, pc) == req' = [req EXCEPT ![r].pc = pc]
Finish(r)   == req' = [req EXCEPT ![r] = Idle]
Disturb(a)  == disturbed' = disturbed \cup {a}

-----------------------------------------------------------------------------
\* The reads at the start of a handler, up to its connection to the MySQL
\* server.
Admit(r, x) ==
    /\ req[r] = Idle
    /\ req' = [req EXCEPT ![r] = x]
    /\ disturbed' = disturbed \cup {a \in {AccountOf(x)} : Working(a) # {}}
    /\ UNCHANGED <<server, host, db, mysql>>

-----------------------------------------------------------------------------
(* create_server_database                                                  *)

CreateBegin(r, s, h, n, u, p) ==
    /\ server[s] = "live"
    /\ host[h] = "live"
    /\ Admit(r, [pc |-> "createDb", db |-> None, srv |-> s, host |-> h,
                 name |-> n, user |-> u, pass |-> p])

\* CREATE DATABASE IF NOT EXISTS.
CreateDb(r) ==
    /\ req[r].pc = "createDb"
    /\ schemas' = schemas \cup {SchemaOf(req[r])}
    /\ Goto(r, "createUser")
    /\ UNCHANGED <<server, host, db, password, grants, disturbed>>

\* CREATE USER IF NOT EXISTS: an account that is there keeps its password.
CreateUser(r) ==
    LET a == AccountOf(req[r])
    IN  /\ req[r].pc = "createUser"
        /\ IF password[a] = None
           THEN /\ password' = [password EXCEPT ![a] = req[r].pass]
                /\ UNCHANGED disturbed
           ELSE Disturb(a) /\ UNCHANGED password
        /\ Goto(r, "grant")
        /\ UNCHANGED <<server, host, db, schemas, grants>>

\* GRANT ALL PRIVILEGES, an error when the account is gone; FLUSH PRIVILEGES.
GrantAll(r) ==
    LET a == AccountOf(req[r])
    IN  /\ req[r].pc = "grant"
        /\ IF password[a] # None
           THEN grants' = grants \cup {<<a, req[r].name>>} /\ Goto(r, "insert")
           ELSE Finish(r) /\ UNCHANGED grants
        /\ UNCHANGED <<server, host, db, schemas, password, disturbed>>

\* UNIQUE(host_id, database_name) and the foreign keys.
Accepted(x) ==
    /\ server[x.srv] = "live"
    /\ host[x.host] = "live"
    /\ \A d \in Dbs : Live(d) => db[d].host # x.host \/ db[d].name # x.name

Insert(r) ==
    /\ req[r].pc = "insert"
    /\ IF Accepted(req[r])
       THEN \E d \in Dbs :
               /\ db[d].row = "unborn"
               /\ db' = [db EXCEPT ![d] =
                      [row |-> "live", srv |-> req[r].srv, host |-> req[r].host,
                       name |-> req[r].name, user |-> req[r].user,
                       pass |-> req[r].pass]]
       ELSE UNCHANGED db
    /\ Finish(r)
    /\ UNCHANGED <<server, host, mysql, disturbed>>

-----------------------------------------------------------------------------
(* delete_server_database                                                  *)

\* What the handlers that begin with a row read of it.
Named(d, pc, p) ==
    [pc |-> pc, db |-> d, srv |-> db[d].srv, host |-> db[d].host,
     name |-> db[d].name, user |-> db[d].user, pass |-> p]

DeleteBegin(r, d) ==
    /\ Live(d)
    /\ Admit(r, Named(d, "dropUser", None))

\* DROP USER IF EXISTS takes the grants along; its outcome is ignored.
DropUser(r) ==
    LET a == AccountOf(req[r])
    IN  /\ req[r].pc = "dropUser"
        /\ \/ /\ password' = [password EXCEPT ![a] = None]
              /\ grants' = {g \in grants : g[1] # a}
           \/ MayFail /\ UNCHANGED <<password, grants>>
        /\ Goto(r, "dropDb")
        /\ UNCHANGED <<server, host, db, schemas, disturbed>>

\* What DROP DATABASE IF EXISTS would do.
DropDbExists(r) ==
    /\ req[r].pc = "dropDb"
    /\ schemas' = schemas \ {SchemaOf(req[r])}
    /\ Goto(r, "deleteRow")
    /\ UNCHANGED <<server, host, db, password, grants, disturbed>>

\* DROP DATABASE IF NOT EXISTS is no MySQL statement; the error is ignored.
DropDb(r) ==
    /\ req[r].pc = "dropDb"
    /\ Goto(r, "deleteRow")
    /\ UNCHANGED <<server, host, db, mysql, disturbed>>

DeleteRow(r) ==
    /\ req[r].pc = "deleteRow"
    /\ db' = [d \in Dbs |-> IF d = req[r].db THEN Deleted ELSE db[d]]
    /\ Finish(r)
    /\ UNCHANGED <<server, host, mysql, disturbed>>

-----------------------------------------------------------------------------
(* rotate_database_password                                                *)

RotateBegin(r, d, p) ==
    /\ Live(d)
    /\ Admit(r, Named(d, "alter", p))

AlterIgnored(r) ==
    LET a == AccountOf(req[r])
    IN  /\ req[r].pc = "alter"
        /\ \/ password' = [password EXCEPT ![a] = req[r].pass]
           \/ MayFail /\ UNCHANGED password
        /\ Goto(r, "store")
        /\ UNCHANGED <<server, host, db, schemas, grants, disturbed>>

\* ALTER USER is an error when the account is gone.
Alter(r) ==
    LET a == AccountOf(req[r])
    IN  /\ req[r].pc = "alter"
        /\ IF password[a] # None
           THEN password' = [password EXCEPT ![a] = req[r].pass] /\ Goto(r, "store")
           ELSE Finish(r) /\ UNCHANGED password
        /\ UNCHANGED <<server, host, db, schemas, grants, disturbed>>

StoreForgets(r) ==
    /\ req[r].pc = "store"
    /\ Finish(r)
    /\ UNCHANGED <<server, host, db, mysql, disturbed>>

Store(r) ==
    /\ req[r].pc = "store"
    /\ db' = [d \in Dbs |-> IF d = req[r].db /\ Live(d)
                            THEN [db[d] EXCEPT !.pass = req[r].pass] ELSE db[d]]
    /\ Finish(r)
    /\ UNCHANGED <<server, host, mysql, disturbed>>

-----------------------------------------------------------------------------
\* A statement fails, the connection is lost or the handler is dropped.  Past
\* the first statement of a deletion or rotation the row and the account differ.
Stops(r) ==
    /\ MayFail
    /\ req[r].pc # "idle"
    /\ Finish(r)
    /\ IF req[r].pc \in {"dropDb", "deleteRow", "store"}
       THEN Disturb(AccountOf(req[r]))
       ELSE UNCHANGED disturbed
    /\ UNCHANGED <<server, host, db, mysql>>

CreateHost(h) ==
    /\ host[h] = "unborn"
    /\ host' = [host EXCEPT ![h] = "live"]
    /\ UNCHANGED <<server, db, mysql, req, disturbed>>

\* server_databases.host_id refuses the deletion of a host in use.
DeleteHost(h) ==
    /\ host[h] = "live"
    /\ \A d \in Dbs : Live(d) => db[d].host # h
    /\ host' = [host EXCEPT ![h] = "deleted"]
    /\ UNCHANGED <<server, db, mysql, req, disturbed>>

\* DELETE FROM servers cascades to server_databases, and to nothing else.
ServerDeleted(s) ==
    /\ server[s] = "live"
    /\ server' = [server EXCEPT ![s] = "deleted"]
    /\ db' = [d \in Dbs |-> IF db[d].srv = s THEN Deleted ELSE db[d]]
    /\ UNCHANGED <<host, mysql, req, disturbed>>

Step(r) ==
    \/ CreateDb(r) \/ CreateUser(r) \/ GrantAll(r) \/ Insert(r)
    \/ DropUser(r) \/ DropDb(r) \/ DeleteRow(r)
    \/ Alter(r) \/ Store(r)

Begin(r) ==
    \/ \E s \in Servers, h \in Hosts, n \in Names, u \in Users, p \in Passwords :
          CreateBegin(r, s, h, n, u, p)
    \/ \E d \in Dbs : DeleteBegin(r, d)
    \/ \E d \in Dbs, p \in Passwords : RotateBegin(r, d, p)

Next ==
    \/ \E r \in Requests : Begin(r) \/ Step(r) \/ Stops(r)
    \/ \E h \in Hosts : CreateHost(h) \/ DeleteHost(h)
    \/ \E s \in Servers : ServerDeleted(s)

Spec == Init /\ [][Next]_vars

=============================================================================
