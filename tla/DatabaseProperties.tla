-------------------------- MODULE DatabaseProperties --------------------------
(***************************************************************************)
(* What is claimed of ServerDatabases.                                     *)
(***************************************************************************)
EXTENDS ServerDatabases

Usable(d) ==
    /\ password[AccountOf(db[d])] = db[d].pass
    /\ <<AccountOf(db[d]), db[d].name>> \in grants

\* The password a row stores opens an account with rights on its database,
\* unless requests for that account overlapped, stopped half-way or asked for
\* an account that was there, or one is at work on it now
\* (server_databases.rs:171-486).
Login ==
    \A d \in Dbs :
        /\ Live(d)
        /\ AccountOf(db[d]) \notin disturbed
        /\ Working(AccountOf(db[d])) = {}
        => Usable(d)

\* The database of a row is on its host, whatever overlaps and fails.  A creation
\* may run while the last one of that name is deleted, so this is owed to the
\* statement of server_databases.rs:351 that never drops anything: with IF EXISTS
\* in its place it would not hold.
SchemaKept == \A d \in Dbs : Live(d) => SchemaOf(db[d]) \in schemas

-----------------------------------------------------------------------------
(* The inductive invariant behind them.                                    *)

Busy(r) == req[r].pc # "idle"

\* What a slot and a row consist of.
Filled ==
    /\ \A r \in Requests : Busy(r) =>
           /\ req[r].host \in Hosts /\ req[r].name \in Names /\ req[r].user \in Users
           /\ req[r].pc \notin {"dropUser", "dropDb", "deleteRow"} =>
                  req[r].pass \in Passwords
           /\ req[r].pc \in {"dropUser", "dropDb", "deleteRow", "alter", "store"} =>
                  req[r].db \in Dbs
           /\ req[r].pc \in {"createDb", "createUser", "grant", "insert"} =>
                  req[r].srv \in Servers
    /\ \A d \in Dbs : Live(d) =>
           /\ db[d].srv \in Servers /\ db[d].host \in Hosts
           /\ db[d].name \in Names /\ db[d].user \in Users
           /\ db[d].pass \in Passwords

\* A row keeps its names, so what a handler read of them stays true.
Read ==
    \A r \in Requests :
        /\ req[r].pc \in {"dropUser", "dropDb", "deleteRow", "alter", "store"}
        => /\ db[req[r].db].row # "unborn"
           /\ Live(req[r].db) =>
                  /\ req[r].host = db[req[r].db].host
                  /\ req[r].name = db[req[r].db].name
                  /\ req[r].user = db[req[r].db].user

\* The rows of an account.
RowsOf(a) == {d \in Dbs : Live(d) /\ AccountOf(db[d]) = a}

Rested(a) == \A d \in RowsOf(a) : Usable(d)

\* The handler of an undisturbed account half-way.
Halfway(r) ==
    LET x == req[r]
        a == AccountOf(x)
    IN  /\ x.pc \in {"createDb", "createUser", "dropUser", "alter"} => Rested(a)
        /\ x.pc \in {"grant", "insert"} => password[a] = x.pass /\ RowsOf(a) = {}
        /\ x.pc = "insert" => <<a, x.name>> \in grants
        /\ x.pc \in {"dropUser", "dropDb", "deleteRow", "alter", "store"} =>
               RowsOf(a) \subseteq {x.db}
        /\ x.pc = "store" => /\ password[a] = x.pass
                             /\ \A d \in RowsOf(a) : <<a, db[d].name>> \in grants

\* An undisturbed account has one row and one handler at most.
Calm(a) ==
    /\ \A d, e \in RowsOf(a) : d = e
    /\ \A q, r \in Working(a) : q = r
    /\ \A r \in Working(a) : Halfway(r)
    /\ Working(a) = {} => Rested(a)

\* Past CREATE DATABASE a creation finds its database there.
Made ==
    \A r \in Requests : req[r].pc \in {"createUser", "grant", "insert"} =>
        SchemaOf(req[r]) \in schemas

IInv ==
    /\ TypeOK /\ Filled /\ Read
    /\ \A a \in Accounts \ disturbed : Calm(a)
    /\ Login
    /\ Made /\ SchemaKept

=============================================================================
