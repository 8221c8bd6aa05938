---------------------------- MODULE DatabaseProofs ----------------------------
(***************************************************************************)
(* What the rows of server_databases say of the MySQL servers, for any     *)
(* number of servers, hosts, names, accounts and handlers.                 *)
(*                                                                         *)
(* The inductive invariant is IInv.  Its parts are proved in three layers: *)
(* Grounded, what the slots and rows are made of; Calm, by account, since  *)
(* a step disturbs the account it is about and no other; and Made and      *)
(* SchemaKept, which hold because no statement drops a database.           *)
(***************************************************************************)
EXTENDS DatabaseProperties, TLAPS

Grounded == TypeOK /\ Filled /\ Read

LEMMA InitGrounded == Init => Grounded
  BY DEF Init, Grounded, TypeOK, Filled, Read, Row, PCs, DbRow, Slot, Idle,
         Unborn, Accounts, Schemas, Busy, Live

\* The values the steps write are of their types.
LEMMA ValuesTyped ==
  /\ Idle \in Slot
  /\ Unborn \in DbRow /\ Deleted \in DbRow
  /\ \A x \in Slot, pc \in PCs : [x EXCEPT !.pc = pc] \in Slot
  BY DEF Idle, Slot, PCs, Unborn, Deleted, DbRow, Row

LEMMA AccountTyped ==
  ASSUME Grounded
  PROVE  /\ \A r \in Requests : Busy(r) =>
                /\ AccountOf(req[r]) \in Accounts
                /\ SchemaOf(req[r]) \in Schemas
         /\ \A d \in Dbs : Live(d) => AccountOf(db[d]) \in Accounts
  BY ConstantsOK DEF Grounded, Filled, AccountOf, SchemaOf, Accounts, Schemas

\* A slot that moves on keeps what it holds.
LEMMA GotoSlot ==
  ASSUME Grounded, NEW r \in Requests, NEW pc \in PCs, Goto(r, pc)
  PROVE  /\ req' \in [Requests -> Slot]
         /\ \A q \in Requests : q # r => req'[q] = req[q]
         /\ req'[r].pc = pc
         /\ req'[r].db = req[r].db /\ req'[r].srv = req[r].srv
         /\ req'[r].host = req[r].host /\ req'[r].name = req[r].name
         /\ req'[r].user = req[r].user /\ req'[r].pass = req[r].pass
  <1>1. req \in [Requests -> Slot]
    BY DEF Grounded, TypeOK
  <1>2. [req[r] EXCEPT !.pc = pc] \in Slot
    BY <1>1, ValuesTyped
  <1>3. req' = [req EXCEPT ![r] = [req[r] EXCEPT !.pc = pc]]
    BY DEF Goto
  <1>4. req'[r] = [req[r] EXCEPT !.pc = pc]
    BY <1>1, <1>2, <1>3
  <1>5. /\ req' \in [Requests -> Slot]
        /\ \A q \in Requests : q # r => req'[q] = req[q]
    <2> HIDE DEF Slot
    <2> QED BY <1>1, <1>2, <1>3
  <1>6. req[r] \in Slot
    BY <1>1
  <1> QED BY <1>4, <1>5, <1>6 DEF Slot

LEMMA FinishSlot ==
  ASSUME Grounded, NEW r \in Requests, Finish(r)
  PROVE  /\ req' \in [Requests -> Slot]
         /\ \A q \in Requests : q # r => req'[q] = req[q]
         /\ req'[r] = Idle
  BY ValuesTyped DEF Grounded, TypeOK, Finish

LEMMA AdmitSlot ==
  ASSUME Grounded, NEW r \in Requests, NEW x \in Slot, Admit(r, x)
  PROVE  /\ req' \in [Requests -> Slot]
         /\ \A q \in Requests : q # r => req'[q] = req[q]
         /\ req'[r] = x
  BY DEF Grounded, TypeOK, Admit

-----------------------------------------------------------------------------
(* Slots and rows.                                                         *)

Creating == {"createDb", "createUser", "grant", "insert"}
Dropping == {"dropUser", "dropDb", "deleteRow"}
Rotating == {"alter", "store"}

MysqlTyped ==
    /\ schemas \in SUBSET Schemas
    /\ password \in [Accounts -> Passwords \cup {None}]
    /\ grants \in SUBSET (Accounts \X Names)
    /\ disturbed \in SUBSET Accounts

\* A handler moves on within its operation, or ends.
LEMMA MoveGrounded ==
  ASSUME Grounded, NEW r \in Requests,
         UNCHANGED <<server, host, db>>, MysqlTyped',
         \/ Finish(r)
         \/ \E pc \in PCs :
               /\ Goto(r, pc)
               /\ pc \in Creating <=> req[r].pc \in Creating
               /\ pc \in Dropping <=> req[r].pc \in Dropping
               /\ pc \in Rotating <=> req[r].pc \in Rotating
               /\ pc # "idle" /\ req[r].pc # "idle"
  PROVE  Grounded'
  <1> USE DEF Grounded, TypeOK, MysqlTyped, Filled, Read, Busy, Live
  <1>1. CASE Finish(r)
    BY <1>1, FinishSlot DEF Idle
  <1>2. ASSUME NEW pc \in PCs, Goto(r, pc),
               pc \in Creating <=> req[r].pc \in Creating,
               pc \in Dropping <=> req[r].pc \in Dropping,
               pc \in Rotating <=> req[r].pc \in Rotating,
               pc # "idle", req[r].pc # "idle"
        PROVE  Grounded'
    <2>1. TypeOK'
      BY <1>2, GotoSlot
    <2>2. Filled'
      BY <1>2, GotoSlot DEF Creating, Dropping, Rotating
    <2>3. Read'
      BY <1>2, GotoSlot DEF Creating, Dropping, Rotating
    <2> QED BY <2>1, <2>2, <2>3
  <1> QED BY <1>1, <1>2

\* Rows are made, change their password, or go.
LEMMA RowsGrounded ==
  ASSUME Grounded, UNCHANGED <<host, mysql, disturbed>>,
         server' \in [Servers -> Row],
         db' \in [Dbs -> DbRow],
         UNCHANGED req \/ \E r \in Requests : Finish(r),
         \A d \in Dbs : db[d].row # "unborn" =>
             /\ db'[d].row # "unborn"
             /\ db'[d].row = "live" =>
                   /\ Live(d)
                   /\ db'[d].host = db[d].host
                   /\ db'[d].name = db[d].name
                   /\ db'[d].user = db[d].user,
         \A d \in Dbs : db'[d].row = "live" =>
             /\ db'[d].srv \in Servers /\ db'[d].host \in Hosts
             /\ db'[d].name \in Names /\ db'[d].user \in Users
             /\ db'[d].pass \in Passwords
  PROVE  Grounded'
  <1>1. /\ req' \in [Requests -> Slot]
        /\ \A q \in Requests : req'[q] = req[q] \/ req'[q] = Idle
    BY FinishSlot DEF Grounded, TypeOK
  <1>2. TypeOK'
    BY <1>1 DEF Grounded, TypeOK, mysql
  <1>3. Filled'
    BY <1>1 DEF Grounded, Filled, Live, Busy, Idle
  <1>4. Read'
    BY <1>1 DEF Grounded, Filled, Read, Live, Busy, Idle
  <1> QED BY <1>2, <1>3, <1>4 DEF Grounded

LEMMA StepGrounded ==
  ASSUME Grounded, NEW r \in Requests, Step(r) \/ Stops(r)
  PROVE  Grounded'
  <1> USE DEF Grounded, TypeOK, MysqlTyped, mysql, PCs, Creating, Dropping, Rotating
  <1>0. Busy(r) => AccountOf(req[r]) \in Accounts /\ SchemaOf(req[r]) \in Schemas
    BY AccountTyped
  <1>1. CASE CreateDb(r)
    BY <1>0, <1>1, MoveGrounded DEF CreateDb, Busy
  <1>2. CASE CreateUser(r)
    <2>1. req[r].pass \in Passwords
      BY <1>2 DEF Filled, Busy, CreateUser
    <2>2. MysqlTyped'
      BY <1>0, <1>2, <2>1 DEF CreateUser, Disturb, Busy
    <2> QED BY <1>2, <2>2, MoveGrounded DEF CreateUser
  <1>3. CASE GrantAll(r)
    <2>1. req[r].name \in Names
      BY <1>3 DEF Filled, Busy, GrantAll
    <2>2. MysqlTyped'
      BY <1>0, <1>3, <2>1 DEF GrantAll, Busy
    <2> QED BY <1>3, <2>2, MoveGrounded DEF GrantAll
  <1>4. CASE DropUser(r)
    <2>1. MysqlTyped'
      BY <1>0, <1>4 DEF DropUser, Busy
    <2> QED BY <1>4, <2>1, MoveGrounded DEF DropUser
  <1>5. CASE DropDb(r)
    BY <1>5, MoveGrounded DEF DropDb
  <1>6. CASE Alter(r)
    <2>1. req[r].pass \in Passwords
      BY <1>6 DEF Filled, Busy, Alter
    <2>2. MysqlTyped'
      BY <1>0, <1>6, <2>1 DEF Alter, Busy
    <2> QED BY <1>6, <2>2, MoveGrounded DEF Alter
  <1>7. CASE Stops(r)
    <2>1. MysqlTyped'
      BY <1>0, <1>7 DEF Stops, Disturb, Busy
    <2> QED BY <1>7, <2>1, MoveGrounded DEF Stops
  <1>8. CASE Insert(r)
    <2>1. /\ req[r].srv \in Servers /\ req[r].host \in Hosts
          /\ req[r].name \in Names /\ req[r].user \in Users
          /\ req[r].pass \in Passwords
      BY <1>8 DEF Filled, Busy, Insert
    <2>2. CASE UNCHANGED db
      BY <1>8, <2>2, RowsGrounded DEF Insert, Filled, Live
    <2>3. ASSUME NEW d \in Dbs, db[d].row = "unborn",
                 db' = [db EXCEPT ![d] =
                      [row |-> "live", srv |-> req[r].srv, host |-> req[r].host,
                       name |-> req[r].name, user |-> req[r].user,
                       pass |-> req[r].pass]]
          PROVE  Grounded'
      <3> DEFINE x == [row |-> "live", srv |-> req[r].srv, host |-> req[r].host,
                       name |-> req[r].name, user |-> req[r].user,
                       pass |-> req[r].pass]
      <3>1. x \in DbRow
        BY <2>1 DEF DbRow, Row
      <3>2. db' \in [Dbs -> DbRow]
        BY <2>3, <3>1
      <3> QED BY <1>8, <2>1, <2>3, <3>2, RowsGrounded DEF Insert, Filled, Live
    <2> QED BY <1>8, <2>2, <2>3 DEF Insert
  <1>9. CASE DeleteRow(r)
    <2>1. db' \in [Dbs -> DbRow]
      BY <1>9, ValuesTyped DEF DeleteRow
    <2> QED BY <1>9, <2>1, RowsGrounded DEF DeleteRow, Filled, Live, Deleted
  <1>10. CASE Store(r)
    <2>1. req[r].pass \in Passwords
      BY <1>10 DEF Filled, Busy, Store
    <2>2. \A d \in Dbs : [db[d] EXCEPT !.pass = req[r].pass] \in DbRow
      BY <2>1 DEF DbRow
    <2>3. db' \in [Dbs -> DbRow]
      BY <1>10, <2>2 DEF Store
    <2>4. \A d \in Dbs :
             /\ db'[d].row = db[d].row /\ db'[d].srv = db[d].srv
             /\ db'[d].host = db[d].host /\ db'[d].name = db[d].name
             /\ db'[d].user = db[d].user
             /\ db'[d].pass \in {db[d].pass, req[r].pass}
      BY <1>10 DEF Store, DbRow
    <2> QED BY <1>10, <2>1, <2>3, <2>4, RowsGrounded DEF Store, Filled, Live
  <1> QED BY <1>1, <1>2, <1>3, <1>4, <1>5, <1>6, <1>7, <1>8, <1>9, <1>10 DEF Step

LEMMA BeginGrounded ==
  ASSUME Grounded, NEW r \in Requests, Begin(r)
  PROVE  Grounded'
  <1>0. ASSUME NEW x \in Slot, Admit(r, x), x.pc \in {"createDb", "dropUser", "alter"},
               x.host \in Hosts, x.name \in Names, x.user \in Users,
               x.pc # "dropUser" => x.pass \in Passwords,
               x.pc = "createDb" => x.srv \in Servers,
               x.pc # "createDb" =>
                  /\ x.db \in Dbs /\ Live(x.db)
                  /\ x.host = db[x.db].host /\ x.name = db[x.db].name
                  /\ x.user = db[x.db].user
        PROVE  Grounded'
    <2>1. AccountOf(x) \in Accounts
      BY <1>0, ConstantsOK DEF AccountOf, Accounts
    <2>2. TypeOK'
      BY <1>0, <2>1, AdmitSlot DEF Grounded, TypeOK, Admit, mysql
    <2>3. Filled'
      BY <1>0, AdmitSlot DEF Grounded, Filled, Admit, Busy, Live
    <2>4. Read'
      BY <1>0, AdmitSlot DEF Grounded, Read, Admit, Live
    <2> QED BY <2>2, <2>3, <2>4 DEF Grounded
  <1>1. ASSUME NEW s \in Servers, NEW h \in Hosts, NEW n \in Names, NEW u \in Users,
               NEW p \in Passwords, CreateBegin(r, s, h, n, u, p)
        PROVE  Grounded'
    <2> DEFINE x == [pc |-> "createDb", db |-> None, srv |-> s, host |-> h,
                     name |-> n, user |-> u, pass |-> p]
    <2>1. x \in Slot
      BY DEF Slot, PCs
    <2> QED BY <1>0, <1>1, <2>1 DEF CreateBegin
  <1>2. ASSUME NEW d \in Dbs, Live(d), NEW p \in Passwords \cup {None},
               NEW pc \in {"dropUser", "alter"}, pc = "alter" => p \in Passwords,
               Admit(r, Named(d, pc, p))
        PROVE  Grounded'
    <2>1. Named(d, pc, p) \in Slot
      BY <1>2 DEF Grounded, Filled, Named, Slot, PCs
    <2>2. db[d].host \in Hosts /\ db[d].name \in Names /\ db[d].user \in Users
      BY <1>2 DEF Grounded, Filled
    <2> QED BY <1>0, <1>2, <2>1, <2>2 DEF Named
  <1> QED BY <1>1, <1>2 DEF Begin, DeleteBegin, RotateBegin

LEMMA OthersGrounded ==
  ASSUME Grounded,
         \/ \E h \in Hosts : CreateHost(h) \/ DeleteHost(h)
         \/ \E s \in Servers : ServerDeleted(s)
  PROVE  Grounded'
  <1>1. ASSUME NEW h \in Hosts, CreateHost(h) \/ DeleteHost(h)
        PROVE  Grounded'
    BY <1>1 DEF Grounded, TypeOK, Row, Filled, Read, Live, Busy, CreateHost,
                DeleteHost, mysql
  <1>2. ASSUME NEW s \in Servers, ServerDeleted(s)
        PROVE  Grounded'
    <2>1. db' \in [Dbs -> DbRow] /\ server' \in [Servers -> Row]
      BY <1>2, ValuesTyped DEF Grounded, TypeOK, ServerDeleted, Row
    <2>2. \A d \in Dbs : db'[d] = db[d] \/ db'[d] = Deleted
      BY <1>2 DEF ServerDeleted
    <2>3. Deleted.row = "deleted"
      BY DEF Deleted, Unborn
    <2>4. UNCHANGED <<host, mysql, disturbed>> /\ UNCHANGED req
      BY <1>2 DEF ServerDeleted
    <2>5. \A d \in Dbs : db'[d].row = "live" => db'[d] = db[d]
      BY <2>2, <2>3
    <2>6. \A d \in Dbs : db'[d].row = "unborn" => db'[d] = db[d]
      BY <2>2, <2>3
    <2> QED BY <2>1, <2>4, <2>5, <2>6, RowsGrounded DEF Grounded, Filled, Live
  <1> QED BY <1>1, <1>2

LEMMA NextGrounded == Grounded /\ [Next]_vars => Grounded'
  <1> SUFFICES ASSUME Grounded, [Next]_vars
               PROVE  Grounded'
    OBVIOUS
  <1>1. CASE UNCHANGED vars
    BY <1>1 DEF vars, mysql, Grounded, TypeOK, Filled, Read, Live, Busy
  <1> QED BY <1>1, StepGrounded, BeginGrounded, OthersGrounded DEF Next

\* Rows, accounts, databases, grants and handlers stay what their columns and
\* locals hold (001_initial.sql:102-124, server_databases.rs:171-486).
THEOREM DatabaseTypeCorrect == Spec => []TypeOK
  <1>1. Grounded => TypeOK
    BY DEF Grounded
  <1> QED BY <1>1, InitGrounded, NextGrounded, PTL DEF Spec

-----------------------------------------------------------------------------
(* Accounts.                                                               *)

Calmed == \A a \in Accounts \ disturbed : Calm(a)

LEMMA InitCalmed == Init => Calmed
  BY DEF Init, Calmed, Calm, RowsOf, Working, Rested, Live, Idle, Unborn

\* A step that leaves an account alone, or takes rows from it.
LEMMA Frame ==
  ASSUME NEW a, Calm(a),
         password'[a] = password[a],
         \A n : <<a, n>> \in grants => <<a, n>> \in grants',
         \A d \in Dbs : db'[d].row = "live" /\ AccountOf(db'[d]) = a =>
             Live(d) /\ db'[d] = db[d],
         \A r \in Requests :
             (r \in Working(a) \/ r \in Working(a)') =>
                 req'[r] = req[r]
  PROVE  Calm(a)'
  <1>1. Working(a)' = Working(a)
    BY DEF Working
  <1>2. \A d \in Dbs : d \in RowsOf(a)' => d \in RowsOf(a) /\ db'[d] = db[d]
    BY DEF RowsOf, Live
  <1>3. RowsOf(a)' \subseteq RowsOf(a)
    BY <1>2 DEF RowsOf
  <1>4. Rested(a) => Rested(a)'
    BY <1>2, <1>3 DEF Rested, RowsOf, Usable
  <1>5. \A r \in Working(a) : AccountOf(req[r]) = a /\ req'[r] = req[r] /\ r \in Requests
    BY <1>1 DEF Working
  <1>6. \A r \in Working(a) : Halfway(r) => Halfway(r)'
    BY <1>2, <1>3, <1>4, <1>5 DEF Halfway, RowsOf
  <1> QED BY <1>1, <1>3, <1>4, <1>6 DEF Calm

\* A handler touches the rows, the account and the grants of its own account
\* only.
LEMMA ElsewhereCalm ==
  ASSUME Grounded, NEW r \in Requests, Step(r) \/ Stops(r),
         NEW a \in Accounts, a # AccountOf(req[r]), Calm(a)
  PROVE  Calm(a)'
  <1>0. Busy(r)
    BY DEF Step, Stops, CreateDb, CreateUser, GrantAll, Insert, DropUser, DropDb,
           DeleteRow, Alter, Store, Busy
  <1>1. /\ \A q \in Requests : q # r => req'[q] = req[q]
        /\ \/ req'[r].pc = "idle"
           \/ AccountOf(req'[r]) = AccountOf(req[r])
    <2>1. Finish(r) \/ \E pc \in PCs : Goto(r, pc)
      BY DEF Step, Stops, CreateDb, CreateUser, GrantAll, Insert, DropUser, DropDb,
             DeleteRow, Alter, Store, PCs
    <2> QED BY <2>1, GotoSlot, FinishSlot DEF AccountOf, Idle
  <1>2. \A q \in Requests : q \in Working(a) \/ q \in Working(a)' => req'[q] = req[q]
    BY <1>1 DEF Working
  <1>3. password'[a] = password[a]
    BY <1>0, AccountTyped
       DEF Grounded, TypeOK, Step, Stops, CreateDb, CreateUser, GrantAll, Insert,
           DropUser, DropDb, DeleteRow, Alter, Store, mysql
  <1>4. \A n : <<a, n>> \in grants => <<a, n>> \in grants'
    BY DEF Step, Stops, CreateDb, CreateUser, GrantAll, Insert,
           DropUser, DropDb, DeleteRow, Alter, Store, mysql
  <1>5. \A d \in Dbs : db'[d].row = "live" /\ AccountOf(db'[d]) = a =>
            Live(d) /\ db'[d] = db[d]
    <2> USE DEF Grounded, TypeOK, Live
    <2>1. CASE UNCHANGED db
      BY <2>1
    <2>2. CASE Insert(r)
      BY <2>2 DEF Insert, AccountOf
    <2>3. CASE DeleteRow(r)
      BY <2>3 DEF DeleteRow, Deleted, Unborn
    <2>4. CASE Store(r)
      <3>1. \A d \in Dbs : \/ db'[d] = db[d]
                           \/ d = req[r].db /\ Live(d) /\ AccountOf(db'[d]) = AccountOf(db[d])
        BY <2>4 DEF Store, AccountOf, DbRow
      <3>2. Live(req[r].db) => AccountOf(db[req[r].db]) = AccountOf(req[r])
        BY <2>4 DEF Read, Store, AccountOf
      <3> QED BY <3>1, <3>2
    <2> QED BY <2>1, <2>2, <2>3, <2>4
            DEF Step, Stops, CreateDb, CreateUser, GrantAll, DropUser, DropDb, Alter, mysql
  <1> QED BY <1>2, <1>3, <1>4, <1>5, Frame

\* What a handler does to its own account.
LEMMA HereCalm ==
  ASSUME Grounded, NEW r \in Requests, Step(r) \/ Stops(r),
         NEW a \in Accounts, a = AccountOf(req[r]), Calm(a), a \notin disturbed'
  PROVE  Calm(a)'
  <1>0. /\ Busy(r) /\ r \in Working(a) /\ Halfway(r)
        /\ \A q \in Working(a) : q = r
    BY DEF Step, Stops, CreateDb, CreateUser, GrantAll, Insert, DropUser, DropDb,
           DeleteRow, Alter, Store, Busy, Working, Calm
  <1>1. /\ \A d, e \in RowsOf(a) : d = e
        /\ \A q \in Requests : q # r => req'[q] = req[q]
    <2>1. Finish(r) \/ \E pc \in PCs : Goto(r, pc)
      BY DEF Step, Stops, CreateDb, CreateUser, GrantAll, Insert, DropUser, DropDb,
             DeleteRow, Alter, Store, PCs
    <2> QED BY <2>1, GotoSlot, FinishSlot DEF Calm
  <1>2. \A q \in Working(a)' : q = r
    BY <1>0, <1>1 DEF Working
  <1>3. ASSUME Halfway(r)', \A d, e \in RowsOf(a)' : d = e, r \in Working(a)'
        PROVE  Calm(a)'
    BY <1>2, <1>3 DEF Calm
  <1>4. ASSUME Finish(r), Rested(a)', \A d, e \in RowsOf(a)' : d = e
        PROVE  Calm(a)'
    <2>1. req'[r].pc = "idle"
      BY <1>4, FinishSlot DEF Idle
    <2>2. Working(a)' = {}
      BY <1>2, <2>1 DEF Working
    <2> QED BY <1>4, <2>2 DEF Calm
  <1>5. ASSUME NEW pc \in PCs \ {"idle"}, Goto(r, pc)
        PROVE  /\ r \in Working(a)' /\ AccountOf(req'[r]) = a /\ req'[r].pc = pc
               /\ req'[r].db = req[r].db /\ req'[r].name = req[r].name
               /\ req'[r].pass = req[r].pass
    BY <1>5, GotoSlot DEF Working, AccountOf
  <1>6. UNCHANGED db => RowsOf(a)' = RowsOf(a)
    BY DEF RowsOf, Live
  <1>7. password \in [Accounts -> Passwords \cup {None}]
    BY DEF Grounded, TypeOK
  <1>8. \A d \in RowsOf(a) : d \in Dbs /\ Live(d) /\ AccountOf(db[d]) = a
    BY DEF RowsOf
  <1>c1. CASE CreateDb(r)
    <2>1. Rested(a)'
      BY <1>0, <1>6, <1>c1 DEF CreateDb, Halfway, Rested, Usable
    <2> QED BY <1>1, <1>3, <1>5, <1>6, <1>c1, <2>1 DEF CreateDb, Halfway, PCs
  <1>c2. CASE CreateUser(r)
    <2>1. password[a] = None /\ password' = [password EXCEPT ![a] = req[r].pass]
      BY <1>c2 DEF CreateUser, Disturb
    <2>2. RowsOf(a) = {}
      <3>1. ASSUME NEW d \in RowsOf(a) PROVE FALSE
        <4>1. Usable(d) /\ AccountOf(db[d]) = a /\ Live(d) /\ d \in Dbs
          BY <1>0, <1>8, <1>c2 DEF CreateUser, Halfway, Rested
        <4>2. db[d].pass = None
          BY <2>1, <4>1 DEF Usable
        <4> QED BY <4>1, <4>2, ConstantsOK DEF Grounded, Filled
      <3> QED BY <3>1
    <2> QED BY <1>1, <1>3, <1>5, <1>6, <1>7, <1>c2, <2>1, <2>2 DEF CreateUser, Halfway, PCs
  <1>c3. CASE GrantAll(r)
    <2>1. req[r].pass \in Passwords /\ password[a] = req[r].pass
      BY <1>0, <1>c3 DEF GrantAll, Halfway, Grounded, Filled, Busy
    <2>2. password[a] # None
      BY <2>1, ConstantsOK
    <2> QED BY <1>0, <1>1, <1>3, <1>5, <1>6, <1>c3, <2>2 DEF GrantAll, Halfway, PCs
  <1>c4. CASE Insert(r)
    <2>1. password[a] = req[r].pass /\ RowsOf(a) = {} /\ <<a, req[r].name>> \in grants
      BY <1>0, <1>c4 DEF Insert, Halfway
    <2>2. CASE UNCHANGED db
      <3>1. Rested(a)'
        BY <1>6, <2>1, <2>2 DEF Rested
      <3> QED BY <1>1, <1>4, <1>6, <1>c4, <2>2, <3>1 DEF Insert
    <2>3. ASSUME NEW d \in Dbs,
                 db' = [db EXCEPT ![d] =
                      [row |-> "live", srv |-> req[r].srv, host |-> req[r].host,
                       name |-> req[r].name, user |-> req[r].user,
                       pass |-> req[r].pass]]
          PROVE  Calm(a)'
      <3>1. /\ db'[d].pass = req[r].pass /\ db'[d].name = req[r].name
            /\ \A e \in Dbs : e # d => db'[e] = db[e]
        BY <2>3 DEF Grounded, TypeOK
      <3>2. \A e \in RowsOf(a)' : e = d
        BY <2>1, <3>1 DEF RowsOf, Live
      <3>3. Rested(a)'
        BY <1>c4, <2>1, <3>1, <3>2 DEF Rested, Usable, RowsOf, Insert, mysql
      <3> QED BY <1>4, <1>c4, <3>2, <3>3 DEF Insert
    <2> QED BY <1>c4, <2>2, <2>3 DEF Insert
  <1>c5. CASE DropUser(r)
    <2>1. RowsOf(a) \subseteq {req[r].db}
      BY <1>0, <1>c5 DEF DropUser, Halfway
    <2> QED BY <1>1, <1>3, <1>5, <1>6, <1>c5, <2>1 DEF DropUser, Halfway, PCs
  <1>c6. CASE DropDb(r)
    <2>1. RowsOf(a) \subseteq {req[r].db}
      BY <1>0, <1>c6 DEF DropDb, Halfway
    <2> QED BY <1>1, <1>3, <1>5, <1>6, <1>c6, <2>1 DEF DropDb, Halfway, PCs
  <1>c7. CASE DeleteRow(r)
    <2>1. RowsOf(a) \subseteq {req[r].db}
      BY <1>0, <1>c7 DEF DeleteRow, Halfway
    <2>2. RowsOf(a)' = {}
      BY <1>c7, <2>1 DEF DeleteRow, RowsOf, Live, Deleted, Unborn
    <2> QED BY <1>4, <1>c7, <2>2 DEF DeleteRow, Rested
  <1>c8. CASE Alter(r)
    <2>0. Rested(a)
      BY <1>0, <1>c8 DEF Alter, Halfway
    <2>1. CASE password[a] = None
      <3>1. Rested(a)'
        BY <1>6, <1>c8, <2>0, <2>1 DEF Alter, Rested, Usable
      <3> QED BY <1>1, <1>4, <1>6, <1>c8, <2>1, <3>1 DEF Alter
    <2>2. CASE password[a] # None
      <3>1. RowsOf(a) \subseteq {req[r].db}
        BY <1>0, <1>c8 DEF Alter, Halfway
      <3> QED BY <1>1, <1>3, <1>5, <1>6, <1>7, <1>8, <1>c8, <2>0, <2>2, <3>1
              DEF Alter, Halfway, PCs, Rested, Usable
    <2> QED BY <2>1, <2>2
  <1>c9. CASE Store(r)
    <2>1. /\ RowsOf(a) \subseteq {req[r].db} /\ password[a] = req[r].pass
          /\ \A d \in RowsOf(a) : <<a, db[d].name>> \in grants
      BY <1>0, <1>c9 DEF Store, Halfway
    <2>2. \A d \in Dbs :
             /\ db'[d].row = db[d].row /\ AccountOf(db'[d]) = AccountOf(db[d])
             /\ db'[d].name = db[d].name
             /\ d = req[r].db /\ Live(d) => db'[d].pass = req[r].pass
      BY <1>c9 DEF Store, Grounded, TypeOK, DbRow, AccountOf
    <2>3. RowsOf(a)' = RowsOf(a)
      BY <2>2 DEF RowsOf, Live
    <2>4. Rested(a)'
      BY <1>8, <1>c9, <2>1, <2>2, <2>3 DEF Rested, Usable, Store, mysql
    <2> QED BY <1>1, <1>4, <1>c9, <2>3, <2>4 DEF Store
  <1>c10. CASE Stops(r)
    <2>0. req[r].pc \in {"createDb", "createUser", "grant", "insert", "dropUser", "alter"}
      BY <1>0, <1>c10 DEF Stops, Disturb, Grounded, TypeOK, Slot, PCs, Busy
    <2>1. Rested(a)
      BY <1>0, <2>0 DEF Halfway, Rested
    <2>2. Rested(a)'
      BY <1>6, <1>c10, <2>1 DEF Stops, Rested, Usable, mysql
    <2> QED BY <1>1, <1>4, <1>6, <1>c10, <2>2 DEF Stops
  <1> QED BY <1>c1, <1>c2, <1>c3, <1>c4, <1>c5, <1>c6, <1>c7, <1>c8, <1>c9, <1>c10 DEF Step

LEMMA StepCalmed ==
  ASSUME Grounded, Calmed, NEW r \in Requests, Step(r) \/ Stops(r)
  PROVE  Calmed'
  <1>1. disturbed \subseteq disturbed'
    BY DEF Step, Stops, CreateDb, CreateUser, GrantAll, Insert, DropUser, DropDb,
           DeleteRow, Alter, Store, Disturb
  <1> QED BY <1>1, ElsewhereCalm, HereCalm DEF Calmed

LEMMA BeginCalmed ==
  ASSUME Grounded, Calmed, NEW r \in Requests, Begin(r)
  PROVE  Calmed'
  <1>0. ASSUME NEW x \in Slot, Admit(r, x), x.pc \in {"createDb", "dropUser", "alter"},
               x.pc # "createDb" => x.db \in Dbs /\ Live(x.db) /\ AccountOf(x) = AccountOf(db[x.db]),
               NEW a \in Accounts \ disturbed'
        PROVE  Calm(a)'
    <2>0. disturbed \subseteq disturbed' /\ a \in Accounts \ disturbed
      BY <1>0 DEF Admit
    <2>a. UNCHANGED <<db, password, grants>>
      BY <1>0 DEF Admit, mysql
    <2>b. req[r].pc = "idle"
      BY <1>0 DEF Admit, Idle
    <2>c. req'[r] = x /\ \A q \in Requests : q # r => req'[q] = req[q]
      BY <1>0, AdmitSlot
    <2>1. /\ Calm(a) /\ UNCHANGED <<db, password, grants>>
          /\ \A q \in Requests : q # r => req'[q] = req[q]
          /\ req'[r] = x /\ req[r].pc = "idle"
      BY <2>0, <2>a, <2>b, <2>c DEF Calmed
    <2>2. CASE AccountOf(x) # a
      BY <2>1, <2>2, Frame DEF Working, Live
    <2>3. CASE AccountOf(x) = a
      <3>1. Working(a) = {}
        BY <1>0, <2>3 DEF Admit
      <3>2. /\ Working(a)' = {r} /\ RowsOf(a)' = RowsOf(a)
            /\ Rested(a) /\ \A d, e \in RowsOf(a) : d = e
        BY <1>0, <2>1, <2>3, <3>1 DEF Working, RowsOf, Live, Calm
      <3>3. Rested(a)'
        BY <2>1, <3>2 DEF Rested, Usable
      <3>4. x.pc # "createDb" => RowsOf(a) \subseteq {x.db}
        BY <1>0, <2>3, <3>2 DEF RowsOf
      <3>5. Halfway(r)'
        BY <1>0, <2>1, <2>3, <3>2, <3>3, <3>4 DEF Halfway
      <3> QED BY <3>2, <3>5 DEF Calm
    <2> QED BY <2>2, <2>3
  <1>1. ASSUME NEW s \in Servers, NEW h \in Hosts, NEW n \in Names, NEW u \in Users,
               NEW p \in Passwords, CreateBegin(r, s, h, n, u, p)
        PROVE  Calmed'
    <2> DEFINE x == [pc |-> "createDb", db |-> None, srv |-> s, host |-> h,
                     name |-> n, user |-> u, pass |-> p]
    <2>1. x \in Slot
      BY DEF Slot, PCs
    <2> QED BY <1>0, <1>1, <2>1 DEF CreateBegin, Calmed
  <1>2. ASSUME NEW d \in Dbs, Live(d), NEW p \in Passwords \cup {None},
               NEW pc \in {"dropUser", "alter"}, Admit(r, Named(d, pc, p))
        PROVE  Calmed'
    <2>1. Named(d, pc, p) \in Slot
      BY <1>2 DEF Grounded, Filled, Named, Slot, PCs
    <2> QED BY <1>0, <1>2, <2>1 DEF Named, Calmed, AccountOf
  <1> QED BY <1>1, <1>2 DEF Begin, DeleteBegin, RotateBegin

LEMMA NextCalmed == Grounded /\ Calmed /\ [Next]_vars => Calmed'
  <1> SUFFICES ASSUME Grounded, Calmed, [Next]_vars
               PROVE  Calmed'
    OBVIOUS
  <1>1. ASSUME UNCHANGED <<password, grants, req, disturbed>>,
               \A d \in Dbs : db'[d] = db[d] \/ db'[d] = Deleted
        PROVE  Calmed'
    <2>1. Deleted.row = "deleted"
      BY DEF Deleted, Unborn
    <2> QED BY <1>1, <2>1, Frame DEF Calmed, Working, Live
  <1>2. CASE UNCHANGED vars
    BY <1>1, <1>2 DEF vars, mysql
  <1>3. ASSUME NEW h \in Hosts, CreateHost(h) \/ DeleteHost(h)
        PROVE  Calmed'
    BY <1>1, <1>3 DEF CreateHost, DeleteHost, mysql
  <1>4. ASSUME NEW s \in Servers, ServerDeleted(s)
        PROVE  Calmed'
    <2>1. \A d \in Dbs : db'[d] = db[d] \/ db'[d] = Deleted
      BY <1>4 DEF ServerDeleted
    <2> QED BY <1>1, <1>4, <2>1 DEF ServerDeleted, mysql
  <1> QED BY <1>2, <1>3, <1>4, StepCalmed, BeginCalmed DEF Next

LEMMA CalmedLogin == Grounded /\ Calmed => Login
  <1> SUFFICES ASSUME Grounded, Calmed, NEW d \in Dbs, Live(d),
                      AccountOf(db[d]) \notin disturbed,
                      Working(AccountOf(db[d])) = {}
               PROVE  Usable(d)
    BY DEF Login
  <1>1. AccountOf(db[d]) \in Accounts /\ d \in RowsOf(AccountOf(db[d]))
    BY AccountTyped DEF RowsOf
  <1> QED BY <1>1 DEF Calmed, Calm, Rested

-----------------------------------------------------------------------------
(* Databases.                                                              *)

LEMMA NextMade ==
  ASSUME Grounded, Made, SchemaKept, [Next]_vars
  PROVE  (Made /\ SchemaKept)'
  <1> USE DEF Made, SchemaKept, Live
  <1>1. CASE UNCHANGED vars
    BY <1>1 DEF vars, mysql
  <1>2. ASSUME NEW r \in Requests, Step(r) \/ Stops(r)
        PROVE  (Made /\ SchemaKept)'
    <2>1. schemas \subseteq schemas'
      BY <1>2 DEF Step, Stops, CreateDb, CreateUser, GrantAll, Insert, DropUser,
             DropDb, DeleteRow, Alter, Store, mysql
    <2>2. Made'
      <3>1. ASSUME Finish(r)
            PROVE  Made'
        BY <2>1, <3>1, FinishSlot DEF Idle
      <3>2. ASSUME NEW pc \in PCs, Goto(r, pc),
                   \/ pc \notin {"createUser", "grant", "insert"}
                   \/ SchemaOf(req[r]) \in schemas'
            PROVE  Made'
        BY <2>1, <3>2, GotoSlot DEF SchemaOf
      <3>3. CASE CreateDb(r)
        BY <3>2, <3>3 DEF CreateDb, PCs
      <3>4. CASE CreateUser(r) \/ GrantAll(r)
        BY <2>1, <3>1, <3>2, <3>4 DEF CreateUser, GrantAll, PCs
      <3>5. CASE DropUser(r) \/ DropDb(r) \/ Alter(r)
        BY <3>1, <3>2, <3>5 DEF DropUser, DropDb, Alter, PCs
      <3>6. CASE Insert(r) \/ DeleteRow(r) \/ Store(r) \/ Stops(r)
        BY <3>1, <3>6 DEF Insert, DeleteRow, Store, Stops
      <3> QED BY <1>2, <3>3, <3>4, <3>5, <3>6 DEF Step
    <2>3. SchemaKept'
      <3>1. CASE UNCHANGED db
        BY <2>1, <3>1
      <3>2. CASE Insert(r)
        BY <2>1, <3>2 DEF Insert, SchemaOf, Grounded, TypeOK
      <3>3. CASE DeleteRow(r)
        BY <2>1, <3>3 DEF DeleteRow, Deleted, Unborn
      <3>4. CASE Store(r)
        <4>1. \A d \in Dbs : /\ db'[d].row = db[d].row
                             /\ SchemaOf(db'[d]) = SchemaOf(db[d])
          BY <3>4 DEF Store, Grounded, TypeOK, DbRow, SchemaOf
        <4> QED BY <2>1, <4>1
      <3> QED BY <1>2, <3>1, <3>2, <3>3, <3>4
              DEF Step, Stops, CreateDb, CreateUser, GrantAll, DropUser, DropDb, Alter, mysql
    <2> QED BY <2>2, <2>3
  <1>3. ASSUME NEW r \in Requests, Begin(r)
        PROVE  (Made /\ SchemaKept)'
    <2>1. ASSUME NEW x, Admit(r, x), x.pc \in {"createDb", "dropUser", "alter"}
          PROVE  (Made /\ SchemaKept)'
      BY <2>1 DEF Admit, Grounded, TypeOK, mysql
    <2> QED BY <1>3, <2>1 DEF Begin, CreateBegin, DeleteBegin, RotateBegin, Named
  <1>4. ASSUME NEW h \in Hosts, CreateHost(h) \/ DeleteHost(h)
        PROVE  (Made /\ SchemaKept)'
    BY <1>4 DEF CreateHost, DeleteHost, mysql
  <1>5. ASSUME NEW s \in Servers, ServerDeleted(s)
        PROVE  (Made /\ SchemaKept)'
    BY <1>5 DEF ServerDeleted, mysql, Deleted, Unborn
  <1> QED BY <1>1, <1>2, <1>3, <1>4, <1>5 DEF Next

-----------------------------------------------------------------------------
\* The conjunction behind the two theorems below, for any number of everything
\* (server_databases.rs:171-486).
THEOREM DatabaseInvariance == Spec => []IInv
  <1> DEFINE Inv == Grounded /\ Calmed /\ Made /\ SchemaKept
  <1>1. Init => Inv
    <2>1. Init => Made /\ SchemaKept
      BY DEF Init, Made, SchemaKept, Idle, Unborn, Live
    <2> QED BY <2>1, InitGrounded, InitCalmed
  <1>2. Inv /\ [Next]_vars => Inv'
    BY NextGrounded, NextCalmed, NextMade
  <1>3. Inv => IInv
    BY CalmedLogin DEF Grounded, Calmed, IInv
  <1> QED BY <1>1, <1>2, <1>3, PTL DEF Spec

\* However requests overlap and stop, an account whose requests did neither
\* opens with the password its row stores.
THEOREM LoginHolds == Spec => []Login
  <1>1. IInv => Login
    BY DEF IInv
  <1> QED BY <1>1, DatabaseInvariance, PTL

\* Every row has its database on the MySQL server of its host.
THEOREM DatabasesKept == Spec => []SchemaKept
  <1>1. IInv => SchemaKept
    BY DEF IInv
  <1> QED BY <1>1, DatabaseInvariance, PTL

=============================================================================
