----------------------------- MODULE AccessProofs -----------------------------
(***************************************************************************)
(* Proofs of AccessProperties, for any users, servers, backups and number  *)
(* of requests.                                                            *)
(*                                                                         *)
(* IInv is inductive.  What it says of the slots (Rightful, Opened,        *)
(* Placed) depends on how a handler's slot moves; Noted follows from Watch *)
(* alone; References on the four tables; Toggled and Born on the backups,  *)
(* their locks and the two program counters between which a lock is        *)
(* toggled.  A lemma for each way a slot moves, and one per action.        *)
(***************************************************************************)
EXTENDS AccessProperties, TLAPS

USE ConstantsOK

-----------------------------------------------------------------------------
(* Slots.                                                                  *)

LEMMA AskFields ==
  ASSUME NEW a \in Ask
  PROVE  /\ a.op \in Ops /\ a.srv \in Servers
         /\ a.op \in OfSub => a.row \in Subs
         /\ a.op \in OfBackup => a.row \in Backups
         /\ a.op = "create_subuser" => a.who \in Users
         /\ a.perms \in Bodies \cup {{}}
  <1>1. PICK op \in Ops : a \in Asks(op)
    BY DEF Ask
  <1>2. a.op = op /\ a.srv \in Servers
    BY <1>1 DEF Asks
  <1>3. /\ op \in OfSub => a.row \in Subs
        /\ op \in OfBackup => a.row \in Backups
    BY <1>1 DEF Asks, OfSub, OfBackup
  <1>4. op = "create_subuser" => a.who \in Users
    BY <1>1 DEF Asks
  <1>5. a.perms \in Bodies \cup {{}}
    BY <1>1 DEF Asks
  <1> QED BY <1>2, <1>3, <1>4, <1>5

LEMMA BusyFields ==
  ASSUME TypeOK, NEW r \in Requests, Busy(r)
  PROVE  /\ req[r] \in [pc : PCs, user : Users, ask : Ask]
         /\ req[r].pc \in PCs /\ req[r].user \in Users /\ req[r].ask \in Ask
         /\ req[r].ask.op \in Ops /\ req[r].ask.srv \in Servers
         /\ req[r].ask.op \in OfSub => req[r].ask.row \in Subs
         /\ req[r].ask.op \in OfBackup => req[r].ask.row \in Backups
         /\ req[r].ask.op = "create_subuser" => req[r].ask.who \in Users
         /\ req[r].ask.perms \in Bodies \cup {{}}
  <1>1. req[r] \in [pc : PCs, user : Users, ask : Ask]
    BY DEF TypeOK, Slot, Busy, Idle
  <1> QED BY <1>1, AskFields

\* What a step must keep of the slots.
Slots == Rightful /\ Opened /\ Placed

LEMMA HistoryKept ==
  ASSUME Watch, NEW r \in Requests, Busy(r), Busy(r)'
  PROVE  /\ r \in had => r \in had'
         /\ r \in free => r \in free'
  BY DEF Watch

LEMMA NotedNext == Watch => Noted' /\ had' \subseteq Requests /\ free' \subseteq Requests
  BY DEF Watch, Noted

\* No slot moves.
LEMMA StillSlots ==
  ASSUME IInv, Watch, UNCHANGED req
  PROVE  req' \in [Requests -> Slot] /\ Slots'
  <1> USE DEF IInv
  <1>1. req' \in [Requests -> Slot]
    BY DEF TypeOK
  <1>2. \A r \in Requests : Busy(r) => (r \in had => r \in had') /\ (r \in free => r \in free')
    BY HistoryKept DEF Busy
  <1>3. Rightful'
    BY <1>2 DEF Rightful, Busy
  <1>4. Opened'
    BY <1>2 DEF Opened, Busy
  <1>5. Placed'
    BY DEF Placed
  <1> QED BY <1>1, <1>3, <1>4, <1>5 DEF Slots

\* One slot moves, to a place it may be in.
LEMMA MovedSlots ==
  ASSUME IInv, Watch, NEW r \in Requests, NEW x \in Slot,
         req' = [req EXCEPT ![r] = x],
         x.pc \in {"act", "erase", "lock", "unlock"} => r \in had',
         x.pc = "erase" => r \in free' /\ x.ask.op = "delete_backup",
         x.pc \in {"lock", "unlock"} => x.ask.op = "toggle_lock"
  PROVE  /\ req' \in [Requests -> Slot] /\ Slots'
         /\ req'[r] = x /\ \A q \in Requests \ {r} : req'[q] = req[q]
  <1> USE DEF IInv
  <1>1. req' \in [Requests -> Slot]
    BY DEF TypeOK
  <1>2. req'[r] = x /\ \A q \in Requests \ {r} : req'[q] = req[q]
    BY DEF TypeOK
  <1>3. \A q \in Requests \ {r} :
           Busy(q) => (q \in had => q \in had') /\ (q \in free => q \in free')
    BY <1>2, HistoryKept DEF Busy
  <1>4. Rightful'
    BY <1>2, <1>3 DEF Rightful, Busy
  <1>5. Opened'
    BY <1>2, <1>3 DEF Opened, Busy
  <1>6. Placed'
    BY <1>2 DEF Placed
  <1> QED BY <1>1, <1>2, <1>4, <1>5, <1>6 DEF Slots

LEMMA FinishSlots ==
  ASSUME IInv, Watch, NEW r \in Requests, Finish(r)
  PROVE  /\ req' \in [Requests -> Slot] /\ Slots'
         /\ req'[r].pc = "idle" /\ \A q \in Requests \ {r} : req'[q] = req[q]
  <1>1. PICK x : x = Idle
    OBVIOUS
  <1>2. x \in Slot /\ x.pc = "idle" /\ req' = [req EXCEPT ![r] = x]
    BY <1>1 DEF Slot, Idle, Finish
  <1> QED BY <1>2, MovedSlots

LEMMA GotoSlots ==
  ASSUME IInv, Watch, NEW r \in Requests, NEW pc \in PCs, Busy(r), Goto(r, pc),
         pc \in {"act", "erase", "lock", "unlock"} => r \in had \/ Holds(r)',
         pc = "erase" => Open(r)' /\ req[r].ask.op = "delete_backup",
         pc \in {"lock", "unlock"} => req[r].ask.op = "toggle_lock"
  PROVE  /\ req' \in [Requests -> Slot] /\ Slots'
         /\ req'[r].pc = pc /\ req'[r].ask = req[r].ask /\ req'[r].user = req[r].user
         /\ \A q \in Requests \ {r} : req'[q] = req[q]
  <1>1. PICK x : x = [req[r] EXCEPT !.pc = pc]
    OBVIOUS
  <1>2. TypeOK
    BY DEF IInv
  <1>3. x \in Slot /\ x.pc = pc /\ x.ask = req[r].ask /\ x.user = req[r].user
    BY <1>1, <1>2, BusyFields DEF Slot
  <1>4. req' = [req EXCEPT ![r] = x]
    BY <1>1, <1>2 DEF Goto, TypeOK
  <1>5. req'[r] = x
    BY <1>2, <1>4 DEF TypeOK
  <1>6. Busy(r)'
    BY <1>3, <1>5 DEF Busy, PCs
  <1>7. pc \in {"act", "erase", "lock", "unlock"} => r \in had'
    BY <1>6 DEF Watch
  <1>8. pc = "erase" => r \in free'
    BY <1>6 DEF Watch
  <1> QED BY <1>3, <1>4, <1>7, <1>8, MovedSlots

-----------------------------------------------------------------------------
(* Backups and their locks.                                                *)

\* A step that leaves the backups, and moves no slot into a toggle.
LEMMA LocksKept ==
  ASSUME IInv, UNCHANGED <<backup, locked, odd, crowded>>,
         \A q \in Requests : req'[q].pc \in {"lock", "unlock"} => req'[q] = req[q],
         \A q \in Requests : req'[q].pc = "erase" =>
             req'[q] = req[q] \/ backup[req'[q].ask.row].row # "unborn"
  PROVE  Toggled' /\ Born'
  <1> USE DEF IInv
  <1>1. ASSUME NEW b \in Backups \ crowded', NEW r \in Toggling(b)'
        PROVE  /\ r \in Toggling(b) /\ req'[r].pc = req[r].pc
               /\ Toggling(b)' = {r}
               /\ LiveBackup(b)' => (req'[r].pc = "lock" <=> b \notin locked')
    <2>1. r \in Toggling(b) /\ req'[r] = req[r]
      BY <1>1 DEF Toggling
    <2>2. Toggling(b)' \subseteq Toggling(b)
      BY DEF Toggling
    <2>3. Toggling(b) = {r} /\ (LiveBackup(b) => (req[r].pc = "lock" <=> b \notin locked))
      BY <1>1, <2>1 DEF Toggled
    <2> QED BY <1>1, <2>1, <2>2, <2>3 DEF LiveBackup
  <1>2. Toggled'
    BY <1>1 DEF Toggled, LiveBackup
  <1>3. Born'
    BY DEF Born
  <1> QED BY <1>2, <1>3

\* A step that moves slots at most out of a toggle, and ends or begins rows.
LEMMA RowsEnd ==
  ASSUME IInv, UNCHANGED <<locked, odd, crowded>>,
         \A q \in Requests : req'[q].pc \in {"erase", "lock", "unlock"} => req'[q] = req[q],
         \A b \in Backups :
             \/ backup'[b] = backup[b]
             \/ backup'[b].row = "deleted"
             \/ backup[b].row = "unborn" /\ backup'[b].row = "live"
  PROVE  Toggled' /\ Born'
  <1> USE DEF IInv
  <1>1. \A b \in Backups : backup[b].row # "unborn" => backup'[b].row # "unborn"
    OBVIOUS
  <1>2. \A r \in Requests : req'[r].pc \in {"erase", "lock", "unlock"} =>
            req'[r].ask.row \in Backups
    <2>1. ASSUME NEW r \in Requests, req'[r].pc \in {"erase", "lock", "unlock"}
          PROVE  req'[r].ask.row \in Backups
      <3>1. Busy(r) /\ req'[r] = req[r]
        BY <2>1 DEF Busy
      <3>2. req[r].ask.op \in OfBackup
        BY <2>1, <3>1 DEF Placed, OfBackup
      <3> QED BY <3>1, <3>2, BusyFields
    <2> QED BY <2>1
  <1>3. Born'
    BY <1>1, <1>2 DEF Born
  <1>4. ASSUME NEW b \in Backups \ crowded', NEW r \in Toggling(b)'
        PROVE  /\ Toggling(b)' = {r}
               /\ LiveBackup(b)' => (req'[r].pc = "lock" <=> b \notin locked')
    <2>1. r \in Requests /\ r \in Toggling(b) /\ req'[r] = req[r]
      BY <1>4 DEF Toggling
    <2>2. Toggling(b)' \subseteq Toggling(b)
      BY DEF Toggling
    <2>3. Toggling(b) = {r} /\ (LiveBackup(b) => (req[r].pc = "lock" <=> b \notin locked))
      BY <1>4, <2>1 DEF Toggled
    <2>4. backup[b].row # "unborn"
      BY <2>1 DEF Toggling, Born
    <2>5. LiveBackup(b)' => LiveBackup(b)
      BY <2>4 DEF LiveBackup
    <2> QED BY <1>4, <2>1, <2>2, <2>3, <2>5
  <1>5. \A b \in Backups \ crowded' : LiveBackup(b)' => (b \in locked' <=> b \in odd')
    BY DEF Toggled, Born, LiveBackup
  <1>6. Toggled'
    BY <1>4, <1>5 DEF Toggled
  <1> QED BY <1>3, <1>6

-----------------------------------------------------------------------------
(* The actions.                                                            *)

LEMMA InitInv == Init => IInv
  <1> SUFFICES ASSUME Init PROVE IInv
    OBVIOUS
  <1> USE DEF Init
  <1>1. TypeOK
    BY DEF TypeOK, Slot, Row, NoSub, NoBackup
  <1>2. Rightful /\ Noted /\ Opened /\ Placed
    BY DEF Rightful, Noted, Opened, Placed, Busy, Idle
  <1>3. References
    BY DEF References, LiveSub, LiveBackup, NoSub, NoBackup
  <1>4. Toggled
    BY DEF Toggled, Toggling, LiveBackup, NoBackup, Idle
  <1>5. Born
    BY DEF Born, Idle, NoBackup
  <1> QED BY <1>1, <1>2, <1>3, <1>4, <1>5 DEF IInv

\* The rows stay, and no slot moves into a toggle.
LEMMA QuietInv ==
  ASSUME IInv, Watch, UNCHANGED <<rows, odd, crowded>>, begun' \in Nat,
         req' \in [Requests -> Slot], Slots',
         \A q \in Requests : req'[q].pc \in {"lock", "unlock"} => req'[q] = req[q],
         \A q \in Requests : req'[q].pc = "erase" =>
             req'[q] = req[q] \/ backup[req'[q].ask.row].row # "unborn"
  PROVE  IInv'
  <1> USE DEF IInv
  <1>1. TypeOK'
    BY NotedNext DEF TypeOK, rows
  <1>2. References'
    BY DEF References, rows, LiveSub, LiveBackup
  <1>3. Toggled' /\ Born'
    BY LocksKept DEF rows
  <1> QED BY <1>1, <1>2, <1>3, NotedNext DEF Slots

\* The program counters a quiet step may lead to.
LEMMA QuietMove ==
  ASSUME IInv, Watch, UNCHANGED <<rows, odd, crowded>>, begun' \in Nat,
         req' \in [Requests -> Slot], Slots', NEW r \in Requests,
         req'[r].pc \in {"idle", "fetch", "permissions", "act"},
         \A q \in Requests \ {r} : req'[q] = req[q]
  PROVE  IInv'
  BY QuietInv

LEMMA BeginInv ==
  ASSUME IInv, Watch, NEW r \in Requests, NEW u \in Users, NEW a \in Ask, Begin(r, u, a)
  PROVE  IInv'
  <1>1. PICK x : x = [pc |-> IF a.op \in SubuserOps /\ u \in Admins THEN "act" ELSE "fetch",
                      user |-> u, ask |-> a]
    OBVIOUS
  <1>2. x \in Slot /\ x.pc \in {"act", "fetch"} /\ x.user = u /\ x.ask = a
        /\ (x.pc = "act" => u \in Admins)
    BY <1>1 DEF Slot, PCs
  <1>3. req' = [req EXCEPT ![r] = x] /\ UNCHANGED <<rows, odd, crowded>>
        /\ begun' = begun + 1
    BY <1>1 DEF Begin
  <1>4. req'[r] = x
    BY <1>3 DEF IInv, TypeOK
  <1>5. x.pc = "act" => r \in had'
    BY <1>2, <1>4 DEF Watch, Busy, Holds, Allowed
  <1>6. /\ req' \in [Requests -> Slot] /\ Slots'
        /\ \A q \in Requests \ {r} : req'[q] = req[q]
    BY <1>2, <1>3, <1>5, MovedSlots
  <1>7. begun' \in Nat
    BY <1>3 DEF IInv, TypeOK
  <1> QED BY <1>2, <1>3, <1>4, <1>6, <1>7, QuietMove

\* A handler that ends without having touched these rows.
LEMMA EndInv ==
  ASSUME IInv, Watch, NEW r \in Requests, Finish(r),
         UNCHANGED <<rows, begun, odd, crowded>>
  PROVE  IInv'
  <1>1. begun' \in Nat
    BY DEF IInv, TypeOK
  <1> QED BY <1>1, FinishSlots, QuietMove

LEMMA AdvanceInv ==
  ASSUME IInv, Watch, NEW r \in Requests, NEW pc \in {"permissions", "act"},
         Busy(r), Goto(r, pc), pc = "act" => Holds(r),
         UNCHANGED <<rows, begun, odd, crowded>>
  PROVE  IInv'
  <1>1. begun' \in Nat
    BY DEF IInv, TypeOK
  <1>2. req'[r].user = req[r].user /\ req'[r].ask = req[r].ask
    BY BusyFields DEF Goto, IInv, TypeOK
  <1>3. pc = "act" => Holds(r)'
    BY <1>2 DEF Holds, Allowed, RowsOf, Grants, LiveSub, rows
  <1>4. /\ req' \in [Requests -> Slot] /\ Slots' /\ req'[r].pc = pc
        /\ \A q \in Requests \ {r} : req'[q] = req[q]
    BY <1>3, GotoSlots DEF PCs
  <1> QED BY <1>1, <1>4, QuietMove

LEMMA FetchInv ==
  ASSUME IInv, Watch, NEW r \in Requests, Fetch(r)
  PROVE  IInv'
  <1>1. UNCHANGED <<rows, begun, odd, crowded>> /\ Busy(r)
    BY DEF Fetch, Busy
  <1>2. CASE Finish(r)
    BY <1>1, <1>2, EndInv
  <1>3. CASE /\ req[r].ask.srv \in servers /\ Goto(r, "act")
             /\ req[r].user \in Admins \/ OwnerOf[req[r].ask.srv] = req[r].user
    BY <1>1, <1>3, AdvanceInv DEF Holds, Allowed
  <1>4. CASE Goto(r, "permissions")
    BY <1>1, <1>4, AdvanceInv
  <1> QED BY <1>2, <1>3, <1>4 DEF Fetch

LEMMA ReadPermissionsInv ==
  ASSUME IInv, Watch, NEW r \in Requests, ReadPermissions(r)
  PROVE  IInv'
  <1>1. UNCHANGED <<rows, begun, odd, crowded>> /\ Busy(r)
    BY DEF ReadPermissions, Busy
  <1>2. CASE Finish(r)
    BY <1>1, <1>2, EndInv
  <1>3. CASE /\ Goto(r, "act")
             /\ \E s \in RowsOf(req[r].user, req[r].ask.srv) :
                    Grants(s, Need[req[r].ask.op])
    <2>1. req[r].ask.srv \in servers
      BY <1>3 DEF IInv, References, RowsOf
    <2>2. Holds(r)
      BY <1>3, <2>1 DEF Holds, Allowed
    <2> QED BY <1>1, <1>3, <2>2, AdvanceInv
  <1> QED BY <1>2, <1>3 DEF ReadPermissions

-----------------------------------------------------------------------------
(* The handlers of subusers.rs.                                            *)

\* A handler that ends with a statement on `server_subusers`.
LEMMA SubusersInv ==
  ASSUME IInv, Watch, NEW r \in Requests, Finish(r),
         UNCHANGED <<users, servers, backup, locked, done, working, begun, odd, crowded>>,
         sub' \in [Subs -> [row : Row, srv : Servers \cup {None},
                            user : Users \cup {None}, perms : Bodies \cup {{}}]],
         \A s \in Subs : sub'[s].row = "live" =>
             sub'[s].srv \in servers /\ sub'[s].user \in users,
         \A s, t \in Subs : sub'[s].row = "live" /\ sub'[t].row = "live"
             /\ sub'[s].srv = sub'[t].srv /\ sub'[s].user = sub'[t].user => s = t
  PROVE  IInv'
  <1> USE DEF IInv
  <1>1. /\ req' \in [Requests -> Slot] /\ Slots'
        /\ req'[r].pc = "idle" /\ \A q \in Requests \ {r} : req'[q] = req[q]
    BY FinishSlots
  <1>2. TypeOK'
    BY <1>1, NotedNext DEF TypeOK
  <1>3. References'
    BY DEF References, LiveSub, LiveBackup
  <1>4. Toggled' /\ Born'
    BY <1>1, LocksKept
  <1> QED BY <1>1, <1>2, <1>3, <1>4, NotedNext DEF Slots

LEMMA CreateSubuserInv ==
  ASSUME IInv, Watch, NEW r \in Requests, create_subuser(r)
  PROVE  IInv'
  <1>1. /\ Busy(r) /\ Finish(r) /\ req[r].ask.op = "create_subuser"
        /\ UNCHANGED <<users, servers, backup, locked, done, working, begun, odd, crowded>>
    BY DEF create_subuser, Acting, Busy
  <1>2. CASE UNCHANGED sub
    BY <1>1, <1>2, EndInv DEF rows
  <1>3. CASE Insertable(req[r].ask) /\ sub' # sub
    <2>1. PICK a : a = req[r].ask
      OBVIOUS
    <2>2. a.srv \in Servers /\ a.who \in Users /\ a.perms \in Bodies \cup {{}}
      BY <1>1, <2>1, BusyFields DEF IInv
    <2>3. PICK s \in Subs :
             /\ sub[s].row = "unborn"
             /\ sub' = [sub EXCEPT ![s] = [row |-> "live", srv |-> a.srv,
                                           user |-> a.who, perms |-> a.perms]]
      BY <1>3, <2>1 DEF create_subuser
    <2>4. sub' \in [Subs -> [row : Row, srv : Servers \cup {None},
                             user : Users \cup {None}, perms : Bodies \cup {{}}]]
      BY <2>2, <2>3 DEF IInv, TypeOK, Row
    <2>5. /\ sub'[s].row = "live" /\ sub'[s].srv = a.srv /\ sub'[s].user = a.who
          /\ \A t \in Subs \ {s} : sub'[t] = sub[t]
      BY <2>3 DEF IInv, TypeOK
    <2>6. /\ a.srv \in servers /\ a.who \in users
          /\ \A t \in Subs : ~(sub[t].row = "live" /\ sub[t].srv = a.srv /\ sub[t].user = a.who)
      BY <1>3, <2>1 DEF Insertable, RowsOf, LiveSub
    <2>7. \A t \in Subs : sub'[t].row = "live" =>
              sub'[t].srv \in servers /\ sub'[t].user \in users
      BY <2>5, <2>6 DEF IInv, References, LiveSub
    <2>8. \A t, v \in Subs : sub'[t].row = "live" /\ sub'[v].row = "live"
              /\ sub'[t].srv = sub'[v].srv /\ sub'[t].user = sub'[v].user => t = v
      BY <2>5, <2>6 DEF IInv, References, LiveSub
    <2> QED BY <1>1, <2>4, <2>7, <2>8, SubusersInv
  <1> QED BY <1>2, <1>3 DEF create_subuser

LEMMA UpdateSubuserInv ==
  ASSUME IInv, Watch, NEW r \in Requests, update_subuser(r)
  PROVE  IInv'
  <1>1. /\ Busy(r) /\ Finish(r) /\ req[r].ask.op = "update_subuser"
        /\ UNCHANGED <<users, servers, backup, locked, done, working, begun, odd, crowded>>
    BY DEF update_subuser, Acting, Busy
  <1>2. CASE UNCHANGED sub
    BY <1>1, <1>2, EndInv DEF rows
  <1>3. CASE sub' = [sub EXCEPT ![req[r].ask.row].perms = req[r].ask.perms]
    <2>1. PICK a : a = req[r].ask
      OBVIOUS
    <2>2. a.row \in Subs /\ a.perms \in Bodies \cup {{}}
      BY <1>1, <2>1, BusyFields DEF IInv, OfSub
    <2>3. sub' = [sub EXCEPT ![a.row].perms = a.perms]
      BY <1>3, <2>1
    <2>4. sub' \in [Subs -> [row : Row, srv : Servers \cup {None},
                             user : Users \cup {None}, perms : Bodies \cup {{}}]]
      BY <2>2, <2>3 DEF IInv, TypeOK
    <2>5. \A t \in Subs : /\ sub'[t].row = sub[t].row /\ sub'[t].srv = sub[t].srv
                          /\ sub'[t].user = sub[t].user
      BY <2>2, <2>3 DEF IInv, TypeOK
    <2>6. \A t \in Subs : sub'[t].row = "live" =>
              sub'[t].srv \in servers /\ sub'[t].user \in users
      BY <2>5 DEF IInv, References, LiveSub
    <2>7. \A t, v \in Subs : sub'[t].row = "live" /\ sub'[v].row = "live"
              /\ sub'[t].srv = sub'[v].srv /\ sub'[t].user = sub'[v].user => t = v
      BY <2>5 DEF IInv, References, LiveSub
    <2> QED BY <1>1, <2>4, <2>6, <2>7, SubusersInv
  <1> QED BY <1>2, <1>3 DEF update_subuser

LEMMA DeleteSubuserInv ==
  ASSUME IInv, Watch, NEW r \in Requests, delete_subuser(r)
  PROVE  IInv'
  <1>1. /\ Busy(r) /\ Finish(r) /\ req[r].ask.op = "delete_subuser"
        /\ UNCHANGED <<users, servers, backup, locked, done, working, begun, odd, crowded>>
    BY DEF delete_subuser, Acting, Busy
  <1>2. CASE UNCHANGED sub
    BY <1>1, <1>2, EndInv DEF rows
  <1>3. CASE sub' = [sub EXCEPT ![req[r].ask.row].row = "deleted"]
    <2>1. PICK s : s = req[r].ask.row
      OBVIOUS
    <2>2. s \in Subs
      BY <1>1, <2>1, BusyFields DEF IInv, OfSub
    <2>3. sub' = [sub EXCEPT ![s].row = "deleted"]
      BY <1>3, <2>1
    <2>4. sub' \in [Subs -> [row : Row, srv : Servers \cup {None},
                             user : Users \cup {None}, perms : Bodies \cup {{}}]]
      BY <2>2, <2>3 DEF IInv, TypeOK, Row
    <2>5. \A t \in Subs : sub'[t].row = "live" => sub'[t] = sub[t]
      BY <2>2, <2>3 DEF IInv, TypeOK
    <2>6. \A t \in Subs : sub'[t].row = "live" =>
              sub'[t].srv \in servers /\ sub'[t].user \in users
      BY <2>5 DEF IInv, References, LiveSub
    <2>7. \A t, v \in Subs : sub'[t].row = "live" /\ sub'[v].row = "live"
              /\ sub'[t].srv = sub'[v].srv /\ sub'[t].user = sub'[v].user => t = v
      BY <2>5 DEF IInv, References, LiveSub
    <2> QED BY <1>1, <2>4, <2>6, <2>7, SubusersInv
  <1> QED BY <1>2, <1>3 DEF delete_subuser

-----------------------------------------------------------------------------
(* The handlers of backups.rs.                                             *)

\* A handler that ends, or a task, having changed rows of `backups`.
LEMMA BackupsInv ==
  ASSUME IInv, Watch, req' \in [Requests -> Slot], Slots',
         \A q \in Requests : req'[q].pc \in {"erase", "lock", "unlock"} => req'[q] = req[q],
         UNCHANGED <<users, servers, sub, locked, begun, odd, crowded>>,
         backup' \in [Backups -> [row : Row, srv : Servers \cup {None}]],
         \A b \in Backups :
             \/ backup'[b] = backup[b]
             \/ backup'[b].row = "deleted"
             \/ /\ backup[b].row = "unborn" /\ backup'[b].row = "live"
                /\ backup'[b].srv \in servers,
         done' \subseteq Backups, working' \subseteq Backups
  PROVE  IInv'
  <1> USE DEF IInv
  <1>1. TypeOK'
    BY NotedNext DEF TypeOK
  <1>2. References'
    BY DEF References, LiveSub, LiveBackup
  <1>3. Toggled' /\ Born'
    BY RowsEnd
  <1> QED BY <1>1, <1>2, <1>3, NotedNext DEF Slots

LEMMA CreateBackupInv ==
  ASSUME IInv, Watch, NEW r \in Requests, create_backup(r)
  PROVE  IInv'
  <1>1. /\ Busy(r) /\ Finish(r)
        /\ UNCHANGED <<users, servers, sub, locked, done, begun, odd, crowded>>
    BY DEF create_backup, Acting, Busy
  <1>2. CASE UNCHANGED <<backup, working>>
    BY <1>1, <1>2, EndInv DEF rows
  <1>3. CASE req[r].ask.srv \in servers /\ ~UNCHANGED <<backup, working>>
    <2>1. PICK v : v = req[r].ask.srv
      OBVIOUS
    <2>2. v \in servers /\ v \in Servers
      BY <1>3, <2>1 DEF IInv, TypeOK
    <2>3. PICK b \in Backups :
             /\ backup[b].row = "unborn"
             /\ backup' = [backup EXCEPT ![b] = [row |-> "live", srv |-> v]]
             /\ working' = working \cup {b}
      BY <1>3, <2>1 DEF create_backup
    <2>4. backup' \in [Backups -> [row : Row, srv : Servers \cup {None}]]
      BY <2>2, <2>3 DEF IInv, TypeOK, Row
    <2>5. \A c \in Backups :
             \/ backup'[c] = backup[c]
             \/ /\ backup[c].row = "unborn" /\ backup'[c].row = "live"
                /\ backup'[c].srv \in servers
      BY <2>2, <2>3 DEF IInv, TypeOK
    <2>6. done' \subseteq Backups /\ working' \subseteq Backups
      BY <1>1, <2>3 DEF IInv, TypeOK
    <2>7. /\ req' \in [Requests -> Slot] /\ Slots'
          /\ \A q \in Requests : req'[q].pc \in {"erase", "lock", "unlock"} => req'[q] = req[q]
      BY <1>1, FinishSlots
    <2> QED BY <1>1, <2>4, <2>5, <2>6, <2>7, BackupsInv
  <1> QED BY <1>2, <1>3 DEF create_backup

LEMMA ProvisionInv ==
  ASSUME IInv, Watch, NEW b \in Backups, provision_backup_async(b)
  PROVE  IInv'
  <1>1. /\ UNCHANGED <<users, servers, sub, backup, locked, req, begun, odd, crowded>>
        /\ done' \subseteq Backups /\ working' \subseteq Backups
    BY DEF provision_backup_async, IInv, TypeOK
  <1>2. req' \in [Requests -> Slot] /\ Slots'
    BY <1>1, StillSlots
  <1>3. backup' \in [Backups -> [row : Row, srv : Servers \cup {None}]]
    BY <1>1 DEF IInv, TypeOK
  <1> QED BY <1>1, <1>2, <1>3, BackupsInv

LEMMA FindUnlockedInv ==
  ASSUME IInv, Watch, NEW r \in Requests, FindUnlocked(r)
  PROVE  IInv'
  <1>1. /\ Busy(r) /\ req[r].pc = "act" /\ req[r].ask.op = "delete_backup"
        /\ UNCHANGED <<rows, begun, odd, crowded>>
    BY DEF FindUnlocked, Acting, Busy
  <1>2. CASE Finish(r)
    BY <1>1, <1>2, EndInv
  <1>3. CASE /\ Found(req[r].ask) /\ req[r].ask.row \notin locked
             /\ Goto(r, "erase")
    <2>1. req'[r].ask = req[r].ask
      BY <1>1, <1>3, BusyFields DEF Goto, IInv, TypeOK
    <2>2. Open(r)'
      BY <1>1, <1>3, <2>1 DEF Open, OfBackup, rows
    <2>3. r \in had
      BY <1>1 DEF IInv, Rightful
    <2>4. /\ req' \in [Requests -> Slot] /\ Slots' /\ req'[r].pc = "erase"
          /\ \A q \in Requests \ {r} : req'[q] = req[q]
      BY <1>1, <1>3, <2>2, <2>3, GotoSlots DEF PCs
    <2>5. begun' \in Nat
      BY <1>1 DEF IInv, TypeOK
    <2>6. backup[req'[r].ask.row].row # "unborn"
      BY <1>3, <2>1 DEF Found, LiveBackup
    <2>7. \A q \in Requests : req'[q].pc \in {"lock", "unlock"} => req'[q] = req[q]
      BY <2>4
    <2>8. \A q \in Requests : req'[q].pc = "erase" =>
              req'[q] = req[q] \/ backup[req'[q].ask.row].row # "unborn"
      BY <2>4, <2>6
    <2> QED BY <1>1, <2>4, <2>5, <2>7, <2>8, QuietInv
  <1> QED BY <1>2, <1>3 DEF FindUnlocked

LEMMA EraseInv ==
  ASSUME IInv, Watch, NEW r \in Requests, Erase(r)
  PROVE  IInv'
  <1>1. PICK b : b = req[r].ask.row
    OBVIOUS
  <1>2. /\ backup' = [c \in Backups |-> IF c = b THEN [backup[c] EXCEPT !.row = "deleted"]
                                        ELSE backup[c]]
        /\ Finish(r)
        /\ UNCHANGED <<users, servers, sub, locked, done, working, begun, odd, crowded>>
    BY <1>1 DEF Erase
  <1>3. backup' \in [Backups -> [row : Row, srv : Servers \cup {None}]]
    BY <1>2 DEF IInv, TypeOK, Row
  <1>4. \A c \in Backups : backup'[c] = backup[c] \/ backup'[c].row = "deleted"
    BY <1>2 DEF IInv, TypeOK
  <1>5. /\ req' \in [Requests -> Slot] /\ Slots'
        /\ \A q \in Requests : req'[q].pc \in {"erase", "lock", "unlock"} => req'[q] = req[q]
    BY <1>2, FinishSlots
  <1>6. done' \subseteq Backups /\ working' \subseteq Backups
    BY <1>2 DEF IInv, TypeOK
  <1> QED BY <1>2, <1>3, <1>4, <1>5, <1>6, BackupsInv

\* A toggle begins: it is alone, or the backup is crowded from here on.
LEMMA ReadLockInv ==
  ASSUME IInv, Watch, NEW r \in Requests, ReadLock(r)
  PROVE  IInv'
  <1> USE DEF IInv
  <1>1. PICK b : b = req[r].ask.row
    OBVIOUS
  <1>2. /\ Busy(r) /\ req[r].pc = "act" /\ req[r].ask.op = "toggle_lock"
        /\ UNCHANGED <<rows, begun, odd>>
    BY DEF ReadLock, Acting, Busy
  <1>3. b \in Backups
    BY <1>1, <1>2, BusyFields DEF OfBackup
  <1>4. CASE Finish(r) /\ UNCHANGED crowded
    BY <1>2, <1>4, EndInv
  <1>5. CASE /\ Found(req[r].ask)
             /\ Goto(r, IF b \in locked THEN "unlock" ELSE "lock")
             /\ crowded' = IF Toggling(b) = {} THEN crowded ELSE crowded \cup {b}
    <2>1. PICK pc : pc = IF b \in locked THEN "unlock" ELSE "lock"
      OBVIOUS
    <2>2. pc \in {"lock", "unlock"} /\ pc \in PCs /\ r \in had
      BY <1>2, <2>1 DEF PCs, Rightful
    <2>3. /\ req' \in [Requests -> Slot] /\ Slots' /\ req'[r].pc = pc
          /\ req'[r].ask = req[r].ask
          /\ \A q \in Requests \ {r} : req'[q] = req[q]
      BY <1>2, <1>5, <2>1, <2>2, GotoSlots
    <2>4. crowded' \subseteq Backups /\ crowded \subseteq crowded'
      BY <1>3, <1>5 DEF TypeOK
    <2>5. TypeOK'
      BY <1>2, <2>3, <2>4, NotedNext DEF TypeOK, rows
    <2>6. References'
      BY <1>2 DEF References, rows, LiveSub, LiveBackup
    <2>7. LiveBackup(b)
      BY <1>1, <1>5 DEF Found
    <2>8. Born'
      BY <1>1, <1>2, <2>3, <2>7 DEF Born, rows, LiveBackup
    <2>9. Toggling(b)' = Toggling(b) \cup {r}
      BY <1>1, <2>2, <2>3 DEF Toggling
    <2>10. \A c \in Backups \ {b} : Toggling(c)' = Toggling(c) /\ r \notin Toggling(c)'
      BY <1>1, <1>2, <2>3 DEF Toggling
    <2>11. \A c \in Backups : LiveBackup(c)' <=> LiveBackup(c)
      BY <1>2 DEF rows, LiveBackup
    <2>12. ASSUME NEW c \in Backups \ crowded'
           PROVE  /\ LiveBackup(c)' => (c \in locked' <=> c \in odd')
                  /\ \A q \in Toggling(c)' :
                        /\ Toggling(c)' = {q}
                        /\ LiveBackup(c)' => (req'[q].pc = "lock" <=> c \notin locked')
      <3>1. LiveBackup(c)' => (c \in locked' <=> c \in odd')
        BY <1>2, <2>4, <2>11, <2>12 DEF Toggled, rows
      <3>2. CASE c = b
        <4>1. Toggling(b)' = {r}
          BY <1>5, <2>9, <2>12, <3>2
        <4>2. req'[r].pc = "lock" <=> b \notin locked'
          BY <1>2, <2>1, <2>3 DEF rows
        <4> QED BY <3>1, <3>2, <4>1, <4>2
      <3>3. CASE c # b
        <4>1. Toggling(c)' = Toggling(c) /\ \A q \in Toggling(c) : req'[q] = req[q]
          BY <2>3, <2>10, <3>3 DEF Toggling
        <4> QED BY <1>2, <2>4, <2>11, <2>12, <3>1, <4>1 DEF Toggled, rows
      <3> QED BY <3>2, <3>3
    <2>13. Toggled'
      BY <2>12 DEF Toggled
    <2> QED BY <2>3, <2>5, <2>6, <2>8, <2>13, NotedNext DEF Slots
  <1> QED BY <1>1, <1>4, <1>5 DEF ReadLock

\* A toggle ends: if it was alone, lock and parity change together.
LEMMA WriteLockInv ==
  ASSUME IInv, Watch, NEW r \in Requests, WriteLock(r)
  PROVE  IInv'
  <1> USE DEF IInv
  <1>1. PICK b : b = req[r].ask.row
    OBVIOUS
  <1>2. /\ req[r].pc \in {"lock", "unlock"} /\ Busy(r) /\ Finish(r)
        /\ locked' = IF ~LiveBackup(b) THEN locked
                     ELSE IF req[r].pc = "lock" THEN locked \cup {b} ELSE locked \ {b}
        /\ odd' = IF b \in odd THEN odd \ {b} ELSE odd \cup {b}
        /\ UNCHANGED <<users, servers, sub, backup, done, working, begun, crowded>>
    BY <1>1 DEF WriteLock, Busy
  <1>3. b \in Backups /\ backup[b].row # "unborn"
    <2>1. req[r].ask.op \in OfBackup
      BY <1>2 DEF Placed, OfBackup
    <2> QED BY <1>1, <1>2, <2>1, BusyFields DEF Born
  <1>4. /\ req' \in [Requests -> Slot] /\ Slots'
        /\ req'[r].pc = "idle" /\ \A q \in Requests \ {r} : req'[q] = req[q]
    BY <1>2, FinishSlots
  <1>5. locked' \subseteq Backups /\ odd' \subseteq Backups
    BY <1>2, <1>3 DEF TypeOK
  <1>6. TypeOK'
    BY <1>2, <1>4, <1>5, NotedNext DEF TypeOK
  <1>7. References'
    BY <1>2 DEF References, LiveSub, LiveBackup
  <1>8. Born'
    BY <1>2, <1>3, <1>4 DEF Born
  <1>9. \A c \in Backups \ {b} : c \in locked' <=> c \in locked
    BY <1>2
  <1>10. \A c \in Backups \ {b} : c \in odd' <=> c \in odd
    BY <1>2
  <1>11. \A c \in Backups : Toggling(c)' = Toggling(c) \ {r}
    BY <1>4 DEF Toggling
  <1>12. r \in Toggling(b)
    BY <1>1, <1>2 DEF Toggling
  <1>13. ASSUME NEW c \in Backups \ crowded'
         PROVE  /\ LiveBackup(c)' => (c \in locked' <=> c \in odd')
                /\ \A q \in Toggling(c)' :
                      /\ Toggling(c)' = {q}
                      /\ LiveBackup(c)' => (req'[q].pc = "lock" <=> c \notin locked')
    <2>1. CASE c = b
      <3>1. Toggling(b) = {r} /\ (LiveBackup(b) => (req[r].pc = "lock" <=> b \notin locked))
        BY <1>2, <1>12, <1>13, <2>1 DEF Toggled
      <3>2. Toggling(b)' = {}
        BY <1>3, <1>11, <3>1
      <3>3. LiveBackup(b) => (b \in locked <=> b \in odd)
        BY <1>2, <1>13, <2>1 DEF Toggled
      <3>4. LiveBackup(b)' => (b \in locked' <=> b \in odd')
        BY <1>2, <3>1, <3>3 DEF LiveBackup
      <3> QED BY <2>1, <3>2, <3>4
    <2>2. CASE c # b
      <3>1. Toggling(c)' = Toggling(c)
        BY <1>1, <1>11, <2>2 DEF Toggling
      <3>2. \A q \in Toggling(c) : req'[q] = req[q]
        BY <1>1, <1>4, <2>2 DEF Toggling
      <3> QED BY <1>2, <1>9, <1>10, <1>13, <2>2, <3>1, <3>2 DEF Toggled, LiveBackup
    <2> QED BY <2>1, <2>2
  <1>14. Toggled'
    BY <1>13 DEF Toggled
  <1> QED BY <1>4, <1>6, <1>7, <1>8, <1>14, NotedNext DEF Slots

-----------------------------------------------------------------------------
(* The cascades.                                                           *)

LEMMA DeleteServerInv ==
  ASSUME IInv, Watch, NEW v \in servers, delete_server(v)
  PROVE  IInv'
  <1> USE DEF IInv
  <1>1. /\ servers' = servers \ {v}
        /\ sub' = [s \in Subs |-> IF LiveSub(s) /\ sub[s].srv = v
                                  THEN [sub[s] EXCEPT !.row = "deleted"] ELSE sub[s]]
        /\ backup' = [b \in Backups |-> IF LiveBackup(b) /\ backup[b].srv = v
                                  THEN [backup[b] EXCEPT !.row = "deleted"] ELSE backup[b]]
        /\ UNCHANGED <<users, locked, done, working, req, begun, odd, crowded>>
    BY DEF delete_server
  <1>2. req' \in [Requests -> Slot] /\ Slots'
    BY <1>1, StillSlots
  <1>3. sub' \in [Subs -> [row : Row, srv : Servers \cup {None},
                           user : Users \cup {None}, perms : Bodies \cup {{}}]]
    BY <1>1 DEF TypeOK, Row
  <1>4. backup' \in [Backups -> [row : Row, srv : Servers \cup {None}]]
    BY <1>1 DEF TypeOK, Row
  <1>5. TypeOK'
    BY <1>1, <1>2, <1>3, <1>4, NotedNext DEF TypeOK
  <1>6. \A s \in Subs : LiveSub(s)' => sub'[s] = sub[s] /\ LiveSub(s) /\ sub[s].srv # v
    BY <1>1 DEF TypeOK, LiveSub
  <1>7. \A b \in Backups : LiveBackup(b)' =>
            backup'[b] = backup[b] /\ LiveBackup(b) /\ backup[b].srv # v
    BY <1>1 DEF TypeOK, LiveBackup
  <1>8. References'
    BY <1>1, <1>6, <1>7 DEF References
  <1>9. \A b \in Backups : backup'[b] = backup[b] \/ backup'[b].row = "deleted"
    BY <1>1 DEF TypeOK
  <1>10. Toggled' /\ Born'
    BY <1>1, <1>9, RowsEnd
  <1> QED BY <1>2, <1>5, <1>8, <1>10, NotedNext DEF Slots

LEMMA DeleteUserInv ==
  ASSUME IInv, Watch, NEW u \in users, delete_user(u)
  PROVE  IInv'
  <1> USE DEF IInv
  <1>1. /\ users' = users \ {u} /\ Ownerless(u)
        /\ sub' = [s \in Subs |-> IF LiveSub(s) /\ sub[s].user = u
                                  THEN [sub[s] EXCEPT !.row = "deleted"] ELSE sub[s]]
        /\ UNCHANGED <<servers, backup, locked, done, working, req, begun, odd, crowded>>
    BY DEF delete_user
  <1>2. req' \in [Requests -> Slot] /\ Slots'
    BY <1>1, StillSlots
  <1>3. sub' \in [Subs -> [row : Row, srv : Servers \cup {None},
                           user : Users \cup {None}, perms : Bodies \cup {{}}]]
    BY <1>1 DEF TypeOK, Row
  <1>4. TypeOK'
    BY <1>1, <1>2, <1>3, NotedNext DEF TypeOK
  <1>5. \A s \in Subs : LiveSub(s)' => sub'[s] = sub[s] /\ LiveSub(s) /\ sub[s].user # u
    BY <1>1 DEF TypeOK, LiveSub
  <1>6. \A v \in servers' : OwnerOf[v] \in users'
    BY <1>1 DEF References, Ownerless
  <1>7. References'
    BY <1>1, <1>5, <1>6 DEF References, LiveBackup
  <1>8. Toggled' /\ Born'
    BY <1>1, LocksKept
  <1> QED BY <1>2, <1>4, <1>7, <1>8, NotedNext DEF Slots

-----------------------------------------------------------------------------
(* The theorems.                                                           *)

LEMMA ElsewhereInv ==
  ASSUME IInv, Watch, NEW r \in Requests, Elsewhere(r) \/ Drop(r)
  PROVE  IInv'
  BY EndInv DEF Elsewhere, Drop

LEMMA StutterInv == IInv /\ UNCHANGED vars => IInv'
  <1> SUFFICES ASSUME IInv, UNCHANGED vars PROVE IInv'
    OBVIOUS
  <1> USE DEF IInv, vars, rows
  <1>1. TypeOK'
    BY DEF TypeOK
  <1>2. Rightful' /\ Opened' /\ Placed'
    BY DEF Rightful, Opened, Placed
  <1>3. Noted'
    BY DEF Noted, Busy, Holds, Allowed, RowsOf, Grants, LiveSub, Open
  <1>4. References'
    BY DEF References, LiveSub, LiveBackup
  <1>5. Toggled' /\ Born'
    BY LocksKept
  <1> QED BY <1>1, <1>2, <1>3, <1>4, <1>5

LEMMA InductiveStep == IInv /\ [Next]_vars => IInv'
  <1> SUFFICES ASSUME IInv, Step, Watch PROVE IInv'
    BY StutterInv DEF Next
  <1>1. CASE \E r \in Requests, u \in Users, op \in Ops : \E a \in Asks(op) : Begin(r, u, a)
    BY <1>1, BeginInv DEF Ask
  <1>2. CASE \E r \in Requests : Handler(r)
    <2>1. PICK r \in Requests : Handler(r)
      BY <1>2
    <2>2. CASE Fetch(r) \/ ReadPermissions(r) \/ Elsewhere(r) \/ Drop(r)
      BY <2>2, FetchInv, ReadPermissionsInv, ElsewhereInv
    <2>3. CASE create_subuser(r) \/ update_subuser(r) \/ delete_subuser(r)
      BY <2>3, CreateSubuserInv, UpdateSubuserInv, DeleteSubuserInv
    <2>4. CASE create_backup(r) \/ FindUnlocked(r) \/ Erase(r)
      BY <2>4, CreateBackupInv, FindUnlockedInv, EraseInv
    <2>5. CASE ReadLock(r) \/ WriteLock(r)
      BY <2>5, ReadLockInv, WriteLockInv
    <2> QED BY <2>1, <2>2, <2>3, <2>4, <2>5 DEF Handler
  <1>3. CASE \E b \in Backups : provision_backup_async(b)
    BY <1>3, ProvisionInv
  <1>4. CASE \E v \in servers : delete_server(v)
    BY <1>4, DeleteServerInv
  <1>5. CASE \E u \in users : delete_user(u)
    BY <1>5, DeleteUserInv
  <1> QED BY <1>1, <1>2, <1>3, <1>4, <1>5 DEF Step

\* The inductive invariant: whoever has come to the statements of a handler
\* held the right to them while it ran (Rightful), though check_access reads
\* the server and the permissions one after the other, and the foreign keys and
\* the unique pair hold (References).
THEOREM AccessInvariance == Spec => []IInv
  BY InitInv, InductiveStep, PTL DEF Spec

\* A deleted user who is no administrator may do nothing to any server: the
\* cascades leave him nothing and no insert gives him anything later.
THEOREM DeletedUsersHoldNothing == Spec => []GhostsHoldNothing
  <1>1. IInv => GhostsHoldNothing
    BY DEF IInv, TypeOK, References, GhostsHoldNothing, Allowed, RowsOf
  <1> QED BY <1>1, AccessInvariance, PTL

\* toggle_lock counts right unless two of them overlap on one backup.
THEOREM LockCounts == Spec => []LockParity
  <1>1. IInv => LockParity
    BY DEF IInv, Toggled, LockParity
  <1> QED BY <1>1, AccessInvariance, PTL

\* delete_backup deletes a locked backup only if it was unlocked at a moment of
\* that request: the test and the DELETE are two statements.
THEOREM LockedBackupsStay == Spec => LockedStays
  <1> DEFINE Stays == \A b \in Backups : LiveBackup(b) /\ ~LiveBackup(b)' /\ b \in locked =>
                \/ backup[b].srv \in servers \ servers'
                \/ \E r \in free : req[r].pc = "erase" /\ req[r].ask.row = b
  <1>1. ASSUME IInv, Step, NEW b \in Backups, LiveBackup(b), ~LiveBackup(b)'
        PROVE  \/ backup[b].srv \in servers \ servers'
               \/ \E r \in free : req[r].pc = "erase" /\ req[r].ask.row = b
    <2>1. backup'[b] # backup[b]
      BY <1>1 DEF LiveBackup
    <2>2. CASE \E r \in Requests, u \in Users, op \in Ops : \E a \in Asks(op) : Begin(r, u, a)
      BY <2>1, <2>2 DEF Begin, rows
    <2>3. CASE \E r \in Requests : Handler(r)
      <3>1. PICK r \in Requests : Handler(r)
        BY <2>3
      <3>2. CASE create_backup(r)
        <4>1. PICK c \in Backups : backup[c].row = "unborn"
                  /\ backup' = [backup EXCEPT ![c] = [row |-> "live", srv |-> req[r].ask.srv]]
          BY <2>1, <3>2 DEF create_backup
        <4>2. c # b
          BY <1>1, <4>1 DEF LiveBackup
        <4> QED BY <1>1, <2>1, <4>1, <4>2 DEF IInv, TypeOK
      <3>3. CASE Erase(r)
        <4>1. req[r].pc = "erase" /\ req[r].ask.row = b
          BY <1>1, <2>1, <3>3 DEF Erase
        <4>2. r \in free
          BY <1>1, <4>1 DEF IInv, Opened
        <4> QED BY <4>1, <4>2
      <3>4. CASE \/ Fetch(r) \/ ReadPermissions(r) \/ Elsewhere(r) \/ Drop(r)
                 \/ FindUnlocked(r) \/ ReadLock(r)
        BY <2>1, <3>4 DEF Fetch, ReadPermissions, Elsewhere, Drop, FindUnlocked, ReadLock, rows
      <3>5. CASE create_subuser(r) \/ update_subuser(r) \/ delete_subuser(r) \/ WriteLock(r)
        BY <2>1, <3>5 DEF create_subuser, update_subuser, delete_subuser, WriteLock
      <3> QED BY <3>1, <3>2, <3>3, <3>4, <3>5 DEF Handler
    <2>4. CASE \E c \in Backups : provision_backup_async(c)
      BY <2>1, <2>4 DEF provision_backup_async
    <2>5. CASE \E v \in servers : delete_server(v)
      BY <1>1, <2>1, <2>5 DEF delete_server
    <2>6. CASE \E u \in users : delete_user(u)
      BY <2>1, <2>6 DEF delete_user
    <2> QED BY <1>1, <2>2, <2>3, <2>4, <2>5, <2>6 DEF Step
  <1>2. IInv /\ [Next]_vars => [Stays]_vars
    BY <1>1 DEF Next
  <1> QED BY <1>2, AccessInvariance, PTL DEF LockedStays, Spec

\* A row of permissions changes by the work of a request whose caller held the
\* permission for just that change (create, update and delete_subuser), or goes
\* with its server or its user.
THEOREM RightsChangeByRight == Spec => ByRight
  <1> DEFINE Rightly(s) ==
                \/ sub[s].srv \in servers \ servers'
                \/ sub[s].user \in users \ users'
                \/ \E r \in had : /\ Busy(r) /\ ~Busy(r)'
                                  /\ req[r].ask.op = Change(s)
                                  /\ req[r].ask.srv = sub'[s].srv
  <1>1. ASSUME IInv, Step, NEW s \in Subs, sub'[s] # sub[s]
        PROVE  Rightly(s)
    <2>1. CASE \E r \in Requests, u \in Users, op \in Ops : \E a \in Asks(op) : Begin(r, u, a)
      BY <1>1, <2>1 DEF Begin, rows
    <2>2. CASE \E r \in Requests : Handler(r)
      <3>1. PICK r \in Requests : Handler(r)
        BY <2>2
      <3>2. ASSUME req[r].pc = "act", Finish(r)
            PROVE  r \in had /\ Busy(r) /\ ~Busy(r)'
        <4>1. req'[r].pc = "idle"
          BY <1>1, <3>2 DEF IInv, TypeOK, Finish, Idle
        <4> QED BY <1>1, <3>2, <4>1 DEF IInv, Rightful, Busy
      <3>3. CASE create_subuser(r)
        <4>1. PICK a : a = req[r].ask
          OBVIOUS
        <4>2. PICK t \in Subs : /\ sub[t].row = "unborn"
                                /\ sub' = [sub EXCEPT ![t] =
                                      [row |-> "live", srv |-> a.srv, user |-> a.who,
                                       perms |-> a.perms]]
          BY <1>1, <3>3, <4>1 DEF create_subuser
        <4>3. t = s /\ sub'[s].srv = a.srv /\ Change(s) = "create_subuser"
          BY <1>1, <4>2 DEF IInv, TypeOK, Change
        <4> QED BY <3>2, <3>3, <4>1, <4>3 DEF create_subuser, Acting
      <3>4. CASE update_subuser(r)
        <4>1. PICK a : a = req[r].ask
          OBVIOUS
        <4>2. LiveSub(a.row) /\ sub[a.row].srv = a.srv
              /\ sub' = [sub EXCEPT ![a.row].perms = a.perms]
          BY <1>1, <3>4, <4>1 DEF update_subuser, Matches
        <4>3. a.row = s
          BY <1>1, <4>2 DEF IInv, TypeOK
        <4>4. /\ sub'[s].srv = a.srv /\ sub[s].row = "live" /\ sub'[s].row = "live"
          BY <1>1, <4>2, <4>3 DEF IInv, TypeOK, LiveSub
        <4>5. Change(s) = "update_subuser"
          BY <4>4 DEF Change
        <4> QED BY <3>2, <3>4, <4>1, <4>4, <4>5 DEF update_subuser, Acting
      <3>5. CASE delete_subuser(r)
        <4>1. PICK a : a = req[r].ask
          OBVIOUS
        <4>2. LiveSub(a.row) /\ sub[a.row].srv = a.srv
              /\ sub' = [sub EXCEPT ![a.row].row = "deleted"]
          BY <1>1, <3>5, <4>1 DEF delete_subuser, Matches
        <4>3. a.row = s
          BY <1>1, <4>2 DEF IInv, TypeOK
        <4>4. /\ sub'[s].srv = a.srv /\ sub[s].row = "live" /\ sub'[s].row = "deleted"
          BY <1>1, <4>2, <4>3 DEF IInv, TypeOK, LiveSub
        <4>5. Change(s) = "delete_subuser"
          BY <4>4 DEF Change
        <4> QED BY <3>2, <3>5, <4>1, <4>4, <4>5 DEF delete_subuser, Acting
      <3>6. CASE \/ Fetch(r) \/ ReadPermissions(r) \/ Elsewhere(r) \/ Drop(r)
                 \/ FindUnlocked(r) \/ ReadLock(r)
        BY <1>1, <3>6 DEF Fetch, ReadPermissions, Elsewhere, Drop, FindUnlocked, ReadLock, rows
      <3>7. CASE create_backup(r) \/ Erase(r) \/ WriteLock(r)
        BY <1>1, <3>7 DEF create_backup, Erase, WriteLock
      <3> QED BY <3>1, <3>3, <3>4, <3>5, <3>6, <3>7 DEF Handler
    <2>3. CASE \E c \in Backups : provision_backup_async(c)
      BY <1>1, <2>3 DEF provision_backup_async
    <2>4. CASE \E v \in servers : delete_server(v)
      BY <1>1, <2>4 DEF delete_server
    <2>5. CASE \E u \in users : delete_user(u)
      BY <1>1, <2>5 DEF delete_user
    <2> QED BY <1>1, <2>1, <2>2, <2>3, <2>4, <2>5 DEF Step
  <1>2. IInv /\ [Next]_vars => [\A s \in Subs : sub'[s] # sub[s] => Rightly(s)]_vars
    BY <1>1 DEF Next
  <1> QED BY <1>2, AccessInvariance, PTL DEF ByRight, Spec

=============================================================================
