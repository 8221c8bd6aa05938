----------------------------- MODULE ServerProofs -----------------------------
(***************************************************************************)
(* Proofs about ServerProperties, for any number of servers and handlers,  *)
(* any operations and any hazards.                                         *)
(***************************************************************************)
EXTENDS ServerProperties, TLAPS

(***************************************************************************)
(* A step of handler r that concerns server s and no other: what it must   *)
(* establish for IInv to survive it.                                       *)
(***************************************************************************)
Local(r, s) ==
    /\ TypeOK'
    /\ \A t \in Servers \ {s} :
          /\ row'[t] = row[t]
          /\ container'[t] = container[t]
          /\ t \in disturbed' <=> t \in disturbed
    /\ \A q \in Requests \ {r} : req'[q] = req[q]
    /\ s \in disturbed => s \in disturbed'
    /\ req[r].srv = s \/ InFlight(s) = {} \/ s \in disturbed'
    /\ \/ req'[r] = Idle
       \/ req'[r].srv = s /\ req'[r].pc # "idle"
    /\ req[r].srv \in {s, NoServer}
    /\ row'[s] # "unborn"
    /\ s \notin disturbed' => IF req'[r] = Idle THEN Agree(s)' ELSE Halfway(r)'

LEMMA LocalPreserves ==
    ASSUME IInv, NEW r \in Requests, NEW s \in Servers, Local(r, s)
    PROVE  IInv'
  <1> USE ConstantsOK
  <1>1. TypeOK'
    BY DEF Local
  <1>2. Slots'
    BY DEF Local, IInv, Slots, Idle
  <1>3. ASSUME NEW q \in Requests, NEW t \in Servers \ {s}
        PROVE  req'[q].srv = t <=> req[q].srv = t
    BY DEF Local, Idle
  <1>4. \A t \in Servers \ {s} : InFlight(t)' = InFlight(t)
    BY <1>3 DEF InFlight
  <1>5. Inserted'
    BY <1>4 DEF Local, IInv, Inserted
  <1>6. ASSUME NEW q \in Requests \ {r}, req'[q].srv = s, s \notin disturbed',
               req'[r].srv = s
        PROVE  FALSE
    BY <1>6 DEF Local, IInv, OneHandler, InFlight
  <1>7. OneHandler'
    BY <1>3, <1>6 DEF Local, IInv, OneHandler
  <1>8. ASSUME NEW q \in Requests, req'[q].srv \in Servers \ disturbed'
        PROVE  Halfway(q)'
    <2>1. CASE q = r
      BY <1>8, <2>1 DEF Local, Idle
    <2>2. CASE q # r /\ req'[q].srv # s
      BY <1>8, <2>2 DEF Local, IInv, Halfway, Agree
    <2>3. CASE q # r /\ req'[q].srv = s
      \* Were q on s beside r, s would be disturbed.
      BY <1>8, <2>3 DEF Local, IInv, OneHandler, InFlight
    <2>4. QED
      BY <2>1, <2>2, <2>3
  <1>9. ASSUME NEW t \in Servers \ disturbed', InFlight(t)' = {}
        PROVE  Agree(t)'
    <2>1. CASE t = s
      <3>1. req'[r] = Idle
        BY <1>9, <2>1 DEF Local, InFlight
      <3>2. QED
        BY <1>9, <2>1, <3>1 DEF Local
    <2>2. CASE t # s
      <3>1. InFlight(t) = {} /\ t \notin disturbed
        BY <1>4, <1>9, <2>2 DEF Local
      <3>2. Agree(t)
        BY <1>9, <3>1 DEF IInv, StatusTold
      <3>3. QED
        BY <2>2, <3>2 DEF Local, Agree
    <2>3. QED
      BY <2>1, <2>2
  <1>10. QED
    BY <1>1, <1>2, <1>5, <1>7, <1>8, <1>9 DEF IInv, StatusTold

-----------------------------------------------------------------------------
\* A busy slot names a server, whose row was inserted.
LEMMA Busy ==
    ASSUME IInv, NEW r \in Requests, req[r].pc # "idle"
    PROVE  \E s \in Servers :
               /\ req[r].srv = s
               /\ row[s] \in Statuses \ {"unborn"}
               /\ container[s] \in Container
               /\ s \notin disturbed => Halfway(r)
  <1>1. req[r].srv \in Servers
    BY DEF IInv, TypeOK, Slots
  <1>2. row[req[r].srv] # "unborn"
    BY <1>1 DEF IInv, Inserted, InFlight
  <1>3. QED
    BY <1>1, <1>2 DEF IInv, TypeOK

\* Moving a slot on, or emptying it, touches no other slot.
LEMMA GotoFacts ==
    ASSUME IInv, NEW r \in Requests, NEW pc \in PCs \ {"idle"},
           req[r].srv \in Servers, Goto(r, pc)
    PROVE  /\ req' \in [Requests -> [srv : Servers \cup {NoServer}, pc : PCs]]
           /\ \A q \in Requests \ {r} : req'[q] = req[q]
           /\ req'[r] # Idle
           /\ req'[r].srv = req[r].srv
           /\ req'[r].pc = pc
  BY DEF Goto, IInv, TypeOK, Idle

LEMMA FinishFacts ==
    ASSUME IInv, NEW r \in Requests, Finish(r)
    PROVE  /\ req' \in [Requests -> [srv : Servers \cup {NoServer}, pc : PCs]]
           /\ \A q \in Requests \ {r} : req'[q] = req[q]
           /\ req'[r] = Idle
  BY DEF Finish, IInv, TypeOK, Idle, PCs

\* Obeying changes one container.
LEMMA ObeyedFacts ==
    ASSUME IInv, NEW s \in Servers, NEW c \in {"start", "stop", "remove", "create"},
           Obeyed(s, c)
    PROVE  /\ container' \in [Servers -> Container]
           /\ \A t \in Servers \ {s} : container'[t] = container[t]
           /\ container'[s] = Gives[c]
           /\ container[s] \in Needs[c]
  BY DEF Obeyed, Needs, Gives, Container, IInv, TypeOK

\* A write changes one row, and never back to "unborn".
LEMMA SetStatusFacts ==
    ASSUME IInv, NEW s \in Servers, NEW st \in Live \cup {"deleted"},
           row[s] # "unborn", SetStatus(s, st)
    PROVE  /\ row' \in [Servers -> Statuses]
           /\ \A t \in Servers \ {s} : row'[t] = row[t]
           /\ row'[s] # "unborn"
           /\ row[s] \in Live => row'[s] = st
  BY DEF SetStatus, IInv, TypeOK, Statuses, Live

(***************************************************************************)
(* One call, and one last statement.  What is left to each handler is the  *)
(* case in which the server stays undisturbed.                             *)
(***************************************************************************)
LEMMA CallPreserves ==
    ASSUME IInv, NEW r \in Requests, NEW s \in Servers, req[r].srv = s,
           row[s] # "unborn",
           NEW c \in {"start", "stop", "remove", "create"},
           NEW ok \in PCs, NEW err \in PCs,
           Call(r, c, ok, err),
           s \notin disturbed' =>
               IF req'[r] = Idle THEN Agree(s)' ELSE Halfway(r)'
    PROVE  IInv'
  <1>1. /\ req' \in [Requests -> [srv : Servers \cup {NoServer}, pc : PCs]]
        /\ \A q \in Requests \ {r} : req'[q] = req[q]
        /\ req'[r] = Idle \/ (req'[r].srv = s /\ req'[r].pc # "idle")
    BY GotoFacts, FinishFacts DEF Call
  <1>2. /\ container' \in [Servers -> Container]
        /\ \A t \in Servers \ {s} : container'[t] = container[t]
    BY ObeyedFacts DEF Call, Refused, IInv, TypeOK
  <1>3. /\ disturbed' = disturbed \/ disturbed' = disturbed \cup {s}
        /\ row' = row
    BY DEF Call, Disturb
  <1>4. Local(r, s)
    BY <1>1, <1>2, <1>3 DEF Local, IInv, TypeOK
  <1>5. QED
    BY <1>4, LocalPreserves

LEMMA WritePreserves ==
    ASSUME IInv, NEW r \in Requests, NEW s \in Servers, req[r].srv = s,
           row[s] # "unborn",
           Finish(r), UNCHANGED container,
           NEW st \in Live \cup {"deleted"},
           SetStatus(s, st) \/ UNCHANGED row,
           UNCHANGED disturbed \/ Disturb(s),
           s \notin disturbed' => Agree(s)'
    PROVE  IInv'
  <1>1. /\ req' \in [Requests -> [srv : Servers \cup {NoServer}, pc : PCs]]
        /\ \A q \in Requests \ {r} : req'[q] = req[q]
        /\ req'[r] = Idle
    BY FinishFacts
  <1>2. /\ row' \in [Servers -> Statuses]
        /\ \A t \in Servers \ {s} : row'[t] = row[t]
        /\ row'[s] # "unborn"
    BY SetStatusFacts DEF IInv, TypeOK
  <1>3. disturbed' = disturbed \/ disturbed' = disturbed \cup {s}
    BY DEF Disturb
  <1>4. Local(r, s)
    BY <1>1, <1>2, <1>3 DEF Local, IInv, TypeOK
  <1>5. QED
    BY <1>4, LocalPreserves

-----------------------------------------------------------------------------
(* One lemma per handler.                                                  *)

LEMMA CreateInv ==
    ASSUME IInv, NEW r \in Requests
    PROVE  /\ \A s \in Servers : CreateInsert(r, s) => IInv'
           /\ CreateLink(r) => IInv'
           /\ CreateProvision(r) => IInv'
           /\ CreateUndo(r) => IInv'
           /\ CreateFinish(r) => IInv'
  <1>1. ASSUME NEW s \in Servers, CreateInsert(r, s) PROVE IInv'
    <2>1. InFlight(s) = {} /\ s \notin disturbed /\ container[s] = "none"
      BY <1>1 DEF CreateInsert, IInv, Inserted
    <2>2. Local(r, s)
      BY <1>1, <2>1
         DEF CreateInsert, Local, IInv, TypeOK, Idle, PCs, DbWrites, Statuses,
             Live, Halfway, Installing, Untouched, Deciding
    <2>3. QED
      BY <2>2, LocalPreserves
  <1>2. ASSUME CreateLink(r) PROVE IInv'
    <2>1. PICK s \in Servers :
             /\ req[r].srv = s
             /\ row[s] # "unborn"
             /\ s \notin disturbed => Halfway(r)
      BY <1>2, Busy DEF CreateLink
    <2>2. /\ req' \in [Requests -> [srv : Servers \cup {NoServer}, pc : PCs]]
          /\ \A q \in Requests \ {r} : req'[q] = req[q]
          /\ \/ req'[r] = Idle
             \/ /\ req'[r] # Idle
                /\ req'[r].srv = s
                /\ req'[r].pc \in {"install", "undo"}
      BY <1>2, <2>1, GotoFacts, FinishFacts
         DEF CreateLink, PCs, NodeCalls, DbWrites
    <2>3. s \notin disturbed' =>
              IF req'[r] = Idle THEN Agree(s)' ELSE Halfway(r)'
      BY <1>2, <2>1, <2>2
         DEF CreateLink, Halfway, Installing, Untouched, Deciding, Agree
    <2>4. Local(r, s)
      BY <1>2, <2>1, <2>2, <2>3 DEF CreateLink, Local, IInv, TypeOK
    <2>5. QED
      BY <2>1, <2>4, LocalPreserves
  <1>3. ASSUME CreateProvision(r) PROVE IInv'
    <2>1. PICK s \in Servers :
             /\ req[r].srv = s
             /\ row[s] # "unborn"
             /\ s \notin disturbed => Halfway(r)
      BY <1>3, Busy DEF CreateProvision
    <2>2. s \notin disturbed' =>
              IF req'[r] = Idle THEN Agree(s)' ELSE Halfway(r)'
      BY <1>3, <2>1, GotoFacts, ObeyedFacts
         DEF CreateProvision, Call, Refused, Disturb, Needs, Gives, PCs, DbWrites,
             Halfway, Installing, Untouched, Deciding
    <2>3. QED
      BY <1>3, <2>1, <2>2, CallPreserves DEF CreateProvision, PCs, DbWrites
  <1>4. ASSUME CreateUndo(r) PROVE IInv'
    <2>1. PICK s \in Servers :
             /\ req[r].srv = s
             /\ row[s] # "unborn"
             /\ s \notin disturbed => Halfway(r)
      BY <1>4, Busy DEF CreateUndo, LastWrite
    <2>2. s \notin disturbed' => Agree(s)'
      BY <1>4, <2>1, SetStatusFacts
         DEF CreateUndo, LastWrite, DeleteRow, Disturb, Halfway, Installing,
             Live, Agree
    <2>3. QED
      BY <1>4, <2>1, <2>2, WritePreserves DEF CreateUndo, LastWrite, DeleteRow
  <1>5. ASSUME CreateFinish(r) PROVE IInv'
    <2>1. PICK s \in Servers :
             /\ req[r].srv = s
             /\ row[s] # "unborn"
             /\ s \notin disturbed => Halfway(r)
      BY <1>5, Busy DEF CreateFinish, LastWrite
    <2>2. s \notin disturbed' => Agree(s)'
      BY <1>5, <2>1, SetStatusFacts
         DEF CreateFinish, LastWrite, Disturb, Halfway, Installing, Live, Agree
    <2>3. QED
      BY <1>5, <2>1, <2>2, WritePreserves DEF CreateFinish, LastWrite, Live
  <1>6. QED
    BY <1>1, <1>2, <1>3, <1>4, <1>5

LEMMA BeginInv ==
    ASSUME IInv, NEW r \in Requests, NEW s \in Servers, NEW op \in AllOps,
           Begin(r, s, op)
    PROVE  IInv'
  <1>1. /\ req' \in [Requests -> [srv : Servers \cup {NoServer}, pc : PCs]]
        /\ \A q \in Requests \ {r} : req'[q] = req[q]
        /\ req'[r] = [srv |-> s, pc |-> op]
        /\ req'[r] # Idle
        /\ op # "idle"
    BY DEF Begin, IInv, TypeOK, Idle, AllOps, PCs, NodeCalls, DbWrites
  <1>2. InFlight(s) # {} => s \in disturbed'
    BY DEF Begin
  <1>3. s \notin disturbed' => Agree(s)
    BY DEF Begin, IInv, StatusTold
  <1>4. s \notin disturbed' => Halfway(r)'
    BY <1>1, <1>3
       DEF Begin, AllOps, Halfway, Installing, Untouched, Deciding, Agree
  <1>5. Local(r, s)
    BY <1>1, <1>2, <1>4 DEF Begin, Local, IInv, TypeOK, Idle, Live
  <1>6. QED
    BY <1>5, LocalPreserves

\* Handlers that end without a trace.
LEMMA GiveUpInv ==
    ASSUME IInv, NEW r \in Requests, ConnectFails(r) \/ ReinstallGivesUp(r)
    PROVE  IInv'
  <1>1. PICK s \in Servers :
           /\ req[r].srv = s
           /\ row[s] # "unborn"
           /\ s \notin disturbed => Halfway(r)
    BY Busy DEF ConnectFails, ReinstallGivesUp, NodeCalls
  <1>2. s \notin disturbed => Agree(s)
    BY <1>1
       DEF ConnectFails, ReinstallGivesUp, NodeCalls, Halfway, Installing,
           Untouched, Deciding, Agree
  <1>3. /\ Finish(r)
        /\ UNCHANGED <<row, container, disturbed>>
        /\ s \notin disturbed' => Agree(s)'
    BY <1>2 DEF ConnectFails, ReinstallGivesUp, Agree
  <1>4. QED
    BY <1>1, <1>3, WritePreserves

LEMMA StartInv ==
    ASSUME IInv, NEW r \in Requests, StartCall(r) \/ StartOk(r) \/ StartErr(r)
    PROVE  IInv'
  <1>1. PICK s \in Servers :
           /\ req[r].srv = s
           /\ row[s] \in Statuses \ {"unborn"}
           /\ container[s] \in Container
           /\ s \notin disturbed => Halfway(r)
    BY Busy DEF StartCall, StartOk, StartErr, LastWrite
  <1>2. CASE StartCall(r)
    <2>1. s \notin disturbed' =>
              IF req'[r] = Idle THEN Agree(s)' ELSE Halfway(r)'
      BY <1>1, <1>2, GotoFacts, ObeyedFacts
         DEF StartCall, Call, Refused, Harmless, Disturb, Needs, Gives, PCs,
             DbWrites, Halfway, Installing, Untouched, Deciding, Agree, Container
    <2>2. QED
      BY <1>1, <1>2, <2>1, CallPreserves DEF StartCall, PCs, DbWrites
  <1>3. CASE StartOk(r)
    <2>1. s \notin disturbed' => Agree(s)'
      BY <1>1, <1>3, SetStatusFacts
         DEF StartOk, LastWrite, Disturb, Halfway, Installing, Deciding, Live, Agree
    <2>2. QED
      BY <1>1, <1>3, <2>1, WritePreserves DEF StartOk, LastWrite, Live
  <1>4. CASE StartErr(r)
    <2>1. s \notin disturbed' => Agree(s)'
      BY <1>1, <1>4, SetStatusFacts
         DEF StartErr, LastWrite, Disturb, Halfway, Installing, Deciding, Live, Agree
    <2>2. QED
      BY <1>1, <1>4, <2>1, WritePreserves DEF StartErr, LastWrite, Live
  <1>5. QED
    BY <1>2, <1>3, <1>4
LEMMA StopInv ==
    ASSUME IInv, NEW r \in Requests, StopCall(r) \/ StopOk(r) \/ RestartStop(r)
    PROVE  IInv'
  <1>1. PICK s \in Servers :
           /\ req[r].srv = s
           /\ row[s] \in Statuses \ {"unborn"}
           /\ container[s] \in Container
           /\ s \notin disturbed => Halfway(r)
    BY Busy DEF StopCall, StopOk, RestartStop, LastWrite
  <1>2. CASE StopCall(r)
    <2>1. s \notin disturbed' =>
              IF req'[r] = Idle THEN Agree(s)' ELSE Halfway(r)'
      BY <1>1, <1>2, GotoFacts, FinishFacts, ObeyedFacts
         DEF StopCall, Call, Refused, Harmless, Disturb, Needs, Gives, PCs, NodeCalls,
             DbWrites, Halfway, Installing, Untouched, Deciding, Agree, Container
    <2>2. QED
      BY <1>1, <1>2, <2>1, CallPreserves DEF StopCall, PCs, NodeCalls, DbWrites
  <1>3. CASE StopOk(r)
    <2>1. s \notin disturbed' => Agree(s)'
      BY <1>1, <1>3, SetStatusFacts
         DEF StopOk, LastWrite, Disturb, Halfway, Installing, Untouched,
             Deciding, Live, Agree
    <2>2. QED
      BY <1>1, <1>3, <2>1, WritePreserves DEF StopOk, LastWrite, Live
  <1>4. CASE RestartStop(r)
    <2>1. s \notin disturbed' =>
              IF req'[r] = Idle THEN Agree(s)' ELSE Halfway(r)'
      BY <1>1, <1>4, GotoFacts, FinishFacts, ObeyedFacts
         DEF RestartStop, Call, Refused, Harmless, Disturb, Needs, Gives, PCs, NodeCalls,
             DbWrites, Halfway, Installing, Untouched, Deciding, Agree, Container
    <2>2. QED
      BY <1>1, <1>4, <2>1, CallPreserves DEF RestartStop, PCs, NodeCalls, DbWrites
  <1>5. QED
    BY <1>2, <1>3, <1>4

LEMMA DeleteInv ==
    ASSUME IInv, NEW r \in Requests,
           \/ DeleteStop(r) \/ DeleteUnreachable(r)
           \/ DeleteRemove(r) \/ DeleteFinish(r)
    PROVE  IInv'
  <1>1. PICK s \in Servers :
           /\ req[r].srv = s
           /\ row[s] \in Statuses \ {"unborn"}
           /\ container[s] \in Container
           /\ s \notin disturbed => Halfway(r)
    BY Busy DEF DeleteStop, DeleteUnreachable, DeleteRemove, DeleteFinish, LastWrite
  <1>2. CASE DeleteStop(r)
    <2>1. s \notin disturbed' =>
              IF req'[r] = Idle THEN Agree(s)' ELSE Halfway(r)'
      BY <1>1, <1>2, GotoFacts, FinishFacts, ObeyedFacts
         DEF DeleteStop, Call, Refused, Harmless, Disturb, Needs, Gives, PCs, NodeCalls,
             DbWrites, Halfway, Installing, Untouched, Deciding, Agree, Container
    <2>2. QED
      BY <1>1, <1>2, <2>1, CallPreserves DEF DeleteStop, PCs, NodeCalls, DbWrites
  <1>3. CASE DeleteUnreachable(r)
    <2>1. Local(r, s)
      BY <1>1, <1>3, GotoFacts
         DEF DeleteUnreachable, Disturb, Local, IInv, TypeOK, PCs, DbWrites
    <2>2. QED
      BY <1>1, <2>1, LocalPreserves
  <1>4. CASE DeleteRemove(r)
    <2>1. s \notin disturbed' =>
              IF req'[r] = Idle THEN Agree(s)' ELSE Halfway(r)'
      BY <1>1, <1>4, GotoFacts, FinishFacts, ObeyedFacts
         DEF DeleteRemove, Call, Refused, Harmless, Disturb, Needs, Gives, PCs, NodeCalls,
             DbWrites, Halfway, Installing, Untouched, Deciding, Agree, Container
    <2>2. QED
      BY <1>1, <1>4, <2>1, CallPreserves DEF DeleteRemove, PCs, NodeCalls, DbWrites
  <1>5. CASE DeleteFinish(r)
    <2>1. s \notin disturbed' => Agree(s)'
      BY <1>1, <1>5, SetStatusFacts
         DEF DeleteFinish, LastWrite, DeleteRow, Disturb, Halfway, Installing, Untouched,
             Deciding, Live, Agree
    <2>2. QED
      BY <1>1, <1>5, <2>1, WritePreserves DEF DeleteFinish, LastWrite, DeleteRow, Live
  <1>6. QED
    BY <1>2, <1>3, <1>4, <1>5

LEMMA ProvisionInv ==
    ASSUME IInv, NEW r \in Requests, Provision(r)
    PROVE  IInv'
  <1>1. PICK s \in Servers :
           /\ req[r].srv = s
           /\ row[s] \in Statuses \ {"unborn"}
           /\ container[s] \in Container
           /\ s \notin disturbed => Halfway(r)
    BY Busy DEF Provision
  <1>2. req'[r] = Idle
    BY FinishFacts DEF Provision, Call
  <1>3. \/ container'[s] = container[s]
        \/ container[s] = "none" /\ container'[s] = "stopped"
    BY <1>1, ObeyedFacts DEF Provision, Call, Refused, Needs, Gives
  <1>4. s \notin disturbed' => s \notin disturbed /\ row[s] \in Live /\ Agree(s)
    BY <1>1
       DEF Provision, Call, Disturb, Halfway, Installing, Untouched, Deciding
  <1>5. s \notin disturbed' => Agree(s)'
    BY <1>3, <1>4 DEF Provision, Call, Agree, Live
  <1>6. QED
    BY <1>1, <1>2, <1>5, CallPreserves DEF Provision, PCs, NodeCalls, DbWrites

\* The scheduler and suspension work on disturbed servers only.
LEMMA SuspendInv ==
    ASSUME IInv, NEW r \in Requests, Suspend(r) \/ Unsuspend(r)
    PROVE  IInv'
  <1>1. PICK s \in Servers :
           /\ req[r].srv = s
           /\ row[s] \in Statuses \ {"unborn"}
           /\ container[s] \in Container
           /\ s \notin disturbed => Halfway(r)
    BY Busy DEF Suspend, Unsuspend, LastWrite
  <1>2. CASE Suspend(r)
    <2>1. s \notin disturbed' => Agree(s)'
      BY <1>1, <1>2, SetStatusFacts
         DEF Suspend, LastWrite, Disturb, Halfway, Installing, Untouched,
             Deciding, Live, Agree
    <2>2. QED
      BY <1>1, <1>2, <2>1, WritePreserves DEF Suspend, LastWrite, Live
  <1>3. CASE Unsuspend(r)
    <2>1. \/ SetStatus(s, "stopped") /\ row[s] = "suspended"
          \/ UNCHANGED row
      BY <1>1, <1>3 DEF Unsuspend, LastWrite
    <2>2. s \notin disturbed' => Agree(s)'
      BY <1>1, <1>3, <2>1
         DEF Unsuspend, LastWrite, Disturb, Halfway, Installing, Untouched,
             Deciding, Agree
    <2>3. QED
      BY <1>1, <1>3, <2>1, <2>2, WritePreserves DEF Unsuspend, LastWrite, Live
  <1>4. QED
    BY <1>2, <1>3

LEMMA SchedInv ==
    ASSUME IInv, NEW r \in Requests, SchedPower(r)
    PROVE  IInv'
  <1>1. PICK s \in Servers :
           /\ req[r].srv = s
           /\ row[s] \in Statuses \ {"unborn"}
           /\ container[s] \in Container
           /\ s \notin disturbed => Halfway(r)
    BY Busy DEF SchedPower
  <1>2. s \in disturbed /\ s \in disturbed'
    BY <1>1 DEF SchedPower, Call, Disturb, Halfway, Installing, Untouched, Deciding
  <1>3. QED
    BY <1>1, <1>2, CallPreserves DEF SchedPower, PCs, NodeCalls

-----------------------------------------------------------------------------
(* The environment.                                                        *)

LEMMA AbandonInv ==
    ASSUME IInv, NEW r \in Requests, Abandon(r)
    PROVE  IInv'
  <1>1. PICK s \in Servers :
           /\ req[r].srv = s
           /\ row[s] \in Statuses \ {"unborn"}
           /\ container[s] \in Container
           /\ s \notin disturbed => Halfway(r)
    BY Busy DEF Abandon
  <1>2. \A pc \in NodeCalls : CallOf[pc] \in Late
    BY DEF NodeCalls, CallOf, Late
  <1>3. /\ req' \in [Requests -> [srv : Servers \cup {NoServer}, pc : PCs]]
        /\ \A q \in Requests \ {r} : req'[q] = req[q]
        /\ req'[r] = Idle \/ (req'[r].srv = s /\ req'[r].pc # "idle")
    BY <1>1, <1>2, GotoFacts, FinishFacts DEF Abandon, PCs, Late
  <1>4. Local(r, s)
    BY <1>1, <1>3 DEF Abandon, Disturb, Local, IInv, TypeOK
  <1>5. QED
    BY <1>1, <1>4, LocalPreserves

LEMMA LateInv ==
    ASSUME IInv, NEW r \in Requests, LateEffect(r)
    PROVE  IInv'
  <1>1. PICK s \in Servers :
           /\ req[r].srv = s
           /\ row[s] \in Statuses \ {"unborn"}
           /\ container[s] \in Container
           /\ s \notin disturbed => Halfway(r)
    BY Busy DEF LateEffect, Late
  <1>2. s \in disturbed
    BY <1>1 DEF LateEffect, Halfway, Installing, Untouched, Deciding
  <1>3. /\ container' \in [Servers -> Container]
        /\ \A t \in Servers \ {s} : container'[t] = container[t]
    BY <1>1, ObeyedFacts DEF LateEffect, Refused, IInv, TypeOK
  <1>4. Local(r, s)
    BY <1>1, <1>2, <1>3, FinishFacts DEF LateEffect, Local, IInv, TypeOK
  <1>5. QED
    BY <1>1, <1>4, LocalPreserves

LEMMA ExitInv ==
    ASSUME IInv, NEW s \in Servers, ContainerExits(s)
    PROVE  IInv'
  <1>1. TypeOK'
    BY DEF ContainerExits, Disturb, IInv, TypeOK, Container
  <1>2. Slots' /\ OneHandler'
    BY DEF ContainerExits, Disturb, IInv, Slots, OneHandler
  <1>3. \A t \in Servers : InFlight(t)' = InFlight(t)
    BY DEF ContainerExits, InFlight
  <1>4. Inserted'
    BY <1>3 DEF ContainerExits, Disturb, IInv, Inserted
  <1>5. \A t \in Servers \ disturbed' : t # s /\ t \notin disturbed
    BY DEF ContainerExits, Disturb
  <1>6. ASSUME NEW r \in Requests, req'[r].srv \in Servers \ disturbed'
        PROVE  Halfway(r)'
    BY <1>5, <1>6 DEF ContainerExits, IInv, TypeOK, Halfway, Agree
  <1>7. StatusTold'
    BY <1>3, <1>5 DEF ContainerExits, IInv, TypeOK, StatusTold, Agree
  <1>8. QED
    BY <1>1, <1>2, <1>4, <1>6, <1>7 DEF IInv

-----------------------------------------------------------------------------
LEMMA InitInv == Init => IInv
  BY ConstantsOK
     DEF Init, IInv, TypeOK, Slots, Inserted, OneHandler, StatusTold, InFlight,
         Agree, Idle, Statuses, Container, PCs

LEMMA NextInv == IInv /\ [Next]_vars => IInv'
  <1> SUFFICES ASSUME IInv, [Next]_vars
               PROVE  IInv'
    OBVIOUS
  <1>1. CASE UNCHANGED vars
    BY <1>1
       DEF vars, IInv, TypeOK, Slots, Inserted, OneHandler, StatusTold, InFlight,
           Agree, Halfway
  <1>2. ASSUME NEW r \in Requests, Step(r)
        PROVE  IInv'
    BY <1>2, CreateInv, StartInv, StopInv, DeleteInv, ProvisionInv, SuspendInv,
       SchedInv, LateInv DEF Step
  <1>3. QED
    BY <1>1, <1>2, CreateInv, BeginInv, GiveUpInv, DeleteInv, AbandonInv, ExitInv
       DEF Next

\* IInv holds of every state the panel, its scheduler and its nodes can reach.
THEOREM Invariance == Spec => []IInv
  BY InitInv, NextInv, PTL DEF Spec

\* The variables keep their types.
THEOREM TypeCorrect == Spec => []TypeOK
  <1>1. IInv => TypeOK
    BY DEF IInv
  <1>2. QED
    BY <1>1, Invariance, PTL

\* Quiet and undisturbed, the status a client reads is the container's state.
THEOREM StatusIsTold == Spec => []StatusTold
  <1>1. IInv => StatusTold
    BY DEF IInv
  <1>2. QED
    BY <1>1, Invariance, PTL

-----------------------------------------------------------------------------
(* ServerLifecycle implements its two abstract specifications:             *)
(* ServerRowLife always, AtomicServer for as long as nothing disturbs it.  *)

\* A write of a settled status, or the deletion, is a step of the row's life.
LEMMA WriteIsLife ==
    ASSUME IInv, NEW s \in Servers,
           NEW st \in RowLife!Settled \cup {"deleted"},
           SetStatus(s, st)
    PROVE  RowLife!Next \/ UNCHANGED row
  BY DEF SetStatus, Live, RowLife!Next, RowLife!Change, RowLife!Remove, RowLife!Settled

LEMMA StepIsLife ==
    ASSUME IInv, NEW r \in Requests, Step(r)
    PROVE  RowLife!Next \/ UNCHANGED row
  <1>1. UNCHANGED row \/ \E from \in DbWrites : req[r].pc = from
    BY DEF Step, CreateLink, CreateProvision, CreateUndo, CreateFinish, StartCall,
           StartOk, StartErr, StopCall, StopOk, RestartStop, DeleteStop,
           DeleteRemove, DeleteFinish, Provision, Suspend, Unsuspend, SchedPower,
           LateEffect, Call, LastWrite, DbWrites
  <1>2. SUFFICES ASSUME req[r].pc \in DbWrites
                 PROVE  RowLife!Next \/ UNCHANGED row
    BY <1>1
  <1>3. PICK s \in Servers : req[r].srv = s
    BY <1>2, Busy DEF DbWrites
  <1>4. CASE CreateUndo(r) \/ DeleteFinish(r)
    BY <1>3, <1>4, WriteIsLife DEF CreateUndo, DeleteFinish, LastWrite, DeleteRow
  <1>5. CASE CreateFinish(r) \/ StopOk(r)
    BY <1>3, <1>5, WriteIsLife DEF CreateFinish, StopOk, LastWrite, RowLife!Settled
  <1>6. CASE StartOk(r) \/ StartErr(r)
    BY <1>3, <1>6, WriteIsLife DEF StartOk, StartErr, LastWrite, RowLife!Settled
  <1>7. CASE Suspend(r) \/ Unsuspend(r)
    BY <1>3, <1>7, WriteIsLife DEF Suspend, Unsuspend, LastWrite, RowLife!Settled
  <1>8. CASE CreateLink(r) \/ LateEffect(r)
    BY <1>8 DEF CreateLink, LateEffect
  <1>9. QED
    BY <1>2, <1>4, <1>5, <1>6, <1>7, <1>8
       DEF Step, CreateProvision, StartCall, StopCall, RestartStop, DeleteStop,
           DeleteRemove, Provision, SchedPower, Call

LEMMA NextIsLife == IInv /\ [Next]_vars => [RowLife!Next]_row
  <1> SUFFICES ASSUME IInv, [Next]_vars
               PROVE  RowLife!Next \/ UNCHANGED row
    OBVIOUS
  <1>1. ASSUME NEW r \in Requests, NEW s \in Servers, CreateInsert(r, s)
        PROVE  RowLife!Next
    BY <1>1 DEF CreateInsert, RowLife!Next, RowLife!Insert
  <1>2. ASSUME NEW r \in Requests,
               \/ \E s \in Servers, op \in AllOps : Begin(r, s, op)
               \/ ConnectFails(r) \/ DeleteUnreachable(r)
               \/ ReinstallGivesUp(r) \/ Abandon(r)
        PROVE  UNCHANGED row
    BY <1>2 DEF Begin, ConnectFails, DeleteUnreachable, ReinstallGivesUp, Abandon
  <1>3. QED
    BY <1>1, <1>2, StepIsLife DEF Next, vars, ContainerExits

\* However handlers overlap, fail or are abandoned, a deleted row stays deleted
\* and no row is 'installing' twice.
THEOREM RowLifeImplemented == Spec => RowLifeSpec
  <1>1. Init => RowLife!Init
    BY DEF Init, RowLife!Init
  <1>2. QED
    BY <1>1, Invariance, NextIsLife, PTL DEF Spec, RowLifeSpec, RowLife!Spec

-----------------------------------------------------------------------------
(* The atomic life.                                                        *)

\* The status a handler at pc decides.
Fate(pc, st, c) ==
    IF pc = "setRunning"                    THEN "running"
    ELSE IF pc = "setError"                 THEN "error"
    ELSE IF pc \in {"setStopped", "finish"} THEN "stopped"
    ELSE IF pc \in {"deleteRow", "undo"}    THEN "deleted"
    ELSE IF pc \in {"restartStart", "deleteRemove"} /\ c = "stopped" THEN "stopped"
    ELSE st

\* With at most one handler, that handler decides.
LEMMA Decides ==
    ASSUME IInv, disturbed = {}, NEW s \in Servers
    PROVE  /\ InFlight(s) = {} => Decided(s) = row[s]
           /\ \A r \in Requests :
                 req[r].srv = s => Decided(s) = Fate(req[r].pc, row[s], container[s])
  <1>1. ASSUME NEW r \in Requests, req[r].srv = s
        PROVE  Decided(s) = Fate(req[r].pc, row[s], container[s])
    <2>1. \A q \in Requests : req[q].srv = s => q = r
      BY <1>1 DEF IInv, OneHandler
    <2>2. ASSUME NEW pcs
          PROVE  At(s, pcs) <=> req[r].pc \in pcs
      BY <1>1, <2>1 DEF At, InFlight
    <2>3. QED
      BY <2>2 DEF Decided, Fate
  <1>2. ASSUME InFlight(s) = {}
        PROVE  Decided(s) = row[s]
    BY <1>2 DEF Decided, At
  <1>3. QED
    BY <1>1, <1>2

\* What a step of handler r on server s leaves alone.
Frame(r, s) ==
    /\ \A t \in Servers \ {s} : row'[t] = row[t] /\ container'[t] = container[t]
    /\ \A q \in Requests \ {r} : req'[q] = req[q]
    /\ req[r].srv \in {s, NoServer}
    /\ req'[r] = Idle \/ (req'[r].srv = s /\ req'[r].pc # "idle")

\* What AtomicServer sees of such a step: one server, two values.
LEMMA SeenAtomically ==
    ASSUME IInv, IInv', disturbed = {}, disturbed' = {},
           NEW r \in Requests, NEW s \in Servers, Frame(r, s)
    PROVE  Atomic!Become(s, Decided(s)', container'[s])
  <1> USE ConstantsOK
  <1>1. ASSUME NEW t \in Servers \ {s}
        PROVE  Decided(t)' = Decided(t)
    <2>1. InFlight(t)' = InFlight(t)
      BY DEF Frame, InFlight, Idle
    <2>2. \A q \in InFlight(t) : req'[q] = req[q]
      BY DEF Frame, InFlight
    <2>3. ASSUME NEW pcs
          PROVE  At(t, pcs)' <=> At(t, pcs)
      BY <2>1, <2>2 DEF At
    <2>4. QED
      BY <2>3 DEF Frame, Decided
  <1>2. [t \in Servers |-> Decided(t)]' =
            [[t \in Servers |-> Decided(t)] EXCEPT ![s] = Decided(s)']
    BY <1>1
  <1>3. container' = [container EXCEPT ![s] = container'[s]]
    BY DEF Frame, IInv, TypeOK
  <1>4. QED
    BY <1>2, <1>3 DEF Atomic!Become

\* Where the handler leaves the status it decides.
LEMMA DecidesNext ==
    ASSUME IInv', disturbed' = {}, NEW s \in Servers
    PROVE  /\ InFlight(s)' = {} => Decided(s)' = row'[s]
           /\ \A r \in Requests :
                 req'[r].srv = s =>
                     Decided(s)' = Fate(req'[r].pc, row'[s], container'[s])
  <1>1. ASSUME NEW r \in Requests, req'[r].srv = s
        PROVE  Decided(s)' = Fate(req'[r].pc, row'[s], container'[s])
    <2>1. \A q \in Requests : req'[q].srv = s => q = r
      BY <1>1 DEF IInv, OneHandler
    <2>2. ASSUME NEW pcs
          PROVE  At(s, pcs)' <=> req'[r].pc \in pcs
      BY <1>1, <2>1 DEF At, InFlight
    <2>3. QED
      BY <2>2 DEF Decided, Fate
  <1>2. ASSUME InFlight(s)' = {}
        PROVE  Decided(s)' = row'[s]
    BY <1>2 DEF Decided, At
  <1>3. QED
    BY <1>1, <1>2

\* The steps of AtomicServer, on the status and the container of one server.
AtomicStep(st, c, st2, c2) ==
    \/ st2 = st /\ c2 = c
    \/ st = "unborn" /\ st2 = "installing" /\ c2 = "none"
    \/ st = "installing" /\ c = "none" /\ st2 = "stopped" /\ c2 = "stopped"
    \/ st \in Live /\ c = "none" /\ st2 = st /\ c2 = "stopped"
    \/ st = "installing" /\ c = "none" /\ st2 = "deleted" /\ c2 = "none"
    \/ st \in Live /\ c # "none" /\ st2 = "running" /\ c2 = "running"
    \/ st \in Live /\ c # "running" /\ st2 = "error" /\ c2 = c
    \/ st \in Live /\ c # "none" /\ st2 = "stopped" /\ c2 = "stopped"
    \/ st \in Live /\ c # "running" /\ st2 = "deleted" /\ c2 = "none"

LEMMA StepImplements ==
    ASSUME IInv, NEW s \in Servers, NEW st2, NEW c2,
           Atomic!Become(s, st2, c2),
           AtomicStep(Decided(s), container[s], st2, c2)
    PROVE  Atomic!Next \/ UNCHANGED AtomicVars
  <1>1. [t \in Servers |-> Decided(t)][s] = Decided(s)
    OBVIOUS
  <1>2. CASE st2 = Decided(s) /\ c2 = container[s]
    BY <1>2 DEF Atomic!Become, AtomicVars, IInv, TypeOK
  <1>3. CASE ~(st2 = Decided(s) /\ c2 = container[s])
    BY <1>1, <1>3
       DEF AtomicStep, Live, Atomic!Live, Atomic!Next, Atomic!Insert,
           Atomic!Provision, Atomic!InstallFails, Atomic!Start,
           Atomic!StartFails, Atomic!Stop, Atomic!Delete
  <1>4. QED
    BY <1>2, <1>3

\* One step of a handler: what is left is a table over its program counters.
LEMMA HandlerImplements ==
    ASSUME IInv, IInv', disturbed = {}, disturbed' = {},
           NEW r \in Requests, NEW s \in Servers, req[r].srv = s, Frame(r, s),
           AtomicStep(Fate(req[r].pc, row[s], container[s]), container[s],
                      Fate(req'[r].pc, row'[s], container'[s]), container'[s])
    PROVE  Atomic!Next \/ UNCHANGED AtomicVars
  <1> USE ConstantsOK
  <1>1. Decided(s) = Fate(req[r].pc, row[s], container[s])
    BY Decides
  <1>2. Decided(s)' = Fate(req'[r].pc, row'[s], container'[s])
    <2>1. CASE req'[r] = Idle
      <3>1. InFlight(s)' = {}
        BY <2>1 DEF Frame, InFlight, Idle, IInv, OneHandler
      <3>2. QED
        BY <2>1, <3>1, DecidesNext DEF Idle, Fate
    <2>2. CASE req'[r].srv = s
      BY <2>2, DecidesNext
    <2>3. QED
      BY <2>1, <2>2 DEF Frame
  <1>3. Atomic!Become(s, Decided(s)', container'[s])
    BY SeenAtomically
  <1>4. QED
    BY <1>1, <1>2, <1>3, StepImplements

LEMMA CallFrame ==
    ASSUME IInv, NEW r \in Requests, NEW s \in Servers, req[r].srv = s,
           NEW c \in {"start", "stop", "remove", "create"},
           NEW ok \in PCs, NEW err \in PCs, Call(r, c, ok, err)
    PROVE  /\ Frame(r, s)
           /\ req'[r].pc \in {ok, err}
           /\ row'[s] = row[s]
           /\ \/ /\ container[s] \in Needs[c]
                 /\ container'[s] = Gives[c]
                 /\ req'[r].pc = ok \/ disturbed' # {}
              \/ /\ container'[s] = container[s]
                 /\ req'[r].pc = err
                 /\ container[s] \notin Needs[c] \/ Harmless(r) \/ disturbed' # {}
  <1>1. /\ \A q \in Requests \ {r} : req'[q] = req[q]
        /\ req'[r] = Idle \/ (req'[r].srv = s /\ req'[r].pc # "idle")
    BY GotoFacts, FinishFacts DEF Call
  <1>2. \A t \in Servers \ {s} : container'[t] = container[t]
    BY ObeyedFacts DEF Call, Refused
  <1>3. Frame(r, s)
    BY <1>1, <1>2 DEF Frame, Call
  <1>4. ASSUME NEW pc \in PCs, IF pc = "idle" THEN Finish(r) ELSE Goto(r, pc)
        PROVE  req'[r].pc = pc
    BY <1>4, GotoFacts, FinishFacts DEF Idle
  <1>5. QED
    BY <1>3, <1>4, ObeyedFacts DEF Call, Refused, Disturb

LEMMA WriteFrame ==
    ASSUME IInv, NEW r \in Requests, NEW s \in Servers, req[r].srv = s,
           row[s] \in Live, Finish(r), UNCHANGED container,
           NEW st \in Live \cup {"deleted"}, SetStatus(s, st)
    PROVE  /\ Frame(r, s)
           /\ req'[r].pc = "idle"
           /\ row'[s] = st
           /\ container'[s] = container[s]
  <1>1. row[s] # "unborn"
    BY DEF Live
  <1>2. QED
    BY <1>1, FinishFacts, SetStatusFacts DEF Frame, Idle
\* In an undisturbed state every busy slot is Halfway.
LEMMA BusyHere ==
    ASSUME IInv, disturbed = {}, NEW r \in Requests, req[r].pc # "idle"
    PROVE  \E s \in Servers : /\ req[r].srv = s
                             /\ row[s] \in Live
                             /\ container[s] \in Container
                             /\ Halfway(r)
  BY Busy DEF Halfway, Installing, Untouched, Deciding, Live

LEMMA CallsImplement ==
    ASSUME IInv, IInv', disturbed = {}, disturbed' = {}, NEW r \in Requests,
           \/ CreateProvision(r) \/ StartCall(r) \/ StopCall(r) \/ RestartStop(r)
           \/ DeleteStop(r) \/ DeleteRemove(r) \/ Provision(r)
    PROVE  Atomic!Next \/ UNCHANGED AtomicVars
  <1>1. PICK s \in Servers : /\ req[r].srv = s
                             /\ row[s] \in Live
                             /\ container[s] \in Container
                             /\ Halfway(r)
    BY BusyHere DEF CreateProvision, StartCall, StopCall, RestartStop,
                    DeleteStop, DeleteRemove, Provision
  <1> DEFINE Goal == /\ Frame(r, s)
                     /\ AtomicStep(Fate(req[r].pc, row[s], container[s]), container[s],
                                   Fate(req'[r].pc, row'[s], container'[s]),
                                   container'[s])
  <1>2. CASE CreateProvision(r)
    <2>1. Call(r, "create", "finish", "undo") /\ req[r].pc = "install"
      BY <1>2 DEF CreateProvision
    <2>2. Goal
      BY <1>1, <2>1, CallFrame
         DEF Fate, AtomicStep, Halfway, Installing, Needs, Gives, PCs, DbWrites
    <2>3. QED
      BY <1>1, <2>2, HandlerImplements
  <1>3. CASE StartCall(r)
    <2>1. Call(r, "start", "setRunning", "setError") /\ req[r].pc \in {"start", "restartStart"}
      BY <1>3 DEF StartCall
    <2>2. Goal
      BY <1>1, <2>1, CallFrame
         DEF Fate, AtomicStep, Halfway, Harmless, Needs, Gives, PCs, DbWrites,
             Container, Live
    <2>3. QED
      BY <1>1, <2>2, HandlerImplements
  <1>4. CASE StopCall(r)
    <2>1. Call(r, "stop", "setStopped", "idle") /\ req[r].pc = "stop"
      BY <1>4 DEF StopCall
    <2>2. Goal
      BY <1>1, <2>1, CallFrame
         DEF Fate, AtomicStep, Needs, Gives, PCs, DbWrites, Container, Live
    <2>3. QED
      BY <1>1, <2>2, HandlerImplements
  <1>5. CASE RestartStop(r)
    <2>1. Call(r, "stop", "restartStart", "restartStart") /\ req[r].pc = "restart"
      BY <1>5 DEF RestartStop
    <2>2. Goal
      BY <1>1, <2>1, CallFrame
         DEF Fate, AtomicStep, Harmless, Halfway, Untouched, Agree, Needs, Gives, PCs, NodeCalls, Container, Live
    <2>3. QED
      BY <1>1, <2>2, HandlerImplements
  <1>6. CASE DeleteStop(r)
    <2>1. Call(r, "stop", "deleteRemove", "deleteRemove") /\ req[r].pc = "delete"
      BY <1>6 DEF DeleteStop
    <2>2. Goal
      BY <1>1, <2>1, CallFrame
         DEF Fate, AtomicStep, Harmless, Halfway, Untouched, Agree, Needs, Gives, PCs, NodeCalls, Container, Live
    <2>3. QED
      BY <1>1, <2>2, HandlerImplements
  <1>7. CASE DeleteRemove(r)
    <2>1. Call(r, "remove", "deleteRow", "deleteRow") /\ req[r].pc = "deleteRemove"
      BY <1>7 DEF DeleteRemove
    <2>2. Goal
      BY <1>1, <2>1, CallFrame
         DEF Fate, AtomicStep, Harmless, Halfway, Needs, Gives, PCs, DbWrites, Container, Live
    <2>3. QED
      BY <1>1, <2>2, HandlerImplements
  <1>8. CASE Provision(r)
    <2>1. Call(r, "create", "idle", "idle") /\ req[r].pc \in {"provision", "reinstall"}
      BY <1>8 DEF Provision
    <2>2. Goal
      BY <1>1, <2>1, CallFrame
         DEF Fate, AtomicStep, Needs, Gives, PCs, Container, Live
    <2>3. QED
      BY <1>1, <2>2, HandlerImplements
  <1>9. QED
    BY <1>2, <1>3, <1>4, <1>5, <1>6, <1>7, <1>8

LEMMA WritesImplement ==
    ASSUME IInv, IInv', disturbed = {}, disturbed' = {}, NEW r \in Requests,
           \/ CreateUndo(r) \/ CreateFinish(r) \/ StartOk(r) \/ StartErr(r)
           \/ StopOk(r) \/ DeleteFinish(r)
    PROVE  Atomic!Next \/ UNCHANGED AtomicVars
  <1>1. PICK s \in Servers : /\ req[r].srv = s
                             /\ row[s] \in Live
                             /\ container[s] \in Container
                             /\ Halfway(r)
    BY BusyHere DEF CreateUndo, CreateFinish, StartOk, StartErr, StopOk,
                    DeleteFinish, LastWrite
  <1>2. \E st \in Live \cup {"deleted"} :
            /\ Finish(r) /\ UNCHANGED container /\ SetStatus(s, st)
            /\ \A c \in Container : Fate(req[r].pc, row[s], c) = st
    BY <1>1 DEF CreateUndo, CreateFinish, StartOk, StartErr, StopOk, DeleteFinish,
                LastWrite, DeleteRow, Disturb, Fate, Live
  <1>3. Frame(r, s) /\ AtomicStep(Fate(req[r].pc, row[s], container[s]), container[s],
                      Fate(req'[r].pc, row'[s], container'[s]), container'[s])
    BY <1>1, <1>2, WriteFrame DEF AtomicStep, Fate
  <1>4. QED
    BY <1>1, <1>3, HandlerImplements
\* A handler that begins, or ends without a trace, changes nothing seen.
LEMMA AdmissionsImplement ==
    ASSUME IInv, IInv', disturbed = {}, disturbed' = {},
           NEW r \in Requests, NEW s \in Servers,
           CreateInsert(r, s) \/ \E op \in AllOps : Begin(r, s, op)
    PROVE  Atomic!Next \/ UNCHANGED AtomicVars
  <1>1. InFlight(s) = {}
    BY DEF CreateInsert, Begin, IInv, Inserted
  <1>2. Decided(s) = row[s]
    BY <1>1, Decides
  <1>3. /\ req'[r].srv = s
        /\ req'[r].pc \in {"link"} \cup (AllOps \ {"create"})
        /\ Frame(r, s)
    BY DEF CreateInsert, Begin, Frame, Idle, IInv, TypeOK, AllOps
  <1>4. Decided(s)' = row'[s]
    BY <1>3, DecidesNext DEF Fate, AllOps
  <1>5. Atomic!Become(s, Decided(s)', container'[s])
    BY <1>3, SeenAtomically
  <1>6. AtomicStep(Decided(s), container[s], Decided(s)', container'[s])
    BY <1>2, <1>4
       DEF CreateInsert, Begin, AtomicStep, IInv, TypeOK, Inserted
  <1>7. QED
    BY <1>5, <1>6, StepImplements

LEMMA SilencesImplement ==
    ASSUME IInv, IInv', disturbed = {}, disturbed' = {}, NEW r \in Requests,
           \/ CreateLink(r) \/ ConnectFails(r) \/ ReinstallGivesUp(r) \/ Unsuspend(r)
    PROVE  Atomic!Next \/ UNCHANGED AtomicVars
  <1>1. PICK s \in Servers : /\ req[r].srv = s
                             /\ row[s] \in Live
                             /\ container[s] \in Container
                             /\ Halfway(r)
    BY BusyHere DEF CreateLink, ConnectFails, ReinstallGivesUp, Unsuspend,
                    LastWrite, NodeCalls
  <1>2. UNCHANGED <<row, container>>
    BY <1>1 DEF CreateLink, ConnectFails, ReinstallGivesUp, Unsuspend, LastWrite,
                Disturb, Halfway, Untouched, Agree
  <1>3. /\ \A q \in Requests \ {r} : req'[q] = req[q]
        /\ \/ req'[r] = Idle
           \/ req'[r].srv = s /\ req'[r].pc \in {"install", "undo"} /\ req[r].pc = "link"
    BY <1>1, GotoFacts, FinishFacts
       DEF CreateLink, ConnectFails, ReinstallGivesUp, Unsuspend, LastWrite, PCs,
           NodeCalls, DbWrites
  <1>4. Frame(r, s)
    BY <1>1, <1>2, <1>3 DEF Frame
  <1>5. Fate(req[r].pc, row[s], container[s]) = row[s]
    BY <1>1 DEF CreateLink, ConnectFails, ReinstallGivesUp, Unsuspend, LastWrite,
                NodeCalls, Fate
  <1>6. AtomicStep(Fate(req[r].pc, row[s], container[s]), container[s],
                   Fate(req'[r].pc, row'[s], container'[s]), container'[s])
    BY <1>1, <1>2, <1>3, <1>5 DEF AtomicStep, Fate, Idle, Halfway, Installing
  <1>7. QED
    BY <1>1, <1>4, <1>6, HandlerImplements

\* The rest is possible only where something was disturbed, or disturbs.
LEMMA OthersDisturb ==
    ASSUME IInv, disturbed = {}, disturbed' = {}
    PROVE  /\ \A r \in Requests : ~(Suspend(r) \/ SchedPower(r) \/ LateEffect(r)
                                      \/ Abandon(r) \/ DeleteUnreachable(r))
           /\ \A s \in Servers : ~ContainerExits(s)
  <1>1. ASSUME NEW r \in Requests, Suspend(r) \/ SchedPower(r) \/ LateEffect(r)
        PROVE  FALSE
    BY <1>1, BusyHere
       DEF Suspend, SchedPower, LateEffect, LastWrite, Halfway, Installing,
           Untouched, Deciding
  <1>2. ASSUME NEW r \in Requests, Abandon(r) \/ DeleteUnreachable(r)
        PROVE  FALSE
    BY <1>2 DEF Abandon, DeleteUnreachable, Disturb
  <1>3. QED
    BY <1>1, <1>2 DEF ContainerExits, Disturb

LEMMA NextImplements ==
    IInv /\ IInv' /\ disturbed = {} /\ [Next /\ disturbed' = {}]_vars
        => [Atomic!Next]_AtomicVars
  <1> SUFFICES ASSUME IInv, IInv', disturbed = {}, [Next /\ disturbed' = {}]_vars
               PROVE  Atomic!Next \/ UNCHANGED AtomicVars
    OBVIOUS
  <1>1. CASE UNCHANGED vars
    BY <1>1 DEF vars, AtomicVars, Decided, At, InFlight
  <1>2. CASE Next /\ disturbed' = {}
    <2>1. ASSUME NEW r \in Requests, Step(r)
          PROVE  Atomic!Next \/ UNCHANGED AtomicVars
      BY <1>2, <2>1, CallsImplement, WritesImplement, SilencesImplement, OthersDisturb
         DEF Step
    <2>2. QED
      BY <1>2, <2>1, AdmissionsImplement, SilencesImplement, OthersDisturb DEF Next
  <1>3. QED
    BY <1>1, <1>2

\* As long as no request overlaps another and no hazard strikes, every
\* operation looks atomic: the status and the container change together, at
\* the call that decides it.
THEOREM AtomicityImplemented == Spec => AtomicSpec
  <1>1. Init => Atomic!Init
    BY ConstantsOK DEF Init, Atomic!Init, Decided, At, InFlight, Idle
  <1>2. IInv /\ IInv' /\ [Next]_vars
        => [disturbed = {} /\ disturbed' = {} => Atomic!Next]_AtomicVars
    BY NextImplements
  <1>3. Spec => []IInv
    BY Invariance
  <1>4. QED
    BY <1>1, <1>2, <1>3, PTL DEF Spec, AtomicSpec

=============================================================================
