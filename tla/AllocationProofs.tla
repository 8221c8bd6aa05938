--------------------------- MODULE AllocationProofs ---------------------------
(***************************************************************************)
(* Proofs of the invariants of AllocationProperties, for any number of     *)
(* servers, allocations and handlers.                                      *)
(*                                                                         *)
(* Typed, NoGhosts and SameNode are inductive one on top of the other.     *)
(* The budget needs to know how the set of allocations a server owns can   *)
(* grow (OwnedGrows): by one element, through a handler that then leaves   *)
(* Adding.  Kept needs Alone: what a handler of an undisturbed server read *)
(* stays true until it writes, because nobody else names what it names.    *)
(***************************************************************************)
EXTENDS AllocationProperties, FiniteSetTheorems, TLAPS

USE ConstantsOK

\* What a handler writes without touching any table.
Unwritten == UNCHANGED <<server, alloc, owner, primary, disturbed>>

\* Types, and what each slot names.
Typed == TypeOK /\ Slots

LEMMA InitTyped == Init => Typed
  BY DEF Init, Typed, TypeOK, Slots, Row, PCs, Idle

LEMMA AdmitTyped ==
  ASSUME Typed, NEW r \in Requests, NEW s \in Servers \cup {NoServer},
         NEW a \in Allocs \cup {NoAlloc}, NEW pc \in PCs, Admit(r, s, a, pc),
         pc # "idle", pc = "deleteAlloc" <=> s = NoServer,
         pc \notin {"provision", "undo", "deleteServer"} => a \in Allocs
  PROVE  /\ req' \in [Requests -> [srv : Servers \cup {NoServer},
                                   alloc : Allocs \cup {NoAlloc}, pc : PCs]]
         /\ disturbed' \in SUBSET Servers
         /\ Slots'
  <1>1. disturbed' \in SUBSET Servers
    BY DEF Admit, Overlapped, Typed, TypeOK
  <1>2. req' \in [Requests -> [srv : Servers \cup {NoServer},
                               alloc : Allocs \cup {NoAlloc}, pc : PCs]]
    BY DEF Admit, Typed, TypeOK
  <1>3. Slots'
    BY DEF Admit, Typed, TypeOK, Slots, Idle
  <1> QED BY <1>1, <1>2, <1>3

LEMMA GotoTyped ==
  ASSUME Typed, NEW r \in Requests, NEW pc \in PCs \ {"idle", "deleteAlloc"},
         Goto(r, pc), req[r].srv \in Servers,
         pc \in {"provision", "undo"} \/ req[r].alloc \in Allocs
  PROVE  /\ req' \in [Requests -> [srv : Servers \cup {NoServer},
                                   alloc : Allocs \cup {NoAlloc}, pc : PCs]]
         /\ Slots'
  BY DEF Goto, Typed, TypeOK, Slots, Idle

LEMMA FinishTyped ==
  ASSUME Typed, NEW r \in Requests, Finish(r)
  PROVE  /\ req' \in [Requests -> [srv : Servers \cup {NoServer},
                                   alloc : Allocs \cup {NoAlloc}, pc : PCs]]
         /\ Slots'
  BY DEF Finish, Typed, TypeOK, Slots, Idle, PCs

LEMMA NextTyped == Typed /\ [Next]_vars => Typed'
  <1> SUFFICES ASSUME Typed, [Next]_vars PROVE Typed'
    OBVIOUS
  <1> USE DEF Row
  <1>1. ASSUME NEW r \in Requests, Step(r) PROVE Typed'
    <2> USE <1>1
    <2>1. CASE CreateLink(r)
      BY <2>1, GotoTyped DEF CreateLink, SetOwner, Typed, TypeOK, Slots, PCs
    <2>2. CASE CreateSetPrimary(r)
      BY <2>2, GotoTyped DEF CreateSetPrimary, SetPrimary, Typed, TypeOK, Slots, PCs
    <2>3. CASE CreateProvision(r)
      BY <2>3, GotoTyped, FinishTyped DEF CreateProvision, Typed, TypeOK, Slots, PCs
    <2>4. CASE CreateUndo(r) \/ DeleteServer(r)
      BY <2>4, FinishTyped
         DEF CreateUndo, DeleteServer, DeleteServerRow, Typed, TypeOK, Slots
    <2>5. CASE AssignCount(r) \/ AssignCheck(r)
      BY <2>5, GotoTyped, FinishTyped
         DEF AssignCount, AssignCheck, Typed, TypeOK, Slots, PCs
    <2>6. CASE AssignWrite(r)
      BY <2>6, FinishTyped DEF AssignWrite, SetOwner, Typed, TypeOK, Slots
    <2>7. CASE Remove(r)
      BY <2>7, FinishTyped DEF Remove, SetOwner, Typed, TypeOK
    <2>8. CASE PrimaryVerify(r)
      BY <2>8, GotoTyped, FinishTyped DEF PrimaryVerify, Typed, TypeOK, Slots, PCs
    <2>9. CASE PrimaryWrite(r)
      BY <2>9, FinishTyped DEF PrimaryWrite, SetPrimary, Typed, TypeOK, Slots
    <2>10. CASE DeleteAlloc(r) \/ Stops(r)
      BY <2>10, FinishTyped DEF DeleteAlloc, Stops, Typed, TypeOK
    <2> QED
      BY <2>1, <2>2, <2>3, <2>4, <2>5, <2>6, <2>7, <2>8, <2>9, <2>10 DEF Step
  <1>2. ASSUME NEW r \in Requests, NEW s \in Servers,
               NEW a \in Allocs \cup {NoAlloc}, CreateInsert(r, s, a)
        PROVE  Typed'
    <2>1. PICK pc \in PCs : Admit(r, s, a, pc) /\ pc = IF a = NoAlloc THEN "provision" ELSE "link"
      BY <1>2 DEF CreateInsert, PCs
    <2> QED BY <1>2, <2>1, AdmitTyped DEF CreateInsert, Typed, TypeOK
  <1>3. ASSUME NEW r \in Requests, NEW s \in Servers, NEW a \in Allocs, Begin(r, s, a)
        PROVE  Typed'
    <2>1. PICK pc \in {"count", "remove", "verify", "deleteServer"},
               b \in Allocs \cup {NoAlloc} :
             Admit(r, s, b, pc) /\ (pc # "deleteServer" => b \in Allocs)
      BY <1>3 DEF Begin
    <2> QED BY <1>3, <2>1, AdmitTyped DEF Begin, Typed, TypeOK, PCs
  <1>4. ASSUME NEW r \in Requests, NEW a \in Allocs, DeleteAllocCheck(r, a)
        PROVE  Typed'
    BY <1>4, AdmitTyped DEF DeleteAllocCheck, Typed, TypeOK, PCs
  <1>5. ASSUME NEW a \in Allocs, InsertAlloc(a) PROVE Typed'
    BY <1>5 DEF InsertAlloc, Typed, TypeOK, Slots
  <1>6. CASE UNCHANGED vars
    BY <1>6 DEF vars, Typed, TypeOK, Slots
  <1> QED BY <1>1, <1>2, <1>3, <1>4, <1>5, <1>6 DEF Next

\* Every row, column and slot stays in its type, whatever the handlers do.
THEOREM AllocTypeCorrect == Spec => []TypeOK
  <1>1. Typed => TypeOK
    BY DEF Typed
  <1> QED BY InitTyped, NextTyped, <1>1, PTL DEF Spec

-----------------------------------------------------------------------------
(* Rows that are not there have no columns.                                *)

LEMMA InitNoGhosts == Init => NoGhosts
  BY DEF Init, NoGhosts, Busy, Idle

\* Handlers other than r's keep their slot.
LEMMA SlotsKept ==
  ASSUME Typed, NEW r \in Requests, Step(r)
  PROVE  /\ \A q \in Requests \ {r} : req'[q] = req[q]
         /\ \/ req'[r].srv = req[r].srv /\ req'[r].alloc = req[r].alloc
            \/ req'[r] = Idle
         /\ disturbed' = disturbed
  BY DEF Step, Goto, Finish, Typed, TypeOK, CreateLink, CreateSetPrimary,
         CreateProvision, CreateUndo, DeleteServer, DeleteServerRow, AssignCount,
         AssignCheck, AssignWrite, Remove, PrimaryVerify, PrimaryWrite,
         DeleteAlloc, Stops, SetOwner, SetPrimary

LEMMA GotoSlot ==
  ASSUME Typed, NEW r \in Requests, NEW pc, Goto(r, pc)
  PROVE  /\ req'[r].srv = req[r].srv /\ req'[r].alloc = req[r].alloc
         /\ req'[r].pc = pc
         /\ \A q \in Requests \ {r} : req'[q] = req[q]
  BY DEF Goto, Typed, TypeOK

LEMMA FinishSlot ==
  ASSUME Typed, NEW r \in Requests, Finish(r)
  PROVE  /\ req'[r].pc = "idle" /\ req'[r].srv = NoServer
         /\ \A q \in Requests \ {r} : req'[q] = req[q]
  BY DEF Finish, Typed, TypeOK, Idle

LEMMA NextNoGhosts == Typed /\ NoGhosts /\ [Next]_vars => NoGhosts'
  <1> SUFFICES ASSUME Typed, NoGhosts, [Next]_vars PROVE NoGhosts'
    OBVIOUS
  <1>0. Typed'
    BY NextTyped
  <1>1. ASSUME NEW r \in Requests, Step(r) PROVE NoGhosts'
    <2> USE <1>1
    <2>0. ASSUME NEW s \in Servers, server[s] = "unborn"
          PROVE  Busy(s)' = {} /\ s \notin disturbed'
      BY <2>0, SlotsKept DEF NoGhosts, Busy, Idle
    <2>1. CASE CreateLink(r)
      BY <2>0, <2>1 DEF CreateLink, SetOwner, NoGhosts, Busy, Typed, TypeOK, Slots
    <2>2. CASE CreateSetPrimary(r) \/ PrimaryWrite(r)
      BY <2>0, <2>2
         DEF CreateSetPrimary, PrimaryWrite, SetPrimary, NoGhosts, Typed, TypeOK, Slots
    <2>3. CASE CreateProvision(r) \/ AssignCount(r) \/ AssignCheck(r)
               \/ PrimaryVerify(r) \/ Stops(r)
      BY <2>0, <2>3
         DEF CreateProvision, AssignCount, AssignCheck, PrimaryVerify, Stops,
             NoGhosts
    <2>4. CASE CreateUndo(r) \/ DeleteServer(r)
      BY <2>0, <2>4
         DEF CreateUndo, DeleteServer, DeleteServerRow, NoGhosts, Typed, TypeOK, Slots
    <2>5. CASE AssignWrite(r)
      BY <2>0, <2>5
         DEF AssignWrite, SetOwner, NoGhosts, Busy, Typed, TypeOK, Slots
    <2>6. CASE Remove(r)
      BY <2>0, <2>6 DEF Remove, SetOwner, NoGhosts, Typed, TypeOK, Slots
    <2>7. CASE DeleteAlloc(r)
      BY <2>0, <2>7 DEF DeleteAlloc, NoGhosts, Typed, TypeOK, Slots
    <2> QED
      BY <2>1, <2>2, <2>3, <2>4, <2>5, <2>6, <2>7 DEF Step
  <1>2. ASSUME NEW r \in Requests, NEW s \in Servers, NEW a \in Allocs \cup {NoAlloc},
               CreateInsert(r, s, a) \/ (a \in Allocs /\ Begin(r, s, a))
        PROVE  NoGhosts'
    <2>1. \/ server[s] = "unborn" /\ server' = [server EXCEPT ![s] = "live"]
          \/ server[s] = "live" /\ server' = server
      BY <1>2 DEF CreateInsert, Begin
    <2>2. /\ \A q \in Requests : req'[q] = req[q] \/ req'[q].srv = s
          /\ disturbed' = disturbed \cup disturbed' /\ UNCHANGED <<alloc, owner, primary>>
          /\ disturbed' \subseteq disturbed \cup {s} \cup {t \in Servers : Busy(t) # {}}
      BY <1>2 DEF CreateInsert, Begin, Admit, Overlapped, Busy, Typed, TypeOK
    <2> QED BY <2>1, <2>2 DEF NoGhosts, Busy, Typed, TypeOK
  <1>3. ASSUME NEW r \in Requests, NEW a \in Allocs, DeleteAllocCheck(r, a)
        PROVE  NoGhosts'
    <2>1. /\ \A q \in Requests : req'[q] = req[q] \/ req'[q].srv = NoServer
          /\ UNCHANGED <<server, alloc, owner, primary>>
          /\ disturbed' \subseteq disturbed \cup {t \in Servers : Busy(t) # {}}
      BY <1>3 DEF DeleteAllocCheck, Admit, Overlapped, Busy, Typed, TypeOK
    <2> QED BY <2>1 DEF NoGhosts, Busy, Typed, TypeOK
  <1>4. ASSUME NEW a \in Allocs, InsertAlloc(a) PROVE NoGhosts'
    BY <1>4 DEF InsertAlloc, NoGhosts, Busy, Typed, TypeOK
  <1>5. CASE UNCHANGED vars
    BY <1>5 DEF vars, NoGhosts, Busy
  <1> QED BY <1>1, <1>2, <1>3, <1>4, <1>5 DEF Next

-----------------------------------------------------------------------------
(* Addresses of the server's own node.                                     *)

LEMMA NextSameNode ==
  Typed /\ NoGhosts /\ Located /\ SameNode /\ [Next]_vars => (Located /\ SameNode)'
  <1> SUFFICES ASSUME Typed, NoGhosts, Located, SameNode, [Next]_vars
               PROVE  (Located /\ SameNode)'
    OBVIOUS
  <1>0. Typed' /\ NoGhosts'
    BY NextTyped, NextNoGhosts
  <1> USE DEF Located, SameNode, Owned, Typed, TypeOK
  <1>1. ASSUME NEW r \in Requests, Step(r) PROVE (Located /\ SameNode)'
    <2> USE <1>1
    <2>1. CASE CreateLink(r)
      BY <1>0, <2>1, GotoSlot DEF CreateLink, SetOwner, Slots
    <2>2. CASE CreateSetPrimary(r) \/ PrimaryWrite(r)
      BY <1>0, <2>2, GotoSlot, FinishSlot
         DEF CreateSetPrimary, PrimaryWrite, SetPrimary, Slots
    <2>3. CASE CreateProvision(r) \/ AssignCount(r) \/ Stops(r)
      BY <2>3, GotoSlot, FinishSlot DEF CreateProvision, AssignCount, Stops
    <2>4. CASE AssignCheck(r) \/ PrimaryVerify(r)
      <3>1. /\ \A q \in Requests \ {r} : req'[q] = req[q]
            /\ \/ req'[r].pc = "idle"
               \/ /\ req'[r].srv = req[r].srv /\ req'[r].alloc = req[r].alloc
                  /\ NodeOf[req[r].alloc] = NodeOf[req[r].srv]
        BY <2>4, GotoSlot, FinishSlot DEF AssignCheck, PrimaryVerify, Slots
      <3>2. Located'
        BY <3>1
      <3>3. SameNode'
        BY <2>4 DEF AssignCheck, PrimaryVerify
      <3> QED BY <3>2, <3>3
    <2>5. CASE CreateUndo(r) \/ DeleteServer(r)
      <3>1. Finish(r) /\ DeleteServerRow(req[r].srv)
        BY <2>5 DEF CreateUndo, DeleteServer
      <3>2. Located'
        BY <3>1, FinishSlot
      <3>3. SameNode'
        BY <3>1 DEF DeleteServerRow
      <3> QED BY <3>2, <3>3
    <2>6. CASE AssignWrite(r)
      BY <2>6, FinishSlot DEF AssignWrite, SetOwner, Slots
    <2>7. CASE Remove(r)
      BY <2>7, FinishSlot DEF Remove, SetOwner, Slots
    <2>8. CASE DeleteAlloc(r)
      BY <2>8, FinishSlot DEF DeleteAlloc, Slots
    <2> QED
      BY <2>1, <2>2, <2>3, <2>4, <2>5, <2>6, <2>7, <2>8 DEF Step
  <1>2. ASSUME NEW r \in Requests, NEW s \in Servers \cup {NoServer},
               NEW a \in Allocs \cup {NoAlloc}, NEW pc \in PCs, Admit(r, s, a, pc),
               pc \notin {"assign", "setFirst", "makePrimary"},
               UNCHANGED <<alloc, owner, primary>>
        PROVE  (Located /\ SameNode)'
    BY <1>2 DEF Admit
  <1>3. ASSUME NEW r \in Requests, NEW s \in Servers, NEW a \in Allocs \cup {NoAlloc},
               CreateInsert(r, s, a)
        PROVE  (Located /\ SameNode)'
    BY <1>2, <1>3 DEF CreateInsert, PCs
  <1>4. ASSUME NEW r \in Requests, NEW s \in Servers, NEW a \in Allocs, Begin(r, s, a)
        PROVE  (Located /\ SameNode)'
    BY <1>2, <1>4 DEF Begin, PCs
  <1>5. ASSUME NEW r \in Requests, NEW a \in Allocs, DeleteAllocCheck(r, a)
        PROVE  (Located /\ SameNode)'
    BY <1>2, <1>5 DEF DeleteAllocCheck, PCs
  <1>6. ASSUME NEW a \in Allocs, InsertAlloc(a) PROVE (Located /\ SameNode)'
    BY <1>6 DEF InsertAlloc, NoGhosts
  <1>7. CASE UNCHANGED vars
    BY <1>7 DEF vars
  <1> QED BY <1>1, <1>3, <1>4, <1>5, <1>6, <1>7 DEF Next

\* A server never owns, nor has as its primary, an address of another node.
THEOREM NodesMatch == Spec => []SameNode
  <1> DEFINE Inv == Typed /\ NoGhosts /\ Located /\ SameNode
  <1>1. Init => Inv
    BY InitTyped, InitNoGhosts DEF Init, Located, SameNode, Owned, Idle
  <1>2. Inv /\ [Next]_vars => Inv'
    BY NextTyped, NextNoGhosts, NextSameNode
  <1>3. Inv => SameNode
    OBVIOUS
  <1> QED BY <1>1, <1>2, <1>3, PTL DEF Spec

-----------------------------------------------------------------------------
(* The limit may be passed by one for each handler but one.                *)

LEMMA SubsetCount ==
  ASSUME NEW S, IsFiniteSet(S), NEW T \in SUBSET S
  PROVE  /\ IsFiniteSet(T) /\ Cardinality(T) \in Nat
         /\ Cardinality(T) <= Cardinality(S)
  BY FS_Subset, FS_CardinalityType

\* What a handler does to the allocations of t, and to who may add to them.
LEMMA StepCounts ==
  ASSUME Typed, NoGhosts, NEW r \in Requests, Step(r), NEW t \in Servers
  PROVE  \/ /\ Owned(t)' \subseteq Owned(t)
            /\ Adding(t)' \subseteq Adding(t)
         \/ /\ r \in Adding(t)
            /\ \E a \in Allocs : Owned(t)' \subseteq Owned(t) \cup {a}
            /\ Adding(t)' \subseteq Adding(t) \ {r}
         \/ /\ Cardinality(Owned(t)) < Limit
            /\ Owned(t)' \subseteq Owned(t)
  <1> DEFINE Still == Owned(t)' \subseteq Owned(t)
  <1>0. /\ Limit \in Nat /\ Cardinality(Owned(t)) \in Nat
    BY SubsetCount DEF Owned
  <1>1. ASSUME Finish(r) PROVE Adding(t)' \subseteq Adding(t) \ {r}
    BY <1>1, FinishSlot DEF Adding
  <1>2. ASSUME NEW pc \in PCs \ {"link", "check", "assign"}, Goto(r, pc)
        PROVE  Adding(t)' \subseteq Adding(t) \ {r}
    BY <1>2, GotoSlot DEF Adding
  <1>3. CASE CreateLink(r)
    <2>1. Adding(t)' \subseteq Adding(t) \ {r}
      BY <1>2, <1>3 DEF CreateLink, PCs
    <2>2. \/ Still
          \/ req[r].srv = t /\ Owned(t)' \subseteq Owned(t) \cup {req[r].alloc}
      BY <1>3 DEF CreateLink, SetOwner, Owned, Typed, TypeOK
    <2>3. req[r].srv = t => r \in Adding(t) /\ req[r].alloc \in Allocs
      BY <1>3 DEF CreateLink, Adding, Typed, Slots
    <2> QED BY <2>1, <2>2, <2>3
  <1>4. CASE CreateSetPrimary(r) \/ CreateProvision(r) \/ CreateUndo(r)
             \/ DeleteServer(r) \/ PrimaryVerify(r) \/ PrimaryWrite(r) \/ Stops(r)
    <2>1. Still
      BY <1>4 DEF CreateSetPrimary, CreateProvision, CreateUndo, DeleteServer,
                  PrimaryVerify, PrimaryWrite, Stops, SetPrimary, DeleteServerRow,
                  Owned
    <2>2. Finish(r) \/ \E pc \in PCs \ {"link", "check", "assign"} : Goto(r, pc)
      BY <1>4 DEF CreateSetPrimary, CreateProvision, CreateUndo, DeleteServer,
                  PrimaryVerify, PrimaryWrite, Stops, PCs
    <2> QED BY <1>1, <1>2, <2>1, <2>2
  <1>5. CASE AssignCount(r)
    <2>1. Still
      BY <1>5 DEF AssignCount, Owned
    <2>2. CASE Finish(r)
      BY <1>1, <2>1, <2>2
    <2>3. CASE ~ (Cardinality(Owned(req[r].srv)) >= Limit) /\ Goto(r, "check")
      <3>1. CASE req[r].srv = t
        BY <1>0, <2>1, <2>3, <3>1
      <3>2. CASE req[r].srv # t
        BY <2>1, <2>3, <3>2, GotoSlot DEF Adding
      <3> QED BY <3>1, <3>2
    <2> QED BY <1>5, <2>2, <2>3 DEF AssignCount
  <1>6. CASE AssignCheck(r)
    <2>1. Still
      BY <1>6 DEF AssignCheck, Owned
    <2>2. CASE Finish(r)
      BY <1>1, <2>1, <2>2
    <2>3. CASE Goto(r, "assign")
      BY <1>6, <2>1, <2>3, GotoSlot DEF AssignCheck, Adding
    <2> QED BY <1>6, <2>2, <2>3 DEF AssignCheck
  <1>7. CASE AssignWrite(r)
    <2>1. Adding(t)' \subseteq Adding(t) \ {r}
      BY <1>1, <1>7 DEF AssignWrite
    <2>2. \/ Still
          \/ req[r].srv = t /\ Owned(t)' \subseteq Owned(t) \cup {req[r].alloc}
      BY <1>7 DEF AssignWrite, SetOwner, Owned, Typed, TypeOK
    <2>3. req[r].srv = t => r \in Adding(t) /\ req[r].alloc \in Allocs
      BY <1>7 DEF AssignWrite, Adding, Typed, Slots
    <2> QED BY <2>1, <2>2, <2>3
  <1>8. CASE Remove(r) \/ DeleteAlloc(r)
    <2>1. Still
      BY <1>8 DEF Remove, DeleteAlloc, SetOwner, Owned, Typed, TypeOK
    <2> QED BY <1>1, <1>8, <2>1 DEF Remove, DeleteAlloc
  <1> QED BY <1>3, <1>4, <1>5, <1>6, <1>7, <1>8 DEF Step

\* The same of a handler that is admitted, and of an insertion.
LEMMA AdmissionCounts ==
  ASSUME Typed, NoGhosts, NEW t \in Servers,
         \/ \E r \in Requests :
               \/ \E s \in Servers :
                     \/ \E a \in Allocs \cup {NoAlloc} : CreateInsert(r, s, a)
                     \/ \E a \in Allocs : Begin(r, s, a)
               \/ \E a \in Allocs : DeleteAllocCheck(r, a)
         \/ \E a \in Allocs : InsertAlloc(a)
  PROVE  /\ Owned(t)' \subseteq Owned(t)
         /\ \/ Adding(t)' \subseteq Adding(t)
            \/ Cardinality(Owned(t)) < Limit
  <1>1. ASSUME NEW r \in Requests, NEW s \in Servers \cup {NoServer}, NEW a, NEW pc,
               Admit(r, s, a, pc), s # t \/ pc \notin {"link", "check", "assign"}
        PROVE  Adding(t)' \subseteq Adding(t)
    BY <1>1 DEF Admit, Adding, Typed, TypeOK
  <1>2. ASSUME NEW r \in Requests, NEW s \in Servers, NEW a \in Allocs \cup {NoAlloc},
               CreateInsert(r, s, a)
        PROVE  /\ Owned(t)' \subseteq Owned(t)
               /\ \/ Adding(t)' \subseteq Adding(t)
                  \/ Cardinality(Owned(t)) < Limit
    <2>1. Owned(t)' \subseteq Owned(t)
      BY <1>2 DEF CreateInsert, Owned
    <2>2. CASE s = t
      <3>1. Owned(t) = {}
        BY <1>2, <2>2 DEF CreateInsert, NoGhosts, Owned
      <3> QED BY <2>1, <3>1, FS_EmptySet
    <2>3. CASE s # t
      BY <1>1, <1>2, <2>1, <2>3 DEF CreateInsert
    <2> QED BY <2>2, <2>3
  <1>3. ASSUME NEW r \in Requests, NEW s \in Servers, NEW a \in Allocs, Begin(r, s, a)
        PROVE  Owned(t)' \subseteq Owned(t) /\ Adding(t)' \subseteq Adding(t)
    BY <1>1, <1>3 DEF Begin, Owned
  <1>4. ASSUME NEW r \in Requests, NEW a \in Allocs, DeleteAllocCheck(r, a)
        PROVE  Owned(t)' \subseteq Owned(t) /\ Adding(t)' \subseteq Adding(t)
    BY <1>1, <1>4 DEF DeleteAllocCheck, Owned
  <1>5. ASSUME NEW a \in Allocs, InsertAlloc(a)
        PROVE  Owned(t)' \subseteq Owned(t) /\ Adding(t)' \subseteq Adding(t)
    BY <1>5 DEF InsertAlloc, Owned, Adding, NoGhosts, Typed, TypeOK
  <1> QED BY <1>2, <1>3, <1>4, <1>5

LEMMA InitBudget == Init => LimitBudget
  <1> SUFFICES ASSUME Init, NEW s \in Servers
               PROVE  Cardinality(Owned(s)) + Cardinality(Adding(s))
                          <= Limit + Cardinality(Requests) - 1
    BY DEF LimitBudget
  <1>1. Owned(s) = {} /\ Adding(s) = {}
    BY DEF Init, Owned, Adding, Idle
  <1> QED BY <1>1, FS_EmptySet, FS_CardinalityType

LEMMA NextBudget ==
  Typed /\ NoGhosts /\ LimitBudget /\ [Next]_vars => LimitBudget'
  <1> SUFFICES ASSUME Typed, NoGhosts, LimitBudget, [Next]_vars, NEW t \in Servers
               PROVE  Cardinality(Owned(t)') + Cardinality(Adding(t)')
                          <= Limit + Cardinality(Requests) - 1
    BY DEF LimitBudget
  <1> DEFINE O == Owned(t)  P == Owned(t)'  A == Adding(t)  B == Adding(t)'
  <1>0. /\ O \in SUBSET Allocs /\ P \in SUBSET Allocs
        /\ A \in SUBSET Requests /\ B \in SUBSET Requests
    BY DEF Owned, Adding
  <1>1. /\ IsFiniteSet(O) /\ IsFiniteSet(A)
        /\ Cardinality(O) \in Nat /\ Cardinality(P) \in Nat
        /\ Cardinality(A) \in Nat /\ Cardinality(B) \in Nat
        /\ Cardinality(B) <= Cardinality(Requests)
        /\ Cardinality(Requests) \in Nat /\ Limit \in Nat
    BY <1>0, SubsetCount, FS_CardinalityType
  <1>2. Cardinality(O) + Cardinality(A) <= Limit + Cardinality(Requests) - 1
    BY DEF LimitBudget
  <1>3. \/ P \subseteq O /\ B \subseteq A
        \/ \E r \in A, a \in Allocs : P \subseteq O \cup {a} /\ B \subseteq A \ {r}
        \/ Cardinality(O) < Limit /\ P \subseteq O
    <2>1. CASE UNCHANGED vars
      BY <2>1 DEF vars, Owned, Adding
    <2>2. CASE \E r \in Requests : Step(r)
      BY <2>2, StepCounts
    <2>3. CASE Next /\ ~ \E r \in Requests : Step(r)
      BY <2>3, AdmissionCounts DEF Next
    <2> QED BY <2>1, <2>2, <2>3
  <1> HIDE DEF O, P, A, B
  <1>4. CASE P \subseteq O /\ B \subseteq A
    BY <1>1, <1>2, <1>4, SubsetCount DEF O, P, A, B
  <1>5. CASE \E r \in A, a \in Allocs : P \subseteq O \cup {a} /\ B \subseteq A \ {r}
    <2>1. PICK r \in A, a \in Allocs : P \subseteq O \cup {a} /\ B \subseteq A \ {r}
      BY <1>5
    <2>2. Cardinality(B) <= Cardinality(A) - 1
      <3>1. /\ IsFiniteSet(A \ {r})
            /\ Cardinality(A \ {r}) = Cardinality(A) - 1
        BY <1>1, <2>1, FS_RemoveElement
      <3> QED BY <2>1, <3>1, SubsetCount
    <2>3. Cardinality(P) <= Cardinality(O) + 1
      <3>1. /\ IsFiniteSet(O \cup {a})
            /\ Cardinality(O \cup {a}) \in {Cardinality(O), Cardinality(O) + 1}
        BY <1>1, FS_AddElement
      <3> QED BY <1>1, <2>1, <3>1, SubsetCount
    <2> QED BY <1>1, <1>2, <2>2, <2>3 DEF O, P, A, B
  <1>6. CASE Cardinality(O) < Limit /\ P \subseteq O
    <2>1. Cardinality(P) <= Cardinality(O)
      BY <1>1, <1>6, SubsetCount
    <2> QED BY <1>1, <1>6, <2>1 DEF O, P, A, B
  <1> QED BY <1>3, <1>4, <1>5, <1>6

\* Requests in flight together pass the limit of a server by at most the number
\* of the others; one request at a time keeps it.
THEOREM LimitBounded == Spec => []LimitOvershoot
  <1> DEFINE Inv == Typed /\ NoGhosts /\ LimitBudget
  <1>1. Init => Inv
    BY InitTyped, InitNoGhosts, InitBudget
  <1>2. Inv /\ [Next]_vars => Inv'
    BY NextTyped, NextNoGhosts, NextBudget
  <1>3. Inv => LimitOvershoot
    <2> SUFFICES ASSUME LimitBudget, NEW s \in Servers
                 PROVE  Cardinality(Owned(s)) <= Limit + Cardinality(Requests) - 1
      BY DEF LimitOvershoot
    <2>1. Cardinality(Owned(s)) \in Nat /\ Cardinality(Adding(s)) \in Nat
      BY SubsetCount DEF Owned, Adding
    <2> QED BY <2>1, FS_CardinalityType DEF LimitBudget
  <1> QED BY <1>1, <1>2, <1>3, PTL DEF Spec

-----------------------------------------------------------------------------
(* What a handler of an undisturbed server read stays true.                *)

Careful == Typed /\ NoGhosts /\ Alone /\ Unthreatened /\ Halfway /\ Kept

LEMMA InitCareful == Init => Alone /\ Unthreatened /\ Halfway /\ Kept
  <1> SUFFICES ASSUME Init PROVE Alone /\ Unthreatened /\ Halfway /\ Kept
    OBVIOUS
  <1>1. Alone /\ Unthreatened /\ Halfway /\ PrimaryOwned
    BY DEF Init, Alone, Unthreatened, Halfway, PrimaryOwned, Idle
  <1>2. ASSUME NEW s \in Servers PROVE Cardinality(Owned(s)) <= Limit
    <2>1. Owned(s) = {}
      BY DEF Init, Owned
    <2> QED BY <2>1, FS_EmptySet
  <1> QED BY <1>1, <1>2 DEF Kept, LimitKept

LEMMA StepAlone ==
  ASSUME Careful, NEW r \in Requests, Step(r)
  PROVE  Alone'
  BY SlotsKept DEF Careful, Alone, Idle

LEMMA AdmitAlone ==
  ASSUME Careful, NEW r \in Requests, NEW s \in Servers \cup {NoServer},
         NEW a \in Allocs \cup {NoAlloc}, NEW pc \in PCs, Admit(r, s, a, pc)
  PROVE  Alone'
  <1>1. /\ req'[r] = [srv |-> s, alloc |-> a, pc |-> pc]
        /\ req[r] = Idle
        /\ \A q \in Requests \ {r} : req'[q] = req[q]
    BY DEF Admit, Careful, Typed, TypeOK
  <1>2. /\ disturbed \subseteq disturbed'
        /\ \A q \in Requests :
              req[q].srv = s \/ (req[q].alloc = a /\ a # NoAlloc) =>
                 /\ s \in Servers => s \in disturbed'
                 /\ req[q].srv \in Servers => req[q].srv \in disturbed'
    BY DEF Admit, Overlapped
  <1> QED BY <1>1, <1>2 DEF Careful, Alone, Idle

\* The three ways in which a handler changes who owns an allocation.
LEMMA OwnerChanges ==
  ASSUME Careful, NEW r \in Requests, Step(r), NEW b \in Allocs,
         owner'[b] # owner[b]
  PROVE  /\ req[r].alloc = b
         /\ \/ /\ req[r].pc = "link" /\ owner[b] = NoServer
               /\ owner'[b] = req[r].srv
            \/ /\ req[r].pc = "assign" /\ alloc[b] = "live"
               /\ owner'[b] = req[r].srv
            \/ /\ req[r].pc = "remove" /\ owner[b] = req[r].srv
               /\ owner'[b] = NoServer
            \/ /\ req[r].pc = "deleteAlloc" /\ owner'[b] = NoServer
               /\ \A s \in Servers : primary[s] # b
  <1>1. CASE CreateLink(r)
    BY <1>1 DEF CreateLink, SetOwner, Careful, Typed, TypeOK
  <1>2. CASE AssignWrite(r)
    BY <1>2 DEF AssignWrite, SetOwner, Careful, Typed, TypeOK
  <1>3. CASE Remove(r)
    BY <1>3 DEF Remove, SetOwner, Careful, Typed, TypeOK
  <1>4. CASE DeleteAlloc(r)
    BY <1>4 DEF DeleteAlloc, Careful, Typed, TypeOK
  <1>5. CASE ~ (CreateLink(r) \/ AssignWrite(r) \/ Remove(r) \/ DeleteAlloc(r))
    BY <1>5 DEF Step, CreateSetPrimary, CreateProvision, CreateUndo, DeleteServer,
                AssignCount, AssignCheck, PrimaryVerify, PrimaryWrite, Stops,
                SetPrimary, DeleteServerRow
  <1> QED BY <1>1, <1>2, <1>3, <1>4, <1>5

\* The rest of a handler's writes: rows end, a primary is set or goes.
LEMMA RowChanges ==
  ASSUME Careful, NEW r \in Requests, Step(r)
  PROVE  /\ \A b \in Allocs : alloc'[b] = "live" => alloc[b] = "live"
         /\ \A t \in Servers : server'[t] = "live" => server[t] = "live"
         /\ \A t \in Servers :
               \/ primary'[t] = primary[t]
               \/ req[r].srv = t /\ primary'[t] = NoAlloc
               \/ /\ req[r].srv = t /\ req[r].pc \in {"setFirst", "makePrimary"}
                  /\ server[t] = "live" /\ primary'[t] = req[r].alloc
  <1>1. CASE CreateSetPrimary(r) \/ PrimaryWrite(r)
    BY <1>1 DEF CreateSetPrimary, PrimaryWrite, SetPrimary, Careful, Typed, TypeOK
  <1>2. CASE CreateUndo(r) \/ DeleteServer(r)
    BY <1>2 DEF CreateUndo, DeleteServer, DeleteServerRow, Careful, Typed, TypeOK
  <1>3. CASE DeleteAlloc(r)
    BY <1>3 DEF DeleteAlloc, Careful, Typed, TypeOK
  <1>4. CASE ~ (\/ CreateSetPrimary(r) \/ PrimaryWrite(r) \/ CreateUndo(r)
                \/ DeleteServer(r) \/ DeleteAlloc(r))
    BY <1>4 DEF Step, CreateLink, CreateProvision, AssignCount, AssignCheck,
                AssignWrite, Remove, PrimaryVerify, Stops, SetOwner
  <1> QED BY <1>1, <1>2, <1>3, <1>4

\* What a handler learns on the way to its next statement.
LEMMA SlotLearns ==
  ASSUME Careful, NEW r \in Requests, Step(r), req'[r].pc # "idle"
  PROVE  LET s == req[r].srv
             a == req[r].alloc
         IN  /\ req'[r].srv = s /\ req'[r].alloc = a
             /\ req'[r].pc \in {"setFirst", "provision", "undo", "check", "assign",
                               "makePrimary"}
             /\ req'[r].pc = "setFirst" => alloc[a] = "live" /\ owner'[a] = s
             /\ req'[r].pc = "check" => Cardinality(Owned(s)) < Limit
             /\ req'[r].pc = "assign" => req[r].pc = "check" /\ owner[a] = NoServer
             /\ req'[r].pc = "makePrimary" => owner[a] = s
             /\ req'[r].pc \in {"check", "assign", "makePrimary"} => owner' = owner /\ alloc' = alloc
  <1>1. CASE CreateLink(r)
    BY <1>1, GotoSlot DEF CreateLink, SetOwner, Careful, Typed, TypeOK, Slots
  <1>2. CASE CreateSetPrimary(r) \/ CreateProvision(r)
    BY <1>2, GotoSlot, FinishSlot DEF CreateSetPrimary, CreateProvision, Careful
  <1>3. CASE AssignCount(r)
    <2>1. Limit \in Nat /\ Cardinality(Owned(req[r].srv)) \in Nat
      BY SubsetCount DEF Owned
    <2> QED BY <1>3, <2>1, GotoSlot, FinishSlot DEF AssignCount, Careful
  <1>4. CASE AssignCheck(r)
    BY <1>4, GotoSlot, FinishSlot DEF AssignCheck, Careful
  <1>5. CASE PrimaryVerify(r)
    BY <1>5, GotoSlot, FinishSlot DEF PrimaryVerify, Owned, Careful
  <1>6. CASE CreateUndo(r) \/ DeleteServer(r) \/ AssignWrite(r) \/ Remove(r)
             \/ PrimaryWrite(r) \/ DeleteAlloc(r) \/ Stops(r)
    BY <1>6, FinishSlot
       DEF CreateUndo, DeleteServer, AssignWrite, Remove, PrimaryWrite, DeleteAlloc,
           Stops, Careful
  <1> QED BY <1>1, <1>2, <1>3, <1>4, <1>5, <1>6 DEF Step

\* What another handler cannot take from an undisturbed server.
LEMMA NotTaken ==
  ASSUME Careful, NEW r \in Requests, Step(r), NEW s \in Servers \ disturbed,
         NEW b \in Allocs, owner[b] = s,
         \/ primary[s] = b
         \/ \E q \in Requests \ {r} : req[q].srv = s /\ req[q].alloc = b
  PROVE  owner'[b] = s
  <1> SUFFICES ASSUME owner'[b] # owner[b] PROVE FALSE
    OBVIOUS
  <1>0. NoServer \notin Servers /\ NoAlloc \notin Allocs
    OBVIOUS
  <1>1. CASE \E q \in Requests \ {r} : req[q].srv = s /\ req[q].alloc = b
    BY <1>0, <1>1, OwnerChanges DEF Careful, Alone
  <1>2. CASE primary[s] = b
    <2>1. alloc[b] = "live"
      BY <1>0, <1>2 DEF Careful, NoGhosts
    <2>2. req[r].pc \in {"assign", "deleteAlloc"} => owner[b] \in {NoServer} \cup disturbed
      BY <2>1, OwnerChanges DEF Careful, Unthreatened
    <2>3. req[r].pc = "remove" /\ req[r].srv = s /\ req[r].alloc = b => primary[s] # b
      BY DEF Careful, Halfway
    <2> QED BY <1>0, <1>2, <2>2, <2>3, OwnerChanges
  <1> QED BY <1>1, <1>2

LEMMA StepUnthreatened ==
  ASSUME Careful, NEW r \in Requests, Step(r)
  PROVE  Unthreatened'
  <1> SUFFICES ASSUME NEW q \in Requests, req'[q].pc \in {"assign", "deleteAlloc"},
                      alloc'[req'[q].alloc] = "live"
               PROVE  owner'[req'[q].alloc] \in {NoServer} \cup disturbed
    BY SlotsKept DEF Unthreatened, Careful
  <1> DEFINE b == req'[q].alloc
  <1>1. Typed'
    BY NextTyped DEF Careful, Next
  <1>2. b \in Allocs
    BY <1>1 DEF Typed, Slots
  <1>3. CASE q = r
    BY <1>3, SlotLearns
  <1>4. CASE q # r
    <2>1. req'[q] = req[q] /\ alloc[b] = "live"
      BY <1>2, <1>4, SlotsKept, RowChanges DEF Careful
    <2>2. owner[b] \in {NoServer} \cup disturbed
      BY <2>1 DEF Careful, Unthreatened
    <2>3. CASE owner'[b] = owner[b]
      BY <2>2, <2>3
    <2>4. CASE owner'[b] # owner[b]
      <3>1. req[r].alloc = b /\ owner'[b] \in {NoServer, req[r].srv}
        BY <1>2, <2>4, OwnerChanges
      <3>2. req[r].srv \notin Servers \ disturbed
        BY <1>2, <1>4, <2>1, <3>1 DEF Careful, Alone
      <3>3. req[r].srv \in Servers \cup {NoServer}
        BY DEF Careful, Typed, TypeOK
      <3> QED BY <3>1, <3>2, <3>3
    <2> QED BY <2>3, <2>4
  <1> QED BY <1>3, <1>4

\* Only the handlers of s may add to what s owns, and only by what they name.
LEMMA OwnedChanges ==
  ASSUME Careful, NEW r \in Requests, Step(r), NEW s \in Servers
  PROVE  \/ Owned(s)' \subseteq Owned(s)
         \/ /\ req[r].srv = s /\ req[r].pc \in {"link", "assign"}
            /\ req[r].alloc \in Allocs
            /\ Owned(s)' \subseteq Owned(s) \cup {req[r].alloc}
            /\ req'[r].pc \in {"setFirst", "idle"}
  <1> SUFFICES ASSUME NEW b \in Allocs, b \in Owned(s)', b \notin Owned(s)
               PROVE  /\ req[r].srv = s /\ req[r].pc \in {"link", "assign"}
                      /\ req[r].alloc = b
                      /\ req'[r].pc \in {"setFirst", "idle"}
    BY DEF Owned
  <1>1. owner'[b] # owner[b] /\ owner'[b] = s
    BY RowChanges DEF Owned
  <1>2. /\ req[r].srv = s /\ req[r].pc \in {"link", "assign"} /\ req[r].alloc = b
    BY <1>1, OwnerChanges
  <1>3. req'[r].pc \in {"setFirst", "idle"}
    <2>1. CASE CreateLink(r)
      BY <1>1, <2>1, GotoSlot DEF CreateLink, Careful
    <2>2. CASE AssignWrite(r) \/ Stops(r)
      BY <2>2, FinishSlot DEF AssignWrite, Stops, Careful
    <2>3. CASE ~ (CreateLink(r) \/ AssignWrite(r) \/ Stops(r))
      BY <1>2, <2>3 DEF Step, CreateSetPrimary, CreateProvision, CreateUndo,
           DeleteServer, AssignCount, AssignCheck, Remove, PrimaryVerify,
           PrimaryWrite, DeleteAlloc
    <2> QED BY <2>1, <2>2, <2>3
  <1> QED BY <1>2, <1>3

LEMMA FewerOwned ==
  ASSUME NEW s \in Servers, Owned(s)' \subseteq Owned(s)
  PROVE  Cardinality(Owned(s)') <= Cardinality(Owned(s))
  <1> DEFINE O == Owned(s)  P == Owned(s)'
  <1>1. IsFiniteSet(O) /\ P \in SUBSET O
    BY SubsetCount DEF Owned
  <1> HIDE DEF O, P
  <1>2. Cardinality(P) <= Cardinality(O)
    BY <1>1, SubsetCount
  <1> QED BY <1>2 DEF O, P

LEMMA StepHalfway ==
  ASSUME Careful, NEW r \in Requests, Step(r)
  PROVE  Halfway'
  <1> DEFINE Safe(q) ==
        LET s == req[q].srv
            a == req[q].alloc
        IN  /\ req[q].pc = "link" => Owned(s) = {} /\ primary[s] = NoAlloc
            /\ req[q].pc \in {"check", "assign"} => Cardinality(Owned(s)) < Limit
            /\ req[q].pc \in {"setFirst", "makePrimary"} /\ server[s] = "live" =>
                   owner[a] = s
            /\ req[q].pc = "remove" => primary[s] # a
  <1> SUFFICES ASSUME NEW q \in Requests, req'[q].srv \in Servers \ disturbed
               PROVE  Safe(q)'
    BY SlotsKept DEF Halfway, Careful
  <1> DEFINE s == req[q].srv  a == req[q].alloc
  <1>1. req'[q].srv = s /\ req'[q].alloc = a /\ s \in Servers \ disturbed
    BY SlotsKept DEF Careful, Idle
  <1>2. Safe(q)
    BY <1>1 DEF Careful, Halfway
  <1>3. Limit \in Nat /\ Cardinality(Owned(s)) \in Nat /\ Cardinality(Owned(s)') \in Nat
    <2>1. Owned(s) \in SUBSET Allocs /\ Owned(s)' \in SUBSET Allocs
      BY DEF Owned
    <2> QED BY <2>1, SubsetCount
  <1>4. CASE q = r
    <2>1. req'[q].pc # "idle"
      BY <1>1, NextTyped DEF Careful, Next, Typed, Slots, Idle
    <2>2. /\ req'[q].pc \in {"setFirst", "provision", "undo", "check", "assign",
                             "makePrimary"}
          /\ req'[q].pc = "setFirst" => owner'[a] = s
          /\ req'[q].pc \in {"check", "assign"} => Cardinality(Owned(s)) < Limit
          /\ req'[q].pc \in {"check", "assign", "makePrimary"} =>
                 owner' = owner /\ alloc' = alloc
          /\ req'[q].pc = "makePrimary" => owner[a] = s
      BY <1>2, <1>4, <2>1, SlotLearns
    <2>3. req'[q].pc \in {"check", "assign"} => Owned(s)' = Owned(s)
      BY <1>1, <2>2 DEF Owned
    <2> QED BY <1>1, <2>2, <2>3
  <1>5. CASE q # r
    <2>1. req'[q] = req[q]
      BY <1>5, SlotsKept DEF Careful
    <2>2. req[r].srv # s
      BY <1>1, <1>5 DEF Careful, Alone
    <2>3. /\ Owned(s)' \subseteq Owned(s) /\ primary'[s] = primary[s]
          /\ server'[s] = "live" => server[s] = "live"
      BY <1>1, <2>2, OwnedChanges, RowChanges
    <2>4. Cardinality(Owned(s)') <= Cardinality(Owned(s))
      BY <1>1, <2>3, FewerOwned
    <2>5. req[q].pc \in {"setFirst", "makePrimary"} /\ owner[a] = s => owner'[a] = s
      BY <1>1, <1>5, NotTaken DEF Careful, Typed, Slots
    <2> QED BY <1>1, <1>2, <1>3, <2>1, <2>3, <2>4, <2>5
  <1> QED BY <1>4, <1>5

LEMMA StepKept ==
  ASSUME Careful, NEW r \in Requests, Step(r)
  PROVE  Kept'
  <1>0. disturbed' = disturbed
    BY SlotsKept DEF Careful
  <1> SUFFICES ASSUME NEW s \in Servers \ disturbed
               PROVE  /\ primary'[s] # NoAlloc => owner'[primary'[s]] = s
                      /\ Cardinality(Owned(s)') <= Limit
    BY <1>0 DEF Kept, PrimaryOwned, LimitKept
  <1>1. primary'[s] # NoAlloc => owner'[primary'[s]] = s
    <2>1. CASE primary'[s] = primary[s]
      <3>1. primary[s] # NoAlloc => primary[s] \in Allocs /\ owner[primary[s]] = s
        BY DEF Careful, Kept, PrimaryOwned, Typed, TypeOK
      <3> QED BY <2>1, <3>1, NotTaken
    <2>2. CASE /\ req[r].srv = s /\ req[r].pc \in {"setFirst", "makePrimary"}
               /\ server[s] = "live" /\ primary'[s] = req[r].alloc
      <3>1. owner[req[r].alloc] = s /\ req[r].alloc \in Allocs
        BY <2>2 DEF Careful, Halfway, Typed, Slots
      <3> QED BY <2>2, <3>1, OwnerChanges
    <2> QED BY <2>1, <2>2, RowChanges
  <1>2. Cardinality(Owned(s)') <= Limit
    <2> DEFINE O == Owned(s)  P == Owned(s)'
    <2>0. /\ O \in SUBSET Allocs /\ P \in SUBSET Allocs
      BY DEF Owned
    <2>1. /\ IsFiniteSet(O) /\ Cardinality(O) \in Nat /\ Cardinality(P) \in Nat
          /\ Limit \in Nat \ {0}
      BY <2>0, SubsetCount
    <2>2. Cardinality(O) <= Limit
      BY DEF Careful, Kept, LimitKept
    <2>3. CASE P \subseteq O
      BY <2>1, <2>2, <2>3, FewerOwned
    <2>4. CASE /\ req[r].srv = s /\ req[r].pc \in {"link", "assign"}
               /\ P \subseteq O \cup {req[r].alloc}
      <3>1. Cardinality(O) < Limit
        <4>1. req[r].pc = "link" => O = {}
          BY <2>4 DEF Careful, Halfway
        <4>2. req[r].pc = "assign" => Cardinality(O) < Limit
          BY <2>4 DEF Careful, Halfway
        <4> QED BY <2>1, <2>4, <4>1, <4>2, FS_EmptySet
      <3> HIDE DEF O, P
      <3>2. /\ IsFiniteSet(O \cup {req[r].alloc})
            /\ Cardinality(O \cup {req[r].alloc}) \in
                   {Cardinality(O), Cardinality(O) + 1}
        BY <2>1, FS_AddElement
      <3>3. Cardinality(P) <= Cardinality(O \cup {req[r].alloc})
        BY <2>4, <3>2, SubsetCount
      <3> QED BY <2>1, <3>1, <3>2, <3>3 DEF P
    <2> QED BY <2>3, <2>4, OwnedChanges
  <1> QED BY <1>1, <1>2

\* An admission changes no ownership; whom it overlaps becomes disturbed.
LEMMA AdmitCareful ==
  ASSUME Careful, NEW r \in Requests, NEW s \in Servers \cup {NoServer},
         NEW a \in Allocs \cup {NoAlloc}, NEW pc \in PCs, Admit(r, s, a, pc),
         UNCHANGED <<alloc, owner, primary>>,
         pc \in {"link", "provision", "count", "remove", "verify", "deleteServer",
                "deleteAlloc"},
         \/ server' = server
         \/ server[s] = "unborn" /\ server' = [server EXCEPT ![s] = "live"],
         pc = "link" => server[s] = "unborn" /\ s \in Servers,
         pc = "remove" => primary[s] # a,
         pc = "deleteAlloc" => owner[a] = NoServer
  PROVE  Unthreatened' /\ Halfway' /\ Kept'
  <1>1. /\ req'[r] = [srv |-> s, alloc |-> a, pc |-> pc]
        /\ \A q \in Requests \ {r} : req'[q] = req[q]
        /\ disturbed \subseteq disturbed'
    BY DEF Admit, Careful, Typed, TypeOK
  <1>2. \A t \in Servers : Owned(t)' = Owned(t)
    BY DEF Owned
  <1>3. Unthreatened'
    BY <1>1 DEF Careful, Unthreatened
  <1>4. Kept'
    BY <1>1, <1>2 DEF Careful, Kept, PrimaryOwned, LimitKept
  <1>5. Halfway'
    <2> SUFFICES ASSUME NEW q \in Requests, NEW t \in Servers \ disturbed',
                        req'[q].srv = t
                 PROVE  /\ req'[q].pc = "link" => Owned(t)' = {} /\ primary'[t] = NoAlloc
                        /\ req'[q].pc \in {"check", "assign"} => Cardinality(Owned(t)') < Limit
                        /\ (req'[q].pc \in {"setFirst", "makePrimary"}
                            /\ server'[t] = "live") => owner'[req'[q].alloc] = t
                        /\ req'[q].pc = "remove" => primary'[t] # req'[q].alloc
      BY DEF Halfway, Owned
    <2>1. CASE q = r
      <3>1. pc = "link" => Owned(t) = {} /\ primary[t] = NoAlloc
        BY <1>1, <2>1 DEF Careful, NoGhosts, Owned
      <3> QED BY <1>1, <1>2, <2>1, <3>1
    <2>2. CASE q # r
      <3>1. req'[q] = req[q] /\ req[q].srv = t /\ t \in Servers \ disturbed
        BY <1>1, <2>2
      <3>2. server[t] # "unborn"
        BY <3>1 DEF Careful, NoGhosts, Busy
      <3>3. server'[t] = server[t]
        BY <3>1, <3>2 DEF Careful, Typed, TypeOK
      <3>4. /\ req[q].pc = "link" => Owned(t) = {} /\ primary[t] = NoAlloc
            /\ req[q].pc \in {"check", "assign"} => Cardinality(Owned(t)) < Limit
            /\ (req[q].pc \in {"setFirst", "makePrimary"} /\ server[t] = "live") =>
                   owner[req[q].alloc] = t
            /\ req[q].pc = "remove" => primary[t] # req[q].alloc
        BY <3>1 DEF Careful, Halfway
      <3> QED BY <1>2, <3>1, <3>3, <3>4
    <2> QED BY <2>1, <2>2
  <1> QED BY <1>3, <1>4, <1>5

LEMMA NextCareful == Careful /\ [Next]_vars => Careful'
  <1> SUFFICES ASSUME Careful, [Next]_vars PROVE Careful'
    OBVIOUS
  <1>0. Typed' /\ NoGhosts'
    BY NextTyped, NextNoGhosts DEF Careful
  <1> SUFFICES Alone' /\ Unthreatened' /\ Halfway' /\ Kept'
    BY <1>0 DEF Careful
  <1>1. ASSUME NEW r \in Requests, Step(r)
        PROVE  Alone' /\ Unthreatened' /\ Halfway' /\ Kept'
    BY <1>1, StepAlone, StepUnthreatened, StepHalfway, StepKept
  <1>2. ASSUME NEW r \in Requests, NEW s \in Servers, NEW a \in Allocs \cup {NoAlloc},
               CreateInsert(r, s, a)
        PROVE  Alone' /\ Unthreatened' /\ Halfway' /\ Kept'
    <2>1. PICK pc \in {"link", "provision"} : Admit(r, s, a, pc)
      BY <1>2 DEF CreateInsert
    <2> QED BY <1>2, <2>1, AdmitAlone, AdmitCareful DEF CreateInsert, PCs
  <1>3. ASSUME NEW r \in Requests, NEW s \in Servers, NEW a \in Allocs, Begin(r, s, a)
        PROVE  Alone' /\ Unthreatened' /\ Halfway' /\ Kept'
    <2>1. PICK pc \in {"count", "remove", "verify", "deleteServer"},
               b \in Allocs \cup {NoAlloc} :
             Admit(r, s, b, pc) /\ (pc = "remove" => primary[s] # b)
      BY <1>3 DEF Begin, MayRemove
    <2> QED BY <1>3, <2>1, AdmitAlone, AdmitCareful DEF Begin, PCs
  <1>4. ASSUME NEW r \in Requests, NEW a \in Allocs, DeleteAllocCheck(r, a)
        PROVE  Alone' /\ Unthreatened' /\ Halfway' /\ Kept'
    BY <1>4, AdmitAlone, AdmitCareful DEF DeleteAllocCheck, PCs
  <1>5. ASSUME NEW a \in Allocs, InsertAlloc(a)
        PROVE  Alone' /\ Unthreatened' /\ Halfway' /\ Kept'
    <2>1. \A t \in Servers : Owned(t)' = Owned(t)
      BY <1>5 DEF InsertAlloc, Owned, Careful, NoGhosts, Typed, TypeOK
    <2>2. owner[a] = NoServer
      BY <1>5 DEF InsertAlloc, Careful, NoGhosts
    <2>3. Alone' /\ Halfway' /\ Kept'
      BY <1>5, <2>1
         DEF InsertAlloc, Careful, Alone, Halfway, Kept, PrimaryOwned, LimitKept
    <2>4. Unthreatened'
      BY <1>5, <2>2 DEF InsertAlloc, Careful, Unthreatened, Typed, TypeOK
    <2> QED BY <2>3, <2>4
  <1>6. CASE UNCHANGED vars
    <2>1. \A t \in Servers : Owned(t)' = Owned(t)
      BY <1>6 DEF vars, Owned
    <2> QED BY <1>6, <2>1 DEF vars, Careful, Alone, Unthreatened, Halfway, Kept,
                             PrimaryOwned, LimitKept
  <1> QED BY <1>1, <1>2, <1>3, <1>4, <1>5, <1>6 DEF Next

\* A server whose requests never overlapped another's owns its primary and is
\* within its limit.
THEOREM OwnershipKept == Spec => []Kept
  <1>1. Init => Careful
    BY InitTyped, InitNoGhosts, InitCareful DEF Careful
  <1>2. Careful => Kept
    BY DEF Careful
  <1> QED BY <1>1, <1>2, NextCareful, PTL DEF Spec

\* The whole of the invariant: what a handler remembers between its statements
\* is right of the row it names, and the count of what a server owns allows for
\* the handlers that may still add to it.
THEOREM AllocInvariance == Spec => []IInv
  <1> DEFINE Inv == Careful /\ Located /\ SameNode /\ LimitBudget
  <1>1. Init => Located /\ SameNode
    BY DEF Init, Located, SameNode, Owned, Idle
  <1>2. Init => Inv
    BY <1>1, InitTyped, InitNoGhosts, InitCareful, InitBudget DEF Careful
  <1>3. Inv /\ [Next]_vars => Inv'
    BY NextCareful, NextSameNode, NextBudget DEF Careful
  <1>4. Inv => IInv
    BY DEF IInv, Careful, Typed
  <1> QED BY <1>2, <1>3, <1>4, PTL DEF Spec

=============================================================================
