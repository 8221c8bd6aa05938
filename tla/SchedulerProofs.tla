--------------------------- MODULE SchedulerProofs ---------------------------
(***************************************************************************)
(* The flags, the due times and the sequence numbers of the scheduler, for *)
(* any number of schedules, tasks, handlers and servers.                   *)
(*                                                                         *)
(* The inductive invariant is IInv.  It is proved in layers, each resting  *)
(* on those before: the types and where the process stands (Typed), what   *)
(* names a schedule that is not there, what the process knows of the one   *)
(* it works on, and the numbers of the tasks.                              *)
(***************************************************************************)
EXTENDS SchedulerProperties, FiniteSetTheorems, SequenceTheorems, TLAPS

Typed == TypeOK /\ AtWork

LEMMA InitTyped == Init => Typed
  <1>1. <<>> \in Seq(Tasks)
    BY EmptySeq
  <1>2. Init => failed \in BOOLEAN
    BY Zenon DEF Init
  <1>3. Init => task \in [Tasks -> [row : Row, of : Schedules \cup {NoSchedule}, seq : Nat]]
    BY DEF Init, Row, Unborn
  <1>4. Init => creator \in [Creators -> [of : Schedules \cup {NoSchedule}, seq : Nat]]
    BY DEF Init, Nobody
  <1> QED BY <1>1, <1>2, <1>3, <1>4 DEF Init, Typed, TypeOK, AtWork, Row, Unborn, Nobody

\* What a SELECT returns is a sequence of tasks.
LEMMA OrdersTyped ==
  ASSUME NEW s, NEW q \in Orders(s)
  PROVE  q \in Seq(Tasks)
  <1>1. RowsOf(s) \subseteq Tasks
    BY DEF RowsOf
  <1>2. Cardinality(RowsOf(s)) \in Nat
    BY <1>1, ConstantsOK, FS_Subset, FS_CardinalityType
  <1>3. q \in [1..Cardinality(RowsOf(s)) -> RowsOf(s)]
    BY DEF Orders
  <1>4. q \in [1..Cardinality(RowsOf(s)) -> Tasks]
    BY <1>1, <1>3
  <1> HIDE DEF Orders
  <1> QED BY <1>2, <1>4

\* The process writes its own state and two columns.
LEMMA WorkTyped ==
  ASSUME Typed, Work \/ Mishap
  PROVE  Typed'
  <1> USE DEF Typed, TypeOK, AtWork, rows, worker
  <1>1. CASE Tick \/ EndTick
    BY <1>1 DEF Tick, EndTick
  <1>7. CASE Fetch \/ FetchFails
    BY <1>7 DEF Fetch, FetchFails
  <1>8. CASE Sleep
    BY <1>8 DEF Sleep, GoesOn
  <1>0. <<>> \in Seq(Tasks) /\ NoSchedule \notin Schedules
    BY EmptySeq, ConstantsOK
  <1>2. CASE Clear \/ Finish
    BY <1>0, <1>2 DEF Clear, Finish, Return, Forget
  <1>3. CASE Load
    <2>1. todo' \in Seq(Tasks)
      BY <1>3, OrdersTyped DEF Load
    <2> QED BY <1>3, <2>1 DEF Load
  <1>4. CASE Run
    <2>1. todo' \in Seq(Tasks)
      BY <1>4, HeadTailProperties DEF Run
    <2> QED BY <1>4, <2>1 DEF Run
  <1>5. CASE RunFails \/ Crash
    <2>1. creator' \in [Creators -> [of : Schedules \cup {NoSchedule}, seq : Nat]]
      BY <1>5 DEF RunFails, Crash, Nobody
    <2>2. stuck' \in SUBSET Schedules
      BY <1>5 DEF RunFails, Crash, Strand
    <2> QED BY <1>0, <1>5, <2>1, <2>2 DEF RunFails, Crash, Return, Forget
  <1>6. ASSUME NEW s \in Schedules, Mark(s) \/ MarkFails(s)
        PROVE  Typed'
    BY <1>0, <1>6 DEF Mark, MarkFails
  <1> QED BY <1>1, <1>2, <1>3, <1>4, <1>5, <1>6, <1>7, <1>8 DEF Work, Mishap

LEMMA DropTyped ==
  ASSUME Typed, NEW S \in SUBSET Schedules, Drop(S)
  PROVE  /\ sched' \in [Schedules -> Row]
         /\ processing' \in SUBSET Schedules
         /\ next' \in [Schedules -> {"later", "due"}]
         /\ task' \in [Tasks -> [row : Row, of : Schedules \cup {NoSchedule}, seq : Nat]]
         /\ stuck' \in SUBSET Schedules
  BY DEF Drop, Typed, TypeOK, Row, Dropped

LEMMA OthersTyped ==
  ASSUME Typed, Handlers \/ Surroundings
  PROVE  Typed'
  <1>1. ASSUME NEW s \in Schedules, CreateSchedule(s) \/ TimePasses(s)
        PROVE  Typed'
    BY <1>1 DEF Typed, TypeOK, AtWork, CreateSchedule, TimePasses, Row, worker
  <1>2. ASSUME NEW s \in Schedules, DeleteSchedule(s)
        PROVE  Typed'
    BY <1>2, DropTyped DEF Typed, TypeOK, AtWork, DeleteSchedule, worker
  <1>3. ASSUME NEW v \in Servers, ServerDeleted(v)
        PROVE  Typed'
    <2>1. {s \in Schedules : ServerOf[s] = v /\ Live(s)} \in SUBSET Schedules
      OBVIOUS
    <2> QED BY <1>3, <2>1, DropTyped DEF Typed, TypeOK, AtWork, ServerDeleted, worker
  <1>4. ASSUME NEW c \in Creators, TaskInsert(c) \/ TaskStops(c)
        PROVE  Typed'
    <2> DEFINE A == [row : Row, of : Schedules \cup {NoSchedule}, seq : Nat]
               B == [of : Schedules \cup {NoSchedule}, seq : Nat]
    <2>0. creator \in [Creators -> B] /\ task \in [Tasks -> A]
      BY DEF Typed, TypeOK
    <2>1. creator' \in [Creators -> B]
      <3>1. Nobody \in B /\ creator' = [creator EXCEPT ![c] = Nobody]
        BY <1>4 DEF TaskInsert, TaskStops, Nobody
      <3> HIDE DEF B
      <3> QED BY <2>0, <3>1
    <2>2. task' \in [Tasks -> A]
      <3>1. CASE UNCHANGED task
        BY <2>0, <3>1
      <3>2. ASSUME NEW t \in Tasks, creator[c].of \in Schedules,
                   task' = [task EXCEPT ![t] = [row |-> "live", of |-> creator[c].of,
                                                seq |-> creator[c].seq]]
            PROVE  task' \in [Tasks -> A]
        <4>1. creator[c].seq \in Nat
          BY <2>0
        <4>2. [row |-> "live", of |-> creator[c].of, seq |-> creator[c].seq] \in A
          BY <3>2, <4>1 DEF Row
        <4> HIDE DEF A
        <4> QED BY <2>0, <3>2, <4>2
      <3> QED BY <1>4, <3>1, <3>2 DEF TaskInsert, TaskStops
    <2> QED BY <1>4, <2>1, <2>2 DEF Typed, TypeOK, AtWork, TaskInsert, TaskStops, Nobody, Row, rows, worker
  <1>5. ASSUME NEW c \in Creators, NEW s \in Schedules, TaskCount(c, s)
        PROVE  Typed'
    <2>1. PICK n \in {0} \cup {task[t].seq : t \in RowsOf(s)} :
             creator' = [creator EXCEPT ![c] = [of |-> s, seq |-> n + 1]]
      BY <1>5 DEF TaskCount
    <2>2. n \in Nat
      BY <2>1 DEF RowsOf, Typed, TypeOK
    <2> QED BY <1>5, <2>1, <2>2 DEF Typed, TypeOK, AtWork, TaskCount, rows, worker
  <1>6. ASSUME NEW t \in Tasks, DeleteTask(t)
        PROVE  Typed'
    BY <1>6 DEF Typed, TypeOK, AtWork, DeleteTask, Dropped, Row, rows, worker
  <1>7. ASSUME NEW v \in Servers, NEW st \in {"running", "down"}, StatusChanges(v, st)
        PROVE  Typed'
    BY <1>7 DEF Typed, TypeOK, AtWork, StatusChanges, rows, worker
  <1> QED BY <1>1, <1>2, <1>3, <1>4, <1>5, <1>6, <1>7 DEF Handlers, Surroundings

LEMMA NextTyped == Typed /\ [Next]_vars => Typed'
  <1>1. Typed /\ UNCHANGED vars => Typed'
    BY DEF Typed, TypeOK, AtWork, vars, rows, worker
  <1> QED BY <1>1, WorkTyped, OthersTyped DEF Next

\* Every column, slot and local variable stays in its type.
THEOREM SchedTypeCorrect == Spec => []TypeOK
  <1>1. Typed => TypeOK
    BY DEF Typed
  <1> QED BY <1>1, InitTyped, NextTyped, PTL DEF Spec

-----------------------------------------------------------------------------
(* What names a schedule that is not there.                                *)

Grounded == Typed /\ NoGhosts

LEMMA InitNoGhosts == Init => NoGhosts
  BY ConstantsOK DEF Init, NoGhosts, Live, Unborn

\* The process never touches what the handlers own, and writes two columns of
\* rows that are there.
LEMMA WorkGrounded ==
  ASSUME Grounded, Work \/ Mishap
  PROVE  /\ status' = status /\ sched' = sched /\ task' = task /\ crowded' = crowded
         /\ NoGhosts'
  <1> USE DEF Grounded, Typed, TypeOK, AtWork, NoGhosts, Live, rows, worker
  <1>1. CASE Tick \/ EndTick
    BY <1>1 DEF Tick, EndTick
  <1>2. CASE Fetch \/ FetchFails
    BY <1>2 DEF Fetch, FetchFails
  <1>3. CASE Sleep \/ Run \/ Load
    BY <1>3 DEF Sleep, Run, Load
  <1>4. CASE Clear \/ Finish
    BY <1>4, ConstantsOK DEF Clear, Finish, Return, Forget
  <1>5. CASE RunFails \/ Crash
    BY <1>5, ConstantsOK DEF RunFails, Crash, Return, Forget, Strand
  <1>6. ASSUME NEW s \in Schedules, Mark(s) \/ MarkFails(s)
        PROVE  /\ status' = status /\ sched' = sched /\ task' = task
               /\ crowded' = crowded /\ NoGhosts'
    BY <1>6 DEF Mark, MarkFails
  <1> QED BY <1>1, <1>2, <1>3, <1>4, <1>5, <1>6 DEF Work, Mishap

\* Dropping rows leaves every other row as it is.
LEMMA DropGrounded ==
  ASSUME Grounded, NEW S \in SUBSET Schedules, Drop(S), UNCHANGED <<batch, current>>,
         \A s \in S : Live(s)
  PROVE  NoGhosts'
  <1>1. \A s \in Schedules : s \in S =>
            sched'[s] # "live" /\ s \notin processing' /\ s \notin stuck' /\ sched'[s] = "deleted"
    BY DEF Drop, Live
  <1>2. \A s \in Schedules : s \notin S =>
            /\ sched'[s] = sched[s] /\ (s \in processing' <=> s \in processing)
            /\ next'[s] = next[s] /\ (s \in stuck' <=> s \in stuck)
    BY DEF Drop, Grounded, Typed, TypeOK
  <1>3. \A t \in Tasks : task'[t] = IF task[t].of \in S THEN Dropped ELSE task[t]
    BY DEF Drop
  <1>4. \A s \in Schedules : sched'[s] # "live" => s \notin processing' /\ s \notin stuck'
    BY <1>1, <1>2 DEF Grounded, NoGhosts, Live
  <1>5. \A s \in Schedules : sched'[s] = "unborn" =>
            s \notin batch' /\ s # current' /\ next'[s] = "later"
    BY <1>1, <1>2 DEF Grounded, NoGhosts
  <1>6. ASSUME NEW t \in Tasks
        PROVE  /\ task'[t].row = "live" => task'[t].of \in Schedules
               /\ task'[t].row # "live" => task'[t].of = NoSchedule
               /\ task'[t].of \in Schedules => sched'[task'[t].of] = "live"
    <2>1. CASE task[t].of \in S
      BY <1>3, <2>1, ConstantsOK DEF Dropped
    <2>2. CASE task[t].of \notin S
      BY <1>2, <1>3, <2>2 DEF Grounded, NoGhosts, Live
    <2> QED BY <2>1, <2>2
  <1> QED BY <1>4, <1>5, <1>6 DEF NoGhosts, Live

LEMMA OthersGrounded ==
  ASSUME Grounded, Handlers \/ Surroundings
  PROVE  NoGhosts'
  <1>1. ASSUME NEW s \in Schedules, CreateSchedule(s)
        PROVE  NoGhosts'
    BY <1>1 DEF Grounded, Typed, TypeOK, NoGhosts, CreateSchedule, Live, worker
  <1>2. ASSUME NEW s \in Schedules, TimePasses(s)
        PROVE  NoGhosts'
    BY <1>2 DEF Grounded, Typed, TypeOK, NoGhosts, TimePasses, Live, worker
  <1>3. ASSUME NEW s \in Schedules, DeleteSchedule(s)
        PROVE  NoGhosts'
    BY <1>3, DropGrounded DEF DeleteSchedule, worker
  <1>4. ASSUME NEW v \in Servers, ServerDeleted(v)
        PROVE  NoGhosts'
    <2> DEFINE S == {s \in Schedules : ServerOf[s] = v /\ Live(s)}
    <2>1. S \in SUBSET Schedules /\ \A s \in S : Live(s)
      OBVIOUS
    <2>2. Drop(S) /\ UNCHANGED <<batch, current>>
      BY <1>4 DEF ServerDeleted, worker
    <2> HIDE DEF S
    <2> QED BY <2>1, <2>2, DropGrounded
  <1>5. ASSUME NEW c \in Creators, TaskInsert(c)
        PROVE  NoGhosts'
    <2>1. \A t \in Tasks :
             \/ task'[t] = task[t]
             \/ task'[t].row = "live" /\ task'[t].of \in Schedules /\ Live(task'[t].of)
      BY <1>5 DEF Grounded, Typed, TypeOK, TaskInsert
    <2>2. UNCHANGED <<rows, batch, current, stuck>>
      BY <1>5 DEF TaskInsert, worker
    <2> QED BY <2>1, <2>2 DEF Grounded, NoGhosts, Live, rows
  <1>6. ASSUME NEW t \in Tasks, DeleteTask(t)
        PROVE  NoGhosts'
    BY <1>6, ConstantsOK
       DEF Grounded, Typed, TypeOK, NoGhosts, DeleteTask, Dropped, Live, rows, worker
  <1>7. CASE UNCHANGED <<rows, task, batch, current, stuck>>
    BY <1>7 DEF Grounded, NoGhosts, Live, rows
  <1> QED BY <1>1, <1>2, <1>3, <1>4, <1>5, <1>6, <1>7
          DEF Handlers, Surroundings, TaskStops, TaskCount, StatusChanges, worker

LEMMA NextGrounded == Grounded /\ [Next]_vars => Grounded'
  <1>1. NoGhosts /\ UNCHANGED vars => NoGhosts'
    BY DEF NoGhosts, Live, vars, rows, worker
  <1> QED BY <1>1, NextTyped, WorkGrounded, OthersGrounded DEF Next, Grounded

-----------------------------------------------------------------------------
(* The flags, and what is due.                                             *)

Told == FlagTold /\ FiresDue /\ Unstuck

LEMMA InitTold == Init => Told
  BY ConstantsOK DEF Init, Told, FlagTold, FiresDue, Unstuck, Live

LEMMA WorkTold ==
  ASSUME Grounded, Told, Work \/ Mishap
  PROVE  Told'
  <1> USE DEF Grounded, Typed, TypeOK, AtWork, NoGhosts, Live, rows, worker,
              Told, FlagTold, FiresDue, Unstuck
  <1>0. NoSchedule \notin Schedules
    BY ConstantsOK
  <1>1. CASE Tick \/ EndTick
    BY <1>0, <1>1 DEF Tick, EndTick
  <1>2. CASE Fetch \/ FetchFails
    BY <1>2 DEF Fetch, FetchFails
  <1>3. CASE Sleep \/ Run \/ Load
    BY <1>3 DEF Sleep, Run, Load
  <1>4. CASE Clear \/ Finish
    BY <1>0, <1>4 DEF Clear, Finish, Return, Forget
  <1>5. CASE RunFails \/ Crash
    BY <1>0, <1>5 DEF RunFails, Crash, Return, Forget, Strand
  <1>6. ASSUME NEW s \in Schedules, MarkFails(s)
        PROVE  Told'
    BY <1>6 DEF MarkFails
  <1>7. ASSUME NEW s \in Schedules, Mark(s)
        PROVE  Told'
    BY <1>0, <1>7 DEF Mark
  <1> QED BY <1>1, <1>2, <1>3, <1>4, <1>5, <1>6, <1>7 DEF Work, Mishap

LEMMA DropTold ==
  ASSUME Grounded, Told, NEW S \in SUBSET Schedules, Drop(S),
         UNCHANGED <<batch, current>>
  PROVE  Told'
  <1>0. NoSchedule \notin Schedules /\ batch \subseteq Schedules
    BY ConstantsOK DEF Grounded, Typed, TypeOK
  <1>1. \A s \in Schedules : sched'[s] = "live" =>
            /\ s \notin S /\ sched[s] = "live" /\ next'[s] = next[s]
    BY DEF Drop
  <1>2. stuck' = stuck \ S /\ processing' = processing \ S
    BY DEF Drop
  <1>3. FlagTold'
    BY <1>1, <1>2 DEF Told, FlagTold, Live
  <1>4. FiresDue'
    BY <1>0, <1>1, <1>2 DEF Told, FiresDue, Live
  <1>5. Unstuck'
    BY <1>2 DEF Told, Unstuck
  <1> QED BY <1>3, <1>4, <1>5 DEF Told

LEMMA OthersTold ==
  ASSUME Grounded, Told, Handlers \/ Surroundings
  PROVE  Told'
  <1> USE DEF Told, FlagTold, FiresDue, Unstuck
  <1>1. ASSUME NEW s \in Schedules, CreateSchedule(s)
        PROVE  Told'
    BY <1>1 DEF Grounded, Typed, TypeOK, NoGhosts, CreateSchedule, Live, worker
  <1>2. ASSUME NEW s \in Schedules, TimePasses(s)
        PROVE  Told'
    BY <1>2 DEF Grounded, Typed, TypeOK, TimePasses, Live, worker
  <1>3. ASSUME NEW s \in Schedules, DeleteSchedule(s)
        PROVE  Told'
    BY <1>3, DropTold DEF DeleteSchedule, worker
  <1>4. ASSUME NEW v \in Servers, ServerDeleted(v)
        PROVE  Told'
    <2> DEFINE S == {s \in Schedules : ServerOf[s] = v /\ Live(s)}
    <2>1. S \in SUBSET Schedules
      OBVIOUS
    <2>2. Drop(S) /\ UNCHANGED <<batch, current>>
      BY <1>4 DEF ServerDeleted, worker
    <2> HIDE DEF S
    <2> QED BY <2>1, <2>2, DropTold
  <1>5. CASE UNCHANGED <<rows, batch, current, stuck>>
    BY <1>5 DEF Live, rows
  <1> QED BY <1>1, <1>2, <1>3, <1>4, <1>5
          DEF Handlers, Surroundings, TaskInsert, TaskStops, TaskCount, DeleteTask,
              StatusChanges, worker

LEMMA NextTold == Grounded /\ Told /\ [Next]_vars => Told'
  <1>1. Told /\ UNCHANGED vars => Told'
    BY DEF Told, FlagTold, FiresDue, Unstuck, Live, vars, rows, worker
  <1> QED BY <1>1, WorkTold, OthersTold DEF Next

-----------------------------------------------------------------------------
(* The numbers of the tasks.                                               *)

Numbered == Reserved /\ DistinctAlone

LEMMA InitNumbered == Init => Numbered
  BY ConstantsOK DEF Init, Numbered, Reserved, DistinctAlone, RowsOf, Unborn, Nobody

\* Fewer rows and fewer handlers disturb no number.
LEMMA FewerNumbered ==
  ASSUME Numbered, UNCHANGED crowded,
         \A t \in Tasks : task'[t] = task[t] \/ task'[t].row # "live",
         \A c \in Creators : creator'[c] = creator[c] \/ creator'[c] = Nobody
  PROVE  Numbered'
  <1>1. NoSchedule \notin Schedules
    BY ConstantsOK
  <1>2. \A s \in Schedules : \A t \in RowsOf(s)' : t \in RowsOf(s) /\ task'[t] = task[t]
    BY DEF RowsOf
  <1>3. \A c \in Creators : creator'[c].of \in Schedules => creator'[c] = creator[c]
    BY <1>1 DEF Nobody
  <1>4. DistinctAlone'
    BY <1>2 DEF Numbered, DistinctAlone
  <1>5. Reserved'
    BY <1>2, <1>3 DEF Numbered, Reserved
  <1> QED BY <1>4, <1>5 DEF Numbered

\* The number is above every other, and nobody else is after one.
LEMMA CountNumbered ==
  ASSUME Grounded, Numbered, NEW c \in Creators, NEW s \in Schedules, TaskCount(c, s)
  PROVE  Numbered'
  <1>1. PICK n \in {0} \cup {task[t].seq : t \in RowsOf(s)} :
           /\ \A t \in RowsOf(s) : task[t].seq <= n
           /\ creator' = [creator EXCEPT ![c] = [of |-> s, seq |-> n + 1]]
    BY DEF TaskCount
  <1>2. n \in Nat /\ \A t \in Tasks : task[t].seq \in Nat
    BY <1>1 DEF RowsOf, Grounded, Typed, TypeOK
  <1>3. /\ task' = task /\ creator[c] = Nobody
        /\ crowded' = crowded \cup {x \in {s} : \E d \in Creators : creator[d].of = x}
    BY DEF TaskCount
  <1>4. \A x \in Schedules : RowsOf(x)' = RowsOf(x)
    BY <1>3 DEF RowsOf
  <1>5. /\ creator'[c] = [of |-> s, seq |-> n + 1]
        /\ \A d \in Creators \ {c} : creator'[d] = creator[d]
    BY <1>1 DEF Grounded, Typed, TypeOK
  <1>6. s \notin crowded' => \A d \in Creators : creator[d].of # s
    BY <1>3
  <1>7. DistinctAlone'
    BY <1>3, <1>4 DEF Numbered, DistinctAlone
  <1>8. ASSUME NEW e \in Creators, creator'[e].of \in Schedules \ crowded'
        PROVE  /\ \A d \in Creators : creator'[d].of = creator'[e].of => d = e
               /\ \A t \in RowsOf(creator'[e].of) : task[t].seq < creator'[e].seq
    <2>1. CASE e = c
      <3>1. \A t \in RowsOf(s) : task[t].seq < n + 1
        BY <1>1, <1>2 DEF RowsOf
      <3> QED BY <1>5, <1>6, <1>8, <2>1, <3>1
    <2>2. CASE e # c
      <3>1. creator'[e] = creator[e] /\ creator[e].of \in Schedules \ crowded
        BY <1>3, <1>5, <1>8, <2>2
      <3>2. creator[e].of # s
        BY <1>6, <1>8, <3>1
      <3> QED BY <1>5, <3>1, <3>2 DEF Numbered, Reserved
    <2> QED BY <2>1, <2>2
  <1>9. Reserved'
    BY <1>3, <1>4, <1>8 DEF Reserved
  <1> QED BY <1>7, <1>9 DEF Numbered

\* The row inserted takes the number its handler reserved.
LEMMA InsertNumbered ==
  ASSUME Grounded, Numbered, NEW c \in Creators, TaskInsert(c)
  PROVE  Numbered'
  <1> DEFINE s == creator[c].of  n == creator[c].seq
  <1>0. /\ s \in Schedules /\ crowded' = crowded
        /\ creator' = [creator EXCEPT ![c] = Nobody]
    BY DEF TaskInsert
  <1>1. CASE UNCHANGED task
    <2>1. \A d \in Creators : creator'[d] = creator[d] \/ creator'[d] = Nobody
      BY <1>0 DEF Grounded, Typed, TypeOK
    <2> QED BY <1>0, <1>1, <2>1, FewerNumbered
  <1>2. ASSUME NEW t \in Tasks, task[t].row = "unborn",
               task' = [task EXCEPT ![t] = [row |-> "live", of |-> s, seq |-> n]]
        PROVE  Numbered'
    <2>1. \A u \in Tasks : task[u].seq \in Nat
      BY DEF Grounded, Typed, TypeOK
    <2>2. /\ task'[t] = [row |-> "live", of |-> s, seq |-> n]
          /\ \A u \in Tasks \ {t} : task'[u] = task[u]
      BY <1>2 DEF Grounded, Typed, TypeOK
    <2>3. /\ creator'[c] = Nobody
          /\ \A d \in Creators \ {c} : creator'[d] = creator[d]
      BY <1>0 DEF Grounded, Typed, TypeOK
    <2>4. \A x \in Schedules : \A u \in Tasks :
             /\ u \in {y \in Tasks : task'[y].row = "live" /\ task'[y].of = x}
             => u \in RowsOf(x) \/ (u = t /\ x = s)
      BY <2>2 DEF RowsOf
    <2>5. s \notin crowded =>
             /\ \A u \in RowsOf(s) : u # t /\ task[u].seq < n
             /\ \A d \in Creators : creator[d].of = s => d = c
      BY <1>0, <1>2 DEF Numbered, Reserved, RowsOf
    <2>6. ASSUME NEW x \in Schedules \ crowded, NEW u \in Tasks, NEW w \in Tasks,
                 task'[u].row = "live", task'[u].of = x,
                 task'[w].row = "live", task'[w].of = x,
                 task'[u].seq = task'[w].seq
          PROVE  u = w
      <3>1. CASE u # t /\ w # t
        BY <2>2, <2>6, <3>1 DEF Numbered, DistinctAlone, RowsOf
      <3>2. CASE u = t /\ w # t
        BY <2>1, <2>2, <2>5, <2>6, <3>2 DEF RowsOf
      <3>3. CASE u # t /\ w = t
        BY <2>1, <2>2, <2>5, <2>6, <3>3 DEF RowsOf
      <3> QED BY <3>1, <3>2, <3>3
    <2>7. DistinctAlone'
      BY <1>0, <2>6 DEF DistinctAlone, RowsOf
    <2>8. ASSUME NEW e \in Creators, creator'[e].of \in Schedules \ crowded
          PROVE  /\ \A d \in Creators : creator'[d].of = creator'[e].of => d = e
                 /\ \A u \in Tasks : (task'[u].row = "live" /\ task'[u].of = creator'[e].of)
                        => task'[u].seq < creator'[e].seq
      <3>1. e # c /\ creator'[e] = creator[e] /\ creator[e].of # s
        BY <2>3, <2>5, <2>8, ConstantsOK DEF Nobody
      <3>2. \A d \in Creators : creator[d].of = creator[e].of => d = e
        BY <2>8, <3>1 DEF Numbered, Reserved
      <3>3. \A u \in RowsOf(creator[e].of) : task[u].seq < creator[e].seq
        BY <2>8, <3>1 DEF Numbered, Reserved
      <3>4. \A d \in Creators : creator'[d].of = creator'[e].of => d = e
        BY <2>3, <2>8, <3>1, <3>2, ConstantsOK DEF Nobody
      <3> QED BY <2>2, <3>1, <3>3, <3>4 DEF RowsOf
    <2>9. Reserved'
      BY <1>0, <2>8 DEF Reserved, RowsOf
    <2> QED BY <2>7, <2>9 DEF Numbered
  <1> QED BY <1>1, <1>2 DEF TaskInsert

LEMMA NextNumbered == Grounded /\ Numbered /\ [Next]_vars => Numbered'
  <1> SUFFICES ASSUME Grounded, Numbered, [Next]_vars PROVE Numbered'
    OBVIOUS
  <1>1. CASE Work \/ Mishap
    <2>1. creator' = creator \/ \A c \in Creators : creator'[c] = Nobody
      BY <1>1 DEF Work, Mishap, Tick, EndTick, Mark, Fetch, Clear, Load, Sleep, Run,
                  Finish, MarkFails, FetchFails, RunFails, Crash
    <2> QED BY <1>1, <2>1, WorkGrounded, FewerNumbered
  <1>2. ASSUME NEW c \in Creators, NEW s \in Schedules, TaskCount(c, s)
        PROVE  Numbered'
    BY <1>2, CountNumbered
  <1>3. ASSUME NEW c \in Creators, TaskInsert(c)
        PROVE  Numbered'
    BY <1>3, InsertNumbered
  <1>4. ASSUME NEW c \in Creators, TaskStops(c)
        PROVE  Numbered'
    BY <1>4, FewerNumbered DEF TaskStops, Grounded, Typed, TypeOK
  <1>5. ASSUME NEW t \in Tasks, DeleteTask(t)
        PROVE  Numbered'
    BY <1>5, FewerNumbered DEF DeleteTask, Dropped, Grounded, Typed, TypeOK
  <1>6. ASSUME NEW S, Drop(S), UNCHANGED <<creator, crowded>>
        PROVE  Numbered'
    BY <1>6, FewerNumbered DEF Drop, Dropped
  <1>7. CASE UNCHANGED <<task, creator, crowded>>
    BY <1>7, FewerNumbered
  <1> QED BY <1>1, <1>2, <1>3, <1>4, <1>5, <1>6, <1>7
          DEF Next, Handlers, Surroundings, CreateSchedule, DeleteSchedule,
              ServerDeleted, StatusChanges, TimePasses, vars

-----------------------------------------------------------------------------
\* The inductive invariant, for every instance.
THEOREM SchedInvariance == Spec => []IInv
  <1>1. Init => Grounded /\ Told /\ Numbered
    BY InitTyped, InitNoGhosts, InitTold, InitNumbered DEF Grounded
  <1>2. Grounded /\ Told /\ Numbered /\ [Next]_vars => (Grounded /\ Told /\ Numbered)'
    BY NextGrounded, NextTold, NextNumbered
  <1>3. Grounded /\ Told /\ Numbered => IInv
    BY DEF Grounded, Typed, Told, Numbered, IInv
  <1> QED BY <1>1, <1>2, <1>3, PTL DEF Spec

\* is_processing is set exactly while run_schedule works on a schedule, and on
\* those a failure left behind.
THEOREM FlagsTold == Spec => []FlagTold
  <1>1. IInv => FlagTold
    BY DEF IInv
  <1> QED BY <1>1, SchedInvariance, PTL

\* What a tick selected is still due and free when its turn comes.
THEOREM BatchStaysDue == Spec => []FiresDue
  <1>1. IInv => FiresDue
    BY DEF IInv
  <1> QED BY <1>1, SchedInvariance, PTL

\* Numbers differ where no two requests to create a task overlapped.
THEOREM NumbersDistinct == Spec => []DistinctAlone
  <1>1. IInv => DistinctAlone
    BY DEF IInv
  <1> QED BY <1>1, SchedInvariance, PTL

=============================================================================
