------------------------------ MODULE Scheduler ------------------------------
(***************************************************************************)
(* The schedules of a panel: the tables `schedules` and `schedule_tasks`,  *)
(* written by the handlers of crates/panel/src/schedules.rs, and the one   *)
(* background process of crates/panel/src/scheduler.rs that runs what is   *)
(* due.                                                                    *)
(*                                                                         *)
(* The process makes one statement, sleep or call to a node at a time and  *)
(* holds no transaction: handlers write the rows it is working on, servers *)
(* come and go, and a statement that fails ends a run where it is.  What a *)
(* power task does to a server is modelled in ServerLifecycle; here a task *)
(* succeeds or fails.                                                      *)
(***************************************************************************)
EXTENDS Naturals, Sequences, FiniteSets

CONSTANTS
    Servers,
    Schedules,   \* ids of schedules
    Tasks,       \* ids of tasks; their number bounds what is ever created
    Creators,    \* slots for create_schedule_task handlers in flight
    NoSchedule,  \* the schedule of an idle slot, worker or task
    ServerOf,    \* schedules.server_id
    OnlyOnline,  \* schedules with only_when_online
    Persistent,  \* tasks with continue_on_failure
    Endless,     \* tasks whose negative time_offset, cast to u64, is for ever
    Failures     \* "dberror": a statement fails; "crash": the panel restarts

ASSUME ConstantsOK ==
    /\ IsFiniteSet(Tasks)
    /\ NoSchedule \notin Schedules
    /\ ServerOf \in [Schedules -> Servers]
    /\ Failures \subseteq {"dberror", "crash"}

\* Operators named after another with a word added (TickAll, ...) are what a
\* plausible slip would make of it.  Nothing uses them; each shows that a
\* property of SchedulerProperties notices the slip.

VARIABLES
    status,      \* servers.status, as far as it is 'running', or no row
    sched,       \* is there a row of this id in `schedules`?
    processing,  \* schedules whose is_processing is TRUE
    next,        \* is schedules.next_run_at past?
    task,        \* `schedule_tasks`: schedule_id and sequence_id of each row
    creator,     \* create_schedule_task: the schedule and the number to insert
    pc,          \* what the process does next
    batch,       \* what is left of the due schedules this tick selected
    current,     \* the schedule of run_schedule
    todo,        \* the tasks it has loaded and not run
    failed,      \* has one of them failed?
    stuck,       \* history: schedules whose run ended without its last UPDATE
    crowded      \* history: schedules with two create_schedule_task at once

rows   == <<sched, processing, next>>
worker == <<pc, batch, current, todo, failed>>
vars   == <<status, rows, task, creator, worker, stuck, crowded>>

Row     == {"unborn", "live", "deleted"}
Nobody  == [of |-> NoSchedule, seq |-> 0]
Unborn  == [row |-> "unborn", of |-> NoSchedule, seq |-> 0]
Dropped == [row |-> "deleted", of |-> NoSchedule, seq |-> 0]

TypeOK ==
    /\ status \in [Servers -> {"running", "down", "gone"}]
    /\ sched \in [Schedules -> Row]
    /\ processing \in SUBSET Schedules
    /\ next \in [Schedules -> {"later", "due"}]
    /\ task \in [Tasks -> [row : Row, of : Schedules \cup {NoSchedule}, seq : Nat]]
    /\ creator \in [Creators -> [of : Schedules \cup {NoSchedule}, seq : Nat]]
    /\ pc \in {"wait", "pick", "fetch", "clear", "load", "loop", "run"}
    /\ batch \in SUBSET Schedules
    /\ current \in Schedules \cup {NoSchedule}
    /\ todo \in Seq(Tasks)
    /\ failed \in BOOLEAN
    /\ stuck \in SUBSET Schedules
    /\ crowded \in SUBSET Schedules

Init ==
    /\ status = [v \in Servers |-> "down"]
    /\ sched = [s \in Schedules |-> "unborn"]
    /\ processing = {}
    /\ next = [s \in Schedules |-> "later"]
    /\ task = [t \in Tasks |-> Unborn]
    /\ creator = [c \in Creators |-> Nobody]
    /\ pc = "wait" /\ batch = {}
    /\ current = NoSchedule /\ todo = <<>> /\ failed = FALSE
    /\ stuck = {}
    /\ crowded = {}

Live(s)    == sched[s] = "live"
RowsOf(s)  == {t \in Tasks : task[t].row = "live" /\ task[t].of = s}

-----------------------------------------------------------------------------
(* tick and run_schedule.                                                  *)

TickAll ==
    /\ pc = "wait"
    /\ batch' = {s \in Schedules : Live(s) /\ next[s] = "due"}
    /\ pc' = "pick"
    /\ UNCHANGED <<status, rows, task, creator, current, todo, failed, stuck, crowded>>

\* SELECT ... WHERE is_active AND NOT is_processing AND next_run_at <= now.
\* Every schedule is active, and none has a NULL in next_run_at: no handler
\* writes is_active after create_schedule, which refuses an expression without
\* a next run.
Tick ==
    /\ pc = "wait"
    /\ batch' = {s \in Schedules : Live(s) /\ s \notin processing /\ next[s] = "due"}
    /\ pc' = "pick"
    /\ UNCHANGED <<status, rows, task, creator, current, todo, failed, stuck, crowded>>

EndTick ==
    /\ pc = "pick"
    /\ batch = {}
    /\ pc' = "wait"
    /\ UNCHANGED <<status, rows, task, creator, batch, current, todo, failed, stuck, crowded>>

MarkUnset(s) ==
    /\ pc = "pick"
    /\ s \in batch
    /\ batch' = batch \ {s}
    /\ current' = s
    /\ pc' = "fetch"
    /\ UNCHANGED <<status, rows, task, creator, todo, failed, stuck, crowded>>

\* UPDATE is_processing = TRUE WHERE id.  The batch has no order.
Mark(s) ==
    /\ pc = "pick"
    /\ s \in batch
    /\ batch' = batch \ {s}
    /\ current' = s
    /\ processing' = processing \cup {x \in {s} : Live(x)}
    /\ pc' = "fetch"
    /\ UNCHANGED <<status, sched, next, task, creator, todo, failed, stuck, crowded>>

FetchForgets ==
    LET st == status[ServerOf[current]]
    IN  /\ pc = "fetch"
        /\ IF st = "gone" \/ (current \in OnlyOnline /\ st # "running")
           THEN pc' = "pick" /\ current' = NoSchedule
           ELSE pc' = "load" /\ UNCHANGED current
        /\ UNCHANGED <<status, rows, task, creator, batch, todo, failed, stuck, crowded>>

FetchOnlineOnly ==
    /\ pc = "fetch"
    /\ pc' = IF status[ServerOf[current]] # "running" THEN "clear" ELSE "load"
    /\ UNCHANGED <<status, rows, task, creator, batch, current, todo, failed, stuck, crowded>>

\* fetch_server, and the status an only_when_online schedule wants.
Fetch ==
    LET st == status[ServerOf[current]]
    IN  /\ pc = "fetch"
        /\ pc' = IF st = "gone" \/ (current \in OnlyOnline /\ st # "running")
                 THEN "clear" ELSE "load"
        /\ UNCHANGED <<status, rows, task, creator, batch, current, todo, failed, stuck, crowded>>

Forget == current' = NoSchedule /\ todo' = <<>> /\ failed' = FALSE

\* run_schedule returns, whatever its outcome, and the tick goes on.
Return == pc' = "pick" /\ Forget /\ UNCHANGED batch

\* clear_processing leaves next_run_at as it is.
Clear ==
    /\ pc = "clear"
    /\ processing' = processing \ {current}
    /\ Return
    /\ UNCHANGED <<status, sched, next, task, creator, stuck, crowded>>

\* SELECT ... ORDER BY sequence_id: equal numbers come in any order.
Orders(s) ==
    {q \in [1..Cardinality(RowsOf(s)) -> RowsOf(s)] :
        \A i, j \in DOMAIN q :
            i < j => q[i] # q[j] /\ task[q[i]].seq <= task[q[j]].seq}

Load ==
    /\ pc = "load"
    /\ todo' \in Orders(current)
    /\ pc' = "loop"
    /\ UNCHANGED <<status, rows, task, creator, batch, current, failed, stuck, crowded>>

\* After a failure the loop ends at the first task that does not continue.
GoesOn == todo # <<>> /\ (failed => Head(todo) \in Persistent)

\* The sleep for time_offset seconds, if it ever ends.
Sleep ==
    /\ pc = "loop"
    /\ GoesOn
    /\ Head(todo) \notin Endless
    /\ pc' = "run"
    /\ UNCHANGED <<status, rows, task, creator, batch, current, todo, failed, stuck, crowded>>

\* run_task, which wants the server again; its failure is remembered.
Run ==
    /\ pc = "run"
    /\ \E ok \in BOOLEAN :
          /\ ok => status[ServerOf[current]] # "gone"
          /\ failed' = (failed \/ ~ok)
    /\ todo' = Tail(todo)
    /\ pc' = "loop"
    /\ UNCHANGED <<status, rows, task, creator, batch, current, stuck, crowded>>

\* UPDATE is_processing = FALSE, last_run_at, next_run_at WHERE id.
Finish ==
    /\ pc = "loop"
    /\ ~GoesOn
    /\ processing' = processing \ {current}
    /\ next' = [next EXCEPT ![current] = "later"]
    /\ Return
    /\ UNCHANGED <<status, sched, task, creator, stuck, crowded>>

-----------------------------------------------------------------------------
(* What goes wrong with the process.                                       *)

\* The schedule at work, if its row is there, keeps its flag.
Strand == stuck' = stuck \cup {s \in Schedules : s = current /\ Live(s)}

\* The UPDATE of Mark fails: the schedule waits for the next tick.
MarkFails(s) ==
    /\ "dberror" \in Failures
    /\ pc = "pick"
    /\ s \in batch
    /\ batch' = batch \ {s}
    /\ UNCHANGED <<status, rows, task, creator, pc, current, todo, failed, stuck, crowded>>

\* The SELECT of Fetch fails, which is taken for a server that is gone.  Until
\* the flag is cleared, failed tells this from a Fetch.
FetchFails ==
    /\ "dberror" \in Failures
    /\ pc = "fetch"
    /\ pc' = "clear"
    /\ failed' = TRUE
    /\ UNCHANGED <<status, rows, task, creator, batch, current, todo, stuck, crowded>>

\* Any other statement of a run fails: run_schedule returns and the flag stays.
RunFails ==
    /\ "dberror" \in Failures
    /\ pc \in {"clear", "load"} \/ (pc = "loop" /\ ~GoesOn)
    /\ Strand
    /\ Return
    /\ UNCHANGED <<status, rows, task, creator, crowded>>

\* The panel restarts during a tick; nothing looks at is_processing then.
\* Between two ticks a restart is no more than TaskStops.
Crash ==
    /\ "crash" \in Failures
    /\ current # NoSchedule \/ batch # {}
    /\ Strand
    /\ pc' = "wait" /\ batch' = {} /\ Forget
    /\ creator' = [c \in Creators |-> Nobody]
    /\ UNCHANGED <<status, rows, task, crowded>>

-----------------------------------------------------------------------------
(* schedules.rs.                                                           *)

CreateSchedule(s) ==
    /\ sched[s] = "unborn"
    /\ status[ServerOf[s]] # "gone"
    /\ sched' = [sched EXCEPT ![s] = "live"]
    /\ UNCHANGED <<status, processing, next, task, creator, worker, stuck, crowded>>

\* Rows of `schedules` go, and by ON DELETE CASCADE their tasks.
Drop(S) ==
    /\ sched' = [s \in Schedules |-> IF s \in S THEN "deleted" ELSE sched[s]]
    /\ processing' = processing \ S
    /\ next' = [s \in Schedules |-> IF s \in S THEN "later" ELSE next[s]]
    /\ task' = [t \in Tasks |-> IF task[t].of \in S THEN Dropped ELSE task[t]]
    /\ stuck' = stuck \ S

DeleteSchedule(s) ==
    /\ Live(s)
    /\ Drop({s})
    /\ UNCHANGED <<status, creator, worker, crowded>>

TaskCountSame(c, s) ==
    /\ creator[c] = Nobody
    /\ sched[s] # "unborn"
    /\ \E v \in Servers : status[v] # "gone"
    /\ \E n \in {0} \cup {task[t].seq : t \in RowsOf(s)} :
          /\ \A t \in RowsOf(s) : task[t].seq <= n
          /\ creator' = [creator EXCEPT ![c] = [of |-> s, seq |-> n]]
    /\ crowded' = crowded \cup {x \in {s} : \E d \in Creators : creator[d].of = x}
    /\ UNCHANGED <<status, rows, task, worker, stuck>>

\* create_schedule_task looks for the server of the path, not for the schedule,
\* and reads MAX(sequence_id), or 0 ...
TaskCount(c, s) ==
    /\ creator[c] = Nobody
    /\ sched[s] # "unborn"
    /\ \E v \in Servers : status[v] # "gone"
    /\ \E n \in {0} \cup {task[t].seq : t \in RowsOf(s)} :
          /\ \A t \in RowsOf(s) : task[t].seq <= n
          /\ creator' = [creator EXCEPT ![c] = [of |-> s, seq |-> n + 1]]
    /\ crowded' = crowded \cup {x \in {s} : \E d \in Creators : creator[d].of = x}
    /\ UNCHANGED <<status, rows, task, worker, stuck>>

\* ... and inserts the next number, which only the foreign key can refuse.
TaskInsert(c) ==
    LET s == creator[c].of
    IN  /\ s \in Schedules
        /\ IF Live(s)
           THEN \E t \in Tasks :
                   /\ task[t].row = "unborn"
                   /\ task' = [task EXCEPT ![t] =
                                  [row |-> "live", of |-> s, seq |-> creator[c].seq]]
           ELSE UNCHANGED task
        /\ creator' = [creator EXCEPT ![c] = Nobody]
        /\ UNCHANGED <<status, rows, worker, stuck, crowded>>

\* The INSERT fails or the client goes away.
TaskStops(c) ==
    /\ creator[c] # Nobody
    /\ creator' = [creator EXCEPT ![c] = Nobody]
    /\ UNCHANGED <<status, rows, task, worker, stuck, crowded>>

DeleteTask(t) ==
    /\ task[t].row = "live"
    /\ task' = [task EXCEPT ![t] = Dropped]
    /\ UNCHANGED <<status, rows, creator, worker, stuck, crowded>>

-----------------------------------------------------------------------------
(* Around them: the handlers of ServerLifecycle, and time.                 *)

StatusChanges(v, st) ==
    /\ status[v] # "gone"
    /\ status' = [status EXCEPT ![v] = st]
    /\ UNCHANGED <<rows, task, creator, worker, stuck, crowded>>

\* DELETE FROM servers cascades to the schedules.
ServerDeleted(v) ==
    /\ status[v] # "gone"
    /\ status' = [status EXCEPT ![v] = "gone"]
    /\ Drop({s \in Schedules : ServerOf[s] = v /\ Live(s)})
    /\ UNCHANGED <<creator, worker, crowded>>

TimePasses(s) ==
    /\ Live(s)
    /\ next[s] = "later"
    /\ next' = [next EXCEPT ![s] = "due"]
    /\ UNCHANGED <<status, sched, processing, task, creator, worker, stuck, crowded>>

-----------------------------------------------------------------------------
Work ==
    \/ Tick \/ EndTick \/ Fetch \/ Clear \/ Load \/ Sleep \/ Run \/ Finish
    \/ \E s \in Schedules : Mark(s)

Mishap == FetchFails \/ RunFails \/ Crash \/ \E s \in Schedules : MarkFails(s)

Handlers ==
    \/ \E s \in Schedules : CreateSchedule(s) \/ DeleteSchedule(s)
    \/ \E c \in Creators : TaskInsert(c) \/ TaskStops(c)
    \/ \E c \in Creators, s \in Schedules : TaskCount(c, s)
    \/ \E t \in Tasks : DeleteTask(t)

Surroundings ==
    \/ \E v \in Servers : ServerDeleted(v)
    \/ \E v \in Servers, st \in {"running", "down"} : StatusChanges(v, st)
    \/ \E s \in Schedules : TimePasses(s)

Next == Work \/ Mishap \/ Handlers \/ Surroundings

Spec == Init /\ [][Next]_vars

\* The process is always ready to go on: its ticks come every minute, and its
\* calls to a node are taken to return.
FairSpec == Spec /\ WF_vars(Work)

=============================================================================
