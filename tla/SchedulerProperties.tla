------------------------- MODULE SchedulerProperties -------------------------
(***************************************************************************)
(* What is claimed of Scheduler.                                           *)
(***************************************************************************)
EXTENDS Scheduler

\* is_processing says that run_schedule works on the schedule, unless a run of
\* it once ended without its last UPDATE (scheduler.rs:93-212): however runs,
\* deletions and failures interleave, no other flag is left behind.
FlagTold ==
    \A s \in Schedules : Live(s) => (s \in processing <=> (current = s \/ s \in stuck))

\* What a tick selected is still due and free when its turn comes, minutes
\* later; so an occurrence runs once (scheduler.rs:30-79: nothing is asked
\* again).
FiresDue ==
    /\ \A s \in batch : Live(s) =>
           s \notin processing /\ next[s] = "due" /\ s # current
    /\ \A s \in Schedules : s = current /\ Live(s) => next[s] = "due"

\* The sequence_id of the tasks of a schedule differ, unless two requests to
\* create one once overlapped (schedules.rs:313-352); deletions do not matter.
DistinctAlone ==
    \A s \in Schedules \ crowded : \A t, u \in RowsOf(s) :
        task[t].seq = task[u].seq => t = u

-----------------------------------------------------------------------------
(* The inductive invariant behind them.                                    *)

AtWork ==
    /\ (current = NoSchedule) <=> (pc \in {"wait", "pick"})
    /\ pc = "wait" => batch = {}
    /\ pc = "run" => todo # <<>>

\* What was left with its flag set is never selected again.
Unstuck == current \notin stuck

\* A schedule that is not there is nowhere else.
NoGhosts ==
    /\ \A s \in Schedules : ~Live(s) => s \notin processing /\ s \notin stuck
    /\ \A s \in Schedules : sched[s] = "unborn" =>
           s \notin batch /\ s # current /\ next[s] = "later"
    /\ \A t \in Tasks :
           /\ task[t].row = "live" => task[t].of \in Schedules
           /\ task[t].row # "live" => task[t].of = NoSchedule
           /\ task[t].of \in Schedules => Live(task[t].of)

\* The one who creates a task of s has a number no row of s has.
Reserved ==
    \A c \in Creators : creator[c].of \in Schedules \ crowded =>
        /\ \A d \in Creators : creator[d].of = creator[c].of => d = c
        /\ \A t \in RowsOf(creator[c].of) : task[t].seq < creator[c].seq

IInv ==
    /\ TypeOK /\ AtWork /\ NoGhosts
    /\ FlagTold /\ FiresDue /\ Unstuck
    /\ Reserved /\ DistinctAlone

-----------------------------------------------------------------------------
Due(s) == Live(s) /\ next[s] = "due"

\* When failures have an end, a schedule that is due gets its run, and a new
\* next_run_at, unless it is stuck, or deleted; if it wants its server online,
\* provided the server comes to stay so.
DueRuns ==
    <>[][~Mishap]_vars =>
        \A s \in Schedules :
            (s \in OnlyOnline => <>[](status[ServerOf[s]] = "running"))
                => (Due(s) ~> (~Due(s) \/ s \in stuck))

=============================================================================
