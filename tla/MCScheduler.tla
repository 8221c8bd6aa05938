----------------------------- MODULE MCScheduler -----------------------------
(* Instances of SchedulerProperties for TLC. *)
EXTENDS SchedulerProperties

CONSTANTS v1, s1, s2, t1, t2, c1, c2

OneServer == [s \in Schedules |-> v1]
=============================================================================
