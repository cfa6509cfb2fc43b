---------------------------- MODULE MCScheduler ----------------------------
(***************************************************************************)
(* Small instances of Scheduler for TLC.                                   *)
(***************************************************************************)
EXTENDS Scheduler

\* No two tasks write the same column of the same table but for the WatchPoints
\* that one archives and another purges: each task is looked at on its own.
EachRule == {{t} : t \in Tasks}
=============================================================================
