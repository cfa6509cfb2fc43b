----------------------------- MODULE HourlyJobs -----------------------------
(***************************************************************************)
(* What the job lock is for: within one hour at most one invocation of the *)
(* archiver works on a task at a time.  How often a task is worked on, and *)
(* whether it succeeds, is left open.                                      *)
(***************************************************************************)
EXTENDS Naturals

CONSTANT Tasks

VARIABLE working  \* task -> invocations that work on it under the lock of this hour

Init == working = [t \in Tasks |-> 0]

Start(t) == working[t] = 0 /\ working' = [working EXCEPT ![t] = 1]

End(t) == working[t] = 1 /\ working' = [working EXCEPT ![t] = 0]

\* The lock of the new hour is another one: who still works under the old lock
\* is not counted any more.
NewHour == working' = [t \in Tasks |-> 0]

Next == NewHour \/ \E t \in Tasks : Start(t) \/ End(t)

Spec == Init /\ [][Next]_working
=============================================================================
