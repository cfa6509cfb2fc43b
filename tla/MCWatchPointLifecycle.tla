------------------------ MODULE MCWatchPointLifecycle ------------------------
(***************************************************************************)
(* Small instances of WatchPointLifecycle.                                 *)
(***************************************************************************)
EXTENDS WatchPointLifecycle, TLC

SmallLimits == [p \in Plans |-> IF p = FreePlan THEN 1 ELSE 2]

(* Every window ends at 1: from 2 on the archiver may run at any time.     *)
FirstTick == {1}

Interchangeable == Permutations(Requests) \cup Permutations(Settings)
=============================================================================
