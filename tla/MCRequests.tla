----------------------------- MODULE MCRequests -----------------------------
(***************************************************************************)
(* Small instances of Requests for TLC.                                    *)
(***************************************************************************)
EXTENDS Requests, TLC

Symmetry == Permutations(Requests) \cup Permutations(IdempotencyKeys)

Lasts == MaxDays + 2

Bulk     == {[op |-> "bulk", valid |-> {1, 2}]}
Rotate   == [op |-> "rotate", id |-> 1]
KeyCalls == {Rotate, [op |-> "revoke", id |-> 1], [op |-> "create", expires |-> Lasts]}
AllCalls == Bulk \cup KeyCalls

\* Also a rotation of the key that another request made, or that is not there.
MoreCalls == AllCalls \cup {[op |-> "rotate", id |-> 2]}

\* One API key, which lasts or ends after the first day.
SomeKey == {<<Lasts>>, <<1>>}
=============================================================================
