-------------------------- MODULE AtomicEvaluation --------------------------
(***************************************************************************)
(* What the evaluation pipeline promises: a page of WatchPoints is         *)
(* evaluated against a run in one step, each from the state that is        *)
(* stored, under one version of its configuration, which never goes back,  *)
(* and by one clock; and a run that a WatchPoint has seen is not evaluated *)
(* for it again.  There is no queue, no worker, no transaction and no      *)
(* fault.  The exception is a row that workers evaluating it at once have  *)
(* overwritten: of it the promise is only that no older run is written and *)
(* that nothing happens to it off the page.                                *)
(***************************************************************************)
EXTENDS EvalLogic

CONSTANTS
  WatchPoints,  \* ids of the tile's WatchPoints
  Runs,         \* forecast runs, in timestamp order
  Versions,     \* values of config_version
  Readings,     \* what a forecast may say about a WatchPoint
  Times         \* of the wall clock

VARIABLES
  forecast,    \* what each run says of each configuration
  evalState,   \* the rows of watchpoint_evaluation_state
  history,     \* the rows of notifications, per WatchPoint, as inserted
  overwritten  \* WatchPoints whose row was written from another state

vars == <<forecast, evalState, history, overwritten>>

Init ==
  /\ forecast \in [Runs -> [WatchPoints -> [Versions -> Readings]]]
  /\ evalState = [wp \in WatchPoints |-> NoState]
  /\ history = [wp \in WatchPoints |-> << >>]
  /\ overwritten = {}

(* evaluate_batch and commit_batch, as if nothing came between them. *)
EvaluatedAtOnce(wp, run, v, now) ==
  LET res == EvaluateOne(evalState[wp], v, forecast[run][wp][v], run, now)
  IN  /\ ~AlreadyEvaluated(evalState[wp], run)
      /\ evalState[wp].version <= v
      /\ evalState'[wp] = res.state
      /\ history'[wp] = history[wp] \o res.notes

(* commit_batch with a result that others have overtaken. *)
Overwritten(wp, run) ==
  /\ evalState[wp].lastRun <= run
  /\ evalState'[wp].lastRun = run

Unchanged(wp) ==
  evalState'[wp] = evalState[wp] /\ history'[wp] = history[wp]

Evaluate(page, run, config, now) ==
  /\ overwritten \subseteq overwritten'
  /\ overwritten' \subseteq overwritten \cup page
  /\ \A wp \in page : \/ EvaluatedAtOnce(wp, run, config[wp], now)
                      \/ wp \in overwritten' /\ Overwritten(wp, run)
  /\ \A wp \in WatchPoints \ page : Unchanged(wp)
  /\ UNCHANGED forecast

Next ==
  \E page \in SUBSET WatchPoints, run \in Runs,
     config \in [WatchPoints -> Versions], now \in Times : Evaluate(page, run, config, now)

Spec == Init /\ [][Next]_vars
=============================================================================
