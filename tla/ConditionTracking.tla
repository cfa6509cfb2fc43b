-------------------------- MODULE ConditionTracking --------------------------
(***************************************************************************)
(* One WatchPoint evaluated against run after run: the thresholds and      *)
(* buffers of Conditions decide the transitions of EvalLogic.  Its names   *)
(* differ from those of the pipeline, whose proofs extend those of this    *)
(* module.                                                                 *)
(***************************************************************************)
EXTENDS EvalLogic, Conditions

CONSTANTS
  Monitored,       \* the configurations a WatchPoint may have
  Points,          \* the forecast values of the variables, per run
  MaxEvaluations,  \* bound on the forecast runs
  MaxDelay         \* longest time between two runs

ASSUME TrackingAssumption ==
  /\ Monitored \subseteq Configs
  /\ \A p \in Points : \A variable \in DOMAIN p : p[variable] \in Int
  /\ MaxEvaluations \in Nat
  /\ MaxDelay \in Nat

VARIABLES
  config,       \* the WatchPoint's conditions and condition_logic
  state,        \* its row of watchpoint_evaluation_state
  point,        \* the values of the run evaluated last
  evaluated,    \* that run
  evaluatedAt,  \* when it was evaluated
  notes         \* the notifications so far

trackingVars == <<config, state, point, evaluated, evaluatedAt, notes>>

ConfigVersion == 1

TrackingInit ==
  /\ config \in Monitored
  /\ state = NoState
  /\ point \in Points
  /\ evaluated = NoRun
  /\ evaluatedAt = 0
  /\ notes = << >>

(* A run is evaluated and committed. *)
EvaluateRun(p, delay) ==
  /\ evaluated < MaxEvaluations
  /\ evaluated' = evaluated + 1
  /\ point' = p
  /\ evaluatedAt' = evaluatedAt + delay
  /\ LET res == EvaluateOne(state, ConfigVersion, Reading(config, p), evaluated', evaluatedAt')
     IN  /\ state' = res.state
         /\ notes' = notes \o res.notes
  /\ UNCHANGED config

TrackingNext == \E p \in Points, delay \in 0..MaxDelay : EvaluateRun(p, delay)

Tracking == TrackingInit /\ [][TrackingNext]_trackingVars

-----------------------------------------------------------------------------
(* Every variable stays in its range. *)
TrackingTypeOK ==
  /\ config \in Monitored
  /\ state \in EvalStates
  /\ point \in Points
  /\ evaluated \in 0..MaxEvaluations
  /\ evaluatedAt \in Nat
  /\ notes \in Seq(Notifications)
  /\ state.level \in 0..3

(* An alert is cleared only by a forecast that does not meet the           *)
(* conditions: whatever the hysteresis does, it delays a clearance and     *)
(* never brings one about.                                                 *)
ClearedIsNotMet ==
  [][state.triggered /\ ~state'.triggered => ~Met(config, point')]_trackingVars

(* The buffer within which a value may fluctuate.                          *)
Margin(c, i) == Magnitude(c.threshold[i]) + AbsoluteBuffer(c.variable)

Fluctuates(cfg, p, q) ==
  \A i \in 1..Len(cfg.conditions) :
    LET c == cfg.conditions[i]
    IN  \A j \in 1..Len(c.threshold) :
          Magnitude(Actual(q, c.variable) - Actual(p, c.variable)) <= Margin(c, j)

(* A fluctuation smaller than the buffer, after the conditions were met,   *)
(* does not clear the alert: alerts do not flap.                           *)
FluctuationKeepsAlert ==
  [][state.triggered /\ Met(config, point) /\ Fluctuates(config, point, point')
     => state'.triggered]_trackingVars

(* The severity the user was told of is that of the forecast or higher,    *)
(* unless the last alert is younger than the cooldown: no escalation is    *)
(* lost, it is at most delayed.                                            *)
SeverityAnnounced ==
  state.triggered =>
    /\ notes # << >>
    /\ \/ notes[Len(notes)].level >= Escalation(config, point)
       \/ evaluatedAt - notes[Len(notes)].at < Cooldown

(* From one clearance to the next a user receives at most one alert per    *)
(* escalation level, however the forecast moves.                           *)
AtMostOneAlertPerLevel ==
  \A i, j \in 1..Len(notes) :
    /\ i < j
    /\ notes[i].kind = "threshold_crossed"
    /\ notes[j].kind = "threshold_crossed"
    /\ notes[i].level >= notes[j].level
    => \E k \in i + 1 .. j : notes[k].kind = "threshold_cleared"
=============================================================================
