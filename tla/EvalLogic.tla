----------------------------- MODULE EvalLogic -----------------------------
(***************************************************************************)
(* What evaluate_batch does with one WatchPoint in Event Mode: granular    *)
(* idempotency, configuration changes, crossing, clearing and escalation.  *)
(* The conditions themselves are abstracted to a reading: whether they are *)
(* met without hysteresis (above) and with it (held), and the escalation   *)
(* level; module Conditions says how the thresholds determine it.          *)
(***************************************************************************)
EXTENDS Integers, Sequences

CONSTANTS
  NotifyOnClear,  \* preferences.notify_on_clear
  Cooldown        \* ESCALATION_COOLDOWN_SECONDS, in clock units

ASSUME LogicAssumption ==
  /\ NotifyOnClear \in BOOLEAN
  /\ Cooldown \in Nat

NoRun == 0
NeverEscalated == -1

(* A row of watchpoint_evaluation_state. *)
EvalStates ==
  [lastRun     : Nat,
   version     : Nat,
   triggered   : BOOLEAN,
   level       : Nat,
   escalatedAt : Int,
   seq         : Nat]

(* The state of a WatchPoint never evaluated: no row, which the evaluator  *)
(* replaces by a default one.                                              *)
NoState ==
  [lastRun |-> NoRun, version |-> 0, triggered |-> FALSE,
   level |-> 0, escalatedAt |-> NeverEscalated, seq |-> 0]

(* A row of notifications. *)
Notifications ==
  [seq     : Nat,
   kind    : {"threshold_crossed", "threshold_cleared"},
   level   : Nat,
   run     : Nat,
   version : Nat,
   at      : Int]

(* What evaluate_batch returns for one WatchPoint. *)
Results == [update : BOOLEAN, state : EvalStates, notes : Seq(Notifications)]
Skipped == [update |-> FALSE, state |-> NoState, notes |-> << >>]

(* ConfigPolicy.resolve and apply_reset: a state computed for another      *)
(* configuration forgets that it was triggered.  ABORT is not modelled:    *)
(* process_tile fetches the WatchPoints by the tile of the message, so the *)
(* tile computed from the fetched location is that tile.                   *)
ApplyConfigPolicy(s, v) ==
  IF s.version = v THEN s
  ELSE [s EXCEPT !.version = v, !.triggered = FALSE, !.level = 0,
                 !.escalatedAt = NeverEscalated]

CanEscalate(s, now) ==
  s.escalatedAt = NeverEscalated \/ now - s.escalatedAt >= Cooldown

Notification(s, kind, level, run, now) ==
  [seq |-> s.seq + 1, kind |-> kind, level |-> level,
   run |-> run, version |-> s.version, at |-> now]

(* A bug: the sequence number is incremented on a copy of the state.       *)
NotifiedUncounted(s, note) ==
  [update |-> TRUE, state |-> s, notes |-> <<note>>]

(* A result: the new state, and the notification that took it there.       *)
Notified(s, note) ==
  [update |-> TRUE, state |-> [s EXCEPT !.seq = note.seq], notes |-> <<note>>]
Silent(s) == [update |-> TRUE, state |-> s, notes |-> << >>]

CrossThreshold(s, reading, run, now) ==
  Notified([s EXCEPT !.triggered = TRUE, !.level = reading.level,
                     !.escalatedAt = now],
           Notification(s, "threshold_crossed", reading.level, run, now))

ClearThreshold(s, run, now) ==
  LET cleared == [s EXCEPT !.triggered = FALSE, !.level = 0,
                           !.escalatedAt = NeverEscalated]
  IN  IF NotifyOnClear
      THEN Notified(cleared, Notification(s, "threshold_cleared", 0, run, now))
      ELSE Silent(cleared)

(* A bug: the escalation cooldown is not enforced.                         *)
EscalatesAtOnce(s, reading, run, now) ==
  IF reading.level > s.level
  THEN Notified([s EXCEPT !.level = reading.level, !.escalatedAt = now],
                Notification(s, "threshold_crossed", reading.level, run, now))
  ELSE Silent(s)

(* A bug: every look at a pending escalation restarts its cooldown. *)
RestartsCooldown(s, reading, run, now) ==
  IF reading.level > s.level /\ CanEscalate(s, now)
  THEN Notified([s EXCEPT !.level = reading.level, !.escalatedAt = now],
                Notification(s, "threshold_crossed", reading.level, run, now))
  ELSE Silent([s EXCEPT !.escalatedAt = now])

(* A bug: the escalation level announced is not stored. *)
ForgetsLevel(s, reading, run, now) ==
  IF reading.level > s.level /\ CanEscalate(s, now)
  THEN Notified([s EXCEPT !.escalatedAt = now],
                Notification(s, "threshold_crossed", reading.level, run, now))
  ELSE Silent(s)

StayTriggered(s, reading, run, now) ==
  IF reading.level > s.level /\ CanEscalate(s, now)
  THEN Notified([s EXCEPT !.level = reading.level, !.escalatedAt = now],
                Notification(s, "threshold_crossed", reading.level, run, now))
  ELSE Silent(s)

(* _evaluate_event: the condition is held against hysteresis while         *)
(* triggered, and checked plainly otherwise.                               *)
EvaluateEvent(s, reading, run, now) ==
  LET triggered == IF s.triggered THEN reading.held ELSE reading.above
  IN  CASE ~s.triggered /\ triggered  -> CrossThreshold(s, reading, run, now)
        [] s.triggered /\ ~triggered  -> ClearThreshold(s, run, now)
        [] s.triggered /\ triggered   -> StayTriggered(s, reading, run, now)
        [] OTHER                      -> Silent(s)

(* A bug: a run is evaluated again when its message is redelivered.        *)
NewerEvaluated(s, run) == s.lastRun # NoRun /\ run < s.lastRun

(* Granular idempotency.                                                   *)
AlreadyEvaluated(s, run) == s.lastRun # NoRun /\ run <= s.lastRun

EvaluateOne(s, v, reading, run, now) ==
  IF AlreadyEvaluated(s, run) THEN Skipped
  ELSE EvaluateEvent([ApplyConfigPolicy(s, v) EXCEPT !.lastRun = run],
                     reading, run, now)
=============================================================================
