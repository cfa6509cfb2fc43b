------------------------ MODULE EvalPipeline_proofs ------------------------
(***************************************************************************)
(* The evaluation of one WatchPoint: what EvalLogic returns for every      *)
(* state and reading, and hysteresis and escalation for every              *)
(* configuration, forecast and cooldown.  Then the safety of the pipeline, *)
(* for every number of workers, runs, WatchPoints and faults and every     *)
(* delivery order.                                                         *)
(***************************************************************************)
EXTENDS EvalPipeline, ConditionTracking, FiniteSetTheorems, SequenceTheorems, TLAPS

-----------------------------------------------------------------------------
(* What evaluating one WatchPoint returns. *)

AnyReading == [above : BOOLEAN, held : BOOLEAN, level : Nat]

(* A result carries at most one notification, that of its own state.       *)
Announces(res) ==
  \/ res.notes = << >>
  \/ \E n \in Notifications :
       /\ res.notes = <<n>>
       /\ n.run = res.state.lastRun
       /\ n.version = res.state.version
       /\ n.seq = res.state.seq

(* ApplyConfigPolicy yields a state for the configuration it is given.     *)
LEMMA ApplyConfigPolicyType ==
  ASSUME NEW s \in EvalStates, NEW v \in Nat
  PROVE  /\ ApplyConfigPolicy(s, v) \in EvalStates
         /\ ApplyConfigPolicy(s, v).version = v
<1>1. NeverEscalated \in Int
  BY DEF NeverEscalated
<1> QED
  BY <1>1 DEF ApplyConfigPolicy, EvalStates

(* Evaluating an event returns a state of the run it was given, with at    *)
(* most the notification of that state.                                    *)
LEMMA EvaluateEventType ==
  ASSUME NEW s \in EvalStates, NEW reading \in AnyReading,
         NEW run \in Nat, NEW now \in Int, s.lastRun = run
  PROVE  /\ EvaluateEvent(s, reading, run, now) \in Results
         /\ Announces(EvaluateEvent(s, reading, run, now))
         /\ EvaluateEvent(s, reading, run, now).update
         /\ EvaluateEvent(s, reading, run, now).state.lastRun = run
<1> reading.above \in BOOLEAN /\ reading.held \in BOOLEAN /\ reading.level \in Nat
  BY DEF AnyReading
<1> DEFINE Good(res) == /\ res \in Results
                        /\ Announces(res)
                        /\ res.update
                        /\ res.state.lastRun = run
<1>1. \A t \in EvalStates : t.lastRun = run => Good(Silent(t))
  BY DEF Silent, Results, Announces
<1>2. ASSUME NEW t \in EvalStates, NEW n \in Notifications, t.lastRun = run,
             n.run = run, n.version = t.version
      PROVE  Good(Notified(t, n))
  BY <1>2 DEF Notified, Results, Announces, EvalStates, Notifications
<1>3. ASSUME NEW kind \in {"threshold_crossed", "threshold_cleared"},
             NEW level \in Nat
      PROVE  /\ Notification(s, kind, level, run, now) \in Notifications
             /\ Notification(s, kind, level, run, now).run = run
             /\ Notification(s, kind, level, run, now).version = s.version
  BY DEF Notification, Notifications, EvalStates
<1>4. Good(CrossThreshold(s, reading, run, now))
  <2> DEFINE t == [s EXCEPT !.triggered = TRUE, !.level = reading.level,
                            !.escalatedAt = now]
             n == Notification(s, "threshold_crossed", reading.level, run, now)
  <2>1. t \in EvalStates /\ t.lastRun = run /\ t.version = s.version
    BY DEF EvalStates
  <2>2. n \in Notifications /\ n.run = run /\ n.version = s.version
    BY <1>3
  <2> QED
    BY ONLY <1>2, <2>1, <2>2 DEF CrossThreshold
<1>5. Good(ClearThreshold(s, run, now))
  <2> DEFINE t == [s EXCEPT !.triggered = FALSE, !.level = 0,
                            !.escalatedAt = NeverEscalated]
             n == Notification(s, "threshold_cleared", 0, run, now)
  <2>1. t \in EvalStates /\ t.lastRun = run /\ t.version = s.version
    <3>1. NeverEscalated \in Int
      BY DEF NeverEscalated
    <3> QED
      BY <3>1 DEF EvalStates
  <2>2. n \in Notifications /\ n.run = run /\ n.version = s.version
    BY <1>3
  <2>3. Good(Notified(t, n)) /\ Good(Silent(t))
    BY ONLY <1>1, <1>2, <2>1, <2>2
  <2> QED
    BY ONLY <2>3 DEF ClearThreshold
<1>6. Good(StayTriggered(s, reading, run, now))
  <2> DEFINE t == [s EXCEPT !.level = reading.level, !.escalatedAt = now]
             n == Notification(s, "threshold_crossed", reading.level, run, now)
  <2>1. t \in EvalStates /\ t.lastRun = run /\ t.version = s.version
    BY DEF EvalStates
  <2>2. n \in Notifications /\ n.run = run /\ n.version = s.version
    BY <1>3
  <2>3. Good(Notified(t, n)) /\ Good(Silent(s))
    BY ONLY <1>1, <1>2, <2>1, <2>2, s \in EvalStates, s.lastRun = run
  <2> QED
    BY ONLY <2>3 DEF StayTriggered
<1>7. Good(Silent(s))
  BY <1>1
<1> HIDE DEF Good
<1>8. Good(EvaluateEvent(s, reading, run, now))
  BY <1>4, <1>5, <1>6, <1>7 DEF EvaluateEvent, EvalStates
<1> QED
  BY <1>8 DEF Good

(* Evaluating one WatchPoint: skipped, or a state of the run evaluated.    *)
LEMMA EvaluateOneType ==
  ASSUME NEW s \in EvalStates, NEW v \in Nat, NEW reading \in AnyReading,
         NEW run \in Nat, NEW now \in Int
  PROVE  /\ EvaluateOne(s, v, reading, run, now) \in Results
         /\ Announces(EvaluateOne(s, v, reading, run, now))
<1> DEFINE t == [ApplyConfigPolicy(s, v) EXCEPT !.lastRun = run]
<1>1. t \in EvalStates /\ t.lastRun = run
  BY ApplyConfigPolicyType DEF EvalStates
<1>2. /\ EvaluateEvent(t, reading, run, now) \in Results
      /\ Announces(EvaluateEvent(t, reading, run, now))
  BY <1>1, EvaluateEventType
<1>3. Skipped \in Results /\ Announces(Skipped)
  BY DEF Skipped, Results, Announces, NoState, EvalStates, NoRun, NeverEscalated
<1> HIDE DEF t
<1> QED
  BY <1>2, <1>3 DEF EvaluateOne, t

(* A WatchPoint that is skipped announces nothing.                        *)
LEMMA SkippedType == Skipped \in Results /\ Announces(Skipped)
<1>1. NeverEscalated \in Int
  BY DEF NeverEscalated
<1> QED
  BY <1>1 DEF Skipped, Results, Announces, NoState, EvalStates, NoRun
-----------------------------------------------------------------------------
(* What an evaluation does to a state s: nothing, a clearance nobody is    *)
(* told of, or one notification, of a crossing, an escalation or a         *)
(* clearance.                                                              *)
Crossed(s, res, n, now) ==
  /\ n.kind = "threshold_crossed"
  /\ res.state.triggered /\ res.state.level = n.level /\ res.state.escalatedAt = now
  /\ s.triggered => n.level > s.level /\ CanEscalate(s, now)

Cleared(s, res, n) ==
  n.kind = "threshold_cleared" /\ s.triggered /\ ~res.state.triggered

Outcome(s, res, run, now) ==
  /\ res.state.version = s.version /\ res.state.lastRun = s.lastRun
  /\ \/ res.notes = << >> /\ res.state = s
     \/ /\ res.notes = << >> /\ ~NotifyOnClear
        /\ s.triggered /\ ~res.state.triggered /\ res.state.seq = s.seq
     \/ \E n \in Notifications :
          /\ res.notes = <<n>> /\ n.seq = s.seq + 1 /\ res.state.seq = s.seq + 1
          /\ n.run = run /\ n.version = s.version /\ n.at = now
          /\ Crossed(s, res, n, now) \/ Cleared(s, res, n)

LEMMA NotificationType ==
  ASSUME NEW s \in EvalStates, NEW kind \in {"threshold_crossed", "threshold_cleared"},
         NEW level \in Nat, NEW run \in Nat, NEW now \in Int
  PROVE  LET n == Notification(s, kind, level, run, now)
         IN  /\ n \in Notifications /\ n.kind = kind /\ n.level = level /\ n.run = run
             /\ n.version = s.version /\ n.at = now /\ n.seq = s.seq + 1
  BY DEF Notification, Notifications, EvalStates

LEMMA NotifiedIs ==
  ASSUME NEW t \in EvalStates, NEW n \in Notifications, NEW res, res = Notified(t, n)
  PROVE  /\ res.notes = <<n>> /\ res.state.seq = n.seq /\ res.state.version = t.version
         /\ res.state.lastRun = t.lastRun /\ res.state.triggered = t.triggered
         /\ res.state.level = t.level /\ res.state.escalatedAt = t.escalatedAt
<1>1. res.notes = <<n>> /\ res.state = [t EXCEPT !.seq = n.seq]
  BY DEF Notified
<1> QED
  BY ONLY <1>1, t \in EvalStates DEF EvalStates

(* A state that is told to be triggered, with a level and a time.          *)
LEMMA CrossingOutcome ==
  ASSUME NEW s \in EvalStates, NEW t \in EvalStates, NEW level \in Nat,
         NEW run \in Nat, NEW now \in Int,
         t.version = s.version, t.lastRun = s.lastRun, t.triggered,
         t.level = level, t.escalatedAt = now,
         s.triggered => level > s.level /\ CanEscalate(s, now)
  PROVE  Outcome(s, Notified(t, Notification(s, "threshold_crossed", level, run, now)), run, now)
<1> PICK n \in Notifications :
      /\ n = Notification(s, "threshold_crossed", level, run, now)
      /\ n.kind = "threshold_crossed" /\ n.level = level /\ n.run = run
      /\ n.version = s.version /\ n.at = now /\ n.seq = s.seq + 1
  BY NotificationType
<1>0. PICK res : res = Notified(t, n)
  OBVIOUS
<1>1. /\ res.notes = <<n>> /\ res.state.seq = n.seq /\ res.state.version = t.version
      /\ res.state.lastRun = t.lastRun /\ res.state.triggered = t.triggered
      /\ res.state.level = t.level /\ res.state.escalatedAt = t.escalatedAt
  BY ONLY NotifiedIs, <1>0, t \in EvalStates, n \in Notifications
<1>2. Crossed(s, res, n, now)
  BY <1>1 DEF Crossed
<1>3. /\ res.state.version = s.version /\ res.state.lastRun = s.lastRun
      /\ res.state.seq = s.seq + 1
  BY ONLY <1>1, t.version = s.version, t.lastRun = s.lastRun, n.seq = s.seq + 1
<1>4. \E m \in Notifications :
         /\ res.notes = <<m>> /\ m.seq = s.seq + 1 /\ res.state.seq = s.seq + 1
         /\ m.run = run /\ m.version = s.version /\ m.at = now
         /\ Crossed(s, res, m, now) \/ Cleared(s, res, m)
  BY ONLY n \in Notifications, <1>1, <1>2, <1>3, n.seq = s.seq + 1, n.run = run,
          n.version = s.version, n.at = now
<1>5. Outcome(s, res, run, now)
  BY ONLY <1>3, <1>4 DEF Outcome
<1> QED
  BY <1>0, <1>5

LEMMA ClearingOutcome ==
  ASSUME NEW s \in EvalStates, NEW t \in EvalStates, NEW run \in Nat, NEW now \in Int,
         t.version = s.version, t.lastRun = s.lastRun, ~t.triggered, s.triggered
  PROVE  Outcome(s, Notified(t, Notification(s, "threshold_cleared", 0, run, now)), run, now)
<1> PICK n \in Notifications :
      /\ n = Notification(s, "threshold_cleared", 0, run, now)
      /\ n.kind = "threshold_cleared" /\ n.run = run
      /\ n.version = s.version /\ n.at = now /\ n.seq = s.seq + 1
  BY NotificationType
<1>0. PICK res : res = Notified(t, n)
  OBVIOUS
<1>1. /\ res.notes = <<n>> /\ res.state.seq = n.seq /\ res.state.version = t.version
      /\ res.state.lastRun = t.lastRun /\ res.state.triggered = t.triggered
  BY ONLY NotifiedIs, <1>0, t \in EvalStates, n \in Notifications
<1>2. Cleared(s, res, n)
  BY <1>1 DEF Cleared
<1>3. /\ res.state.version = s.version /\ res.state.lastRun = s.lastRun
      /\ res.state.seq = s.seq + 1
  BY ONLY <1>1, t.version = s.version, t.lastRun = s.lastRun, n.seq = s.seq + 1
<1>4. \E m \in Notifications :
         /\ res.notes = <<m>> /\ m.seq = s.seq + 1 /\ res.state.seq = s.seq + 1
         /\ m.run = run /\ m.version = s.version /\ m.at = now
         /\ Crossed(s, res, m, now) \/ Cleared(s, res, m)
  BY ONLY n \in Notifications, <1>1, <1>2, <1>3, n.seq = s.seq + 1, n.run = run,
          n.version = s.version, n.at = now
<1>5. Outcome(s, res, run, now)
  BY ONLY <1>3, <1>4 DEF Outcome
<1> QED
  BY <1>0, <1>5

LEMMA EvaluateEventOutcome ==
  ASSUME NEW s \in EvalStates, NEW reading \in AnyReading, NEW run \in Nat, NEW now \in Int
  PROVE  Outcome(s, EvaluateEvent(s, reading, run, now), run, now)
<1>1. reading.above \in BOOLEAN /\ reading.held \in BOOLEAN /\ reading.level \in Nat
  BY DEF AnyReading
<1>2. s.triggered \in BOOLEAN
  BY DEF EvalStates
<1>3. Outcome(s, Silent(s), run, now)
  BY DEF Outcome, Silent
<1>4. CASE ~s.triggered /\ reading.above
  <2> DEFINE t == [s EXCEPT !.triggered = TRUE, !.level = reading.level, !.escalatedAt = now]
  <2>1. /\ t \in EvalStates /\ t.version = s.version /\ t.lastRun = s.lastRun /\ t.triggered
        /\ t.level = reading.level /\ t.escalatedAt = now
    BY <1>1 DEF EvalStates
  <2>2. EvaluateEvent(s, reading, run, now)
          = Notified(t, Notification(s, "threshold_crossed", reading.level, run, now))
    BY <1>4 DEF EvaluateEvent, CrossThreshold
  <2> HIDE DEF t
  <2> QED
    BY <1>1, <1>4, <2>1, <2>2, CrossingOutcome
<1>5. CASE s.triggered /\ ~reading.held
  <2> DEFINE t == [s EXCEPT !.triggered = FALSE, !.level = 0, !.escalatedAt = NeverEscalated]
  <2>1. NeverEscalated \in Int
    BY DEF NeverEscalated
  <2>2. /\ t \in EvalStates /\ t.version = s.version /\ t.lastRun = s.lastRun /\ ~t.triggered
        /\ t.seq = s.seq
    BY <2>1 DEF EvalStates
  <2>3. EvaluateEvent(s, reading, run, now)
          = IF NotifyOnClear
            THEN Notified(t, Notification(s, "threshold_cleared", 0, run, now)) ELSE Silent(t)
    BY <1>5 DEF EvaluateEvent, ClearThreshold
  <2> HIDE DEF t
  <2>4. ~NotifyOnClear => Outcome(s, Silent(t), run, now)
    BY <1>5, <2>2 DEF Outcome, Silent
  <2>5. Outcome(s, Notified(t, Notification(s, "threshold_cleared", 0, run, now)), run, now)
    BY <1>5, <2>2, ClearingOutcome
  <2> QED
    BY <2>3, <2>4, <2>5
<1>6. CASE s.triggered /\ reading.held
  <2>1. CASE reading.level > s.level /\ CanEscalate(s, now)
    <3> DEFINE t == [s EXCEPT !.level = reading.level, !.escalatedAt = now]
    <3>1. /\ t \in EvalStates /\ t.version = s.version /\ t.lastRun = s.lastRun /\ t.triggered
          /\ t.level = reading.level /\ t.escalatedAt = now
      BY <1>1, <1>6 DEF EvalStates
    <3>2. EvaluateEvent(s, reading, run, now)
            = Notified(t, Notification(s, "threshold_crossed", reading.level, run, now))
      BY <1>6, <2>1 DEF EvaluateEvent, StayTriggered
    <3> HIDE DEF t
    <3> QED
      BY <1>1, <2>1, <3>1, <3>2, CrossingOutcome
  <2>2. CASE ~(reading.level > s.level /\ CanEscalate(s, now))
    BY <1>3, <1>6, <2>2 DEF EvaluateEvent, StayTriggered
  <2> QED
    BY <2>1, <2>2
<1>7. CASE ~s.triggered /\ ~reading.above
  BY <1>3, <1>7 DEF EvaluateEvent
<1> QED
  BY <1>1, <1>2, <1>4, <1>5, <1>6, <1>7

-----------------------------------------------------------------------------
(* Conditions. *)

(* The buffer of a single-valued operator lies on the side of the          *)
(* threshold on which the condition clears.                                *)
BufferOnClearSide(c) ==
  /\ c.operator \in {">", ">=", "<", "<="}
  /\ c.threshold # << >>
  => c.threshold[1] + AbsoluteBuffer(c.variable) >= 0

LEMMA BufferType == \A variable : AbsoluteBuffer(variable) \in Nat
  BY DEF AbsoluteBuffer

LEMMA MagnitudeType == \A x \in Int : Magnitude(x) \in Nat
  BY DEF Magnitude

(* A bound that is moved away from the values it admits admits them still. *)
LEMMA Widened ==
  ASSUME NEW v \in Int, NEW t \in Int, NEW m \in Int, NEW b \in Int, m + b >= 0
  PROVE  /\ v >= 10 * t => v >= 10 * t - m - b
         /\ v > 10 * t  => v >= 10 * t - m - b /\ v > 10 * t - m - b
         /\ v <= 10 * t => v <= 10 * t + m + b
         /\ v < 10 * t  => v <= 10 * t + m + b /\ v < 10 * t + m + b
  OBVIOUS

(* A condition that is met is still met with hysteresis.                   *)
LEMMA MetIsStillMet ==
  ASSUME NEW c \in Conds, NEW actual \in Int,
         BufferOnClearSide(c), CheckCondition(actual, c)
  PROVE  CheckWithHysteresis(actual, c)
<1> DEFINE th == c.threshold
           buffer == AbsoluteBuffer(c.variable)
<1>1. buffer \in Nat
  BY BufferType
<1>2. th \in Seq(Int) /\ Len(th) \in Nat /\ Len(th) >= 1 /\ th[1] \in Int
  BY DEF CheckCondition, Conds
<1>3. CASE c.operator \in {">", ">=", "<", "<="}
  <2>1. th[1] + buffer >= 0
    BY <1>2, <1>3 DEF BufferOnClearSide
  <2> QED
    <3>1. /\ actual >= 10 * th[1] => actual >= 10 * th[1] - th[1] - buffer
          /\ actual > 10 * th[1]  => actual >= 10 * th[1] - th[1] - buffer
          /\ actual <= 10 * th[1] => actual <= 10 * th[1] + th[1] + buffer
          /\ actual < 10 * th[1]  => actual <= 10 * th[1] + th[1] + buffer
      <4>1. PICK t \in Int, b \in Int : t = th[1] /\ b = buffer
        BY <1>1, <1>2
      <4> HIDE DEF th, buffer
      <4>2. t + b >= 0
        BY <2>1, <4>1
      <4> QED
        BY ONLY actual \in Int, <4>1, <4>2, Widened
    <3> QED
      BY <1>2, <1>3, <3>1 DEF CheckCondition, CheckWithHysteresis
<1>4. CASE c.operator \in {"==", "!="}
  BY <1>2, <1>4 DEF CheckWithHysteresis
<1>5. CASE c.operator \in {"between", "outside"}
  <2>1. Len(th) >= 2 /\ th[2] \in Int
    BY <1>2, <1>5 DEF CheckCondition
  <2>2. PICK t1 \in Int, t2 \in Int, m1 \in Int, m2 \in Int, b \in Int :
          /\ t1 = th[1] /\ t2 = th[2] /\ b = buffer
          /\ m1 = Magnitude(th[1]) /\ m2 = Magnitude(th[2])
          /\ m1 + b >= 0 /\ m2 + b >= 0
    <3>1. Magnitude(th[1]) \in Nat /\ Magnitude(th[2]) \in Nat
      BY <1>2, <2>1, MagnitudeType
    <3> HIDE DEF th, buffer
    <3> QED
      BY <1>1, <1>2, <2>1, <3>1
  <2>3. CASE c.operator = "between"
    <3>1. 10 * t1 <= actual /\ actual <= 10 * t2
      BY <2>2, <2>3 DEF CheckCondition
    <3>2. 10 * t1 - m1 - b <= actual /\ actual <= 10 * t2 + m2 + b
      BY ONLY actual \in Int, t1 \in Int, t2 \in Int, m1 \in Int, m2 \in Int, b \in Int,
              <2>2, <3>1, Widened
    <3> QED
      BY <1>2, <2>1, <2>2, <2>3, <3>2 DEF CheckWithHysteresis
  <2>4. CASE c.operator = "outside"
    <3>1. actual < 10 * t1 \/ actual > 10 * t2
      BY <2>2, <2>4 DEF CheckCondition
    <3>2. actual < 10 * t1 + m1 + b \/ actual > 10 * t2 - m2 - b
      BY ONLY actual \in Int, t1 \in Int, t2 \in Int, m1 \in Int, m2 \in Int, b \in Int,
              <2>2, <3>1, Widened
    <3> QED
      BY <1>2, <2>1, <2>2, <2>4, <3>2 DEF CheckWithHysteresis
  <2> QED
    BY <1>5, <2>3, <2>4
<1> QED
  BY <1>3, <1>4, <1>5 DEF Conds, Operators

(* Every forecast value is an integer, missing ones included.              *)
LEMMA ActualType ==
  ASSUME NEW p \in Points, NEW variable
  PROVE  Actual(p, variable) \in Int
  BY TrackingAssumption DEF Actual

(* So is a combination of conditions, under either logic.                  *)
LEMMA ReadingKeepsMet ==
  ASSUME NEW cfg \in Configs, NEW p \in Points,
         \A i \in 1..Len(cfg.conditions) : BufferOnClearSide(cfg.conditions[i]),
         Met(cfg, p)
  PROVE  StillMet(cfg, p)
<1> DEFINE conds == cfg.conditions
           value(i) == Actual(p, conds[i].variable)
           met == {i \in 1..Len(conds) : CheckCondition(value(i), conds[i])}
           still == {i \in 1..Len(conds) : CheckWithHysteresis(value(i), conds[i])}
<1>1. met \subseteq still
  <2> SUFFICES ASSUME NEW i \in 1..Len(conds), CheckCondition(value(i), conds[i])
               PROVE  CheckWithHysteresis(value(i), conds[i])
    OBVIOUS
  <2>1. conds[i] \in Conds
    BY DEF Configs
  <2>2. value(i) \in Int
    BY ActualType
  <2> QED
    BY <2>1, <2>2, MetIsStillMet
<1>2. Combine(cfg, met)
  BY DEF Met
<1>3. Combine(cfg, still)
  BY <1>1, <1>2 DEF Combine
<1> QED
  BY <1>3 DEF StillMet

(* Escalation levels run from 0 to 3. *)
LEMMA EscalationLevelType ==
  ASSUME NEW actual \in Int, NEW threshold \in Int
  PROVE  EscalationLevel(actual, threshold) \in 0..3
<1>1. ASSUME NEW S \in SUBSET Tiers PROVE Cardinality(S) \in 0..3
  <2>1. /\ IsFiniteSet({25})
        /\ Cardinality({25}) = 1
    BY FS_Singleton
  <2>2. /\ IsFiniteSet({25} \cup {50})
        /\ Cardinality({25} \cup {50}) = 2
    <3>1. 50 \notin {25}
      OBVIOUS
    <3> QED
      BY <2>1, <3>1, FS_AddElement
  <2>3. /\ IsFiniteSet(({25} \cup {50}) \cup {100})
        /\ Cardinality(({25} \cup {50}) \cup {100}) = 3
    <3>1. 100 \notin {25} \cup {50}
      OBVIOUS
    <3> QED
      BY <2>2, <3>1, FS_AddElement
  <2>4. Tiers = ({25} \cup {50}) \cup {100}
    BY DEF Tiers
  <2>5. IsFiniteSet(Tiers) /\ Cardinality(Tiers) = 3
    BY <2>3, <2>4
  <2>6. IsFiniteSet(S) /\ Cardinality(S) <= 3
    BY <2>5, FS_Subset
  <2>7. Cardinality(S) \in Nat
    BY <2>6, FS_CardinalityType
  <2> QED
    BY <2>6, <2>7
<1> QED
  BY <1>1 DEF EscalationLevel

LEMMA EscalationType ==
  ASSUME NEW cfg \in Configs, NEW p \in Points
  PROVE  Escalation(cfg, p) \in 0..3
<1> DEFINE levels ==
      {EscalationLevel(Actual(p, c.variable), c.threshold[1]) :
         c \in {cfg.conditions[i] : i \in
                  {j \in 1..Len(cfg.conditions) :
                     cfg.conditions[j].threshold # << >>}}}
<1>1. levels \subseteq 0..3
  <2> SUFFICES ASSUME NEW i \in 1..Len(cfg.conditions),
                      cfg.conditions[i].threshold # << >>
               PROVE  EscalationLevel(Actual(p, cfg.conditions[i].variable),
                                      cfg.conditions[i].threshold[1]) \in 0..3
    OBVIOUS
  <2>1. cfg.conditions[i] \in Conds
    BY DEF Configs
  <2>2. cfg.conditions[i].threshold[1] \in Int
    BY <2>1 DEF Conds
  <2> QED
    BY <2>2, ActualType, EscalationLevelType
<1> HIDE DEF levels
<1>2. CASE levels = {}
  BY <1>2 DEF Escalation, levels
<1>3. CASE levels # {}
  <2>1. \E n \in levels : \A m \in levels : m <= n
    <3>1. CASE 3 \in levels
      <4>1. \A m \in levels : m <= 3
        BY <1>1
      <4> QED
        BY <3>1, <4>1
    <3>2. CASE 3 \notin levels /\ 2 \in levels
      <4>1. \A m \in levels : m <= 2
        BY <1>1, <3>2
      <4> QED
        BY <3>2, <4>1
    <3>3. CASE 3 \notin levels /\ 2 \notin levels /\ 1 \in levels
      <4>1. \A m \in levels : m <= 1
        BY <1>1, <3>3
      <4> QED
        BY <3>3, <4>1
    <3>4. CASE 3 \notin levels /\ 2 \notin levels /\ 1 \notin levels
      <4>1. \A m \in levels : m = 0
        BY <1>1, <3>4
      <4>2. PICK n \in levels : TRUE
        BY <1>3
      <4>3. \A m \in levels : m <= n
        BY <4>1, <4>2
      <4> QED
        BY <4>3
    <3> QED
      BY <3>1, <3>2, <3>3, <3>4
  <2>2. (CHOOSE n \in levels : \A m \in levels : m <= n) \in levels
    BY <2>1
  <2> QED
    BY <1>1, <1>3, <2>2 DEF Escalation, levels
<1> QED
  BY <1>2, <1>3

LEMMA ReadingType ==
  ASSUME NEW cfg \in Configs, NEW p \in Points
  PROVE  Reading(cfg, p) \in AnyReading
  BY EscalationType DEF Reading, AnyReading, Met, StillMet, Combine

-----------------------------------------------------------------------------
(* Tracking. *)

(* The parts of the type invariant, and that a triggered state was         *)
(* announced by the last notification, with its level and its time.        *)
TrackingTyped ==
  /\ config \in Monitored
  /\ state \in EvalStates
  /\ point \in Points
  /\ evaluated \in 0..MaxEvaluations
  /\ evaluatedAt \in Nat
  /\ notes \in Seq(Notifications)
  /\ state.level \in 0..3

Announced ==
  state.triggered =>
    /\ notes # << >>
    /\ notes[Len(notes)].level = state.level
    /\ notes[Len(notes)].at = state.escalatedAt
    /\ state.escalatedAt \in Nat

StateIsOfRun == state.lastRun = evaluated

(* The result of evaluating one run, with the facts that later steps need. *)
LEMMA EvaluateRunResult ==
  ASSUME TrackingTyped, StateIsOfRun, NEW p \in Points, NEW delay \in 0..MaxDelay,
         EvaluateRun(p, delay)
  PROVE  /\ config \in Configs
         /\ Reading(config, p) \in AnyReading
         /\ Reading(config, p).level \in 0..3
         /\ evaluatedAt' \in Nat
         /\ evaluated' = evaluated + 1
         /\ evaluated' \in 1..MaxEvaluations
         /\ state' = EvaluateEvent(
               [ApplyConfigPolicy(state, ConfigVersion) EXCEPT !.lastRun = evaluated'],
               Reading(config, p), evaluated', evaluatedAt').state
         /\ notes' = notes \o EvaluateEvent(
               [ApplyConfigPolicy(state, ConfigVersion) EXCEPT !.lastRun = evaluated'],
               Reading(config, p), evaluated', evaluatedAt').notes
<1>1. config \in Configs
  BY TrackingAssumption DEF TrackingTyped
<1>2. Reading(config, p) \in AnyReading
  BY <1>1, ReadingType
<1>3. Reading(config, p).level \in 0..3
  BY <1>1, EscalationType DEF Reading
<1>4. evaluatedAt' \in Nat /\ evaluated' = evaluated + 1 /\ evaluated' \in 1..MaxEvaluations
  BY TrackingAssumption DEF EvaluateRun, TrackingTyped
<1>5. ~AlreadyEvaluated(state, evaluated')
  BY <1>4, TrackingAssumption DEF AlreadyEvaluated, StateIsOfRun, TrackingTyped, NoRun
<1> QED
  BY <1>1, <1>2, <1>3, <1>4, <1>5 DEF EvaluateRun, EvaluateOne

LEMMA TrackingNextTyped ==
  TrackingTyped /\ StateIsOfRun /\ [TrackingNext]_trackingVars => TrackingTyped' /\ StateIsOfRun'
<1> SUFFICES ASSUME TrackingTyped, StateIsOfRun, [TrackingNext]_trackingVars
             PROVE  TrackingTyped' /\ StateIsOfRun'
  OBVIOUS
<1>1. CASE UNCHANGED trackingVars
  BY <1>1 DEF TrackingTyped, StateIsOfRun, trackingVars
<1>2. ASSUME NEW p \in Points, NEW delay \in 0..MaxDelay, EvaluateRun(p, delay)
      PROVE  TrackingTyped' /\ StateIsOfRun'
  <2> DEFINE t == [ApplyConfigPolicy(state, ConfigVersion) EXCEPT !.lastRun = evaluated']
             reading == Reading(config, p)
             res == EvaluateEvent(t, reading, evaluated', evaluatedAt')
  <2>1. /\ reading \in AnyReading
        /\ reading.level \in 0..3
        /\ evaluatedAt' \in Nat
        /\ evaluated' \in 1..MaxEvaluations
        /\ state' = res.state
        /\ notes' = notes \o res.notes
    BY <1>2, EvaluateRunResult
  <2>2. t \in EvalStates /\ t.lastRun = evaluated' /\ t.level \in 0..3
    <3>1. state \in EvalStates /\ ConfigVersion \in Nat /\ evaluated' \in Nat
      BY <2>1, TrackingAssumption DEF TrackingTyped, ConfigVersion
    <3>1a. ApplyConfigPolicy(state, ConfigVersion) \in EvalStates
      BY <3>1, ApplyConfigPolicyType
    <3>2. ApplyConfigPolicy(state, ConfigVersion).level \in 0..3
      BY DEF ApplyConfigPolicy, TrackingTyped, EvalStates
    <3> QED
      BY <3>1, <3>1a, <3>2 DEF EvalStates
  <2> HIDE DEF t, reading
  <2>3. /\ res \in Results
        /\ Announces(res)
        /\ res.state.lastRun = evaluated'
    <3>1. evaluated' \in Nat /\ evaluatedAt' \in Int
      BY <2>1, TrackingAssumption
    <3> QED
      BY <2>1, <2>2, <3>1, EvaluateEventType
  <2>4. res.state.level \in {0, t.level, reading.level}
    <3>1. CrossThreshold(t, reading, evaluated', evaluatedAt').state.level = reading.level
      BY <2>2 DEF CrossThreshold, Notified, EvalStates
    <3>2. ClearThreshold(t, evaluated', evaluatedAt').state.level = 0
      BY <2>2 DEF ClearThreshold, Notified, Silent, EvalStates
    <3>3. StayTriggered(t, reading, evaluated', evaluatedAt').state.level \in {t.level, reading.level}
      BY <2>2 DEF StayTriggered, Notified, Silent, EvalStates
    <3>4. Silent(t).state.level = t.level
      BY DEF Silent
    <3> QED
      BY <2>2, <3>1, <3>2, <3>3, <3>4 DEF EvaluateEvent, EvalStates
  <2> HIDE DEF res
  <2>5. state' \in EvalStates /\ state'.level \in 0..3 /\ state'.lastRun = evaluated'
    BY <2>1, <2>2, <2>3, <2>4 DEF Results
  <2>6. res.notes \in Seq(Notifications)
    BY <2>3 DEF Results
  <2>7. notes' \in Seq(Notifications)
    BY <2>1, <2>6 DEF TrackingTyped
  <2>8. /\ config' \in Monitored
        /\ point' \in Points
        /\ evaluated' \in 0..MaxEvaluations
    BY <1>2, <2>1 DEF EvaluateRun, TrackingTyped
  <2> QED
    BY <2>1, <2>5, <2>7, <2>8 DEF TrackingTyped, StateIsOfRun
<1> QED
  BY <1>1, <1>2 DEF TrackingNext

LEMMA TrackingInitTyped == TrackingInit => TrackingTyped /\ StateIsOfRun
<1>1. NeverEscalated \in Int
  BY DEF NeverEscalated
<1> QED
  BY <1>1, TrackingAssumption
  DEF TrackingInit, TrackingTyped, StateIsOfRun, NoState, EvalStates, NoRun

LEMMA AlwaysTrackingTyped == Tracking => [](TrackingTyped /\ StateIsOfRun)
  BY TrackingInitTyped, TrackingNextTyped, PTL DEF Tracking

(* Every variable stays in its range, the escalation level in 0..3.        *)
THEOREM TrackingTypeCorrect == Tracking => []TrackingTypeOK
<1>1. TrackingTyped => TrackingTypeOK
  BY DEF TrackingTyped, TrackingTypeOK
<1> QED
  BY <1>1, AlwaysTrackingTyped, PTL

(* Hysteresis only delays a clearance: with buffers on the side on which   *)
(* the conditions clear, an alert is cleared by no forecast that meets     *)
(* them.                                                                   *)
BuffersOnClearSide ==
  \A cfg \in Monitored : \A i \in 1..Len(cfg.conditions) :
    BufferOnClearSide(cfg.conditions[i])

THEOREM HysteresisOnlyDelays ==
  ASSUME BuffersOnClearSide
  PROVE  Tracking => ClearedIsNotMet
<1>1. ASSUME TrackingTyped, StateIsOfRun, [TrackingNext]_trackingVars,
             state.triggered, ~state'.triggered
      PROVE  ~Met(config, point')
  <2>1. PICK p \in Points, delay \in 0..MaxDelay : EvaluateRun(p, delay)
    BY <1>1 DEF TrackingNext, trackingVars
  <2> DEFINE t == [ApplyConfigPolicy(state, ConfigVersion) EXCEPT !.lastRun = evaluated']
             reading == Reading(config, p)
  <2>2. /\ config \in Configs
        /\ state' = EvaluateEvent(t, reading, evaluated', evaluatedAt').state
    BY <1>1, <2>1, EvaluateRunResult
  <2>3. t \in EvalStates
    <3>1. state \in EvalStates /\ ConfigVersion \in Nat /\ evaluated' \in Nat
      BY <1>1, <2>1, TrackingAssumption DEF TrackingTyped, ConfigVersion, EvaluateRun
    <3>2. ApplyConfigPolicy(state, ConfigVersion) \in EvalStates
      BY <3>1, ApplyConfigPolicyType
    <3> QED
      BY <3>1, <3>2 DEF EvalStates
  <2>4. reading.above => reading.held
    BY <1>1, <2>2, ReadingKeepsMet DEF BuffersOnClearSide, Reading, TrackingTyped
  <2> HIDE DEF t, reading
  <2>5. CASE reading.above
    <3>1. CrossThreshold(t, reading, evaluated', evaluatedAt').state.triggered
      BY <2>3 DEF CrossThreshold, Notified, EvalStates
    <3>2. t.triggered => StayTriggered(t, reading, evaluated', evaluatedAt').state.triggered
      BY <2>3 DEF StayTriggered, Notified, Silent, EvalStates
    <3>3. EvaluateEvent(t, reading, evaluated', evaluatedAt').state.triggered
      BY <2>3, <2>4, <2>5, <3>1, <3>2 DEF EvaluateEvent, EvalStates
    <3> QED
      BY <1>1, <2>2, <3>3
  <2>6. CASE ~reading.above
    BY <2>1, <2>6 DEF EvaluateRun, Reading, reading
  <2> QED
    BY <2>5, <2>6
<1>2. TrackingTyped /\ StateIsOfRun /\ [TrackingNext]_trackingVars =>
        [state.triggered /\ ~state'.triggered => ~Met(config, point')]_trackingVars
  BY <1>1
<1> QED
  BY <1>2, AlwaysTrackingTyped, PTL DEF Tracking, ClearedIsNotMet

-----------------------------------------------------------------------------
(* Escalation. *)

LEMMA SeverityInductive ==
  TrackingTyped /\ StateIsOfRun /\ Announced /\ [TrackingNext]_trackingVars
    => Announced' /\ (SeverityAnnounced => SeverityAnnounced')
<1> SUFFICES ASSUME TrackingTyped, StateIsOfRun, Announced, [TrackingNext]_trackingVars
             PROVE  Announced' /\ (SeverityAnnounced => SeverityAnnounced')
  OBVIOUS
<1>1. CASE UNCHANGED trackingVars
  BY <1>1 DEF Announced, SeverityAnnounced, trackingVars
<1>2. ASSUME NEW p \in Points, NEW delay \in 0..MaxDelay, EvaluateRun(p, delay)
      PROVE  Announced' /\ SeverityAnnounced'
  <2> DEFINE t == [ApplyConfigPolicy(state, ConfigVersion) EXCEPT !.lastRun = evaluated']
             reading == Reading(config, p)
             Good(res) ==
               res.state.triggered =>
                 LET h == notes \o res.notes
                 IN  /\ h # << >>
                     /\ h[Len(h)].level = res.state.level
                     /\ h[Len(h)].at = res.state.escalatedAt
                     /\ res.state.escalatedAt \in Nat
                     /\ \/ h[Len(h)].level >= reading.level
                        \/ evaluatedAt' - h[Len(h)].at < Cooldown
  <2>1. /\ reading \in AnyReading
        /\ reading.level \in 0..3
        /\ evaluatedAt' \in Nat
        /\ state' = EvaluateEvent(t, reading, evaluated', evaluatedAt').state
        /\ notes' = notes \o EvaluateEvent(t, reading, evaluated', evaluatedAt').notes
    BY <1>2, EvaluateRunResult
  <2>2. /\ t \in EvalStates
        /\ t.triggered => state.triggered /\ t.level = state.level
                           /\ t.escalatedAt = state.escalatedAt
    <3>1. state \in EvalStates /\ ConfigVersion \in Nat /\ evaluated' \in Nat
      BY <1>2, TrackingAssumption DEF TrackingTyped, ConfigVersion, EvaluateRun
    <3>2. ApplyConfigPolicy(state, ConfigVersion) \in EvalStates
      BY <3>1, ApplyConfigPolicyType
    <3> QED
      BY <3>1, <3>2 DEF EvalStates, ApplyConfigPolicy
  <2>3. notes \in Seq(Notifications)
    BY DEF TrackingTyped
  <2>3a. t \in EvalStates /\ reading.level \in Nat /\ evaluatedAt' \in Int
    BY <2>1, <2>2
  <2> HIDE DEF t, reading
  <2>4. ASSUME NEW s \in EvalStates, NEW n,
               n.level = s.level, n.at = s.escalatedAt, s.escalatedAt \in Nat,
               n.level >= reading.level
        PROVE  Good(Notified(s, n))
    <3> DEFINE res == Notified(s, n)
               h == notes \o res.notes
    <3>1. h # << >> /\ h[Len(h)] = n
      BY <2>3 DEF Notified
    <3>2. res.state.level = s.level /\ res.state.escalatedAt = s.escalatedAt
      BY <2>4 DEF Notified, EvalStates
    <3> HIDE DEF h, res
    <3>3. Good(res)
      BY <2>4, <3>1, <3>2 DEF h
    <3> QED
      BY <3>3 DEF res
  <2>5. Good(CrossThreshold(t, reading, evaluated', evaluatedAt'))
    <3> DEFINE s == [t EXCEPT !.triggered = TRUE, !.level = reading.level,
                              !.escalatedAt = evaluatedAt']
               n == Notification(t, "threshold_crossed", reading.level, evaluated', evaluatedAt')
    <3>1. s \in EvalStates /\ s.level = reading.level /\ s.escalatedAt = evaluatedAt'
      BY ONLY <2>3a DEF EvalStates
    <3>2. n.level = reading.level /\ n.at = evaluatedAt'
      BY DEF Notification
    <3>3. Good(Notified(s, n))
      <4> HIDE DEF s, n, Good
      <4>1. /\ n.level = s.level /\ n.at = s.escalatedAt
           /\ s.escalatedAt \in Nat /\ n.level >= reading.level
        BY <2>1, <3>1, <3>2
      <4> QED
        BY ONLY <2>4, <3>1, <4>1
    <3> HIDE DEF Good
    <3> QED
      BY <3>3 DEF CrossThreshold
  <2>6. Good(ClearThreshold(t, evaluated', evaluatedAt'))
    <3>1. ~ClearThreshold(t, evaluated', evaluatedAt').state.triggered
      BY <2>2 DEF ClearThreshold, Notified, Silent, EvalStates
    <3> QED
      BY <3>1
  <2>7. t.triggered => Good(StayTriggered(t, reading, evaluated', evaluatedAt'))
    <3> SUFFICES ASSUME t.triggered
                 PROVE  Good(StayTriggered(t, reading, evaluated', evaluatedAt'))
      OBVIOUS
    <3>1. CASE reading.level > t.level /\ CanEscalate(t, evaluatedAt')
      <4> DEFINE s == [t EXCEPT !.level = reading.level, !.escalatedAt = evaluatedAt']
                 n == Notification(t, "threshold_crossed", reading.level, evaluated', evaluatedAt')
      <4>1. s \in EvalStates /\ s.level = reading.level /\ s.escalatedAt = evaluatedAt'
        BY ONLY <2>3a DEF EvalStates
      <4>2. n.level = reading.level /\ n.at = evaluatedAt'
        BY DEF Notification
      <4>3. Good(Notified(s, n))
        <5> HIDE DEF s, n, Good
        <5>1. /\ n.level = s.level /\ n.at = s.escalatedAt
             /\ s.escalatedAt \in Nat /\ n.level >= reading.level
          BY <2>1, <4>1, <4>2
        <5> QED
          BY ONLY <2>4, <4>1, <5>1
      <4> HIDE DEF Good
      <4> QED
        BY <3>1, <4>3 DEF StayTriggered
    <3>2. CASE ~(reading.level > t.level /\ CanEscalate(t, evaluatedAt'))
      <4>1. StayTriggered(t, reading, evaluated', evaluatedAt') = Silent(t)
        BY <3>2 DEF StayTriggered
      <4>2. notes \o << >> = notes
        BY <2>3
      <4>3. /\ notes # << >>
            /\ notes[Len(notes)].level = t.level
            /\ notes[Len(notes)].at = t.escalatedAt
            /\ t.escalatedAt \in Nat
        BY <2>2 DEF Announced
      <4>4. t.level >= reading.level \/ evaluatedAt' - t.escalatedAt < Cooldown
        <5>1. CASE reading.level > t.level
          <6>1. evaluatedAt' \in Int /\ t.escalatedAt \in Int /\ Cooldown \in Int
            BY ONLY <2>3a, <4>3, LogicAssumption
          <6>2. ~(evaluatedAt' - t.escalatedAt >= Cooldown)
            BY <3>2, <5>1 DEF CanEscalate
          <6> QED
            BY ONLY <6>1, <6>2
        <5>2. CASE ~(reading.level > t.level)
          <6>1. t.level \in Int /\ reading.level \in Int
            BY ONLY <2>3a DEF EvalStates
          <6> QED
            BY ONLY <5>2, <6>1
        <5> QED
          BY ONLY <5>1, <5>2
      <4>5. Good(Silent(t))
        BY <4>2, <4>3, <4>4 DEF Silent
      <4> HIDE DEF Good
      <4> QED
        BY <4>1, <4>5
    <3> QED
      BY <3>1, <3>2
  <2>8. ~t.triggered => Good(Silent(t))
    BY DEF Silent
  <2> HIDE DEF Good
  <2>9. Good(EvaluateEvent(t, reading, evaluated', evaluatedAt'))
    BY <2>2, <2>5, <2>6, <2>7, <2>8 DEF EvaluateEvent, EvalStates
  <2>10. Escalation(config', point') = reading.level
    BY <1>2 DEF EvaluateRun, Reading, reading
  <2> QED
    BY <2>1, <2>9, <2>10 DEF Good, Announced, SeverityAnnounced
<1> QED
  BY <1>1, <1>2 DEF TrackingNext

(* No escalation is lost: the user knows the present severity, or was      *)
(* alerted less than a cooldown ago.                                       *)
THEOREM NoEscalationLost == Tracking => []SeverityAnnounced
<1>1. TrackingInit => Announced /\ SeverityAnnounced
  BY DEF TrackingInit, NoState, Announced, SeverityAnnounced
<1> QED
  BY <1>1, AlwaysTrackingTyped, SeverityInductive, PTL DEF Tracking

-----------------------------------------------------------------------------
(* One alert per level. *)

(* Every crossing announced has been cleared since, or is what the state   *)
(* is triggered for, at its level or a higher one.                         *)
CrossingsAreOpen ==
  \A i \in 1..Len(notes) :
    notes[i].kind = "threshold_crossed" =>
      \/ \E k \in i + 1 .. Len(notes) : notes[k].kind = "threshold_cleared"
      \/ state.triggered /\ notes[i].level <= state.level

StateIsOfConfig == state.triggered => state.version = ConfigVersion

(* A run is evaluated from the state as it is: there is but one            *)
(* configuration, so nothing is forgotten.                                 *)
LEMMA EvaluatedState ==
  ASSUME TrackingTyped, StateIsOfRun, StateIsOfConfig,
         NEW p \in Points, NEW delay \in 0..MaxDelay, EvaluateRun(p, delay)
  PROVE  \E t, reading, res :
           /\ t \in EvalStates /\ t.version = ConfigVersion
           /\ t.triggered <=> state.triggered
           /\ t.triggered => t.level = state.level
           /\ reading = Reading(config, p)
           /\ res = EvaluateEvent(t, reading, evaluated', evaluatedAt')
           /\ state' = res.state /\ notes' = notes \o res.notes
           /\ Outcome(t, res, evaluated', evaluatedAt')
<1>1. PICK t : t = [ApplyConfigPolicy(state, ConfigVersion) EXCEPT !.lastRun = evaluated']
  OBVIOUS
<1>2. PICK reading, res :
        reading = Reading(config, p) /\ res = EvaluateEvent(t, reading, evaluated', evaluatedAt')
  OBVIOUS
<1>3. /\ reading \in AnyReading
      /\ evaluatedAt' \in Nat
      /\ evaluated' \in 1..MaxEvaluations
      /\ state' = res.state
      /\ notes' = notes \o res.notes
  BY <1>1, <1>2, EvaluateRunResult
<1>4. /\ t \in EvalStates /\ t.version = ConfigVersion
      /\ t.triggered <=> state.triggered
      /\ t.triggered => t.level = state.level
  <2>1. state \in EvalStates /\ ConfigVersion \in Nat /\ evaluated' \in Nat
    BY <1>3, TrackingAssumption DEF TrackingTyped, ConfigVersion
  <2>2. PICK u : u = ApplyConfigPolicy(state, ConfigVersion)
    OBVIOUS
  <2>3. u \in EvalStates /\ u.version = ConfigVersion
    BY <2>1, <2>2, ApplyConfigPolicyType
  <2>4. /\ u.triggered <=> state.triggered
        /\ u.triggered => u.level = state.level
    BY <2>1, <2>2 DEF ApplyConfigPolicy, StateIsOfConfig, EvalStates
  <2>5. t = [u EXCEPT !.lastRun = evaluated']
    BY <1>1, <2>2
  <2> QED
    BY ONLY <2>1, <2>3, <2>4, <2>5 DEF EvalStates
<1>5. Outcome(t, res, evaluated', evaluatedAt')
  <2>1. evaluated' \in Nat /\ evaluatedAt' \in Int
    BY <1>3, TrackingAssumption
  <2> QED
    BY <1>2, <1>3, <1>4, <2>1, EvaluateEventOutcome
<1> QED
  BY <1>2, <1>3, <1>4, <1>5

LEMMA LevelsInductive ==
  ASSUME NotifyOnClear
  PROVE  /\ TrackingTyped /\ StateIsOfRun
         /\ CrossingsAreOpen /\ StateIsOfConfig /\ AtMostOneAlertPerLevel
         /\ [TrackingNext]_trackingVars
         => CrossingsAreOpen' /\ StateIsOfConfig' /\ AtMostOneAlertPerLevel'
<1> SUFFICES ASSUME TrackingTyped, StateIsOfRun, CrossingsAreOpen, StateIsOfConfig,
                    AtMostOneAlertPerLevel, [TrackingNext]_trackingVars
             PROVE  CrossingsAreOpen' /\ StateIsOfConfig' /\ AtMostOneAlertPerLevel'
  OBVIOUS
<1>1. CASE UNCHANGED trackingVars
  <2>1. notes' = notes /\ state' = state
    BY <1>1 DEF trackingVars
  <2>2. CrossingsAreOpen'
    BY <2>1 DEF CrossingsAreOpen
  <2>3. StateIsOfConfig'
    BY <2>1 DEF StateIsOfConfig
  <2>4. AtMostOneAlertPerLevel'
    BY <2>1 DEF AtMostOneAlertPerLevel
  <2> QED
    BY <2>2, <2>3, <2>4
<1>2. ASSUME NEW p \in Points, NEW delay \in 0..MaxDelay, EvaluateRun(p, delay)
      PROVE  CrossingsAreOpen' /\ StateIsOfConfig' /\ AtMostOneAlertPerLevel'
  <2>3. PICK t, res :
          /\ t \in EvalStates /\ t.version = ConfigVersion
          /\ t.triggered <=> state.triggered
          /\ t.triggered => t.level = state.level
          /\ state' = res.state /\ notes' = notes \o res.notes
          /\ Outcome(t, res, evaluated', evaluatedAt')
    BY <1>2, EvaluatedState
  <2>6. /\ notes \in Seq(Notifications) /\ Len(notes) \in Nat
        /\ \A i \in 1..Len(notes) : notes[i].level \in Nat
        /\ state.level \in Nat
    <3>1. notes \in Seq(Notifications) /\ Len(notes) \in Nat
      BY DEF TrackingTyped
    <3>2. \A i \in 1..Len(notes) : notes[i] \in Notifications
      BY <3>1
    <3>3. \A i \in 1..Len(notes) : notes[i].level \in Nat
      BY ONLY <3>2 DEF Notifications
    <3>4. state.level \in Nat
      BY DEF TrackingTyped, EvalStates
    <3> QED
      BY <3>1, <3>3, <3>4
  <2>7. StateIsOfConfig'
    BY <2>3 DEF Outcome, StateIsOfConfig, ConfigVersion
  <2>8. CASE res.notes = << >> /\ res.state = t
    <3>1. notes' = notes
      BY <2>3, <2>6, <2>8
    <3>2. CrossingsAreOpen'
      BY <2>3, <2>8, <3>1 DEF CrossingsAreOpen
    <3>3. AtMostOneAlertPerLevel'
      BY <3>1 DEF AtMostOneAlertPerLevel
    <3> QED
      BY <2>7, <3>2, <3>3
  <2>9. ASSUME NEW n \in Notifications, res.notes = <<n>>,
               \/ Crossed(t, res, n, evaluatedAt')
               \/ Cleared(t, res, n)
        PROVE  CrossingsAreOpen' /\ AtMostOneAlertPerLevel'
    <3>1. /\ notes' = Append(notes, n)
          /\ Len(notes') = Len(notes) + 1
          /\ notes'[Len(notes) + 1] = n
          /\ \A i \in 1..Len(notes) : notes'[i] = notes[i]
      BY <2>3, <2>6, <2>9
    <3>2. n.level \in Nat
      BY DEF Notifications
    <3>3. PICK l \in Nat : l = Len(notes)
      BY <2>6
    <3>4. CASE n.kind = "threshold_cleared"
      <4>1. CrossingsAreOpen'
        <5>1. ASSUME NEW i \in 1..l + 1, notes'[i].kind = "threshold_crossed"
              PROVE  \E k \in i + 1 .. l + 1 : notes'[k].kind = "threshold_cleared"
          <6>1. i # l + 1
            BY <3>1, <3>3, <3>4, <5>1
          <6>2. l + 1 \in i + 1 .. l + 1
            BY <6>1
          <6> QED
            BY <3>1, <3>3, <3>4, <6>2
        <5> QED
          BY <3>1, <3>3, <5>1 DEF CrossingsAreOpen
      <4>2. AtMostOneAlertPerLevel'
        BY <3>1, <3>3, <3>4 DEF AtMostOneAlertPerLevel
      <4> QED
        BY <4>1, <4>2
    <3>5. CASE Crossed(t, res, n, evaluatedAt')
      <4>1. /\ n.kind = "threshold_crossed" /\ state'.triggered /\ state'.level = n.level
            /\ state.triggered => n.level > state.level
        BY <2>3, <3>5 DEF Crossed
      <4>2. ASSUME NEW i \in 1..l, notes[i].kind = "threshold_crossed"
            PROVE  \/ \E k \in i + 1 .. l : notes[k].kind = "threshold_cleared"
                   \/ notes[i].level < n.level
        BY <2>6, <3>2, <3>3, <4>1, <4>2 DEF CrossingsAreOpen
      <4>3. \A i \in 1..l : \A k \in i + 1 .. l : k \in 1..l /\ k \in i + 1 .. l + 1
        OBVIOUS
      <4>4. CrossingsAreOpen'
        <5>1. ASSUME NEW i \in 1..l + 1, notes'[i].kind = "threshold_crossed"
              PROVE  \/ \E k \in i + 1 .. l + 1 : notes'[k].kind = "threshold_cleared"
                     \/ notes'[i].level <= n.level
          <6>1. CASE i = l + 1
            BY <3>1, <3>2, <3>3, <6>1
          <6>2. CASE i \in 1..l
            <7>1. notes'[i] = notes[i] /\ notes[i].kind = "threshold_crossed"
              BY <3>1, <3>3, <5>1, <6>2
            <7>2. CASE notes[i].level < n.level
              BY <2>6, <3>2, <3>3, <6>2, <7>1, <7>2
            <7>3. ASSUME NEW k \in i + 1 .. l, notes[k].kind = "threshold_cleared"
                  PROVE  /\ k \in i + 1 .. l + 1
                         /\ notes'[k].kind = "threshold_cleared"
              BY <3>1, <3>3, <4>3, <6>2, <7>3
            <7> QED
              BY <4>2, <6>2, <7>1, <7>2, <7>3
          <6> QED
            BY <6>1, <6>2
        <5> QED
          BY <3>1, <3>3, <4>1, <5>1 DEF CrossingsAreOpen
      <4>5. AtMostOneAlertPerLevel'
        <5>1. ASSUME NEW i \in 1..l + 1, NEW j \in 1..l + 1, i < j,
                     notes'[i].kind = "threshold_crossed",
                     notes'[j].kind = "threshold_crossed",
                     notes'[i].level >= notes'[j].level
              PROVE  \E k \in i + 1 .. j : notes'[k].kind = "threshold_cleared"
          <6>1. i \in 1..l
            BY <5>1
          <6>2. CASE j = l + 1
            <7>1. notes[i].kind = "threshold_crossed" /\ notes[i].level >= n.level
              BY <3>1, <3>3, <5>1, <6>1, <6>2
            <7>2. ~(notes[i].level < n.level)
              BY <2>6, <3>2, <3>3, <6>1, <7>1
            <7>3. PICK k \in i + 1 .. l : notes[k].kind = "threshold_cleared"
              BY <4>2, <6>1, <7>1, <7>2
            <7>4. k \in 1..l /\ k \in i + 1 .. l + 1
              BY <4>3, <6>1
            <7> QED
              BY <3>1, <3>3, <6>2, <7>3, <7>4
          <6>3. CASE j \in 1..l
            <7>1. PICK k \in i + 1 .. j : notes[k].kind = "threshold_cleared"
              BY <3>1, <3>3, <5>1, <6>1, <6>3 DEF AtMostOneAlertPerLevel
            <7>2. k \in 1..l
              BY ONLY l \in Nat, i \in 1..l + 1, k \in i + 1 .. j, <6>1, <6>3
            <7>3. notes'[k] = notes[k]
              BY <3>1, <3>3, <7>2
            <7> QED
              BY <7>1, <7>3
          <6> QED
            BY <6>2, <6>3
        <5>2. Len(notes') = l + 1
          BY <3>1, <3>3
        <5> QED
          BY ONLY <5>1, <5>2 DEF AtMostOneAlertPerLevel
      <4> QED
        BY <4>4, <4>5
    <3> QED
      BY <2>9, <3>4, <3>5 DEF Cleared
  <2> QED
    BY <2>3, <2>7, <2>8, <2>9 DEF Outcome
<1> QED
  BY <1>1, <1>2 DEF TrackingNext

(* Where clearances are announced, a user receives from one clearance to   *)
(* the next at most one alert per escalation level, whatever the           *)
(* conditions, the forecasts and the cooldown: state.level is the highest  *)
(* level announced since the last clearance, and escalating means to go    *)
(* beyond it.                                                              *)
THEOREM OneAlertPerLevel ==
  ASSUME NotifyOnClear
  PROVE  Tracking => []AtMostOneAlertPerLevel
<1>1. TrackingInit => CrossingsAreOpen /\ StateIsOfConfig /\ AtMostOneAlertPerLevel
  BY DEF TrackingInit, NoState, CrossingsAreOpen, StateIsOfConfig, AtMostOneAlertPerLevel
<1>2. /\ TrackingTyped /\ StateIsOfRun
      /\ CrossingsAreOpen /\ StateIsOfConfig /\ AtMostOneAlertPerLevel
      /\ [TrackingNext]_trackingVars
      => CrossingsAreOpen' /\ StateIsOfConfig' /\ AtMostOneAlertPerLevel'
  BY LevelsInductive
<1> QED
  BY <1>1, <1>2, AlwaysTrackingTyped, PTL DEF Tracking

-----------------------------------------------------------------------------
(* Fluctuations. *)

(* A condition that has a buffer of the size of Margin: equalities have    *)
(* none, and that of a single-valued operator shrinks below zero.          *)
HasBuffer(c) ==
  /\ c.operator \in {">", ">=", "<", "<=", "between", "outside"}
  /\ c.operator \in {">", ">=", "<", "<="} /\ c.threshold # << >>
       => c.threshold[1] >= 0

LEMMA MagnitudeBounds ==
  ASSUME NEW a \in Int, NEW b \in Int, NEW m \in Int, Magnitude(b - a) <= m
  PROVE  a - m <= b /\ b <= a + m
  BY DEF Magnitude

LEMMA FluctuationIsStillMet ==
  ASSUME NEW c \in Conds, NEW a \in Int, NEW b \in Int, HasBuffer(c),
         CheckCondition(a, c),
         \A j \in 1..Len(c.threshold) : Magnitude(b - a) <= Margin(c, j)
  PROVE  CheckWithHysteresis(b, c)
<1>1. PICK th \in Seq(Int) : th = c.threshold
  BY DEF Conds
<1>2. Len(th) \in Nat /\ Len(th) >= 1 /\ th[1] \in Int
  BY <1>1 DEF CheckCondition
<1>3. PICK buffer \in Nat : buffer = AbsoluteBuffer(c.variable)
  BY BufferType
<1>4. ASSUME NEW j \in 1..Len(th)
      PROVE  \E m \in Nat : /\ m = Magnitude(th[j])
                            /\ a - (m + buffer) <= b /\ b <= a + (m + buffer)
  <2>1. th[j] \in Int
    BY <1>1
  <2>2. PICK m \in Nat : m = Magnitude(th[j])
    BY ONLY <2>1, MagnitudeType
  <2>3. Magnitude(b - a) <= m + buffer
    BY <1>1, <1>3, <2>2 DEF Margin
  <2>4. a - (m + buffer) <= b /\ b <= a + (m + buffer)
    <3>1. m + buffer \in Int
      OBVIOUS
    <3> QED
      BY ONLY <2>3, <3>1, a \in Int, b \in Int, MagnitudeBounds
  <2> QED
    BY <2>2, <2>4
<1>5. CASE c.operator \in {">", ">=", "<", "<="}
  <2>1. PICK t \in Nat : t = th[1]
    BY <1>1, <1>2, <1>5 DEF HasBuffer
  <2>2. Magnitude(t) = t
    BY ONLY t \in Nat DEF Magnitude
  <2>3. a - (t + buffer) <= b /\ b <= a + (t + buffer)
    <3>1. 1 \in 1..Len(th)
      BY <1>2
    <3>2. PICK m \in Nat : /\ m = Magnitude(th[1])
                           /\ a - (m + buffer) <= b /\ b <= a + (m + buffer)
      BY <1>4, <3>1
    <3> QED
      BY <2>1, <2>2, <3>2
  <2>4. /\ a >= 10 * t => b >= 10 * t - t - buffer
        /\ a > 10 * t  => b >= 10 * t - t - buffer
        /\ a <= 10 * t => b <= 10 * t + t + buffer
        /\ a < 10 * t  => b <= 10 * t + t + buffer
    BY ONLY <2>3, a \in Int, b \in Int, t \in Nat, buffer \in Nat
  <2> QED
    BY <1>1, <1>2, <1>3, <1>5, <2>1, <2>4 DEF CheckCondition, CheckWithHysteresis
<1>6. CASE c.operator \in {"between", "outside"}
  <2>1. Len(th) >= 2 /\ th[2] \in Int
    BY <1>1, <1>2, <1>6 DEF CheckCondition
  <2>2. PICK t1 \in Int, t2 \in Int : t1 = th[1] /\ t2 = th[2]
    BY <1>2, <2>1
  <2>3. PICK m1 \in Nat, m2 \in Nat :
          /\ m1 = Magnitude(th[1]) /\ m2 = Magnitude(th[2])
          /\ a - (m1 + buffer) <= b /\ b <= a + (m1 + buffer)
          /\ a - (m2 + buffer) <= b /\ b <= a + (m2 + buffer)
    <3>1. 1 \in 1..Len(th) /\ 2 \in 1..Len(th)
      BY <1>2, <2>1
    <3>2. PICK m \in Nat : /\ m = Magnitude(th[1])
                           /\ a - (m + buffer) <= b /\ b <= a + (m + buffer)
      BY <1>4, <3>1
    <3>3. PICK n \in Nat : /\ n = Magnitude(th[2])
                           /\ a - (n + buffer) <= b /\ b <= a + (n + buffer)
      BY <1>4, <3>1
    <3> QED
      BY <3>2, <3>3
  <2>4. /\ a >= 10 * t1 => 10 * t1 - m1 - buffer <= b
        /\ a <= 10 * t2 => b <= 10 * t2 + m2 + buffer
        /\ a < 10 * t1  => b < 10 * t1 + m1 + buffer
        /\ a > 10 * t2  => b > 10 * t2 - m2 - buffer
    <3>1. /\ a - (m1 + buffer) <= b /\ b <= a + (m1 + buffer)
          /\ a - (m2 + buffer) <= b /\ b <= a + (m2 + buffer)
      BY <2>3
    <3> QED
      BY ONLY <3>1, a \in Int, b \in Int, t1 \in Int, t2 \in Int, m1 \in Nat, m2 \in Nat,
              buffer \in Nat
  <2>5. m1 = Magnitude(th[1]) /\ m2 = Magnitude(th[2])
    BY <2>3
  <2>6. CASE c.operator = "between"
    <3>1. 10 * t1 <= a /\ a <= 10 * t2
      BY <1>1, <2>2, <2>6 DEF CheckCondition
    <3>2. 10 * t1 - m1 - buffer <= b /\ b <= 10 * t2 + m2 + buffer
      BY ONLY <2>4, <3>1, a \in Int, t1 \in Int, t2 \in Int
    <3>3. /\ 10 * th[1] - Magnitude(th[1]) - AbsoluteBuffer(c.variable) <= b
          /\ b <= 10 * th[2] + Magnitude(th[2]) + AbsoluteBuffer(c.variable)
      BY ONLY <1>3, <2>2, <2>5, <3>2
    <3> QED
      BY ONLY <1>1, <2>1, <2>6, <3>3 DEF CheckWithHysteresis
  <2>7. CASE c.operator = "outside"
    <3>1. a < 10 * t1 \/ a > 10 * t2
      BY <1>1, <2>2, <2>7 DEF CheckCondition
    <3>2. b < 10 * t1 + m1 + buffer \/ b > 10 * t2 - m2 - buffer
      BY ONLY <2>4, <3>1, a \in Int, t1 \in Int, t2 \in Int
    <3>3. \/ b < 10 * th[1] + Magnitude(th[1]) + AbsoluteBuffer(c.variable)
          \/ b > 10 * th[2] - Magnitude(th[2]) - AbsoluteBuffer(c.variable)
      BY ONLY <1>3, <2>2, <2>5, <3>2
    <3> QED
      BY ONLY <1>1, <2>1, <2>7, <3>3 DEF CheckWithHysteresis
  <2> QED
    BY <1>6, <2>6, <2>7
<1> QED
  BY <1>5, <1>6 DEF HasBuffer

LEMMA FluctuationKeepsMet ==
  ASSUME NEW cfg \in Configs, NEW p \in Points, NEW q \in Points,
         \A i \in 1..Len(cfg.conditions) : HasBuffer(cfg.conditions[i]),
         Met(cfg, p), Fluctuates(cfg, p, q)
  PROVE  StillMet(cfg, q)
<1> DEFINE conds == cfg.conditions
           met == {i \in 1..Len(conds) : CheckCondition(Actual(p, conds[i].variable), conds[i])}
           still == {i \in 1..Len(conds) :
                       CheckWithHysteresis(Actual(q, conds[i].variable), conds[i])}
<1>1. met \subseteq still
  <2> SUFFICES ASSUME NEW i \in 1..Len(conds),
                      CheckCondition(Actual(p, conds[i].variable), conds[i])
               PROVE  CheckWithHysteresis(Actual(q, conds[i].variable), conds[i])
    OBVIOUS
  <2>1. PICK c \in Conds : c = conds[i]
    BY DEF Configs
  <2>2. Actual(p, c.variable) \in Int /\ Actual(q, c.variable) \in Int
    BY ActualType
  <2>3. \A j \in 1..Len(c.threshold) :
           Magnitude(Actual(q, c.variable) - Actual(p, c.variable)) <= Margin(c, j)
    BY <2>1 DEF Fluctuates
  <2> QED
    BY <2>1, <2>2, <2>3, FluctuationIsStillMet
<1>2. Combine(cfg, met)
  BY DEF Met
<1>3. Combine(cfg, still)
  BY <1>1, <1>2 DEF Combine
<1> QED
  BY <1>3 DEF StillMet

BuffersFit ==
  \A cfg \in Monitored : \A i \in 1..Len(cfg.conditions) : HasBuffer(cfg.conditions[i])

LEMMA ConfigInductive ==
  TrackingTyped /\ StateIsOfRun /\ StateIsOfConfig /\ [TrackingNext]_trackingVars => StateIsOfConfig'
<1> SUFFICES ASSUME TrackingTyped, StateIsOfRun, StateIsOfConfig, [TrackingNext]_trackingVars
             PROVE  StateIsOfConfig'
  OBVIOUS
<1>1. CASE UNCHANGED trackingVars
  BY <1>1 DEF StateIsOfConfig, trackingVars
<1>2. ASSUME NEW p \in Points, NEW delay \in 0..MaxDelay, EvaluateRun(p, delay)
      PROVE  StateIsOfConfig'
  <2>1. PICK t, res :
          /\ t \in EvalStates /\ t.version = ConfigVersion
          /\ state' = res.state /\ Outcome(t, res, evaluated', evaluatedAt')
    BY <1>2, EvaluatedState
  <2> QED
    BY <2>1 DEF Outcome, StateIsOfConfig
<1> QED
  BY <1>1, <1>2 DEF TrackingNext

(* Alerts do not flap: where every condition has a buffer, a fluctuation   *)
(* within it clears no alert whose conditions the last forecast met.       *)
THEOREM AlertsDoNotFlap ==
  ASSUME BuffersFit
  PROVE  Tracking => FluctuationKeepsAlert
<1>1. ASSUME TrackingTyped, StateIsOfRun, StateIsOfConfig, [TrackingNext]_trackingVars,
             state.triggered, Met(config, point), Fluctuates(config, point, point')
      PROVE  state'.triggered
  <2>1. CASE UNCHANGED trackingVars
    BY <1>1, <2>1 DEF trackingVars
  <2>2. ASSUME NEW p \in Points, NEW delay \in 0..MaxDelay, EvaluateRun(p, delay)
        PROVE  state'.triggered
    <3>1. PICK t, reading :
            /\ t \in EvalStates /\ (t.triggered <=> state.triggered)
            /\ reading = Reading(config, p)
            /\ state' = EvaluateEvent(t, reading, evaluated', evaluatedAt').state
      BY <1>1, <2>2, EvaluatedState
    <3>2. StillMet(config, p)
      <4>1. config \in Configs /\ config \in Monitored /\ point \in Points /\ point' = p
        BY <1>1, <2>2, TrackingAssumption DEF TrackingTyped, EvaluateRun
      <4> QED
        BY <1>1, <4>1, FluctuationKeepsMet DEF BuffersFit
    <3>3. reading.held
      BY <3>1, <3>2 DEF Reading
    <3>4. StayTriggered(t, reading, evaluated', evaluatedAt').state.triggered
      BY <1>1, <3>1 DEF StayTriggered, Notified, Silent, EvalStates
    <3> QED
      BY <1>1, <3>1, <3>3, <3>4 DEF EvaluateEvent
  <2> QED
    BY <1>1, <2>1, <2>2 DEF TrackingNext
<1>2. TrackingInit => StateIsOfConfig
  BY DEF TrackingInit, NoState, StateIsOfConfig
<1>3. TrackingTyped /\ StateIsOfRun /\ StateIsOfConfig /\ [TrackingNext]_trackingVars =>
        [state.triggered /\ Met(config, point) /\ Fluctuates(config, point, point')
         => state'.triggered]_trackingVars
  BY <1>1
<1> QED
  BY <1>2, <1>3, ConfigInductive, AlwaysTrackingTyped, PTL DEF Tracking, FluctuationKeepsAlert

-----------------------------------------------------------------------------
(* The pipeline.                                                           *)

(* Types, with what the later arguments need to know of the workers: one   *)
(* that is not idle holds a message, and its results announce themselves.  *)
WorkersHold == \A w \in Workers : pc[w] # "idle" => held[w] \in Messages

ResultsAnnounce ==
  \A w \in Workers : \A wp \in WatchPoints : Announces(result[w][wp])

Typed == TypeOK /\ WorkersHold /\ ResultsAnnounce

LEMMA InitTyped == Init => Typed
<1> SUFFICES ASSUME Init PROVE Typed
  OBVIOUS
<1>1. NeverEscalated \in Int
  BY DEF NeverEscalated
<1>2. NoState \in EvalStates
  BY <1>1 DEF NoState, EvalStates, NoRun
<1>3. TypeOK
  BY <1>2, SkippedType, ConstantsAssumption DEF Init, TypeOK, Versions, Times
<1>4. WorkersHold
  BY DEF Init, WorkersHold
<1>5. ResultsAnnounce
  BY SkippedType DEF Init, ResultsAnnounce
<1> QED
  BY <1>3, <1>4, <1>5 DEF Typed

(* Releasing a worker leaves it idle and well typed. *)
LEMMA ReleaseTyped ==
  ASSUME Typed, NEW w \in Workers, Release(w)
  PROVE  /\ pc' \in [Workers -> {"idle", "fetch", "evaluate", "commit", "publish"}]
         /\ held' \in [Workers -> Messages \cup {NoMessage}]
         /\ fetched' \in [Workers -> [WatchPoints -> Versions \cup {0}]]
         /\ result' \in [Workers -> [WatchPoints -> Results]]
         /\ outdated' \in [Workers -> SUBSET WatchPoints]
         /\ outbox' \in [Workers -> SUBSET (WatchPoints \X Nat)]
         /\ WorkersHold'
         /\ ResultsAnnounce'
<1> USE DEF Release, Typed, TypeOK
<1>1. pc' \in [Workers -> {"idle", "fetch", "evaluate", "commit", "publish"}]
  OBVIOUS
<1>2. held' \in [Workers -> Messages \cup {NoMessage}]
  OBVIOUS
<1>3. fetched' \in [Workers -> [WatchPoints -> Versions \cup {0}]]
  OBVIOUS
<1>4. result' \in [Workers -> [WatchPoints -> Results]]
  BY SkippedType
<1>5. outbox' \in [Workers -> SUBSET (WatchPoints \X Nat)]
  OBVIOUS
<1>6. WorkersHold'
  BY DEF WorkersHold
<1>7. ResultsAnnounce'
  BY SkippedType DEF ResultsAnnounce
<1>8. outdated' \in [Workers -> SUBSET WatchPoints]
  OBVIOUS
<1> QED
  BY <1>1, <1>2, <1>3, <1>4, <1>5, <1>6, <1>7, <1>8

(* What commit_batch has to publish: rows it appends to updated histories. *)
LEMMA InsertedByMembers ==
  ASSUME NEW res, NEW n \in InsertedBy(res)
  PROVE  \E wp \in UpdatedBy(res) :
           \E i \in Len(history[wp]) + 1 .. Len(history[wp]) + Len(res[wp].notes) :
              n = <<wp, i>>
  BY DEF InsertedBy

(* Every step keeps the types. *)
LEMMA NextTyped == Typed /\ [Next]_vars => Typed'
<1> SUFFICES ASSUME Typed, [Next]_vars PROVE Typed'
  OBVIOUS
<1> USE DEF Typed, TypeOK, dbVars, queueVars, workerVars
<1>1. CASE UNCHANGED vars
  BY <1>1 DEF vars, WorkersHold, ResultsAnnounce
<1>2. ASSUME NEW r \in Runs, DispatchRun(r) PROVE Typed'
  <2>1. dispatched' \in [Runs -> 0..MaxDispatch]
    BY <1>2, ConstantsAssumption DEF DispatchRun
  <2>2. queue' \subseteq Messages
    BY <1>2, ConstantsAssumption DEF DispatchRun, Messages
  <2> QED
    BY <1>2, <2>1, <2>2 DEF DispatchRun, WorkersHold, ResultsAnnounce
<1>3. ASSUME NEW w \in Workers, NEW m \in Messages, Receive(w, m) PROVE Typed'
  <2>1. receives' \in [Messages -> 0..MaxReceive]
    BY <1>3, ConstantsAssumption DEF Receive
  <2>2. pc' \in [Workers -> {"idle", "fetch", "evaluate", "commit", "publish"}]
    BY <1>3 DEF Receive
  <2>3. held' \in [Workers -> Messages \cup {NoMessage}]
    BY <1>3 DEF Receive
  <2> QED
    BY <1>3, <2>1, <2>2, <2>3 DEF Receive, WorkersHold, ResultsAnnounce
<1>4. ASSUME NEW m \in Messages, MoveToDLQ(m) PROVE Typed'
  BY <1>4 DEF MoveToDLQ, WorkersHold, ResultsAnnounce
<1>5. ASSUME NEW w \in Workers, DiscardForecast(w) PROVE Typed'
  BY <1>5, ReleaseTyped DEF DiscardForecast, Ack
<1>6. ASSUME NEW w \in Workers, FetchWatchPoints(w) PROVE Typed'
  <2>1. CASE Ack(held[w]) /\ Release(w)
    BY <1>6, <2>1, ReleaseTyped DEF FetchWatchPoints, Ack
  <2>2. CASE /\ fetched' = [fetched EXCEPT ![w] =
                   [wp \in WatchPoints |->
                      IF wp \in OnPage(held[w].page) THEN version[wp] ELSE 0]]
             /\ pc' = [pc EXCEPT ![w] = "evaluate"]
             /\ UNCHANGED <<queue, held, result, outdated, outbox>>
    <3>1. fetched' \in [Workers -> [WatchPoints -> Versions \cup {0}]]
      BY <2>2
    <3>2. pc' \in [Workers -> {"idle", "fetch", "evaluate", "commit", "publish"}]
      BY <2>2
    <3>3. WorkersHold' /\ ResultsAnnounce'
      BY <1>6, <2>2 DEF FetchWatchPoints, WorkersHold, ResultsAnnounce
    <3> QED
      BY <1>6, <2>2, <3>1, <3>2, <3>3 DEF FetchWatchPoints
  <2> QED
    BY <1>6, <2>1, <2>2 DEF FetchWatchPoints
<1>7. ASSUME NEW w \in Workers, EvaluateBatch(w) PROVE Typed'
  <2>1. CASE Ack(held[w]) /\ Release(w)
    BY <1>7, <2>1, ReleaseTyped DEF EvaluateBatch, Ack
  <2>2. CASE /\ result' = [result EXCEPT ![w] = Evaluation(w)]
             /\ fetched' = [fetched EXCEPT ![w] = [wp \in WatchPoints |-> 0]]
             /\ outdated' = [outdated EXCEPT ![w] = OlderConfig(w)]
             /\ pc' = [pc EXCEPT ![w] = "commit"]
             /\ UNCHANGED <<queue, held, outbox>>
    <3>1. ASSUME NEW wp \in WatchPoints
          PROVE  Evaluation(w)[wp] \in Results /\ Announces(Evaluation(w)[wp])
      <4>1. CASE fetched[w][wp] = 0
        BY <4>1, SkippedType DEF Evaluation
      <4>2. CASE fetched[w][wp] # 0
        <5>1. fetched[w][wp] \in Versions /\ fetched[w][wp] \in Nat
          BY <4>2 DEF Versions
        <5>2. held[w] \in Messages
          BY <1>7 DEF EvaluateBatch, WorkersHold
        <5>3. held[w].run \in Runs /\ held[w].run \in Nat
          BY <5>2 DEF Messages, Runs
        <5>4. forecast[held[w].run][wp][fetched[w][wp]] \in Readings
          BY <5>1, <5>3
        <5>4a. forecast[held[w].run][wp][fetched[w][wp]] \in AnyReading
          BY <5>4, ConstantsAssumption DEF AnyReading
        <5>5. evalState[wp] \in EvalStates /\ clock \in Int
          BY DEF Times
        <5>6. /\ EvaluateOne(evalState[wp], fetched[w][wp],
                             forecast[held[w].run][wp][fetched[w][wp]],
                             held[w].run, clock) \in Results
              /\ Announces(EvaluateOne(evalState[wp], fetched[w][wp],
                             forecast[held[w].run][wp][fetched[w][wp]],
                             held[w].run, clock))
          BY ONLY <5>1, <5>3, <5>4a, <5>5, EvaluateOneType
        <5> QED
          BY <4>2, <5>6 DEF Evaluation
      <4> QED
        BY <4>1, <4>2
    <3>2. Evaluation(w) \in [WatchPoints -> Results]
      BY <3>1 DEF Evaluation
    <3>3. result' \in [Workers -> [WatchPoints -> Results]]
      BY <2>2, <3>2
    <3>4. fetched' \in [Workers -> [WatchPoints -> Versions \cup {0}]]
      BY <2>2
    <3>5. pc' \in [Workers -> {"idle", "fetch", "evaluate", "commit", "publish"}]
      BY <2>2
    <3>6. WorkersHold'
      BY <1>7, <2>2 DEF EvaluateBatch, WorkersHold
    <3>7. ResultsAnnounce'
      BY <2>2, <3>1 DEF ResultsAnnounce
    <3>8. outdated' \in [Workers -> SUBSET WatchPoints]
      BY <2>2 DEF OlderConfig
    <3> QED
      BY <1>7, <2>2, <3>3, <3>4, <3>5, <3>6, <3>7, <3>8 DEF EvaluateBatch
  <2> QED
    BY <1>7, <2>1, <2>2 DEF EvaluateBatch
<1>8. ASSUME NEW w \in Workers, Commit(w) PROVE Typed'
  <2>1. evalState' \in [WatchPoints -> EvalStates]
    BY <1>8 DEF Commit, Results
  <2>2. history' \in [WatchPoints -> Seq(Notifications)]
    <3>1. ASSUME NEW wp \in WatchPoints
          PROVE  history[wp] \o result[w][wp].notes \in Seq(Notifications)
      <4>1. /\ history[wp] \in Seq(Notifications)
            /\ result[w][wp].notes \in Seq(Notifications)
        BY DEF Results
      <4> QED
        BY <4>1, ConcatProperties
    <3> QED
      BY <1>8, <3>1 DEF Commit
  <2>3. outbox' \in [Workers -> SUBSET (WatchPoints \X Nat)]
    <3>1. InsertedBy(result[w]) \subseteq WatchPoints \X Nat
      <4>1. ASSUME NEW wp \in WatchPoints
            PROVE  Len(history[wp]) + 1 .. Len(history[wp]) + Len(result[w][wp].notes)
                     \subseteq Nat
        <5>1. Len(history[wp]) \in Nat /\ Len(result[w][wp].notes) \in Nat
          BY LenProperties DEF Results
        <5> QED
          BY <5>1
      <4>2. ASSUME NEW n \in InsertedBy(result[w])
            PROVE  n \in WatchPoints \X Nat
        <5>1. PICK wp \in UpdatedBy(result[w]) :
                \E i \in Len(history[wp]) + 1 ..
                            Len(history[wp]) + Len(result[w][wp].notes) :
                   n = <<wp, i>>
          BY <4>2, InsertedByMembers
        <5>2. wp \in WatchPoints
          BY DEF UpdatedBy
        <5> QED
          BY <4>1, <5>1, <5>2
      <4> QED
        BY <4>2
    <3> QED
      BY <1>8, <3>1 DEF Commit
  <2>4. result' \in [Workers -> [WatchPoints -> Results]]
    BY <1>8, SkippedType DEF Commit
  <2>5. pc' \in [Workers -> {"idle", "fetch", "evaluate", "commit", "publish"}]
    BY <1>8 DEF Commit
  <2>6. WorkersHold'
    BY <1>8 DEF Commit, WorkersHold
  <2>7. ResultsAnnounce'
    BY <1>8, SkippedType DEF Commit, ResultsAnnounce
  <2>8. overwritten' \subseteq WatchPoints
    BY <1>8 DEF Commit, UpdatedBy
  <2>9. outdated' \in [Workers -> SUBSET WatchPoints]
    BY <1>8 DEF Commit, UpdatedBy
  <2> QED
    BY <1>8, <2>1, <2>2, <2>3, <2>4, <2>5, <2>6, <2>7, <2>8, <2>9 DEF Commit
<1>9. ASSUME NEW w \in Workers, Publish(w) PROVE Typed'
  <2>1. PICK n \in outbox[w] : /\ published' = published \cup {n}
                               /\ outbox' = [outbox EXCEPT ![w] = @ \ {n}]
    BY <1>9 DEF Publish
  <2>2. published' \subseteq WatchPoints \X Nat
    BY <2>1
  <2>3. outbox' \in [Workers -> SUBSET (WatchPoints \X Nat)]
    BY <2>1
  <2> QED
    BY <1>9, <2>2, <2>3 DEF Publish, WorkersHold, ResultsAnnounce
<1>10. ASSUME NEW w \in Workers, Finish(w) PROVE Typed'
  BY <1>10, ReleaseTyped DEF Finish, Ack
<1>11. ASSUME NEW w \in Workers, Fail(w) PROVE Typed'
  <2>1. queue' \subseteq Messages
    BY <1>11 DEF Fail, Nack, Ack
  <2>2. faults' \in 0..MaxFaults
    BY <1>11, ConstantsAssumption DEF Fail
  <2>3. dropped' \subseteq Messages
    BY <1>11 DEF Fail, Nack, WorkersHold
  <2> QED
    BY <1>11, <2>1, <2>2, <2>3, ReleaseTyped DEF Fail
<1>12. ASSUME NEW w \in Workers, Crash(w) PROVE Typed'
  <2>1. faults' \in 0..MaxFaults
    BY <1>12, ConstantsAssumption DEF Crash
  <2> QED
    BY <1>12, <2>1, ReleaseTyped DEF Crash
<1>13. ASSUME NEW wp \in WatchPoints, UpdateConfig(wp) PROVE Typed'
  <2>1. version' \in [WatchPoints -> Versions]
    BY <1>13, ConstantsAssumption DEF UpdateConfig, Versions
  <2> QED
    BY <1>13, <2>1 DEF UpdateConfig, WorkersHold, ResultsAnnounce
<1>14. ASSUME NEW wp \in WatchPoints, Pause(wp) PROVE Typed'
  BY <1>14, ConstantsAssumption DEF Pause, WorkersHold, ResultsAnnounce
<1>15. ASSUME NEW wp \in WatchPoints, Resume(wp) PROVE Typed'
  BY <1>15, ConstantsAssumption DEF Resume, WorkersHold, ResultsAnnounce
<1>16. CASE Tick
  BY <1>16, ConstantsAssumption DEF Tick, Times, WorkersHold, ResultsAnnounce
<1> QED
  BY <1>1, <1>2, <1>3, <1>4, <1>5, <1>6, <1>7, <1>8, <1>9, <1>10, <1>11,
     <1>12, <1>13, <1>14, <1>15, <1>16
  DEF Next, Step

(* Type correctness: the workers, the queue and the tables stay in range   *)
(* in every behaviour of the pipeline.                                     *)
THEOREM TypeCorrect == Spec => []TypeOK
<1>1. Typed => TypeOK
  BY DEF Typed
<1> QED
  BY InitTyped, NextTyped, <1>1, PTL DEF Spec

LEMMA AlwaysTyped == Spec => []Typed
  BY InitTyped, NextTyped, PTL DEF Spec

-----------------------------------------------------------------------------
(* Only Commit writes the states and the notifications. *)
LEMMA OnlyCommitWrites ==
  ASSUME [Next]_vars
  PROVE  \/ UNCHANGED <<evalState, history>>
         \/ \E w \in Workers : Commit(w)
  BY DEF Next, Step, vars, dbVars, DispatchRun, Receive, MoveToDLQ,
         DiscardForecast, FetchWatchPoints, EvaluateBatch, Publish, Finish,
         Fail, Crash, UpdateConfig, Pause, Resume, Tick

(* What Commit writes for one WatchPoint: nothing, or a result that is not *)
(* older than what is stored.                                              *)
LEMMA CommitWrites ==
  ASSUME Typed, NEW w \in Workers, Commit(w), NEW wp \in WatchPoints
  PROVE  \/ /\ evalState'[wp] = evalState[wp]
            /\ history'[wp] = history[wp]
         \/ /\ evalState'[wp] = result[w][wp].state
            /\ history'[wp] = history[wp] \o result[w][wp].notes
            /\ evalState'[wp].lastRun >= evalState[wp].lastRun
<1> USE DEF Typed, TypeOK
<1>1. /\ evalState[wp].lastRun \in Nat
      /\ result[w][wp].state.lastRun \in Nat
  BY DEF EvalStates, Results
<1>2. CASE wp \in UpdatedBy(result[w])
  <2>1. result[w][wp].state.lastRun >= evalState[wp].lastRun
    BY <1>1, <1>2 DEF UpdatedBy, NoRun
  <2> QED
    BY <1>2, <2>1 DEF Commit
<1>3. CASE wp \notin UpdatedBy(result[w])
  BY <1>3 DEF Commit
<1> QED
  BY <1>2, <1>3

(* Stale write protection: no interleaving of workers, no redelivery and   *)
(* no order of the messages makes a state regress to an older run.         *)
THEOREM StaleWriteProtection == Spec => LastRunNeverDecreases
<1>1. ASSUME Typed, [Next]_vars
      PROVE  [\A wp \in WatchPoints :
                evalState'[wp].lastRun >= evalState[wp].lastRun]_vars
  <2>1. ASSUME NEW wp \in WatchPoints
        PROVE  evalState'[wp].lastRun >= evalState[wp].lastRun
    <3>1. evalState[wp].lastRun \in Nat
      BY <1>1 DEF Typed, TypeOK, EvalStates
    <3>2. CASE UNCHANGED <<evalState, history>>
      BY <3>1, <3>2
    <3>3. ASSUME NEW w \in Workers, Commit(w)
          PROVE  evalState'[wp].lastRun >= evalState[wp].lastRun
      <4>1. \/ evalState'[wp] = evalState[wp]
            \/ evalState'[wp].lastRun >= evalState[wp].lastRun
        BY <1>1, <3>3, CommitWrites
      <4> QED
        BY <3>1, <4>1
    <3> QED
      BY <1>1, <3>2, <3>3, OnlyCommitWrites
  <2> QED
    BY <2>1
<1> QED
  BY <1>1, AlwaysTyped, PTL DEF Spec, LastRunNeverDecreases

-----------------------------------------------------------------------------
(* A committed history is the old one, or the old one and the notification *)
(* of the state written with it.                                           *)
LEMMA CommitAnnounces ==
  ASSUME Typed, NEW w \in Workers, Commit(w), NEW wp \in WatchPoints
  PROVE  \/ history'[wp] = history[wp]
         \/ \E n \in Notifications :
              /\ history'[wp] = Append(history[wp], n)
              /\ n.run = evalState'[wp].lastRun
              /\ n.version = evalState'[wp].version
              /\ n.seq = evalState'[wp].seq
<1>1. history[wp] \in Seq(Notifications)
  BY DEF Typed, TypeOK
<1>2. CASE history'[wp] = history[wp]
  BY <1>2
<1>3. CASE /\ evalState'[wp] = result[w][wp].state
           /\ history'[wp] = history[wp] \o result[w][wp].notes
  <2>1. Announces(result[w][wp])
    BY DEF Typed, ResultsAnnounce
  <2>2. CASE result[w][wp].notes = << >>
    BY <1>1, <1>3, <2>2, ConcatEmptySeq
  <2>3. ASSUME NEW n \in Notifications, result[w][wp].notes = <<n>>,
               n.run = result[w][wp].state.lastRun,
               n.version = result[w][wp].state.version,
               n.seq = result[w][wp].state.seq
        PROVE  history'[wp] = Append(history[wp], n)
    BY <1>1, <1>3, <2>3
  <2> QED
    BY <1>3, <2>1, <2>2, <2>3 DEF Announces
<1> QED
  BY <1>2, <1>3, CommitWrites

(* Notifications and states are committed together.                        *)
THEOREM NotificationsMatchStates == Spec => NotifiedWithState
<1>1. ASSUME Typed, [Next]_vars
      PROVE  [\A wp \in WatchPoints :
                history'[wp] # history[wp] =>
                  LET n == history'[wp][Len(history'[wp])]
                  IN  /\ n.run = evalState'[wp].lastRun
                      /\ n.version = evalState'[wp].version
                      /\ n.seq = evalState'[wp].seq]_vars
  <2>1. ASSUME NEW wp \in WatchPoints, history'[wp] # history[wp]
        PROVE  LET n == history'[wp][Len(history'[wp])]
               IN  /\ n.run = evalState'[wp].lastRun
                   /\ n.version = evalState'[wp].version
                   /\ n.seq = evalState'[wp].seq
    <3>1. PICK w \in Workers : Commit(w)
      BY <1>1, <2>1, OnlyCommitWrites
    <3>2. PICK n \in Notifications :
            /\ history'[wp] = Append(history[wp], n)
            /\ n.run = evalState'[wp].lastRun
            /\ n.version = evalState'[wp].version
            /\ n.seq = evalState'[wp].seq
      BY <1>1, <2>1, <3>1, CommitAnnounces
    <3>3. history[wp] \in Seq(Notifications)
      BY <1>1 DEF Typed, TypeOK
    <3>4. history'[wp][Len(history'[wp])] = n
      BY <3>2, <3>3
    <3> QED
      BY <3>2, <3>4
  <2> QED
    BY <2>1
<1> QED
  BY <1>1, AlwaysTyped, PTL DEF Spec, NotifiedWithState

-----------------------------------------------------------------------------
(* The runs of a history are in order because the state is at least as new *)
(* as every notification: that is what the next commit is compared with.   *)
StateCoversHistory ==
  \A wp \in WatchPoints : \A i \in 1..Len(history[wp]) :
    history[wp][i].run <= evalState[wp].lastRun

LEMMA OrderInductive ==
  ASSUME Typed, StateCoversHistory, RunsInOrder, [Next]_vars
  PROVE  StateCoversHistory' /\ RunsInOrder'
<1>1. CASE UNCHANGED <<evalState, history>>
  BY <1>1 DEF StateCoversHistory, RunsInOrder
<1>2. ASSUME NEW w \in Workers, Commit(w)
      PROVE  StateCoversHistory' /\ RunsInOrder'
  <2>1. ASSUME NEW wp \in WatchPoints
        PROVE  /\ \A i \in 1..Len(history'[wp]) :
                     history'[wp][i].run <= evalState'[wp].lastRun
               /\ \A i, j \in 1..Len(history'[wp]) :
                     i < j => history'[wp][i].run <= history'[wp][j].run
    <3>1. /\ history[wp] \in Seq(Notifications)
          /\ evalState[wp].lastRun \in Nat
          /\ evalState'[wp].lastRun \in Nat
      <4>1. Typed'
        BY NextTyped
      <4> QED
        BY <4>1 DEF Typed, TypeOK, EvalStates
    <3>2. evalState'[wp].lastRun >= evalState[wp].lastRun
      <4>1. \/ evalState'[wp] = evalState[wp]
            \/ evalState'[wp].lastRun >= evalState[wp].lastRun
        BY <1>2, CommitWrites
      <4> QED
        BY <3>1, <4>1
    <3>3. \A i \in 1..Len(history[wp]) :
             /\ history[wp][i].run \in Nat
             /\ history[wp][i].run <= evalState'[wp].lastRun
      <4>1. \A i \in 1..Len(history[wp]) : history[wp][i] \in Notifications
        BY <3>1, ElementOfSeq
      <4>2. \A i \in 1..Len(history[wp]) : history[wp][i].run \in Nat
        BY <4>1 DEF Notifications
      <4> QED
        BY <3>1, <3>2, <4>2 DEF StateCoversHistory
    <3>4. CASE history'[wp] = history[wp]
      BY <3>3, <3>4 DEF RunsInOrder
    <3>5. ASSUME NEW n \in Notifications,
                 history'[wp] = Append(history[wp], n),
                 n.run = evalState'[wp].lastRun
          PROVE  /\ \A i \in 1..Len(history'[wp]) :
                       history'[wp][i].run <= evalState'[wp].lastRun
                 /\ \A i, j \in 1..Len(history'[wp]) :
                       i < j => history'[wp][i].run <= history'[wp][j].run
      <4>1. /\ Len(history'[wp]) = Len(history[wp]) + 1
            /\ history'[wp][Len(history[wp]) + 1] = n
            /\ \A i \in 1..Len(history[wp]) : history'[wp][i] = history[wp][i]
            /\ Len(history[wp]) \in Nat
        BY <3>1, <3>5
      <4>2. \A i \in 1..Len(history'[wp]) :
               history'[wp][i].run <= evalState'[wp].lastRun
        BY <3>1, <3>3, <3>5, <4>1
      <4>3. \A i, j \in 1..Len(history'[wp]) :
               i < j => history'[wp][i].run <= history'[wp][j].run
        BY <3>1, <3>3, <3>5, <4>1 DEF RunsInOrder
      <4> QED
        BY <4>2, <4>3
    <3> QED
      BY <1>2, <3>4, <3>5, CommitAnnounces
  <2> QED
    BY <2>1 DEF StateCoversHistory, RunsInOrder
<1> QED
  BY <1>1, <1>2, OnlyCommitWrites

(* A user is never told of an older run after a newer one.                 *)
THEOREM NotificationsInRunOrder == Spec => []RunsInOrder
<1>1. Init => StateCoversHistory /\ RunsInOrder
  BY DEF Init, StateCoversHistory, RunsInOrder
<1>2. /\ Typed /\ StateCoversHistory /\ RunsInOrder /\ [Next]_vars
      => StateCoversHistory' /\ RunsInOrder'
  BY OrderInductive
<1> QED
  BY <1>1, <1>2, AlwaysTyped, PTL DEF Spec

-----------------------------------------------------------------------------
(* What a worker has still to publish is recorded, so what it has          *)
(* published is.                                                           *)
OutboxRecorded ==
  \A w \in Workers : \A n \in outbox[w] : n[2] \in 1..Len(history[n[1]])

HistoriesGrow ==
  \A wp \in WatchPoints : Len(history'[wp]) >= Len(history[wp])

LEMMA HistoriesOnlyGrow ==
  ASSUME Typed, [Next]_vars
  PROVE  HistoriesGrow
<1> SUFFICES ASSUME NEW wp \in WatchPoints
             PROVE  Len(history'[wp]) >= Len(history[wp])
  BY DEF HistoriesGrow
<1>1. history[wp] \in Seq(Notifications)
  BY DEF Typed, TypeOK
<1>2. Len(history[wp]) \in Nat
  BY <1>1, LenProperties
<1>3. ASSUME NEW w \in Workers, Commit(w)
      PROVE  Len(history'[wp]) >= Len(history[wp])
  BY <1>1, <1>2, <1>3, CommitAnnounces
<1> QED
  BY <1>2, <1>3, OnlyCommitWrites

LEMMA RecordedInductive ==
  ASSUME Typed, OutboxRecorded, PublishedIsRecorded, [Next]_vars
  PROVE  OutboxRecorded' /\ PublishedIsRecorded'
<1> USE DEF vars, dbVars, queueVars, workerVars
<1>1. HistoriesGrow
  BY HistoriesOnlyGrow
<1>2. \A wp \in WatchPoints : Len(history[wp]) \in Nat
  BY LenProperties DEF Typed, TypeOK
<1>3. \A wp \in WatchPoints : Len(history'[wp]) \in Nat
  <2>1. Typed'
    BY NextTyped
  <2> QED
    BY <2>1, LenProperties DEF Typed, TypeOK
<1>4. ASSUME NEW n \in WatchPoints \X Nat, n[2] \in 1..Len(history[n[1]])
      PROVE  n[2] \in 1..Len(history'[n[1]])
  BY <1>1, <1>2, <1>3, <1>4 DEF HistoriesGrow
<1>5. /\ \A w \in Workers : \A n \in outbox[w] : n \in WatchPoints \X Nat
      /\ \A n \in published : n \in WatchPoints \X Nat
  BY DEF Typed, TypeOK
<1>6. ASSUME UNCHANGED published PROVE PublishedIsRecorded'
  BY <1>4, <1>5, <1>6 DEF PublishedIsRecorded
<1>7. ASSUME \A w \in Workers : outbox'[w] \subseteq outbox[w]
      PROVE  OutboxRecorded'
  BY <1>4, <1>5, <1>7 DEF OutboxRecorded
<1>8. ASSUME NEW w \in Workers, Release(w)
      PROVE  \A v \in Workers : outbox'[v] \subseteq outbox[v]
  BY <1>8 DEF Release, Typed, TypeOK
<1>9. ASSUME NEW w \in Workers, Commit(w)
      PROVE  OutboxRecorded' /\ PublishedIsRecorded'
  <2>1. PublishedIsRecorded'
    BY <1>6, <1>9 DEF Commit
  <2>2. ASSUME NEW n \in InsertedBy(result[w])
        PROVE  n[2] \in 1..Len(history'[n[1]])
    <3>1. PICK wp \in UpdatedBy(result[w]) :
            \E i \in Len(history[wp]) + 1 ..
                       Len(history[wp]) + Len(result[w][wp].notes) :
               n = <<wp, i>>
      BY <2>2, InsertedByMembers
    <3>2. wp \in WatchPoints
      BY DEF UpdatedBy
    <3>3. history'[wp] = history[wp] \o result[w][wp].notes
      BY <1>9, <3>2 DEF Commit
    <3>4. Len(history'[wp]) = Len(history[wp]) + Len(result[w][wp].notes)
      <4>1. /\ history[wp] \in Seq(Notifications)
            /\ result[w][wp].notes \in Seq(Notifications)
        BY <3>2 DEF Typed, TypeOK, Results
      <4> QED
        BY <3>3, <4>1, ConcatProperties
    <3>5. Len(history[wp]) \in Nat /\ Len(history'[wp]) \in Nat
      BY <1>2, <1>3, <3>2
    <3>6. PICK i \in Len(history[wp]) + 1 ..
                       Len(history[wp]) + Len(result[w][wp].notes) :
            n = <<wp, i>>
      BY <3>1
    <3>7. i \in 1..Len(history'[wp])
      <4>1. /\ Len(history[wp]) \in Nat
            /\ Len(result[w][wp].notes) \in Nat
        <5>1. result[w][wp].notes \in Seq(Notifications)
          BY <3>2 DEF Typed, TypeOK, Results
        <5> QED
          BY <1>2, <3>2, <5>1, LenProperties
      <4>2. \A a, b \in Nat : \A k \in a + 1 .. a + b : k \in 1 .. a + b
        OBVIOUS
      <4> QED
        BY <3>4, <4>1, <4>2
    <3> QED
      BY <3>6, <3>7
  <2>3. OutboxRecorded'
    <3>1. ASSUME NEW v \in Workers, NEW n \in outbox'[v]
          PROVE  n[2] \in 1..Len(history'[n[1]])
      <4>1. CASE v = w
        BY <1>9, <2>2, <3>1, <4>1 DEF Commit, Typed, TypeOK
      <4>2. CASE v # w
        <5>1. n \in outbox[v]
          BY <1>9, <3>1, <4>2 DEF Commit, Typed, TypeOK
        <5> QED
          BY <1>4, <1>5, <5>1 DEF OutboxRecorded
      <4> QED
        BY <4>1, <4>2
    <3> QED
      BY <3>1 DEF OutboxRecorded
  <2> QED
    BY <2>1, <2>3
<1>10. ASSUME NEW w \in Workers, Publish(w)
       PROVE  OutboxRecorded' /\ PublishedIsRecorded'
  <2>1. PICK n \in outbox[w] : /\ published' = published \cup {n}
                               /\ outbox' = [outbox EXCEPT ![w] = @ \ {n}]
    BY <1>10 DEF Publish
  <2>2. \A v \in Workers : outbox'[v] \subseteq outbox[v]
    BY <2>1 DEF Typed, TypeOK
  <2>3. n[2] \in 1..Len(history'[n[1]])
    BY <1>4, <1>5, <2>1 DEF OutboxRecorded
  <2>4. PublishedIsRecorded'
    BY <1>4, <1>5, <2>1, <2>3 DEF PublishedIsRecorded
  <2> QED
    BY <1>7, <2>2, <2>4
<1>11. \/ UNCHANGED <<outbox, published>>
       \/ UNCHANGED published /\ \E w \in Workers : Release(w)
       \/ \E w \in Workers : Commit(w) \/ Publish(w)
  BY DEF Next, Step, DispatchRun, Receive, MoveToDLQ, DiscardForecast,
         FetchWatchPoints, EvaluateBatch, Finish, Fail, Crash, UpdateConfig,
         Pause, Resume, Tick
<1>12. CASE UNCHANGED <<outbox, published>>
  BY <1>6, <1>7, <1>12
<1>13. ASSUME NEW w \in Workers, Release(w), UNCHANGED published
       PROVE  OutboxRecorded' /\ PublishedIsRecorded'
  BY <1>6, <1>7, <1>8, <1>13
<1> QED
  BY <1>9, <1>10, <1>11, <1>12, <1>13

(* Nothing reaches the notification queue that is not in the database.     *)
THEOREM PublishedNotificationsAreRecorded == Spec => []PublishedIsRecorded
<1>1. Init => OutboxRecorded /\ PublishedIsRecorded
  BY DEF Init, OutboxRecorded, PublishedIsRecorded
<1>2. Typed /\ OutboxRecorded /\ PublishedIsRecorded /\ [Next]_vars
      => OutboxRecorded' /\ PublishedIsRecorded'
  BY RecordedInductive
<1> QED
  BY <1>1, <1>2, AlwaysTyped, PTL DEF Spec

-----------------------------------------------------------------------------
(* Runs evaluated one after the other.                                     *)

(* The state an evaluation for configuration v starts from, and a result   *)
(* that such an evaluation of a newer run made of the state s.             *)
Prepared(s, v, run) == [ApplyConfigPolicy(s, v) EXCEPT !.lastRun = run]

Evaluated(s, v, res) ==
  \E run \in Nat, now \in Nat :
    /\ s.lastRun < run
    /\ Outcome(Prepared(s, v, run), res, run, now)

(* A history that the state s agrees with: what the next notification is   *)
(* compared with.                                                          *)
Numbered(h, s) ==
  /\ s.seq = Len(h)
  /\ \A i \in 1..Len(h) : h[i].seq = i /\ h[i].run <= s.lastRun
  /\ \A i, j \in 1..Len(h) : i < j => h[i].run < h[j].run

Agrees(h, s) ==
  /\ h # << >> => h[Len(h)].version <= s.version
  /\ s.triggered <=> /\ h # << >>
                     /\ h[Len(h)].kind = "threshold_crossed"
                     /\ h[Len(h)].version = s.version
  /\ s.triggered => /\ h[Len(h)].level = s.level
                    /\ h[Len(h)].at = s.escalatedAt
                    /\ s.escalatedAt \in Nat

Alternates(h) ==
  \A i \in 1..Len(h) :
    /\ h[i].kind = "threshold_cleared" =>
         /\ i > 1
         /\ h[i-1].kind = "threshold_crossed"
         /\ h[i-1].version = h[i].version
    /\ /\ i > 1
       /\ h[i].kind = "threshold_crossed"
       /\ h[i-1].kind = "threshold_crossed"
       /\ h[i-1].version = h[i].version
       => /\ h[i].level > h[i-1].level
          /\ h[i].at - h[i-1].at >= Cooldown

Whole(h, s) == Numbered(h, s) /\ Agrees(h, s) /\ Alternates(h)

(* What the configuration policy leaves of a state, for the new run. *)
PolicyKept(s, v, run, t) ==
  /\ t \in EvalStates /\ t.version = v /\ t.lastRun = run /\ t.seq = s.seq
  /\ t.triggered <=> s.triggered /\ s.version = v
  /\ t.triggered => t.level = s.level /\ t.escalatedAt = s.escalatedAt

LEMMA PolicyKeeps ==
  ASSUME NEW s \in EvalStates, NEW v \in Nat, NEW run \in Nat
  PROVE  PolicyKept(s, v, run, Prepared(s, v, run))
<1>0. PICK t : t = Prepared(s, v, run)
  OBVIOUS
<1>1. PICK u : u = ApplyConfigPolicy(s, v)
  OBVIOUS
<1>2. u \in EvalStates /\ u.version = v
  BY <1>1, ApplyConfigPolicyType
<1>3. u.seq = s.seq
  BY <1>1 DEF ApplyConfigPolicy, EvalStates
<1>4. /\ u.triggered <=> s.triggered /\ s.version = v
      /\ u.triggered => u.level = s.level /\ u.escalatedAt = s.escalatedAt
  BY <1>1 DEF ApplyConfigPolicy, EvalStates
<1>5. t = [u EXCEPT !.lastRun = run]
  BY <1>0, <1>1 DEF Prepared
<1>6. PolicyKept(s, v, run, t)
  BY ONLY <1>2, <1>3, <1>4, <1>5, run \in Nat DEF EvalStates, PolicyKept
<1> QED
  BY <1>0, <1>6

(* Committing such a result with its notifications keeps history and state *)
(* whole.                                                                  *)
LEMMA HistoryStep ==
  ASSUME NotifyOnClear,
         NEW h \in Seq(Notifications), NEW s \in EvalStates, NEW res \in Results,
         NEW v \in Nat, v >= s.version, Evaluated(s, v, res), Whole(h, s)
  PROVE  Whole(h \o res.notes, res.state)
<1>1. PICK run \in Nat, now \in Nat :
        /\ s.lastRun < run
        /\ Outcome(Prepared(s, v, run), res, run, now)
  BY DEF Evaluated
<1>2. PICK t : t = Prepared(s, v, run)
  OBVIOUS
<1>3. /\ t \in EvalStates /\ t.version = v /\ t.lastRun = run /\ t.seq = s.seq
      /\ t.triggered <=> s.triggered /\ s.version = v
      /\ t.triggered => t.level = s.level /\ t.escalatedAt = s.escalatedAt
  <2>1. PolicyKept(s, v, run, t)
    BY <1>2, PolicyKeeps
  <2> QED
    BY <2>1 DEF PolicyKept
<1>4. Outcome(t, res, run, now)
  BY <1>1, <1>2
<1>5. res.state.version = v /\ res.state.lastRun = run
  BY <1>3, <1>4 DEF Outcome
<1>6. /\ Len(h) \in Nat
      /\ \A i \in 1..Len(h) : h[i] \in Notifications
      /\ h # << >> => Len(h) \in 1..Len(h)
  OBVIOUS
<1>7. \A i \in 1..Len(h) :
         h[i].run \in Nat /\ h[i].version \in Nat /\ h[i].level \in Nat /\ h[i].at \in Int
  BY ONLY <1>6 DEF Notifications
<1>8. /\ s.lastRun \in Nat /\ s.version \in Nat /\ s.level \in Nat /\ s.escalatedAt \in Int
      /\ s.seq \in Nat
  BY DEF EvalStates
<1>9. /\ h # << >> => h[Len(h)].version <= s.version /\ h[Len(h)].version <= v
      /\ h # << >> /\ h[Len(h)].version = v => s.version = v
  <2> SUFFICES ASSUME h # << >>
               PROVE  /\ h[Len(h)].version <= s.version /\ h[Len(h)].version <= v
                      /\ h[Len(h)].version = v => s.version = v
    OBVIOUS
  <2>1. h[Len(h)].version <= s.version
    BY DEF Whole, Agrees
  <2>2. h[Len(h)].version \in Nat
    BY <1>6, <1>7
  <2> QED
    BY ONLY <1>8, <2>1, <2>2, v \in Nat, v >= s.version
<1>10. CASE res.notes = << >> /\ res.state = t
  <2>1. h \o res.notes = h
    BY <1>10
  <2>2. Numbered(h, t)
    <3>1. \A i \in 1..Len(h) : h[i].run <= run
      BY <1>1, <1>7, <1>8 DEF Whole, Numbered
    <3> QED
      BY <1>3, <3>1 DEF Whole, Numbered
  <2>3. Agrees(h, t)
    BY <1>3, <1>9 DEF Whole, Agrees
  <2> QED
    BY <1>10, <2>1, <2>2, <2>3 DEF Whole
<1>11. ASSUME NEW n \in Notifications,
              res.notes = <<n>>, n.seq = t.seq + 1, res.state.seq = t.seq + 1,
              n.run = run, n.version = t.version, n.at = now,
              \/ Crossed(t, res, n, now)
              \/ Cleared(t, res, n)
       PROVE  Whole(h \o res.notes, res.state)
  <2>1. PICK l \in Nat : l = Len(h)
    BY <1>6
  <2>2. PICK g : g = h \o res.notes
    OBVIOUS
  <2>3. /\ Len(g) = l + 1 /\ g[l + 1] = n /\ g # << >>
        /\ \A i \in 1..l : g[i] = h[i]
        /\ h # << >> <=> l >= 1
    BY <1>11, <2>1, <2>2
  <2>4. Numbered(g, res.state)
    <3>1. \A i \in 1..l : g[i].seq = i /\ g[i].run < run /\ g[i].run <= run
      BY <1>1, <1>7, <1>8, <2>1, <2>3 DEF Whole, Numbered
    <3>2. t.seq = l
      BY <1>3, <2>1 DEF Whole, Numbered
    <3>3. \A i \in 1..l + 1 : g[i].seq = i /\ g[i].run <= run
      BY <1>11, <2>3, <3>1, <3>2
    <3>4. ASSUME NEW i \in 1..l + 1, NEW j \in 1..l + 1, i < j
          PROVE  g[i].run < g[j].run
      <4>1. CASE j = l + 1
        BY <1>11, <2>3, <3>1, <3>4, <4>1
      <4>2. CASE j # l + 1
        <5>1. i \in 1..l /\ j \in 1..l
          BY <3>4, <4>2
        <5> QED
          BY <2>1, <2>3, <3>4, <5>1 DEF Whole, Numbered
      <4> QED
        BY <4>1, <4>2
    <3> QED
      BY <1>5, <1>11, <2>3, <3>2, <3>3, <3>4 DEF Numbered
  <2>5. Agrees(g, res.state)
    BY <1>3, <1>5, <1>11, <2>3 DEF Agrees, Crossed, Cleared
  <2>6. Alternates(g)
    <3>1. n.kind = "threshold_cleared" =>
            /\ l >= 1 /\ h[l].kind = "threshold_crossed" /\ h[l].version = n.version
      <4>1. n.kind = "threshold_cleared" => t.triggered
        BY <1>11 DEF Crossed, Cleared
      <4> QED
        BY <1>3, <1>11, <2>1, <2>3, <4>1 DEF Whole, Agrees
    <3>2. /\ l >= 1 /\ n.kind = "threshold_crossed"
          /\ h[l].kind = "threshold_crossed" /\ h[l].version = n.version
          => n.level > h[l].level /\ n.at - h[l].at >= Cooldown
      <4> SUFFICES ASSUME l >= 1, n.kind = "threshold_crossed",
                          h[l].kind = "threshold_crossed", h[l].version = n.version
                   PROVE  n.level > h[l].level /\ n.at - h[l].at >= Cooldown
        OBVIOUS
      <4>1. s.version = v /\ s.triggered
        BY <1>3, <1>9, <1>11, <2>1, <2>3 DEF Whole, Agrees
      <4>2. /\ t.triggered /\ t.level = h[l].level /\ t.escalatedAt = h[l].at
            /\ t.escalatedAt \in Nat
        BY <1>3, <2>1, <4>1 DEF Whole, Agrees
      <4>3. n.level > t.level /\ CanEscalate(t, now)
        BY <1>11, <4>2 DEF Crossed, Cleared
      <4>4. now - t.escalatedAt >= Cooldown
        BY <4>2, <4>3 DEF CanEscalate, NeverEscalated
      <4> QED
        BY <1>11, <4>2, <4>3, <4>4
    <3>3. ASSUME NEW i \in 1..l + 1
          PROVE  /\ g[i].kind = "threshold_cleared" =>
                      /\ i > 1
                      /\ g[i-1].kind = "threshold_crossed"
                      /\ g[i-1].version = g[i].version
                 /\ /\ i > 1
                    /\ g[i].kind = "threshold_crossed"
                    /\ g[i-1].kind = "threshold_crossed"
                    /\ g[i-1].version = g[i].version
                    => /\ g[i].level > g[i-1].level
                       /\ g[i].at - g[i-1].at >= Cooldown
      <4>1. CASE i = l + 1
        <5>1. i - 1 = l /\ (i > 1 <=> l >= 1) /\ (l >= 1 => l \in 1..l)
          BY <4>1
        <5>2. l >= 1 => g[i-1] = h[l]
          BY <2>3, <5>1
        <5> QED
          BY <2>3, <3>1, <3>2, <4>1, <5>1, <5>2
      <4>2. CASE i # l + 1
        <5>1. i \in 1..l /\ (i > 1 => i - 1 \in 1..l)
          BY <4>2
        <5>2. g[i] = h[i] /\ (i > 1 => g[i-1] = h[i-1])
          BY <2>3, <5>1
        <5> QED
          BY <2>1, <5>1, <5>2 DEF Whole, Alternates
      <4> QED
        BY <4>1, <4>2
    <3> QED
      BY <2>3, <3>3 DEF Alternates
  <2> QED
    BY <2>2, <2>4, <2>5, <2>6 DEF Whole
<1> QED
  BY <1>4, <1>10, <1>11 DEF Outcome

LEMMA EvaluateOneEvaluated ==
  ASSUME NEW s \in EvalStates, NEW v \in Nat, NEW reading \in AnyReading,
         NEW run \in Nat, run >= 1, NEW now \in Nat, NEW res,
         res = EvaluateOne(s, v, reading, run, now), res.update
  PROVE  Evaluated(s, v, res)
<1>1. PICK t : t = Prepared(s, v, run)
  OBVIOUS
<1>2. ~AlreadyEvaluated(s, run)
  BY DEF EvaluateOne, Skipped
<1>3. s.lastRun \in Nat
  BY DEF EvalStates
<1>4. s.lastRun < run
  BY <1>2, <1>3 DEF AlreadyEvaluated, NoRun
<1>5. res = EvaluateEvent(t, reading, run, now)
  BY <1>1, <1>2 DEF EvaluateOne, Prepared
<1>6. PolicyKept(s, v, run, t)
  BY <1>1, PolicyKeeps
<1>7. t \in EvalStates
  BY <1>6 DEF PolicyKept
<1>8. Outcome(t, res, run, now)
  BY <1>5, <1>7, EvaluateEventOutcome
<1> QED
  BY <1>1, <1>4, <1>8 DEF Evaluated

(* What a worker evaluated, it evaluated from the state as it is stored,   *)
(* and for no older configuration, unless another worker has written the   *)
(* state meanwhile: outdated says where.                                   *)
FreshResult(w, wp) ==
  result[w][wp].update /\ wp \notin outdated[w] =>
    \E v \in Nat : /\ evalState[wp].version <= v
                   /\ Evaluated(evalState[wp], v, result[w][wp])

ResultsAreFresh == \A w \in Workers : \A wp \in WatchPoints : FreshResult(w, wp)

HistoriesAreWhole == \A wp \in Coherent : Whole(history[wp], evalState[wp])

Fresh == ResultsAreFresh /\ HistoriesAreWhole

(* What a step does to the result of a worker that does not evaluate or    *)
(* commit: nothing, or it drops it.                                        *)
Undisturbed(w) ==
  \/ result'[w] = result[w] /\ outdated'[w] = outdated[w]
  \/ \A wp \in WatchPoints : ~result'[w][wp].update

LEMMA UndisturbedFresh ==
  ASSUME Typed, Fresh, UNCHANGED <<evalState, history, overwritten>>,
         \A w \in Workers : Undisturbed(w)
  PROVE  Fresh'
<1>1. ResultsAreFresh'
  <2> SUFFICES ASSUME NEW w \in Workers, NEW wp \in WatchPoints
               PROVE  FreshResult(w, wp)'
    BY DEF ResultsAreFresh
  <2>1. FreshResult(w, wp)
    BY DEF Fresh, ResultsAreFresh
  <2>2. CASE result'[w] = result[w] /\ outdated'[w] = outdated[w]
    BY <2>1, <2>2 DEF FreshResult
  <2>3. CASE ~result'[w][wp].update
    BY <2>3 DEF FreshResult
  <2> QED
    BY <2>2, <2>3 DEF Undisturbed
<1>2. HistoriesAreWhole'
  BY DEF Fresh, HistoriesAreWhole, Coherent
<1> QED
  BY <1>1, <1>2 DEF Fresh

LEMMA ReleaseUndisturbed ==
  ASSUME Typed, NEW w \in Workers, Release(w)
  PROVE  \A v \in Workers : Undisturbed(v)
<1> TAKE v \in Workers
<1>1. CASE v = w
  BY <1>1 DEF Release, Typed, TypeOK, Undisturbed, Skipped
<1>2. CASE v # w
  BY <1>2 DEF Release, Typed, TypeOK, Undisturbed
<1> QED
  BY <1>1, <1>2

(* What a commit leaves of the results of the other workers: they are the  *)
(* same, and outdated wherever it has written.                             *)
LEMMA CommitOutdates ==
  ASSUME Typed, NEW w \in Workers, Commit(w), NEW v \in Workers, NEW wp \in WatchPoints,
         result'[v][wp].update, wp \notin outdated'[v]
  PROVE  /\ v # w
         /\ result'[v] = result[v]
         /\ wp \notin outdated[v]
         /\ wp \notin UpdatedBy(result[w])
         /\ evalState'[wp] = evalState[wp]
<1>1. result'[w][wp] = Skipped
  BY DEF Commit, Typed, TypeOK
<1>2. ~Skipped.update
  BY DEF Skipped
<1>3. v # w
  BY <1>1, <1>2
<1>4. result'[v] = result[v]
  BY <1>3 DEF Commit, Typed, TypeOK
<1>5. outdated'[v] = outdated[v] \cup {u \in UpdatedBy(result[w]) : result[v][u].update}
  BY <1>3 DEF Commit
<1>6. wp \notin outdated[v] /\ wp \notin UpdatedBy(result[w])
  BY <1>4, <1>5
<1>7. evalState'[wp] = evalState[wp]
  BY <1>6 DEF Commit
<1> QED
  BY <1>3, <1>4, <1>6, <1>7

LEMMA CommitFresh ==
  ASSUME NotifyOnClear, Typed, Fresh, NEW w \in Workers, Commit(w)
  PROVE  Fresh'
<1>1. ResultsAreFresh'
  <2> SUFFICES ASSUME NEW v \in Workers, NEW wp \in WatchPoints,
                      result'[v][wp].update, wp \notin outdated'[v]
               PROVE  \E n \in Nat : /\ evalState'[wp].version <= n
                                     /\ Evaluated(evalState'[wp], n, result'[v][wp])
    BY DEF ResultsAreFresh, FreshResult
  <2>1. /\ result'[v] = result[v] /\ wp \notin outdated[v]
        /\ evalState'[wp] = evalState[wp]
    BY CommitOutdates
  <2> QED
    BY <2>1 DEF Fresh, ResultsAreFresh, FreshResult
<1>2. HistoriesAreWhole'
  <2> SUFFICES ASSUME NEW wp \in WatchPoints, wp \notin overwritten'
               PROVE  Whole(history'[wp], evalState'[wp])
    BY DEF HistoriesAreWhole, Coherent
  <2>1. /\ wp \notin overwritten
        /\ wp \in UpdatedBy(result[w]) => wp \notin outdated[w]
    BY DEF Commit
  <2>2. Whole(history[wp], evalState[wp])
    BY <2>1 DEF Fresh, HistoriesAreWhole, Coherent
  <2>3. CASE wp \notin UpdatedBy(result[w])
    <3>1. evalState'[wp] = evalState[wp] /\ history'[wp] = history[wp]
      BY <2>3 DEF Commit
    <3> QED
      BY <2>2, <3>1
  <2>4. CASE wp \in UpdatedBy(result[w])
    <3>1. PICK res \in Results : res = result[w][wp]
      BY DEF Typed, TypeOK
    <3>2. /\ res.update /\ evalState'[wp] = res.state
          /\ history'[wp] = history[wp] \o res.notes
      BY <2>4, <3>1 DEF Commit, UpdatedBy
    <3>3. PICK v \in Nat : /\ evalState[wp].version <= v
                           /\ Evaluated(evalState[wp], v, res)
      BY <2>1, <2>4, <3>1, <3>2 DEF Fresh, ResultsAreFresh, FreshResult
    <3>4. evalState[wp] \in EvalStates /\ history[wp] \in Seq(Notifications)
      BY DEF Typed, TypeOK
    <3>5. PICK s \in EvalStates, h \in Seq(Notifications) :
            s = evalState[wp] /\ h = history[wp]
      BY <3>4
    <3>6. v >= s.version
      BY <3>3, <3>5 DEF EvalStates
    <3>7. Whole(h \o res.notes, res.state)
      BY <2>2, <3>3, <3>5, <3>6, HistoryStep
    <3> QED
      BY <3>2, <3>5, <3>7
  <2> QED
    BY <2>3, <2>4
<1> QED
  BY <1>1, <1>2 DEF Fresh

LEMMA EvaluateFresh ==
  ASSUME Typed, Fresh, NEW w \in Workers, EvaluateBatch(w),
         result' = [result EXCEPT ![w] = Evaluation(w)],
         outdated' = [outdated EXCEPT ![w] = OlderConfig(w)]
  PROVE  Fresh'
<1>1. UNCHANGED <<evalState, history, overwritten>>
  BY DEF EvaluateBatch, dbVars
<1>2. ASSUME NEW wp \in WatchPoints PROVE FreshResult(w, wp)'
  <2> SUFFICES ASSUME result'[w][wp].update, wp \notin outdated'[w]
               PROVE  \E v \in Nat : /\ evalState[wp].version <= v
                                     /\ Evaluated(evalState[wp], v, result'[w][wp])
    BY <1>1 DEF FreshResult
  <2>1. result'[w][wp] = Evaluation(w)[wp] /\ wp \notin OlderConfig(w)
    BY DEF Typed, TypeOK
  <2>2. fetched[w][wp] # 0
    <3>1. fetched[w][wp] = 0 => Evaluation(w)[wp] = Skipped
      BY DEF Evaluation
    <3>2. ~Skipped.update
      BY DEF Skipped
    <3> QED
      BY <2>1, <3>1, <3>2
  <2>3. PICK v \in Nat : v = fetched[w][wp] /\ v \in Versions
    BY <2>2 DEF Typed, TypeOK, Versions
  <2>4. PICK run \in Nat : run = held[w].run /\ run \in Runs /\ run >= 1
    <3>1. held[w] \in Messages
      BY DEF EvaluateBatch, Typed, WorkersHold
    <3> QED
      BY <3>1 DEF Messages, Runs
  <2>5. PICK reading \in AnyReading : reading = forecast[run][wp][v]
    <3>1. forecast[run][wp][v] \in Readings
      BY <2>3, <2>4 DEF Typed, TypeOK
    <3> QED
      BY <3>1, ConstantsAssumption DEF AnyReading
  <2>6. PICK s \in EvalStates : s = evalState[wp]
    BY DEF Typed, TypeOK
  <2>7. clock \in Nat
    BY ConstantsAssumption DEF Typed, TypeOK, Times
  <2>8. PICK res : res = result'[w][wp]
    OBVIOUS
  <2>9. res = EvaluateOne(s, v, reading, run, clock)
    BY <2>1, <2>2, <2>3, <2>4, <2>5, <2>6, <2>8 DEF Evaluation
  <2>10. Evaluated(s, v, res)
    BY <2>4, <2>7, <2>8, <2>9, EvaluateOneEvaluated
  <2>11. ~(v < s.version)
    BY <2>1, <2>3, <2>6 DEF OlderConfig
  <2>12. s.version \in Nat
    BY DEF EvalStates
  <2>13. s.version <= v
    BY <2>11, <2>12
  <2> QED
    BY <2>6, <2>8, <2>10, <2>13
<1>3. ASSUME NEW v \in Workers, v # w, NEW wp \in WatchPoints PROVE FreshResult(v, wp)'
  <2>1. result'[v] = result[v] /\ outdated'[v] = outdated[v]
    BY <1>3 DEF Typed, TypeOK
  <2> QED
    BY <1>1, <2>1 DEF Fresh, ResultsAreFresh, FreshResult
<1>4. HistoriesAreWhole'
  BY <1>1 DEF Fresh, HistoriesAreWhole, Coherent
<1> QED
  BY <1>2, <1>3, <1>4 DEF Fresh, ResultsAreFresh

LEMMA NextFresh ==
  ASSUME NotifyOnClear, Typed, Fresh, [Next]_vars
  PROVE  Fresh'
<1> USE DEF dbVars, queueVars, workerVars
<1>1. ASSUME UNCHANGED <<evalState, history, overwritten>>, \A v \in Workers : Undisturbed(v)
      PROVE  Fresh'
  BY <1>1, UndisturbedFresh
<1>2. ASSUME UNCHANGED <<evalState, history, overwritten, result, outdated>>
      PROVE  Fresh'
  <2>1. \A v \in Workers : Undisturbed(v)
    BY <1>2 DEF Undisturbed
  <2> QED
    BY <1>1, <1>2, <2>1
<1>3. ASSUME NEW w \in Workers, Release(w), UNCHANGED <<evalState, history, overwritten>>
      PROVE  Fresh'
  BY <1>1, <1>3, ReleaseUndisturbed
<1>4. CASE UNCHANGED vars
  BY <1>2, <1>4 DEF vars
<1>5. ASSUME NEW r \in Runs, DispatchRun(r) PROVE Fresh'
  BY <1>2, <1>5 DEF DispatchRun
<1>6. ASSUME NEW w \in Workers, NEW m \in Messages, Receive(w, m) PROVE Fresh'
  BY <1>2, <1>6 DEF Receive
<1>7. ASSUME NEW m \in Messages, MoveToDLQ(m) PROVE Fresh'
  BY <1>2, <1>7 DEF MoveToDLQ
<1>8. ASSUME NEW w \in Workers, DiscardForecast(w) \/ Finish(w) \/ Fail(w) \/ Crash(w)
      PROVE  Fresh'
  BY <1>3, <1>8 DEF DiscardForecast, Finish, Fail, Crash
<1>9. ASSUME NEW w \in Workers, FetchWatchPoints(w) PROVE Fresh'
  <2>1. UNCHANGED <<evalState, history, overwritten>>
    BY <1>9 DEF FetchWatchPoints
  <2> QED
    BY <1>2, <1>3, <1>9, <2>1 DEF FetchWatchPoints
<1>10. ASSUME NEW w \in Workers, EvaluateBatch(w) PROVE Fresh'
  <2>1. UNCHANGED <<evalState, history, overwritten>>
    BY <1>10 DEF EvaluateBatch
  <2> QED
    BY <1>3, <1>10, <2>1, EvaluateFresh DEF EvaluateBatch
<1>11. ASSUME NEW w \in Workers, Commit(w) PROVE Fresh'
  BY <1>11, CommitFresh
<1>12. ASSUME NEW w \in Workers, Publish(w) PROVE Fresh'
  BY <1>2, <1>12 DEF Publish
<1>13. ASSUME NEW wp \in WatchPoints, UpdateConfig(wp) \/ Pause(wp) \/ Resume(wp)
       PROVE  Fresh'
  BY <1>2, <1>13 DEF UpdateConfig, Pause, Resume
<1>14. CASE Tick
  BY <1>2, <1>14 DEF Tick
<1> QED
  BY <1>4, <1>5, <1>6, <1>7, <1>8, <1>9, <1>10, <1>11, <1>12, <1>13, <1>14
  DEF Next, Step

LEMMA InitFresh == Init => Fresh
<1> SUFFICES ASSUME Init PROVE Fresh
  OBVIOUS
<1>1. ResultsAreFresh
  BY DEF Init, ResultsAreFresh, FreshResult, Skipped
<1>2. Whole(<< >>, NoState)
  BY DEF Whole, Numbered, Agrees, Alternates, NoState
<1>3. HistoriesAreWhole
  BY <1>2 DEF Init, HistoriesAreWhole, Coherent
<1> QED
  BY <1>1, <1>3 DEF Fresh

LEMMA AlwaysFresh ==
  ASSUME NotifyOnClear
  PROVE  Spec => []Fresh
<1>1. Typed /\ Fresh /\ [Next]_vars => Fresh'
  BY NextFresh
<1> QED
  BY <1>1, InitFresh, AlwaysTyped, PTL DEF Spec

(* Where clearances are announced, the history of a WatchPoint is whole,   *)
(* whatever is edited, redelivered, paused, lost to a crash or refused,    *)
(* and however many workers there are: it is numbered without gaps, no run *)
(* notifies twice, and the stored state is triggered exactly when the last *)
(* notification is an alert for its configuration.  Only a row that one    *)
(* worker wrote from a state another had replaced is not promised this.    *)
THEOREM CoherentHistoryIsWhole ==
  ASSUME NotifyOnClear
  PROVE  Spec => []HistoryIsWhole
<1>1. Typed /\ Fresh => HistoryIsWhole
  <2> SUFFICES ASSUME Typed, Fresh PROVE HistoryIsWhole
    OBVIOUS
  <2>0. Coherent \subseteq WatchPoints
    BY DEF Coherent
  <2>1. SeqGapFree
    BY <2>0 DEF Fresh, HistoriesAreWhole, Whole, Numbered, SeqGapFree
  <2>2. OncePerRun
    <3> SUFFICES ASSUME NEW wp \in Coherent,
                        NEW i \in 1..Len(history[wp]), NEW j \in 1..Len(history[wp]), i # j
                 PROVE  history[wp][i].run # history[wp][j].run
      BY DEF OncePerRun
    <3>1. history[wp] \in Seq(Notifications)
      BY <2>0 DEF Typed, TypeOK
    <3>2. history[wp][i] \in Notifications /\ history[wp][j] \in Notifications
      BY <3>1, ElementOfSeq
    <3>3. history[wp][i].run \in Nat /\ history[wp][j].run \in Nat
      BY ONLY <3>2 DEF Notifications
    <3>4. i < j \/ j < i
      BY <3>1
    <3> QED
      BY <3>3, <3>4 DEF Fresh, HistoriesAreWhole, Whole, Numbered
  <2>3. StateMatchesHistory
    BY <2>0 DEF Fresh, HistoriesAreWhole, Whole, Numbered, Agrees, StateMatchesHistory
  <2> QED
    BY <2>1, <2>2, <2>3 DEF HistoryIsWhole
<1> QED
  BY <1>1, AlwaysTyped, AlwaysFresh, PTL

(* And its notifications alternate: within one configuration a clearance   *)
(* answers a crossing, and a second crossing in a row is an escalation to  *)
(* a higher level, after the cooldown.                                     *)
THEOREM CoherentAlertsAlternate ==
  ASSUME NotifyOnClear
  PROVE  Spec => []AlertsAlternate
<1>1. Fresh => AlertsAlternate
  BY DEF Fresh, HistoriesAreWhole, Coherent, Whole, Alternates, AlertsAlternate
<1> QED
  BY <1>1, AlwaysFresh, PTL
-----------------------------------------------------------------------------
(* The refinement of AtomicEvaluation.                                     *)

(* The result a worker is to commit is of the states as they are stored,   *)
(* whatever else a configuration became, but for what is outdated.         *)
EvaluatedNow(w, conf, now) ==
  \A wp \in WatchPoints :
    result[w][wp].update =>
      /\ result[w][wp].state.lastRun = held[w].run
      /\ wp \notin outdated[w] =>
           /\ evalState[wp].version <= conf[wp]
           /\ result[w][wp] = EvaluateOne(evalState[wp], conf[wp],
                                forecast[held[w].run][wp][conf[wp]], held[w].run, now)

ResultIsCurrent(w) ==
  pc[w] = "commit" =>
    \E conf \in [WatchPoints -> Versions], now \in Times : EvaluatedNow(w, conf, now)

Current == \A w \in Workers : ResultIsCurrent(w)

(* A step that brings a worker no result.                                  *)
Calm(w) ==
  pc'[w] = "commit" =>
    /\ pc[w] = "commit" /\ result'[w] = result[w] /\ held'[w] = held[w]
    /\ outdated'[w] = outdated[w]

LEMMA CalmCurrent ==
  ASSUME Current, UNCHANGED <<forecast, evalState>>, \A w \in Workers : Calm(w)
  PROVE  Current'
<1> SUFFICES ASSUME NEW w \in Workers, pc'[w] = "commit"
             PROVE  \E conf \in [WatchPoints -> Versions], now \in Times :
                      EvaluatedNow(w, conf, now)'
  BY DEF Current, ResultIsCurrent
<1>1. /\ pc[w] = "commit" /\ result'[w] = result[w] /\ held'[w] = held[w]
      /\ outdated'[w] = outdated[w]
  BY DEF Calm
<1>2. PICK conf \in [WatchPoints -> Versions], now \in Times : EvaluatedNow(w, conf, now)
  BY <1>1 DEF Current, ResultIsCurrent
<1>3. EvaluatedNow(w, conf, now)'
  BY <1>1, <1>2 DEF EvaluatedNow
<1> QED
  BY <1>3

LEMMA ReleaseCalm ==
  ASSUME Typed, NEW w \in Workers, Release(w)
  PROVE  \A v \in Workers : Calm(v)
<1> TAKE v \in Workers
<1>1. CASE v = w
  BY <1>1 DEF Release, Typed, TypeOK, Calm
<1>2. CASE v # w
  BY <1>2 DEF Release, Typed, TypeOK, Calm
<1> QED
  BY <1>1, <1>2

(* An evaluation that updates is of a newer run, and for its version.      *)
LEMMA EvaluateOneUpdates ==
  ASSUME NEW s \in EvalStates, NEW v \in Nat, NEW reading \in AnyReading,
         NEW run \in Nat, NEW now \in Int, EvaluateOne(s, v, reading, run, now).update
  PROVE  /\ ~AlreadyEvaluated(s, run)
         /\ EvaluateOne(s, v, reading, run, now).state.lastRun = run
<1>1. PICK t : t = Prepared(s, v, run)
  OBVIOUS
<1>2. ~AlreadyEvaluated(s, run)
  BY DEF EvaluateOne, Skipped
<1>3. EvaluateOne(s, v, reading, run, now) = EvaluateEvent(t, reading, run, now)
  BY <1>1, <1>2 DEF EvaluateOne, Prepared
<1>4. t \in EvalStates /\ t.lastRun = run
  BY <1>1, PolicyKeeps DEF PolicyKept
<1>5. Outcome(t, EvaluateEvent(t, reading, run, now), run, now)
  BY <1>4, EvaluateEventOutcome
<1> QED
  BY <1>2, <1>3, <1>4, <1>5 DEF Outcome

(* What a worker has evaluated, it has evaluated from the stored states.   *)
LEMMA EvaluateCurrent ==
  ASSUME Typed, Current, NEW w \in Workers, EvaluateBatch(w),
         result' = [result EXCEPT ![w] = Evaluation(w)],
         outdated' = [outdated EXCEPT ![w] = OlderConfig(w)],
         pc' = [pc EXCEPT ![w] = "commit"],
         UNCHANGED held
  PROVE  Current'
<1>1. UNCHANGED <<forecast, evalState>>
  BY DEF EvaluateBatch, dbVars
<1>2. PICK run \in Nat : run = held[w].run /\ run \in Runs
  <2>1. held[w] \in Messages
    BY DEF EvaluateBatch, Typed, WorkersHold
  <2> QED
    BY <2>1 DEF Messages, Runs
<1>3. PICK now \in Times : now = clock
  BY DEF Typed, TypeOK
<1>4. PICK conf \in [WatchPoints -> Versions] :
        \A wp \in WatchPoints : fetched[w][wp] # 0 => conf[wp] = fetched[w][wp]
  <2> DEFINE c == [wp \in WatchPoints |-> IF fetched[w][wp] = 0 THEN 1 ELSE fetched[w][wp]]
  <2>1. c \in [WatchPoints -> Versions]
    BY ConstantsAssumption DEF Typed, TypeOK, Versions
  <2> QED
    BY <2>1
<1>5. ASSUME NEW wp \in WatchPoints, result'[w][wp].update
      PROVE  /\ result'[w][wp].state.lastRun = held[w].run
             /\ wp \notin outdated'[w] => evalState[wp].version <= conf[wp]
             /\ result'[w][wp] = EvaluateOne(evalState[wp], conf[wp],
                                   forecast[held[w].run][wp][conf[wp]], held[w].run, now)
  <2>1. result'[w][wp] = Evaluation(w)[wp] /\ outdated'[w] = OlderConfig(w)
    BY DEF Typed, TypeOK
  <2>2. fetched[w][wp] # 0
    <3>1. fetched[w][wp] = 0 => Evaluation(w)[wp] = Skipped
      BY DEF Evaluation
    <3>2. ~Skipped.update
      BY DEF Skipped
    <3> QED
      BY <1>5, <2>1, <3>1, <3>2
  <2>3. PICK v \in Nat : v = fetched[w][wp] /\ v = conf[wp] /\ v \in Versions
    BY <1>4, <2>2 DEF Typed, TypeOK, Versions
  <2>4. PICK reading \in AnyReading : reading = forecast[run][wp][v]
    <3>1. forecast[run][wp][v] \in Readings
      BY <1>2, <2>3 DEF Typed, TypeOK
    <3> QED
      BY <3>1, ConstantsAssumption DEF AnyReading
  <2>5. PICK s \in EvalStates : s = evalState[wp]
    BY DEF Typed, TypeOK
  <2>6. now \in Int
    BY ConstantsAssumption DEF Times
  <2>7. Evaluation(w)[wp] = EvaluateOne(s, v, reading, run, now)
    BY <1>2, <1>3, <2>2, <2>3, <2>4, <2>5 DEF Evaluation
  <2>8. EvaluateOne(s, v, reading, run, now).state.lastRun = run
    BY <1>5, <2>1, <2>6, <2>7, EvaluateOneUpdates
  <2>9. s.version \in Nat
    BY DEF EvalStates
  <2>10. wp \notin outdated'[w] => s.version <= v
    <3>1. wp \notin outdated'[w] => ~(v < s.version)
      BY <1>5, <2>1, <2>3, <2>5 DEF OlderConfig
    <3> QED
      BY <2>9, <3>1
  <2> QED
    BY <1>2, <2>1, <2>3, <2>4, <2>5, <2>7, <2>8, <2>10
<1>6. EvaluatedNow(w, conf, now)'
  BY <1>1, <1>5 DEF EvaluatedNow
<1>7. ResultIsCurrent(w)'
  BY <1>6 DEF ResultIsCurrent
<1>8. ASSUME NEW v \in Workers, v # w PROVE ResultIsCurrent(v)'
  <2>1. /\ pc'[v] = pc[v] /\ result'[v] = result[v] /\ held'[v] = held[v]
        /\ outdated'[v] = outdated[v]
    BY <1>8 DEF Typed, TypeOK
  <2>2. ResultIsCurrent(v)
    BY DEF Current
  <2> QED
    BY <1>1, <2>1, <2>2 DEF ResultIsCurrent, EvaluatedNow
<1> QED
  BY <1>7, <1>8 DEF Current

(* The abstract evaluation evaluates as the worker does.                   *)
LEMMA SameEvaluation ==
  ASSUME NEW s, NEW v, NEW reading, NEW run, NEW now
  PROVE  /\ Atomic!EvaluateOne(s, v, reading, run, now) = EvaluateOne(s, v, reading, run, now)
         /\ Atomic!AlreadyEvaluated(s, run) <=> AlreadyEvaluated(s, run)
  BY DEF EvaluateOne, AlreadyEvaluated, EvaluateEvent, ApplyConfigPolicy, CrossThreshold,
         ClearThreshold, StayTriggered, CanEscalate, Notified, Silent, Notification, Skipped,
         NoState, NoRun, NeverEscalated,
         Atomic!EvaluateOne, Atomic!AlreadyEvaluated, Atomic!EvaluateEvent,
         Atomic!ApplyConfigPolicy, Atomic!CrossThreshold, Atomic!ClearThreshold,
         Atomic!StayTriggered, Atomic!CanEscalate, Atomic!Notified, Atomic!Silent,
         Atomic!Notification, Atomic!Skipped, Atomic!NoState, Atomic!NoRun,
         Atomic!NeverEscalated

(* A commit leaves the results of the other workers current, or outdated.  *)
LEMMA CommitCurrent ==
  ASSUME Typed, Current, NEW w \in Workers, Commit(w)
  PROVE  Current'
<1> SUFFICES ASSUME NEW v \in Workers, pc'[v] = "commit"
             PROVE  \E conf \in [WatchPoints -> Versions], now \in Times :
                      EvaluatedNow(v, conf, now)'
  BY DEF Current, ResultIsCurrent
<1>1. UNCHANGED <<forecast, held>> /\ pc' = [pc EXCEPT ![w] = "publish"]
  BY DEF Commit
<1>2. v # w /\ pc[v] = "commit"
  BY <1>1 DEF Typed, TypeOK
<1>3. result'[v] = result[v]
  BY <1>2 DEF Commit, Typed, TypeOK
<1>4. PICK conf \in [WatchPoints -> Versions], now \in Times : EvaluatedNow(v, conf, now)
  BY <1>2 DEF Current, ResultIsCurrent
<1>5. ASSUME NEW wp \in WatchPoints, result'[v][wp].update, wp \notin outdated'[v]
      PROVE  wp \notin outdated[v] /\ evalState'[wp] = evalState[wp]
  BY <1>5, CommitOutdates
<1>6. EvaluatedNow(v, conf, now)'
  BY <1>1, <1>3, <1>4, <1>5 DEF EvaluatedNow
<1> QED
  BY <1>6

(* The commit is the evaluation of the page, in one step.                  *)
LEMMA CommitIsAtomic ==
  ASSUME Typed, Current, NEW w \in Workers, Commit(w)
  PROVE  Atomic!Next
<1>1. pc[w] = "commit" /\ UNCHANGED forecast
  BY DEF Commit
<1>2. PICK conf \in [WatchPoints -> Versions], now \in Times : EvaluatedNow(w, conf, now)
  BY <1>1 DEF Current, ResultIsCurrent
<1>3. PICK run \in Nat : run = held[w].run /\ run \in Runs
  <2>1. held[w] \in Messages
    BY <1>1 DEF Typed, WorkersHold
  <2> QED
    BY <2>1 DEF Messages, Runs
<1>4. PICK page \in SUBSET WatchPoints : page = UpdatedBy(result[w])
  BY DEF UpdatedBy
<1>5. overwritten' = overwritten \cup (page \cap outdated[w])
  BY <1>4 DEF Commit
<1>6. ASSUME NEW wp \in page
      PROVE  /\ result[w][wp].update
             /\ result[w][wp].state.lastRun = run
             /\ evalState'[wp] = result[w][wp].state
             /\ history'[wp] = history[wp] \o result[w][wp].notes
  <2>1. wp \in WatchPoints /\ result[w][wp].update
    BY <1>4 DEF UpdatedBy
  <2> QED
    BY <1>2, <1>3, <1>4, <2>1 DEF Commit, EvaluatedNow
<1>7. ASSUME NEW wp \in page, wp \in outdated[w]
      PROVE  wp \in overwritten' /\ Atomic!Overwritten(wp, run)
  <2>1. evalState[wp].lastRun \in Nat
    BY DEF Typed, TypeOK, EvalStates
  <2>2. evalState[wp].lastRun = NoRun \/ evalState[wp].lastRun <= run
    BY <1>4, <1>6 DEF UpdatedBy
  <2>3. evalState[wp].lastRun <= run
    BY <2>1, <2>2 DEF NoRun
  <2> QED
    BY <1>5, <1>6, <1>7, <2>3 DEF Atomic!Overwritten
<1>8. ASSUME NEW wp \in page, wp \notin outdated[w]
      PROVE  Atomic!EvaluatedAtOnce(wp, run, conf[wp], now)
  <2>1. /\ evalState[wp].version <= conf[wp]
        /\ result[w][wp] = EvaluateOne(evalState[wp], conf[wp],
                                       forecast[run][wp][conf[wp]], run, now)
    BY <1>2, <1>3, <1>6, <1>8 DEF EvaluatedNow
  <2>2. PICK v \in Nat : v = conf[wp] /\ v \in Versions
    BY DEF Versions
  <2>3. PICK reading \in AnyReading : reading = forecast[run][wp][v]
    <3>1. forecast[run][wp][v] \in Readings
      BY <1>3, <2>2 DEF Typed, TypeOK
    <3> QED
      BY <3>1, ConstantsAssumption DEF AnyReading
  <2>4. PICK s \in EvalStates : s = evalState[wp]
    BY DEF Typed, TypeOK
  <2>5. now \in Int
    BY ConstantsAssumption DEF Times
  <2>6. ~AlreadyEvaluated(s, run)
    <3>1. result[w][wp] = EvaluateOne(s, v, reading, run, now)
      BY <2>1, <2>2, <2>3, <2>4
    <3>2. EvaluateOne(s, v, reading, run, now).update
      BY <1>6, <3>1
    <3> QED
      BY ONLY <2>5, <3>2, EvaluateOneUpdates, v \in Nat, run \in Nat, s \in EvalStates,
         reading \in AnyReading
  <2>7. ~Atomic!AlreadyEvaluated(evalState[wp], run)
    BY <2>4, <2>6, SameEvaluation
  <2>8. result[w][wp] = Atomic!EvaluateOne(evalState[wp], conf[wp],
                                           forecast[run][wp][conf[wp]], run, now)
    BY <2>1, SameEvaluation
  <2> QED
    BY <1>6, <2>1, <2>7, <2>8 DEF Atomic!EvaluatedAtOnce
<1>9. ASSUME NEW wp \in WatchPoints \ page PROVE Atomic!Unchanged(wp)
  BY <1>4 DEF Commit, Atomic!Unchanged
<1>10. Atomic!Evaluate(page, run, conf, now)
  BY <1>1, <1>5, <1>7, <1>8, <1>9 DEF Atomic!Evaluate
<1> QED
  BY <1>3, <1>10 DEF Atomic!Next

LEMMA NextRefines ==
  ASSUME Typed, Current, [Next]_vars
  PROVE  Current' /\ [Atomic!Next]_(Atomic!vars)
<1> USE DEF dbVars, queueVars, workerVars, Atomic!vars
<1>1. ASSUME UNCHANGED <<forecast, evalState, history, overwritten>>,
             \A v \in Workers : Calm(v)
      PROVE  Current' /\ [Atomic!Next]_(Atomic!vars)
  BY <1>1, CalmCurrent
<1>2. ASSUME UNCHANGED <<forecast, evalState, history, overwritten, pc, held, result, outdated>>
      PROVE  Current' /\ [Atomic!Next]_(Atomic!vars)
  <2>1. \A v \in Workers : Calm(v)
    BY <1>2 DEF Calm
  <2> QED
    BY <1>1, <1>2, <2>1
<1>3. ASSUME NEW w \in Workers, Release(w),
             UNCHANGED <<forecast, evalState, history, overwritten>>
      PROVE  Current' /\ [Atomic!Next]_(Atomic!vars)
  BY <1>1, <1>3, ReleaseCalm
<1>4. CASE UNCHANGED vars
  BY <1>2, <1>4 DEF vars
<1>5. ASSUME NEW r \in Runs, DispatchRun(r)
      PROVE  Current' /\ [Atomic!Next]_(Atomic!vars)
  BY <1>2, <1>5 DEF DispatchRun
<1>6. ASSUME NEW w \in Workers, NEW m \in Messages, Receive(w, m)
      PROVE  Current' /\ [Atomic!Next]_(Atomic!vars)
  <2>1. \A v \in Workers : Calm(v)
    BY <1>6 DEF Receive, Calm, Typed, TypeOK
  <2> QED
    BY <1>1, <1>6, <2>1 DEF Receive
<1>7. ASSUME NEW m \in Messages, MoveToDLQ(m)
      PROVE  Current' /\ [Atomic!Next]_(Atomic!vars)
  BY <1>2, <1>7 DEF MoveToDLQ
<1>8. ASSUME NEW w \in Workers, DiscardForecast(w) \/ Finish(w) \/ Fail(w) \/ Crash(w)
      PROVE  Current' /\ [Atomic!Next]_(Atomic!vars)
  BY <1>3, <1>8 DEF DiscardForecast, Finish, Fail, Crash
<1>9. ASSUME NEW w \in Workers, FetchWatchPoints(w)
      PROVE  Current' /\ [Atomic!Next]_(Atomic!vars)
  <2>1. UNCHANGED <<forecast, evalState, history, overwritten>>
    BY <1>9 DEF FetchWatchPoints
  <2>2. CASE pc' = [pc EXCEPT ![w] = "evaluate"] /\ UNCHANGED <<held, result, outdated>>
    <3>1. \A v \in Workers : Calm(v)
      BY <2>2 DEF Calm, Typed, TypeOK
    <3> QED
      BY <1>1, <2>1, <3>1
  <2> QED
    BY <1>3, <1>9, <2>1, <2>2 DEF FetchWatchPoints
<1>10. ASSUME NEW w \in Workers, EvaluateBatch(w)
       PROVE  Current' /\ [Atomic!Next]_(Atomic!vars)
  <2>1. UNCHANGED <<forecast, evalState, history, overwritten>>
    BY <1>10 DEF EvaluateBatch
  <2> QED
    BY <1>3, <1>10, <2>1, EvaluateCurrent DEF EvaluateBatch
<1>11. ASSUME NEW w \in Workers, Commit(w)
       PROVE  Current' /\ [Atomic!Next]_(Atomic!vars)
  BY <1>11, CommitCurrent, CommitIsAtomic
<1>12. ASSUME NEW w \in Workers, Publish(w)
       PROVE  Current' /\ [Atomic!Next]_(Atomic!vars)
  BY <1>2, <1>12 DEF Publish
<1>13. ASSUME NEW wp \in WatchPoints, UpdateConfig(wp) \/ Pause(wp) \/ Resume(wp)
       PROVE  Current' /\ [Atomic!Next]_(Atomic!vars)
  BY <1>2, <1>13 DEF UpdateConfig, Pause, Resume
<1>14. CASE Tick
  BY <1>2, <1>14 DEF Tick
<1> QED
  BY <1>4, <1>5, <1>6, <1>7, <1>8, <1>9, <1>10, <1>11, <1>12, <1>13, <1>14
  DEF Next, Step

LEMMA InitRefines == Init => Current /\ Atomic!Init
<1> SUFFICES ASSUME Init PROVE Current /\ Atomic!Init
  OBVIOUS
<1>1. \A w \in Workers : ResultIsCurrent(w)
  BY DEF Init, ResultIsCurrent
<1>2. Atomic!Init
  BY DEF Init, Atomic!Init, NoState, NoRun, NeverEscalated,
         Atomic!NoState, Atomic!NoRun, Atomic!NeverEscalated
<1> QED
  BY <1>1, <1>2 DEF Current

(* The pipeline implements evaluation in one step, with any number of      *)
(* workers: of what happens between the dispatch of a run and the commit,  *)
(* of redeliveries, edits, crashes and repeated dispatches, nothing shows  *)
(* in the states and notifications of the WatchPoints whose row no worker  *)
(* wrote from a state that another had replaced; and no other row is       *)
(* written by an older run than the one it holds.                          *)
THEOREM EvaluationIsAtomic == Spec => ImplementsAtomicEvaluation
<1>1. Typed /\ Current /\ [Next]_vars => Current' /\ [Atomic!Next]_(Atomic!vars)
  BY NextRefines
<1> QED
  BY <1>1, InitRefines, AlwaysTyped, PTL DEF Spec, ImplementsAtomicEvaluation, Atomic!Spec
=============================================================================
