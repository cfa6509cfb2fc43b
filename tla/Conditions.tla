----------------------------- MODULE Conditions -----------------------------
(***************************************************************************)
(* The conditions of a WatchPoint: when they are met, when they are still  *)
(* met within the hysteresis that delays a clearance, and how far they are *)
(* exceeded.                                                               *)
(*                                                                         *)
(* Thresholds are whole units (degrees, mm, km/h) and forecast values are  *)
(* tenths of a unit, so the buffer of 10% of a threshold is exact: 10% of  *)
(* t units are t tenths.                                                   *)
(***************************************************************************)
EXTENDS Integers, Sequences, FiniteSets

(* ConditionOperator, and the operator that only the worker knows. *)
Operators == {">", ">=", "<", "<=", "==", "!=", "between", "outside"}
Logics == {"ALL", "ANY"}

Conds == [variable : STRING, operator : Operators, threshold : Seq(Int)]
Configs == [logic : Logics, conditions : Seq(Conds)]

Magnitude(x) == IF x < 0 THEN -x ELSE x

(* HYSTERESIS_TEMP and HYSTERESIS_PRECIP_PROB, in tenths. *)
AbsoluteBuffer(variable) ==
  CASE variable = "temperature_c"             -> 10
    [] variable = "precipitation_probability" -> 50
    [] OTHER                                  -> 0

(* check_condition.  The thresholds of a single-valued operator are        *)
(* th[1], those of a range th[1] and th[2].  There is no case for "!=":    *)
(* an unknown operator is never met.                                       *)
CheckCondition(actual, c) ==
  LET th == c.threshold
      op == c.operator
  IN  /\ Len(th) >= 1
      /\ op \in {"between", "outside"} => Len(th) >= 2
      /\ \/ op = ">"       /\ actual > 10 * th[1]
         \/ op = ">="      /\ actual >= 10 * th[1]
         \/ op = "<"       /\ actual < 10 * th[1]
         \/ op = "<="      /\ actual <= 10 * th[1]
         \/ op = "=="      /\ actual = 10 * th[1]
         \/ op = "between" /\ 10 * th[1] <= actual /\ actual <= 10 * th[2]
         \/ op = "outside" /\ (actual < 10 * th[1] \/ actual > 10 * th[2])

(* A bug: the buffer is applied on the wrong side of the threshold. *)
BufferInverted(actual, c) ==
  LET th == c.threshold
      buffer == AbsoluteBuffer(c.variable)
      op == c.operator
  IN  /\ Len(th) >= 1
      /\ \/ op \in {">", ">="} /\ actual >= 11 * th[1] + buffer
         \/ op \in {"<", "<="} /\ actual <= 9 * th[1] - buffer
         \/ op \in {"==", "!=", "between", "outside"} /\ CheckCondition(actual, c)

(* A bug: a forecast at the threshold itself clears. *)
NoBuffer(actual, c) == CheckCondition(actual, c)

(* check_condition_with_hysteresis with is_clearing.  The relative buffer  *)
(* of a single-valued operator has the sign of its threshold.              *)
CheckWithHysteresis(actual, c) ==
  LET th == c.threshold
      op == c.operator
      buffer == AbsoluteBuffer(c.variable)
      range == Len(th) >= 2
  IN  /\ Len(th) >= 1
      /\ \/ op \in {">", ">="} /\ actual >= 10 * th[1] - th[1] - buffer
         \/ op \in {"<", "<="} /\ actual <= 10 * th[1] + th[1] + buffer
         \/ op \in {"==", "!="} /\ CheckCondition(actual, c)
         \/ /\ op = "between" /\ range
            /\ 10 * th[1] - Magnitude(th[1]) - buffer <= actual
            /\ actual <= 10 * th[2] + Magnitude(th[2]) + buffer
         \/ /\ op = "outside" /\ range
            /\ \/ actual < 10 * th[1] + Magnitude(th[1]) + buffer
               \/ actual > 10 * th[2] - Magnitude(th[2]) - buffer

(* _check_all_conditions, from the indices of the conditions that are met. *)
Combine(cfg, met) ==
  /\ cfg.conditions # << >>
  /\ IF cfg.logic = "ALL" THEN met = 1..Len(cfg.conditions) ELSE met # {}

(* The value of a variable; one that the forecast does not have is 0. *)
Actual(point, variable) ==
  IF variable \in DOMAIN point THEN point[variable] ELSE 0

Met(cfg, point) ==
  Combine(cfg, {i \in 1..Len(cfg.conditions) :
    CheckCondition(Actual(point, cfg.conditions[i].variable), cfg.conditions[i])})

StillMet(cfg, point) ==
  Combine(cfg, {i \in 1..Len(cfg.conditions) :
    CheckWithHysteresis(Actual(point, cfg.conditions[i].variable), cfg.conditions[i])})

(* ESCALATION_THRESHOLDS: the overage, in percent, that each level from 1  *)
(* up requires.                                                            *)
Tiers == {25, 50, 100}

(* calculate_escalation_level. *)
EscalationLevel(actual, threshold) ==
  IF threshold = 0 THEN IF actual > 0 THEN 3 ELSE 0
  ELSE Cardinality({tier \in Tiers :
         100 * Magnitude(actual - 10 * threshold)
           >= tier * 10 * Magnitude(threshold)})

(* _calculate_escalation_for_wp: the maximum over all conditions, met or   *)
(* not, of the level of the first threshold.                               *)
Escalation(cfg, point) ==
  LET levels == {EscalationLevel(Actual(point, c.variable), c.threshold[1]) :
                   c \in {cfg.conditions[i] : i \in
                            {j \in 1..Len(cfg.conditions) :
                               cfg.conditions[j].threshold # << >>}}}
  IN  IF levels = {} THEN 0
      ELSE CHOOSE n \in levels : \A m \in levels : m <= n

(* What the forecast says about the WatchPoint. *)
Reading(cfg, point) ==
  [above |-> Met(cfg, point),
   held  |-> StillMet(cfg, point),
   level |-> Escalation(cfg, point)]
=============================================================================
