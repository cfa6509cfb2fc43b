------------------------ MODULE MCConditionTracking ------------------------
(***************************************************************************)
(* Small instances of ConditionTracking.                                   *)
(***************************************************************************)
EXTENDS ConditionTracking

Cond(variable, op, threshold) ==
  [variable |-> variable, operator |-> op, threshold |-> threshold]
One(variable, op, threshold) ==
  [logic |-> "ANY", conditions |-> <<Cond(variable, op, threshold)>>]

Wind(op, threshold) == Cond("wind_speed_kmh", op, threshold)
Rain(op, threshold) == Cond("precipitation_probability", op, threshold)

(* Non-negative thresholds: single conditions of every operator with a     *)
(* buffer, and two conditions under either logic.                          *)
NonNegative ==
  {One("wind_speed_kmh", op, <<20>>) : op \in {">", ">=", "<", "<="}}
  \cup {One("temperature_c", ">=", <<10>>),
        One("wind_speed_kmh", "between", <<20, 40>>),
        One("wind_speed_kmh", "outside", <<10, 40>>)}
  \cup {[logic |-> l, conditions |-> <<Wind(">", <<20>>), Rain(">=", <<60>>)>>] :
          l \in Logics}

(* Around the thresholds and buffers of NonNegative, in tenths.            *)
Around ==
  {[wind_speed_kmh |-> w, temperature_c |-> w \div 2,
    precipitation_probability |-> r] :
     w \in {0, 170, 179, 180, 200, 201, 221, 250, 300, 400}, r \in {540, 600}}
=============================================================================
