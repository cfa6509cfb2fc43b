--------------------------- MODULE MCForecastRuns ---------------------------
(***************************************************************************)
(* Small instances of ForecastRuns.                                        *)
(***************************************************************************)
EXTENDS ForecastRuns, TLC

(* The layout that ParseRunContext reads. *)
ForecastsPrefix == <<"forecasts">>

(* The layout that triggerInference asks RunPod to write. *)
NoPrefix == <<>>
=============================================================================
