--------------------------- MODULE MCEvalPipeline ---------------------------
(***************************************************************************)
(* Small instances of EvalPipeline.                                        *)
(***************************************************************************)
EXTENDS EvalPipeline, TLC

(* Clear of the threshold, and above it at two escalation levels.          *)
Below == [above |-> FALSE, held |-> FALSE, level |-> 0]
Above == [above |-> TRUE, held |-> TRUE, level |-> 0]
FarAbove == [above |-> TRUE, held |-> TRUE, level |-> 2]

Escalating == {Below, Above, FarAbove}

OnlyBelow == {Below}

OneWatchPoint == {1}
TwoWatchPoints == {1, 2}
NoRuns == {}
SecondRun == {2}

WorkerSymmetry == Permutations(Workers)
=============================================================================
