------------------------------ MODULE MCEngineRuns ------------------------------
(***************************************************************************)
(* Bars for TLC: two closes and two places in feature space; of the bars   *)
(* the filters reject, one for each way the kernel moves.                  *)
(***************************************************************************)
EXTENDS EngineRuns

MCShapes ==
    {bar \in [close : {1, 2}, feature : {0, 1}, passes : BOOLEAN, rate : {"rising", "falling", "none"}] :
        ~bar.passes =>
            /\ bar.feature = 0
            /\ bar.rate = "rising" => bar.close = 2
            /\ bar.rate = "falling" => bar.close = 1}
================================================================================
