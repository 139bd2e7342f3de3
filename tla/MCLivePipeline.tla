--------------------------- MODULE MCLivePipeline ----------------------------
(***************************************************************************)
(* LivePipeline for the model checker.  The clock stops in an open hour of *)
(* the last day, so that what must still happen there has to happen.       *)
(***************************************************************************)
EXTENDS LivePipeline

ASSUME LastHourOpen == IsMarketHours(MaxHour)
==============================================================================
