---------------------------- MODULE MCDailySwing -----------------------------
(***************************************************************************)
(* DailySwing for the model checker: two stocks; one of them sets up on    *)
(* two days.                                                               *)
(***************************************************************************)
EXTENDS DailySwing

At(sym, date, side, contract) == [sym |-> sym, date |-> date, side |-> side, contract |-> contract]

(* Each entry trades a contract of its own.                                *)
SeparateContracts == {At("SBIN", 1, "BUY", "SBIN-AUG"), At("TCS", 1, "SELL", "TCS-AUG"),
                      At("SBIN", 2, "SELL", "SBIN-SEP")}
==============================================================================
