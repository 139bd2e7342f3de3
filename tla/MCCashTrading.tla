---------------------------- MODULE MCCashTrading -----------------------------
(***************************************************************************)
(* CashTrading for the model checker.                                      *)
(***************************************************************************)
EXTENDS CashTrading, TLC

Symmetry == Permutations(Bars)
==============================================================================
