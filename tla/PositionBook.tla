----------------------------- MODULE PositionBook -----------------------------
(***************************************************************************)
(* What cash trading promises about positions, told without ledgers,       *)
(* orders or processes: the book is the set of symbols with real money at  *)
(* risk.  A symbol enters the book only when it is not in it and the book  *)
(* is not full (the contract that execute_cash_entry states); symbols may  *)
(* leave it at any time, since exits are never gated.                      *)
(***************************************************************************)
EXTENDS Naturals, FiniteSets

CONSTANTS
    Symbols,      \* the instruments that may be traded
    MaxPositions  \* the most symbols that may be at risk at once

VARIABLE open  \* the symbols at risk

Init == open = {}

Enter(s) ==
    /\ s \notin open
    /\ Cardinality(open) < MaxPositions
    /\ open' = open \cup {s}

Leave(S) ==
    /\ S # {}
    /\ open' = open \ S

Next ==
    \/ \E s \in Symbols : Enter(s)
    \/ \E S \in SUBSET open : Leave(S)

Spec == Init /\ [][Next]_open
==============================================================================
