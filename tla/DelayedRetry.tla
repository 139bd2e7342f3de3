----------------------------- MODULE DelayedRetry -----------------------------
(***************************************************************************)
(* The delayed re-entry of one symbol's real cash position: a BUY that     *)
(* cleared every gate but got no order may be retried on a later bar.  The *)
(* track record and the quality gates pass or fail as they like, and so    *)
(* does the order.                                                         *)
(***************************************************************************)
EXTENDS Strategy, Integers

CONSTANTS
    Prices,              \* closes, above 0
    NoDecision,
    DelayedRetryEnabled, \* the dashboard's toggle
    RetryWindow,         \* bars in two trading days
    RetryToleranceMille, \* how far the price may be off, in thousandths
    MaxBars              \* bound

VARIABLES
    strategy, events, \* the engine's state and what each bar gave
    phase,            \* "idle", "cash" (ranking) or "exit" (processing)
    held,             \* is there an unclosed real position?
    skipped           \* the newest entry decision that ended as skipped

vars == <<strategy, events, phase, held, skipped>>

bar == Len(events)
event == events[bar]

Init ==
    /\ strategy = FreshStrategy /\ events = <<>> /\ phase = "idle"
    /\ held = FALSE /\ skipped = NoDecision

EvaluateBar ==
    /\ phase = "idle" /\ bar < MaxBars
    /\ \E direction \in Directions, bullish \in BOOLEAN, close \in Prices :
          /\ events' = Append(events, Evaluation(strategy, direction, bullish, close))
          /\ strategy' = AdvancedExits(strategy, direction, bullish)
    /\ phase' = "cash"
    /\ UNCHANGED <<held, skipped>>

PriceCameBack ==
    LET off == IF event.price > skipped.price THEN event.price - skipped.price
                                              ELSE skipped.price - event.price
    IN  1000 * off <= RetryToleranceMille * skipped.price

(* The newest skipped decision in the window is retried on a bar that is   *)
(* neither an entry nor an exit.                                           *)
Retries ==
    /\ DelayedRetryEnabled /\ skipped # NoDecision
    /\ bar - skipped.bar <= RetryWindow
    /\ event.signal = "NEUTRAL" /\ ~event.endLong /\ ~held
    /\ PriceCameBack

(* A position that is there already reads as opened; a skip is a decision  *)
(* of today, which the next retry goes back to.                            *)
Attempt(outcome) ==
    /\ held' = (held \/ outcome = "opened")
    /\ skipped' = IF ~held /\ outcome = "skipped" THEN [bar |-> bar, price |-> event.price]
                                                  ELSE skipped

RankCash ==
    /\ phase = "cash"
    /\ \/ /\ event.signal = "BUY" \/ Retries
          /\ \E outcome \in {"opened", "skipped", "error"} : Attempt(outcome)
       \/ UNCHANGED <<held, skipped>>
    /\ phase' = IF event.endLong THEN "exit" ELSE "idle"
    /\ UNCHANGED <<strategy, events>>

CashExit ==
    /\ phase = "exit"
    /\ held' \in {held, FALSE}
    /\ phase' = "idle"
    /\ UNCHANGED <<strategy, events, skipped>>

BracketFills ==
    /\ held /\ held' = FALSE
    /\ UNCHANGED <<strategy, events, phase, skipped>>

Next == EvaluateBar \/ RankCash \/ CashExit \/ BracketFills

Spec == Init /\ [][Next]_vars

-------------------------------------------------------------------------------
Retried == phase = "cash" /\ event.signal = "NEUTRAL" /\ <<held, skipped>>' # <<held, skipped>> /\ phase' # phase

(* What docs/decisions/011-delayed-reentry-window.md promises of a retry:  *)
(* the strategy's exit has not fired since the skipped BUY.                *)
RetryWhileThesisLives ==
    [][Retried => \A later \in skipped.bar + 1..bar :
                      ~events[later].endLong /\ events[later].signal # "SELL"]_vars
===============================================================================
