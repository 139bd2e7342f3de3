------------------------------- MODULE Strategy -------------------------------
(***************************************************************************)
(* What the books see of the strategy: an entry when the model's direction *)
(* flips the way the kernel already points, and an exit when the kernel    *)
(* turns against an entry made since it last turned.  The model's vote     *)
(* (neighbours, filters) and the kernel's slope are inputs: any direction  *)
(* and any slope may come next.                                            *)
(***************************************************************************)
EXTENDS Naturals, Sequences, FiniteSetsExt

Directions == {"up", "down"}
Sides == {"BUY", "SELL"}

(* longLive: no bearish turn since the last BUY, that is, the bars since   *)
(* the last green exit outnumber those since the last green entry; the     *)
(* same for shortLive.                                                     *)
StrategyState ==
    [direction : Directions, bullish : BOOLEAN, longLive : BOOLEAN, shortLive : BOOLEAN]

FreshStrategy == [direction |-> "down", bullish |-> FALSE, longLive |-> FALSE, shortLive |-> FALSE]

EntrySignal(state, direction, bullish) ==
    CASE direction = state.direction -> "NEUTRAL"
      [] direction # state.direction /\ direction = "up" /\ bullish -> "BUY"
      [] direction # state.direction /\ direction = "down" /\ ~bullish -> "SELL"
      [] OTHER -> "NEUTRAL"

TurnsBearish(state, bullish) == state.bullish /\ ~bullish
TurnsBullish(state, bullish) == ~state.bullish /\ bullish

EndsLong(state, bullish) == TurnsBearish(state, bullish) /\ state.longLive
EndsShort(state, bullish) == TurnsBullish(state, bullish) /\ state.shortLive

AdvancedExits(state, direction, bullish) ==
    [direction |-> direction, bullish |-> bullish,
     longLive |-> \/ EntrySignal(state, direction, bullish) = "BUY"
                  \/ state.longLive /\ ~TurnsBearish(state, bullish),
     shortLive |-> \/ EntrySignal(state, direction, bullish) = "SELL"
                   \/ state.shortLive /\ ~TurnsBullish(state, bullish)]

(* What evaluating one closed bar hands to the rest of the program.        *)
Evaluation(state, direction, bullish, close) ==
    [signal |-> EntrySignal(state, direction, bullish), price |-> close,
     endLong |-> EndsLong(state, bullish), endShort |-> EndsShort(state, bullish)]

-------------------------------------------------------------------------------
(* How Pine's ml.backtest scores the same bars: one position at a time, an *)
(* entry discards whatever was open.                                       *)

Flat == [side |-> "none", bar |-> 0, entry |-> 0]

Started(side, bar, event) == [side |-> side, bar |-> bar, entry |-> event.price]

ScoredTrade(current, bar, event) ==
    [side |-> current.side, bar |-> current.bar, entry |-> current.entry,
     exitBar |-> bar, exit |-> event.price]

(* startLong, endLong, startShort, endShort, in this order.                *)
PineBar(state, bar, event) ==
    LET long == IF event.signal = "BUY" THEN Started("BUY", bar, event) ELSE state.current
        endsLong == event.endLong /\ long.side = "BUY"
        held == IF endsLong THEN Flat ELSE long
        short == IF event.signal = "SELL" THEN Started("SELL", bar, event) ELSE held
        endsShort == event.endShort /\ short.side = "SELL"
    IN  [current |-> IF endsShort THEN Flat ELSE short,
         scored |-> state.scored
             \cup (IF endsLong THEN {ScoredTrade(long, bar, event)} ELSE {})
             \cup (IF endsShort THEN {ScoredTrade(short, bar, event)} ELSE {})]

ReplayPineBacktest(events) ==
    LET after[n \in 0..Len(events)] ==
            IF n = 0 THEN [current |-> Flat, scored |-> {}]
                     ELSE PineBar(after[n - 1], n, events[n])
    IN  after[Len(events)]
===============================================================================
