------------------------------ MODULE TradeBooks ------------------------------
(***************************************************************************)
(* The tables a signal is written to, for one symbol: the strategy's       *)
(* trades, the cash paper account, the futures paper account and the       *)
(* shadow legs.  A table is a sequence in order of entry.                  *)
(***************************************************************************)
EXTENDS TradeTable, Integers, SequencesExt

CONSTANTS
    SeedWins, SeedLosses,        \* closed trades of each side from the backfill
    MinClosedTrades, MinWinRate, \* the track record a symbol needs
    InitialCapital, TargetSlots, MinPositionSize,
    StopLossPct, TrailActivationPct, TrailPct,
    FuturesCapital, FuturesSlots, FuturesMinSlot, Margin

ASSUME BooksAssumption ==
    /\ {SeedWins, SeedLosses, MinWinRate} \subseteq Nat /\ MinClosedTrades \in Nat \ {0}
    /\ {InitialCapital, MinPositionSize, FuturesCapital, FuturesMinSlot, Margin} \subseteq Nat
    /\ {TargetSlots, FuturesSlots} \subseteq Nat \ {0}
    /\ {StopLossPct, TrailActivationPct, TrailPct} \subseteq 0..100

-------------------------------------------------------------------------------
Won(row) == IF row.side = "BUY" THEN row.exit > row.entry ELSE row.entry > row.exit

IsEligible(rows, side) ==
    LET closed == {i \in DOMAIN rows : rows[i].status = "closed" /\ rows[i].side = side}
        wins == SeedWins + Cardinality({i \in closed : Won(rows[i])})
        count == SeedWins + SeedLosses + Cardinality(closed)
    IN  count >= MinClosedTrades /\ 100 * wins >= MinWinRate * count

-------------------------------------------------------------------------------
(* The cash paper account.                                                 *)

Allocated(row) == row.quantity * row.entry
PaperPnl(row) == row.quantity * (row.exit - row.entry)

Committed(rows) == MapThenSumSet(LAMBDA i : Allocated(rows[i]), OpenRows(rows))

(* The slot is total_equity / TARGET_SLOTS, or the floor if that is more;  *)
(* here it is multiplied by TargetSlots throughout, to stay whole.         *)
SlotTimesSlots(equity) == Max({equity, TargetSlots * MinPositionSize})

(* Mutant: a slot of the equity is taken, whatever the cash.               *)
AffordableOnPaper(cash, equity, close) == SlotTimesSlots(equity) \div (TargetSlots * close)

Affordable(cash, equity, close) ==
    LET quantity == SlotTimesSlots(equity) \div (TargetSlots * close)
    IN  IF cash * TargetSlots < SlotTimesSlots(equity) THEN 0 ELSE quantity

OpenPosition(rows, bar, quantity, close) ==
    Append(rows, [side |-> "BUY", bar |-> bar, entry |-> close, quantity |-> quantity,
                  peak |-> close, status |-> "open", exit |-> 0])

ClosePosition(rows, row, close) ==
    [rows EXCEPT ![row].status = "closed", ![row].exit = close]

(* One UPDATE for every open row of the symbol.                            *)
UpdatePeakPrice(rows, peak) ==
    [i \in DOMAIN rows |->
        IF rows[i].status = "open" THEN [rows[i] EXCEPT !.peak = peak] ELSE rows[i]]

StopBreached(entry, close) == 100 * close <= entry * (100 - StopLossPct)

TrailBreached(entry, peak, close) ==
    /\ 100 * peak >= entry * (100 + TrailActivationPct)
    /\ 100 * close <= peak * (100 - TrailPct)

-------------------------------------------------------------------------------
(* The futures paper account: a combo is a future and the option that      *)
(* hedges it, of one lot, carried at its margin.                           *)

SideOf(signal) == IF signal = "BUY" THEN "long" ELSE "short"
HedgeOf(signal) == IF signal = "BUY" THEN "PE" ELSE "CE"
FuturesSides == {"long", "short"}

(* The margin must fit the cash and the slot of total_equity.              *)
MarginFits(cash, rows) ==
    LET equity == cash + Margin * Cardinality(OpenRows(rows))
        slots == Max({equity, FuturesSlots * FuturesMinSlot})
    IN  Margin * FuturesSlots <= slots /\ Margin <= cash

(* Mutant: a second combo of the symbol is let in.                         *)
ComboAllowedAgain(cash, rows) == MarginFits(cash, rows)

ComboAllowed(cash, rows) == OpenRows(rows) = {} /\ MarginFits(cash, rows)

OpenLeg(rows, side, bar, close) ==
    Append(rows, [side |-> side, bar |-> bar, entry |-> close, status |-> "open", exit |-> 0])

CloseLeg(rows, sides, close) ==
    LET last == LatestOpen(rows, sides)
    IN  IF last = 0 THEN rows
        ELSE [rows EXCEPT ![last].status = "closed", ![last].exit = close]

LegPnl(row) == IF row.side = "long" THEN row.exit - row.entry ELSE row.entry - row.exit
===============================================================================
