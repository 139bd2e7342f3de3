------------------------------- MODULE EngineRuns ------------------------------
(***************************************************************************)
(* One symbol's engine over its life: candles close, runs evaluate them    *)
(* with the state kept in engine_state, and record the newest one's events *)
(* in the trades table, which the historical backtest can rebuild from the *)
(* candles.  Runs may be missed and may die half-way.                      *)
(***************************************************************************)
EXTENDS FastPredict, TradeTable

CONSTANTS
    Shapes,             \* the bars there may be
    NoState,            \* engine_state has no queue for the symbol
    NoResult,           \* a bar that was never the newest of an evaluation
    MinimumCandles,     \* the live pipeline's warm-up
    BacktestMinimum,    \* the historical backtest's
    BackfillAlongside,  \* may the backtest run while a candle waits for its run?
    MaxBars, MaxBacklog \* bounds

SavedStates == [upTo : Nat, state : EngineStates]

ASSUME RunsAssumption ==
    /\ Shapes \subseteq [close : Nat \ {0}, feature : Nat, passes : BOOLEAN,
                      rate : {"rising", "falling", "none"}]
    /\ {MinimumCandles, BacktestMinimum, MaxBacklog} \subseteq Nat \ {0}
    /\ MaxBars \in Nat /\ BackfillAlongside \in BOOLEAN /\ NoState \notin SavedStates

VARIABLES
    history,  \* the stored candles, with their indicators
    saved,    \* engine_state: the last bar evaluated and the state after it
    results,  \* what each bar evaluated gave
    trades,   \* the trades table
    drifted   \* events since the last backtest may be missing from it

vars == <<history, saved, results, trades, drifted>>

Init ==
    /\ history = <<>> /\ saved = NoState /\ results = <<>>
    /\ trades = <<>> /\ drifted = TRUE

Backlog == Len(history) - Len(results)

(* The indicators take a few bars: before the features are finite nobody   *)
(* votes and the filters do not matter, and the kernel has no rate on the  *)
(* first bar.                                                              *)
PossibleBars(b) ==
    {bar \in Shapes : (b < WarmUp => ~bar.passes) /\ (bar.rate = "none") = (b = 0)}

CandleCloses ==
    /\ Len(history) < MaxBars /\ (Len(history) < MinimumCandles \/ Backlog < MaxBacklog)
    /\ \E bar \in PossibleBars(Len(history)) : history' = Append(history, bar)
    /\ UNCHANGED <<saved, results, trades, drifted>>

-------------------------------------------------------------------------------
(* The bars of one run, oldest first, each saved as it is evaluated.       *)

FirstResults ==
    LET b == LastBar(history)
        evaluated == EvaluateLatestBar(history, Bootstrap(Prefix(history, b - 1)))
    IN  [results |-> Append([n \in 1..b |-> NoResult], evaluated.result), state |-> evaluated.state]

FurtherResults ==
    LET after[b \in saved.upTo..LastBar(history)] ==
            IF b = saved.upTo THEN [results |-> results, state |-> saved.state]
            ELSE LET before == after[b - 1]
                     evaluated == EvaluateLatestBar(Prefix(history, b), before.state)
                 IN  [results |-> Append(before.results, evaluated.result), state |-> evaluated.state]
    IN  after[LastBar(history)]

(* _process_symbol's bookkeeping of one bar's event.                       *)
Processed(rows, bar, event) ==
    LET long == IF event.signal = "BUY"
                THEN OpenTrade(AbandonOpenTrade(rows, "SELL"), "BUY", bar, event.price) ELSE rows
        ended == IF event.endLong THEN CloseOpenTrade(long, "BUY", bar, event.price) ELSE long
        short == IF event.signal = "SELL"
                 THEN OpenTrade(AbandonOpenTrade(ended, "BUY"), "SELL", bar, event.price) ELSE ended
    IN  IF event.endShort THEN CloseOpenTrade(short, "SELL", bar, event.price) ELSE short

(* Only the newest bar's event is acted on; a run that dies after it saved *)
(* the engine's state records none.                                        *)
Evaluate ==
    LET run == IF saved = NoState THEN FirstResults ELSE FurtherResults
    IN  /\ Backlog > 0 /\ Len(history) >= MinimumCandles
        /\ results' = run.results
        /\ saved' = [upTo |-> LastBar(history), state |-> run.state]
        /\ \/ /\ trades' = Processed(trades, Len(history), Last(run.results))
              /\ drifted' = (drifted \/ Backlog > 1)
           \/ drifted' = TRUE /\ UNCHANGED trades
        /\ UNCHANGED history

-------------------------------------------------------------------------------
(* The historical backtest stores what Pine scores, and the trade it still *)
(* has open.  Nothing asks for the order of closed rows.                   *)
StoredRow(trade) ==
    [side |-> trade.side, bar |-> trade.bar, entry |-> trade.entry, status |-> "closed",
     exitBar |-> trade.exitBar, exit |-> trade.exit]

(* Mutant: the trade that is still open is not stored.                     *)
OnlyScored(events) ==
    SetToSeq({StoredRow(trade) : trade \in ReplayPineBacktest(events).scored})

StoredTrades(events) ==
    LET replay == ReplayPineBacktest(events)
        closed == SetToSeq({StoredRow(trade) : trade \in replay.scored})
    IN  IF replay.current.side = "none" THEN closed
        ELSE OpenTrade(closed, replay.current.side, replay.current.bar, replay.current.entry)

(* The table is emptied first; a symbol with too few candles stays empty.  *)
Backfill ==
    /\ history # <<>> /\ (Backlog = 0 \/ BackfillAlongside)
    /\ trades' = IF Len(history) < BacktestMinimum THEN <<>> ELSE StoredTrades(HistoricalEvents(history))
    /\ drifted' = (Len(history) < BacktestMinimum)
    /\ UNCHANGED <<history, saved, results>>

Next == CandleCloses \/ Evaluate \/ Backfill

Spec == Init /\ [][Next]_vars

-------------------------------------------------------------------------------
(* Properties.                                                             *)

TypeOK ==
    /\ Len(history) \in 0..MaxBars /\ Len(results) \in 0..Len(history)
    /\ saved = NoState <=> results = <<>>
    /\ saved # NoState =>
          /\ saved \in SavedStates /\ saved.upTo = Len(results) - 1
          /\ Len(saved.state.queue) <= NeighborsCount
          /\ {saved.state.exits.sinceRedEntry, saved.state.exits.sinceGreenEntry} \subseteq -1..MaxBars
    /\ \A row \in Range(trades) : row.side \in Sides /\ row.bar \in 1..Len(history)
    /\ drifted \in BOOLEAN

(* "This is not an approximation" (fast_predict.py): every bar the live    *)
(* pipeline evaluated, with the queue, signal and counters kept between    *)
(* runs or bootstrapped, in a run of its own or in a catch-up, gave the    *)
(* events the batch engine gives it in the whole history, so a signal is   *)
(* never repainted by later candles.  For histories that max_bars_back     *)
(* still covers.                                                           *)
LiveAsBacktest ==
    LET events == HistoricalEvents(history)
    IN  \A n \in DOMAIN results :
            results[n] # NoResult /\ Len(history) <= MaxBarsBack + 1 => results[n] = events[n]

(* No bar repaints: every row of the validation CSV, computed on the       *)
(* history up to its bar, is what one pass over the whole history says of  *)
(* that bar (validation/runner.py, _run_every_bar).                        *)
NeverRepaints ==
    Len(history) <= MaxBarsBack + 1 => ValidationHistory(history) = EventsWith(history, FALSE)

(* The state kept in engine_state is the one a bootstrap would build from  *)
(* the candles: it may be lost and rebuilt, and a symbol's first run may   *)
(* come at any time.                                                       *)
SavedIsBootstrap ==
    saved # NoState /\ saved.upTo <= MaxBarsBack =>
        saved.state = Bootstrap(Prefix(history, saved.upTo))

(* Once the backtest has rebuilt the trades table, the live runs go on     *)
(* from it as the backtest of the longer history would ("safe to re-run",  *)
(* backtest.py): the same trades closed, and the trade Pine has open is    *)
(* the one the next exit closes.  Not the same rows: an entry abandons the *)
(* other side's open trade only, so after two entries on one side with no  *)
(* exit between them the older row is still open, which a backtest drops.  *)
TradesRegenerated ==
    ~drifted /\ results # <<>> /\ Len(history) <= MaxBarsBack + 1 =>
        LET replay == ReplayPineBacktest(HistoricalEvents(Prefix(history, LastBar(results))))
            pine == replay.current
            newest == LatestOpen(trades, Sides)
        IN  /\ ClosedTrades(trades) = replay.scored
            /\ pine.side \in Sides =>
                  /\ \A i \in OpenRows(trades) : trades[i].side = pine.side
                  /\ newest # 0 /\ trades[newest].bar = pine.bar /\ trades[newest].entry = pine.entry

(* The engine is the strategy the books are checked against (Strategy), as *)
(* soon as it has a signal and the kernel has turned each way: an exit     *)
(* fires just when the kernel turns against an entry made since its last   *)
(* turn.                                                                   *)
Turns(turns(_, _)) == {b \in 0..saved.upTo : turns(history, b)}

Settled ==
    /\ saved # NoState /\ saved.state.signal # 0
    /\ Turns(BearishChange) # {} /\ Turns(BullishChange) # {}

StrategyOf ==
    [direction |-> IF saved.state.signal = 1 THEN "up" ELSE "down",
     bullish |-> Rate(history, saved.upTo) = "rising",
     longLive |-> Outlasts(BarsSince(Turns(BearishChange), saved.upTo), saved.state.exits.sinceGreenEntry),
     shortLive |-> Outlasts(BarsSince(Turns(BullishChange), saved.upTo), saved.state.exits.sinceRedEntry)]

ImplementsStrategy ==
    [][Settled /\ saved' # saved /\ Len(results') = Len(results) + 1 =>
          LET newest == Last(results')
              direction == StrategyOf'.direction
              bullish == StrategyOf'.bullish
          IN  /\ StrategyOf' = AdvancedExits(StrategyOf, direction, bullish)
              /\ [signal |-> newest.signal, price |-> newest.price,
                  endLong |-> newest.endLong, endShort |-> newest.endShort]
                     = Evaluation(StrategyOf, direction, bullish, newest.price)]_vars
===============================================================================
