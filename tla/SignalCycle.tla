----------------------------- MODULE SignalCycle ------------------------------
(***************************************************************************)
(* One symbol through the program's scan cycles: a bar is evaluated, the   *)
(* books compete for capital (paper, futures, real cash), then the symbol  *)
(* is processed, branch by branch.  Beside the cycle the live process      *)
(* checks every tick against the stops of the paper account, from a cache  *)
(* of its positions that another task refreshes.  The other symbols appear *)
(* as what they take from the paper account and give back.                 *)
(***************************************************************************)
EXTENDS TradeBooks

CONSTANTS
    Prices,
    NoPosition, NotReading,
    MaxBars, MaxFaults   \* bounds

ASSUME CycleAssumption ==
    /\ Prices \subseteq Nat \ {0} /\ {MaxBars, MaxFaults} \subseteq Nat
    /\ NotReading \notin Nat /\ NoPosition # NotReading
    /\ {NoPosition, NotReading} \cap [entry : Prices, peak : Prices] = {}

VARIABLES
    price,     \* the last traded price
    strategy,  \* the engine's state
    events,    \* what each evaluated bar gave, in order
    phase,     \* how far the cycle is with the newest of them
    lost,      \* bars whose processing was cut short
    trades,    \* the trades table
    cash, paper, \* the paper account: balance, positions
    lock,      \* paper_account_lock: "free", or who holds it
    closing,   \* the row each task has read and is about to close; 0: none to close
    tick,      \* the price of a force-close the tick task is at, or 0
    cache,     \* _open_positions_cache and _peak_price_cache
    snapshot,  \* what the refresh has read and not yet assigned
    futuresCash, combos,
    futureLegs, optionLegs, \* the shadow tables
    faults

cycleVars == <<strategy, events, phase, lost>>
paperVars == <<cash, paper, lock, closing>>
tickVars == <<price, tick, cache, snapshot>>
futuresVars == <<futuresCash, combos>>
shadowVars == <<futureLegs, optionLegs>>
vars == <<cycleVars, trades, paperVars, tickVars, futuresVars, shadowVars, faults>>

Tasks == {"tick", "cycle"}

bar == Len(events)
event == events[bar]

Init ==
    /\ price \in Prices /\ strategy = FreshStrategy /\ events = <<>> /\ phase = "idle" /\ lost = {}
    /\ trades = <<>> /\ cash = InitialCapital /\ paper = <<>>
    /\ lock = "free" /\ closing = [who \in Tasks |-> NotReading]
    /\ tick = 0 /\ cache = NoPosition /\ snapshot = NotReading
    /\ futuresCash = FuturesCapital /\ combos = <<>> /\ futureLegs = <<>> /\ optionLegs = <<>>
    /\ faults = 0

(* Best-effort calls come back (TRUE) or fail and are logged (FALSE).      *)
BestEffort(calls) ==
    /\ faults' = faults + Cardinality({n \in DOMAIN calls : ~calls[n]})
    /\ faults' <= MaxFaults

-------------------------------------------------------------------------------
(* The order of the branches of _process_symbol.                           *)

AfterSell == IF event.endShort THEN "endShort" ELSE "idle"
AfterLong == IF event.signal = "SELL" THEN "sell" ELSE AfterSell
AfterBuy == IF event.endLong THEN "endLong" ELSE AfterLong
AfterRanking == IF event.signal = "BUY" THEN "buy" ELSE AfterBuy

(* The engine's state is saved before anything is done about the result.   *)
EvaluateBar ==
    /\ phase = "idle" /\ bar < MaxBars
    /\ \E direction \in Directions, bullish \in BOOLEAN :
          /\ events' = Append(events, Evaluation(strategy, direction, bullish, price))
          /\ strategy' = AdvancedExits(strategy, direction, bullish)
    /\ phase' = "paper"
    /\ UNCHANGED <<lost, trades, paperVars, tickVars, futuresVars, shadowVars, faults>>

-------------------------------------------------------------------------------
(* Ranked capital allocation.                                              *)

CompetesOnPaper == event.signal = "BUY" /\ IsEligible(trades, "BUY")
CompetesForFutures == event.signal \in Sides /\ IsEligible(trades, event.signal)

Affords == Affordable(cash, cash + Committed(paper), event.price)

RankPaper ==
    /\ phase = "paper" /\ lock = "free"
    /\ IF CompetesOnPaper /\ Affords > 0
       THEN /\ paper' = OpenPosition(paper, bar, Affords, event.price)
            /\ cash' = cash - Affords * event.price
       ELSE UNCHANGED <<paper, cash>>
    /\ phase' = "futures"
    /\ UNCHANGED <<strategy, events, lost, trades, lock, closing, tickVars, futuresVars,
                   shadowVars, faults>>

(* The contracts and their quotes are looked up, and the margin of the     *)
(* basket: each is there or it is not, and then no combo is opened.        *)
Quoted == BOOLEAN
MarginKnown == BOOLEAN

OpenCombo(quoted) ==
    IF quoted /\ ComboAllowed(futuresCash, combos)
    THEN /\ combos' = OpenLeg(combos, SideOf(event.signal), bar, event.price)
         /\ futuresCash' = futuresCash - Margin
    ELSE UNCHANGED futuresVars

RankFutures ==
    /\ phase = "futures"
    /\ \/ /\ CompetesForFutures
          /\ \E quoted \in Quoted, margin \in MarginKnown :
                 BestEffort(<<quoted, margin>>) /\ OpenCombo(quoted /\ margin)
       \/ /\ ~CompetesForFutures
          /\ UNCHANGED <<futuresVars, faults>>
    /\ phase' = AfterRanking
    /\ UNCHANGED <<strategy, events, lost, trades, paperVars, tickVars, shadowVars>>

-------------------------------------------------------------------------------
(* Processing the symbol.                                                  *)

ShadowFuture(found) ==
    futureLegs' = IF found THEN OpenLeg(futureLegs, SideOf(event.signal), bar, event.price)
                           ELSE futureLegs

ShadowHedge(quoted) ==
    optionLegs' = IF quoted THEN OpenLeg(optionLegs, HedgeOf(event.signal), bar, event.price)
                            ELSE optionLegs

(* An entry abandons the opposite side's trades and opens its own, and a   *)
(* future with its hedge in the shadow tables.                             *)
Enter(side, opposite) ==
    /\ trades' = OpenTrade(AbandonOpenTrade(trades, opposite), side, bar, event.price)
    /\ \E found, quoted \in Quoted :
          BestEffort(<<found, quoted>>) /\ ShadowFuture(found) /\ ShadowHedge(quoted)
    /\ UNCHANGED <<strategy, events, lost, paperVars, tickVars, futuresVars>>

RecordBuy == phase = "buy" /\ Enter("BUY", "SELL") /\ phase' = AfterBuy
RecordSell == phase = "sell" /\ Enter("SELL", "BUY") /\ phase' = AfterSell

EndLong ==
    /\ phase = "endLong"
    /\ trades' = CloseOpenTrade(trades, "BUY", bar, event.price)
    /\ phase' = "paperExit"
    /\ UNCHANGED <<strategy, events, lost, paperVars, tickVars, futuresVars, shadowVars,
                   faults>>

(* Mutant: the close does not wait for the lock.                           *)
SelectRowUnlocked(who) ==
    /\ lock' = who
    /\ closing' = [closing EXCEPT ![who] = LatestOpen(paper, {"BUY"})]

(* close_position reads the newest open row, then closes it and credits    *)
(* the cash.                                                               *)
SelectRow(who) ==
    /\ lock = "free" /\ lock' = who
    /\ closing' = [closing EXCEPT ![who] = LatestOpen(paper, {"BUY"})]

ClosedAndCredited(row, close) ==
    /\ paper' = IF row = 0 THEN paper ELSE ClosePosition(paper, row, close)
    /\ cash' = IF row = 0 THEN cash ELSE cash + Allocated(paper[row]) + PaperPnl(paper'[row])

(* Mutant: the lock is kept when there is nothing to close.                *)
CloseRowKeepsLock(who, close) ==
    /\ ClosedAndCredited(closing[who], close)
    /\ closing' = [closing EXCEPT ![who] = NotReading]
    /\ lock' = IF closing[who] = 0 THEN lock ELSE "free"

CloseRow(who, close) ==
    /\ ClosedAndCredited(closing[who], close)
    /\ closing' = [closing EXCEPT ![who] = NotReading] /\ lock' = "free"

PaperExit ==
    /\ phase = "paperExit" /\ SelectRow("cycle")
    /\ phase' = "paperWrite"
    /\ UNCHANGED <<strategy, events, lost, trades, cash, paper, tickVars, futuresVars,
                   shadowVars, faults>>

PaperWrite ==
    /\ phase = "paperWrite" /\ CloseRow("cycle", event.price)
    /\ phase' = "longExits"
    /\ UNCHANGED <<strategy, events, lost, trades, tickVars, futuresVars, shadowVars, faults>>

(* The shadow future is found by its symbol, whatever its side; the option *)
(* by its type.                                                            *)
CloseShadowFuture(works) ==
    futureLegs' = IF works THEN CloseLeg(futureLegs, FuturesSides, event.price) ELSE futureLegs

(* Mutant: every exit sells the put.                                       *)
CloseShadowPut(hedge, quoted) ==
    optionLegs' = IF quoted THEN CloseLeg(optionLegs, {"PE"}, event.price) ELSE optionLegs

CloseShadowHedge(hedge, quoted) ==
    optionLegs' = IF quoted THEN CloseLeg(optionLegs, {hedge}, event.price) ELSE optionLegs

CloseCombo(quoted) ==
    LET last == LatestOpen(combos, FuturesSides)
    IN  IF last = 0 \/ ~quoted THEN UNCHANGED futuresVars
        ELSE /\ combos' = CloseLeg(combos, FuturesSides, event.price)
             /\ futuresCash' = futuresCash + Margin + LegPnl(combos'[last])

CloseDerivatives(hedge) ==
    \E works \in BOOLEAN, hedgeQuoted, comboQuoted \in Quoted :
        /\ BestEffort(<<works, hedgeQuoted, comboQuoted>>)
        /\ CloseShadowFuture(works) /\ CloseShadowHedge(hedge, hedgeQuoted)
        /\ CloseCombo(comboQuoted)

CloseLong ==
    /\ phase = "longExits"
    /\ CloseDerivatives("PE")
    /\ phase' = AfterLong
    /\ UNCHANGED <<strategy, events, lost, trades, paperVars, tickVars>>

EndShort ==
    /\ phase = "endShort"
    /\ trades' = CloseOpenTrade(trades, "SELL", bar, event.price)
    /\ CloseDerivatives("CE")
    /\ phase' = "idle"
    /\ UNCHANGED <<strategy, events, lost, paperVars, tickVars>>

(* An exception in a step that is not best-effort; one symbol's does not   *)
(* reach another's.                                                        *)
CycleFails ==
    /\ phase # "idle" /\ faults < MaxFaults
    /\ phase' = "idle" /\ lost' = lost \cup {bar} /\ faults' = faults + 1
    /\ closing' = [closing EXCEPT !["cycle"] = NotReading]
    /\ lock' = IF lock = "cycle" THEN "free" ELSE lock
    /\ UNCHANGED <<strategy, events, trades, cash, paper, tickVars, futuresVars,
                   shadowVars>>

-------------------------------------------------------------------------------
(* The tick task and the refresh of its cache.                             *)

Watched(rows) ==
    LET last == LatestOpen(rows, {"BUY"})
    IN  IF last = 0 THEN NoPosition ELSE [entry |-> rows[last].entry, peak |-> rows[last].peak]

ForceClose(close) == cache' = NoPosition /\ tick' = close /\ UNCHANGED paper

CheckStopLoss(close) ==
    \/ /\ cache = NoPosition
       /\ UNCHANGED <<cache, tick, paper>>
    \/ /\ cache # NoPosition /\ StopBreached(cache.entry, close)
       /\ ForceClose(close)
    \/ /\ cache # NoPosition /\ ~StopBreached(cache.entry, close) /\ close > cache.peak
       /\ cache' = [cache EXCEPT !.peak = close]
       /\ paper' = UpdatePeakPrice(paper, close)
       /\ UNCHANGED tick
    \/ /\ cache # NoPosition /\ ~StopBreached(cache.entry, close) /\ close <= cache.peak
       /\ IF TrailBreached(cache.entry, cache.peak, close) THEN ForceClose(close)
          ELSE UNCHANGED <<cache, tick, paper>>

Tick(close) ==
    /\ tick = 0
    /\ price' = close /\ CheckStopLoss(close)
    /\ UNCHANGED <<cycleVars, trades, cash, lock, closing, snapshot, futuresVars,
                   shadowVars, faults>>

TickExit ==
    /\ tick # 0 /\ closing["tick"] = NotReading /\ SelectRow("tick")
    /\ UNCHANGED <<cycleVars, trades, cash, paper, tickVars, futuresVars, shadowVars, faults>>

TickWrite ==
    /\ closing["tick"] # NotReading /\ CloseRow("tick", tick)
    /\ tick' = 0
    /\ UNCHANGED <<cycleVars, trades, price, cache, snapshot, futuresVars, shadowVars, faults>>

RefreshRead ==
    /\ snapshot = NotReading
    /\ snapshot' = Watched(paper)
    /\ UNCHANGED <<cycleVars, trades, paperVars, price, tick, cache, futuresVars, shadowVars, faults>>

(* Mutant: the refresh updates only what the cache already holds.          *)
RefreshAssignKnown ==
    /\ snapshot # NotReading
    /\ cache' = IF cache = NoPosition THEN cache ELSE snapshot
    /\ snapshot' = NotReading
    /\ UNCHANGED <<cycleVars, trades, paperVars, price, tick, futuresVars, shadowVars,
                   faults>>

RefreshAssign ==
    /\ snapshot # NotReading
    /\ cache' = snapshot /\ snapshot' = NotReading
    /\ UNCHANGED <<cycleVars, trades, paperVars, price, tick, futuresVars, shadowVars, faults>>

(* A session that ends takes the cycle, the tick task and the refresh with *)
(* it; the next one primes the cache before it takes ticks.                *)
SessionRestarts ==
    /\ faults < MaxFaults /\ faults' = faults + 1
    /\ lost' = IF phase = "idle" THEN lost ELSE lost \cup {bar}
    /\ phase' = "idle" /\ lock' = "free" /\ closing' = [who \in Tasks |-> NotReading]
    /\ tick' = 0 /\ cache' = Watched(paper) /\ snapshot' = NotReading
    /\ UNCHANGED <<strategy, events, trades, cash, paper, price, futuresVars, shadowVars>>

-------------------------------------------------------------------------------
RankEntries == RankPaper \/ RankFutures

ProcessSymbol ==
    \/ RecordBuy \/ EndLong \/ PaperExit \/ PaperWrite \/ CloseLong \/ RecordSell \/ EndShort

CycleStep == RankEntries \/ ProcessSymbol

Next ==
    \/ EvaluateBar \/ CycleStep \/ CycleFails
    \/ (\E close \in Prices : Tick(close)) \/ TickExit \/ TickWrite
    \/ RefreshRead \/ RefreshAssign \/ SessionRestarts

Spec == Init /\ [][Next]_vars

(* Ticks keep coming, at the price the symbol trades at; a task that can   *)
(* go on does.  The lock is an asyncio.Lock, first come first served.      *)
FairSpec ==
    /\ Spec
    /\ WF_vars(CycleStep) /\ SF_vars(RankPaper \/ PaperExit)
    /\ WF_vars(Tick(price)) /\ SF_vars(TickExit) /\ WF_vars(TickWrite)
    /\ WF_vars(RefreshRead \/ RefreshAssign)

-------------------------------------------------------------------------------
(* Properties.                                                             *)

RowsOf(rows, sides) ==
    \A row \in Range(rows) : row.side \in sides /\ row.bar \in 1..bar /\ row.entry \in Prices

(* Types of the variables of the scan cycle, its books and the tick task:  *)
(* the paper account never spends more than it has.                        *)
TypeOK ==
    /\ price \in Prices /\ strategy \in StrategyState /\ bar \in 0..MaxBars /\ lost \subseteq 1..bar
    /\ phase \in {"idle", "paper", "futures", "buy", "endLong", "paperExit", "paperWrite",
                   "longExits", "sell", "endShort"}
    /\ RowsOf(trades, Sides) /\ RowsOf(paper, {"BUY"})
    /\ RowsOf(combos, FuturesSides) /\ RowsOf(futureLegs, FuturesSides)
    /\ RowsOf(optionLegs, {"PE", "CE"})
    /\ lock \in Tasks \cup {"free"} /\ tick \in Prices \cup {0} /\ cash \in Nat
    /\ closing \in [Tasks -> {NotReading} \cup 0..Len(paper)]
    /\ cache \in {NoPosition} \cup [entry : Prices, peak : Prices]
    /\ snapshot \in {NotReading, NoPosition} \cup [entry : Prices, peak : Prices]
    /\ futuresCash \in Int /\ faults \in 0..MaxFaults

(* The paper accounts lose and invent no money, whichever of the tick task,*)
(* the strategy's exit and the ranked entries get to the account first: a  *)
(* position is paid for once and credited once (paper_account.py           *)
(* open_position, close_position under paper_account_lock), a combo's      *)
(* margin is taken and returned once.                                      *)
MoneyConserved ==
    /\ cash + Committed(paper) =
           InitialCapital + MapThenSumSet(LAMBDA i : PaperPnl(paper[i]), DOMAIN paper \ OpenRows(paper))
    /\ futuresCash + Margin * Cardinality(OpenRows(combos)) =
           FuturesCapital + MapThenSumSet(LAMBDA i : LegPnl(combos[i]), DOMAIN combos \ OpenRows(combos))

(* The trades table scores what Pine's ml.backtest scores on the same bars,*)
(* which is what eligibility counts: _process_symbol's branches in their   *)
(* order, against replay_pine_backtest.                                    *)
ScoredAsPine ==
    phase = "idle" /\ lost = {} => ClosedTrades(trades) = ReplayPineBacktest(events).scored

(* The futures account never stays on the wrong side of the strategy: once *)
(* a bar is processed with no fault so far, an open combo is on the side   *)
(* of the trade Pine has open, and there is at most one; although combos   *)
(* are ranked in before the same bar's exits take the old ones out, and    *)
(* closed by symbol, not by side.                                          *)
CombosFollowStrategy ==
    phase = "idle" /\ faults = 0 =>
        /\ Cardinality(OpenRows(combos)) <= 1
        /\ \A i \in OpenRows(combos) :
               LET side == ReplayPineBacktest(events).current.side
               IN  side \in Sides /\ combos[i].side = SideOf(side)

(* Every shadow future open after a bar has an option open beside it, and  *)
(* every option a future, as long as no leg's open or close failed.        *)
LegsBalance ==
    phase = "idle" /\ faults = 0 =>
        Cardinality(OpenRows(futureLegs)) = Cardinality(OpenRows(optionLegs))

(* A newest paper position whose stop is breached while the price stays    *)
(* there is closed: the cache comes to know of it and the tick task gets   *)
(* the account's lock, across a restart of the session.                    *)
Breached ==
    LET last == LatestOpen(paper, {"BUY"})
    IN  last # 0 /\ StopBreached(paper[last].entry, price)

StopsHonoured == Breached ~> ~Breached

(* A bar's processing ends, whoever competes for the paper account's lock. *)
CycleEnds == phase # "idle" ~> phase = "idle"
===============================================================================
