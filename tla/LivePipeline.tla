---------------------------- MODULE LivePipeline -----------------------------
(***************************************************************************)
(* The live ticker process: the supervisor that opens a market session and *)
(* tears it down (run_forever), the ticker and its watchdog, the loop that *)
(* closes a bucket and has the engine evaluate it, and beside it the       *)
(* download-based run the dashboard starts in a process of its own.  One   *)
(* evaluation runs at a time; what two at once do to an account is the     *)
(* subject of CashTrading.                                                 *)
(***************************************************************************)
EXTENDS TickAggregator, BarReplay

CONSTANTS
    Symbols,
    Workers,         \* threads of the event loop's default executor
    FormingBars,     \* may a download end in the bar that is still forming?
    ExternalWatchdog,\* is the cron job there that restarts a silent process?
    MaxHour, MaxLogins, MaxFaults  \* bounds: the clock, logins, faults

ASSUME PipelineAssumption ==
    /\ Workers \in Nat \ {0} /\ FormingBars \in BOOLEAN /\ ExternalWatchdog \in BOOLEAN
    /\ MaxHour \in Nat /\ MaxLogins \in Nat /\ MaxFaults \in Nat

VARIABLES
    hour,     \* the clock, in buckets
    login,    \* kite_session: number of the stored token; 0: none
    valid,    \* does Kite still accept it?
    alerted,  \* was the expiry announced since the last login?
    phase,    \* "down", "waiting" in run_forever's loop, "session", or "hung"
    leaked,   \* executor threads left behind in queue.get
    using,    \* self._access_token
    ticker,   \* "off", "connecting", "live" or "dead"
    stale,    \* no tick or connect for _TICKER_STALE_SECONDS
    current,  \* self._current_bucket
    agg,      \* the aggregators
    stored,   \* candles: bars on record for each symbol
    engine,   \* engine_state
    run,      \* the evaluation underway: "none", "live" or "manual"
    task,     \* how far it is with each symbol
    acted,    \* the bars each symbol's signals were acted on, in order
    faults

kiteVars == <<login, valid, alerted>>
sessionVars == <<phase, leaked, using, ticker, stale>>
barVars == <<current, agg>>
tableVars == <<stored, engine>>
runVars == <<run, task>>
vars == <<hour, kiteVars, sessionVars, barVars, tableVars, runVars, acted, faults>>

Open == IsMarketHours(hour)

FreshAggregators == [s \in Symbols |-> EmptyBar]
NoTasks == [s \in Symbols |-> NoTask]

Init ==
    /\ hour = 0 /\ login = 0 /\ valid = FALSE /\ alerted = FALSE
    /\ phase = "down" /\ leaked = 0 /\ using = 0 /\ ticker = "off" /\ stale = FALSE
    /\ current = NoBar /\ agg = FreshAggregators
    /\ stored = [s \in Symbols |-> {}] /\ engine = [s \in Symbols |-> FreshEngine]
    /\ run = "none" /\ task = NoTasks
    /\ acted = [s \in Symbols |-> <<>>] /\ faults = 0

Fault == faults < MaxFaults /\ faults' = faults + 1

-------------------------------------------------------------------------------
(* Kite and the admin's logins.                                            *)

(* Kite throws yesterday's token away before the market opens.             *)
TokenReset ==
    /\ valid /\ ~Open
    /\ valid' = FALSE
    /\ UNCHANGED <<hour, login, alerted, sessionVars, barVars, tableVars, runVars, acted, faults>>

SetToken == login' = login + 1

(* Kite's redirect after a login; one that failed stores nothing.          *)
Login ==
    /\ login < MaxLogins
    /\ SetToken /\ valid' = TRUE /\ alerted' = FALSE
    /\ UNCHANGED <<hour, sessionVars, barVars, tableVars, runVars, acted, faults>>

-------------------------------------------------------------------------------
(* run_forever and what ends a session.                                    *)

Restart ==
    /\ phase = "down" /\ phase' = "waiting"
    /\ UNCHANGED <<hour, kiteVars, leaked, using, ticker, stale, barVars, tableVars, runVars,
                   acted, faults>>

(* kite.profile runs on an executor thread; with none left it never starts.*)
Asking == phase = "waiting" /\ Open /\ login > 0

ExecutorExhausted ==
    /\ Asking /\ leaked >= Workers
    /\ phase' = "hung"
    /\ UNCHANGED <<hour, kiteVars, leaked, using, ticker, stale, barVars, tableVars, runVars,
                   acted, faults>>

(* Mutant: the supervisor waits for a login without telling anyone.        *)
TokenRejectedSilently ==
    /\ Asking /\ leaked < Workers /\ ~valid
    /\ UNCHANGED vars

TokenRejected ==
    /\ Asking /\ leaked < Workers /\ ~valid
    /\ alerted' = TRUE
    /\ UNCHANGED <<hour, login, valid, sessionVars, barVars, tableVars, runVars, acted, faults>>

StartSession ==
    /\ Asking /\ leaked < Workers /\ valid
    /\ phase' = "session" /\ using' = login /\ ticker' = "connecting" /\ stale' = FALSE
    /\ current' = NoBar /\ agg' = FreshAggregators
    /\ UNCHANGED <<hour, kiteVars, leaked, tableVars, runVars, acted, faults>>

(* The tasks are cancelled, an evaluation too; the drain's thread stays    *)
(* behind, waiting for a tick of a pipeline that is no more.               *)
EndSession ==
    /\ phase = "session"
    /\ phase' = "waiting" /\ ticker' = "off" /\ stale' = FALSE /\ leaked' = leaked + 1
    /\ run' = (IF run = "live" THEN "none" ELSE run)
    /\ task' = (IF run = "live" THEN NoTasks ELSE task)
    /\ UNCHANGED using

MarketClosed ==
    /\ ~Open /\ EndSession
    /\ UNCHANGED <<hour, kiteVars, barVars, tableVars, acted, faults>>

(* Mutant: the watchdog gives notice and leaves the session as it is.      *)
WatchdogOnlyWarns ==
    /\ stale /\ Open /\ phase = "session"
    /\ alerted' = TRUE
    /\ UNCHANGED <<hour, login, valid, sessionVars, barVars, tableVars, runVars, acted, faults>>

Watchdog ==
    /\ stale /\ Open /\ EndSession
    /\ alerted' = TRUE
    /\ UNCHANGED <<hour, login, valid, barVars, tableVars, acted, faults>>

(* An exception out of one of the seven loops.                             *)
SessionCrashes ==
    /\ Fault /\ EndSession
    /\ UNCHANGED <<hour, kiteVars, barVars, tableVars, acted>>

ProcessDies ==
    /\ Fault /\ phase # "down"
    /\ phase' = "down" /\ ticker' = "off" /\ stale' = FALSE /\ leaked' = 0
    /\ run' = (IF run = "live" THEN "none" ELSE run)
    /\ task' = (IF run = "live" THEN NoTasks ELSE task)
    /\ UNCHANGED <<hour, kiteVars, using, barVars, tableVars, acted>>

(* No line in the log for minutes: a cron job outside the repository       *)
(* restarts the process.                                                   *)
KillHungProcess ==
    /\ ExternalWatchdog /\ phase = "hung"
    /\ phase' = "down" /\ leaked' = 0
    /\ UNCHANGED <<hour, kiteVars, using, ticker, stale, barVars, tableVars, runVars, acted, faults>>

-------------------------------------------------------------------------------
(* The ticker.                                                             *)

Connects ==
    /\ ticker = "connecting" /\ valid /\ using = login
    /\ ticker' = "live" /\ stale' = FALSE
    /\ UNCHANGED <<hour, kiteVars, phase, leaked, using, barVars, tableVars, runVars, acted, faults>>

(* Also a connection attempt that hangs without a callback.                *)
TickerDies ==
    /\ Fault /\ ticker \in {"connecting", "live"}
    /\ ticker' \in {"connecting", "dead"}
    /\ ticker' # ticker
    /\ UNCHANGED <<hour, kiteVars, phase, leaked, using, stale, barVars, tableVars, runVars, acted>>

(* A hundred and twenty seconds without a callback.                        *)
Silence ==
    /\ phase = "session" /\ ticker # "live" /\ ~stale
    /\ stale' = TRUE
    /\ UNCHANGED <<hour, kiteVars, phase, leaked, using, ticker, barVars, tableVars, runVars,
                   acted, faults>>

(* _token_refresh_loop reconnects in place; the watchdog's clock runs on.  *)
HotSwap ==
    /\ phase = "session" /\ using # login
    /\ using' = login /\ ticker' = "connecting"
    /\ UNCHANGED <<hour, kiteVars, phase, leaked, stale, barVars, tableVars, runVars, acted, faults>>

(* _on_ticks and _drain_ticks_loop.                                        *)
Tick(s) ==
    /\ phase = "session" /\ ticker = "live"
    /\ agg' = [agg EXCEPT ![s] = AddTick(@, hour)]
    /\ stale' = FALSE
    /\ UNCHANGED <<hour, kiteVars, phase, leaked, using, ticker, current, tableVars, runVars,
                   acted, faults>>

-------------------------------------------------------------------------------
(* _boundary_loop and _finalize_bucket.                                    *)

Rolled == current = BucketStart(hour)

StartBucket ==
    /\ phase = "session" /\ current = NoBar
    /\ current' = BucketStart(hour) /\ agg' = FreshAggregators
    /\ UNCHANGED <<hour, kiteVars, sessionVars, tableVars, runVars, acted, faults>>

QuietBucket ==
    /\ phase = "session" /\ current # NoBar /\ ~Rolled /\ run # "live"
    /\ \A s \in Symbols : ~HasTicks(agg[s])
    /\ current' = BucketStart(hour) /\ agg' = FreshAggregators
    /\ UNCHANGED <<hour, kiteVars, sessionVars, tableVars, runVars, acted, faults>>

CloseBucket ==
    /\ phase = "session" /\ current # NoBar /\ ~Rolled /\ run = "none"
    /\ \E s \in Symbols : HasTicks(agg[s])
    /\ run' = "live"
    /\ task' = [s \in Symbols |-> IF HasTicks(agg[s]) THEN Waiting ELSE NoTask]
    /\ UNCHANGED <<hour, kiteVars, sessionVars, barVars, tableVars, acted, faults>>

(* The dashboard's button, or the scheduled run; it needs a Kite session.  *)
StartManualRun ==
    /\ run = "none" /\ valid
    /\ run' = "manual" /\ task' = [s \in Symbols |-> Waiting]
    /\ UNCHANGED <<hour, kiteVars, sessionVars, barVars, tableVars, acted, faults>>

ManualRunRefused ==
    /\ run = "none" /\ ~valid
    /\ alerted' = TRUE
    /\ UNCHANGED <<hour, login, valid, sessionVars, barVars, tableVars, runVars, acted, faults>>

-------------------------------------------------------------------------------
(* One evaluation: all symbols first, then what their signals ask for.     *)

ClosedBars(until) == {b \in 0..(until - 1) : IsMarketHours(b)}

DayStart == hour - (hour % (BarsPerDay + 1))

(* The live path stores the bar that just closed.  A download returns the  *)
(* bars so far, though the historical data may lag behind the session.     *)
Store(s) ==
    /\ run # "none" /\ task[s].at = "store"
    /\ task' = [task EXCEPT ![s] = Stored(@)]
    /\ IF run = "live" THEN stored' = [stored EXCEPT ![s] = @ \cup {current}]
       ELSE \E until \in (DayStart..hour) \cup {h \in {hour + 1} : FormingBars} :
                stored' = [stored EXCEPT ![s] = @ \cup ClosedBars(until)]
    /\ UNCHANGED <<hour, kiteVars, sessionVars, barVars, engine, run, acted, faults>>

Plan(s) ==
    /\ run # "none" /\ task[s].at = "plan"
    /\ task' = [task EXCEPT ![s] = Planned(stored[s], engine[s])]
    /\ UNCHANGED <<hour, kiteVars, sessionVars, barVars, tableVars, run, acted, faults>>

Replay(s) ==
    /\ run # "none" /\ task[s].at = "replay"
    /\ engine' = [engine EXCEPT ![s] = Saved(task[s])]
    /\ task' = [task EXCEPT ![s] = Advanced(@)]
    /\ UNCHANGED <<hour, kiteVars, sessionVars, barVars, stored, run, acted, faults>>

(* A symbol that fails is logged and left out; its bar stays on record.    *)
SymbolFails(s) ==
    /\ Fault /\ run # "none" /\ task[s].at \in {"store", "plan", "replay"}
    /\ task' = [task EXCEPT ![s] = NoTask]
    /\ UNCHANGED <<hour, kiteVars, sessionVars, barVars, tableVars, run, acted>>

Evaluated == run # "none" /\ \A s \in Symbols : task[s].at \in {"none", "done"}

(* Orders go out on an executor thread, and the drain holds one.           *)
Stuck == run = "live" /\ Evaluated /\ leaked + 1 >= Workers

(* Mutant: the first of the bars caught up is taken for the current one.   *)
ActOnFirst(s) ==
    /\ Evaluated /\ ~Stuck /\ task[s].at = "done"
    /\ acted' = (IF task[s].done = <<>> THEN acted
                 ELSE [acted EXCEPT ![s] = Append(@, Head(task[s].done))])
    /\ task' = [task EXCEPT ![s] = NoTask]
    /\ UNCHANGED <<hour, kiteVars, sessionVars, barVars, tableVars, run, faults>>

Act(s) ==
    /\ Evaluated /\ ~Stuck /\ task[s].at = "done"
    /\ acted' = (IF task[s].done = <<>> THEN acted
                 ELSE [acted EXCEPT ![s] = Append(@, Current(task[s]))])
    /\ task' = [task EXCEPT ![s] = NoTask]
    /\ UNCHANGED <<hour, kiteVars, sessionVars, barVars, tableVars, run, faults>>

(* Mutant: the aggregators go on with the bucket that was just closed.     *)
EndEvaluationOnly ==
    /\ run = "live" /\ task = NoTasks
    /\ run' = "none"
    /\ current' = BucketStart(hour)
    /\ UNCHANGED <<hour, kiteVars, sessionVars, agg, tableVars, task, acted, faults>>

EndLiveRun ==
    /\ run = "live" /\ task = NoTasks
    /\ run' = "none"
    /\ current' = BucketStart(hour) /\ agg' = FreshAggregators
    /\ UNCHANGED <<hour, kiteVars, sessionVars, tableVars, task, acted, faults>>

EndManualRun ==
    /\ run = "manual" /\ task = NoTasks
    /\ run' = "none"
    /\ UNCHANGED <<hour, kiteVars, sessionVars, barVars, tableVars, task, acted, faults>>

ManualRunDies ==
    /\ Fault /\ run = "manual"
    /\ run' = "none" /\ task' = NoTasks
    /\ UNCHANGED <<hour, kiteVars, sessionVars, barVars, tableVars, acted>>

(* The loops poll every few seconds and an evaluation takes minutes: each  *)
(* is done within the hour, unless it is stuck for good.                   *)
HourPasses ==
    /\ hour < MaxHour
    /\ run = "none" \/ Stuck
    /\ phase = "session" => Open /\ (Rolled \/ Stuck)
    /\ hour' = hour + 1
    /\ UNCHANGED <<kiteVars, sessionVars, barVars, tableVars, runVars, acted, faults>>

-------------------------------------------------------------------------------
Supervise == Restart \/ ExecutorExhausted \/ TokenRejected \/ StartSession \/ KillHungProcess

Boundary == StartBucket \/ QuietBucket \/ CloseBucket

Evaluate == \/ \E s \in Symbols : Store(s) \/ Plan(s) \/ Replay(s) \/ Act(s)
            \/ EndLiveRun \/ EndManualRun

Next ==
    \/ TokenReset \/ Login \/ HourPasses
    \/ Supervise \/ MarketClosed \/ Watchdog
    \/ SessionCrashes \/ ProcessDies \/ TickerDies \/ ManualRunDies
    \/ Connects \/ Silence \/ HotSwap \/ \E s \in Symbols : Tick(s)
    \/ Boundary \/ StartManualRun \/ ManualRunRefused \/ Evaluate
    \/ \E s \in Symbols : SymbolFails(s)

Spec == Init /\ [][Next]_vars

(* The supervisor's loops and the service manager's restarts go on for     *)
(* ever, and of the connections Kite accepts one comes up in the end.      *)
FairSpec ==
    /\ Spec
    /\ WF_vars(Supervise) /\ WF_vars(MarketClosed) /\ WF_vars(Watchdog)
    /\ SF_vars(Connects) /\ WF_vars(Silence) /\ WF_vars(HotSwap)
    /\ WF_vars(Boundary) /\ WF_vars(Evaluate)

-------------------------------------------------------------------------------
(* Properties.                                                             *)

Bars == {b \in 0..MaxHour : IsMarketHours(b)}

TypeOK ==
    /\ hour \in 0..MaxHour /\ login \in 0..MaxLogins /\ using \in 0..login
    /\ valid \in BOOLEAN /\ alerted \in BOOLEAN /\ stale \in BOOLEAN
    /\ phase \in {"down", "waiting", "session", "hung"} /\ leaked \in 0..Workers
    /\ ticker \in {"off", "connecting", "live", "dead"}
    /\ current \in Bars \cup {NoBar} /\ \A s \in Symbols : agg[s] \subseteq 0..hour
    /\ \A s \in Symbols : stored[s] \subseteq Bars /\ engine[s].last \in stored[s] \cup {NoBar}
    /\ run \in {"none", "live", "manual"} /\ faults \in 0..MaxFaults
    /\ \A s \in Symbols : (task[s].at = "replay") <=> (task[s].todo # <<>>)

Increasing(seq) == \A i \in 1..(Len(seq) - 1) : seq[i] < seq[i + 1]

(* A bar goes into the persisted neighbour queue once and in order, under  *)
(* every mixture of live and downloaded runs, failing symbols and crashes  *)
(* between the writes of one replay ("advancing it again would             *)
(* double-count its contribution", evaluation.py).                         *)
EachBarCountedOnce ==
    \A s \in Symbols : /\ Increasing(engine[s].queue)
                       /\ engine[s].queue # <<>> => Last(engine[s].queue) = engine[s].last

(* Only the freshest bar on record is acted on, and never twice: whatever  *)
(* an outage left behind is reported and not traded on.                    *)
ActsOnFreshest ==
    [][\A s \in Symbols : acted'[s] # acted[s] =>
           /\ Last(acted'[s]) = Newest(stored[s])
           /\ \A i \in DOMAIN acted[s] : acted[s][i] < Last(acted'[s])]_vars

(* A candle of a bucket holds no tick from before the bucket, whatever     *)
(* sessions, quiet hours and long evaluations came before it.              *)
BarsStartAfresh ==
    current # NoBar => \A s \in Symbols : \A h \in agg[s] : h >= current

(* The engine never moves past a bar that is on record, unless the gap is  *)
(* wider than it replays.                                                  *)
NoStoredBarJumped ==
    [][\A s \in Symbols :
          LET before == engine[s].last
              between == {b \in stored[s] : before < b /\ b < engine'[s].last}
          IN  (engine'[s] # engine[s] /\ before # NoBar)
                  => between = {} \/ Cardinality(between) >= MaxCatchUpBars]_vars

(* While the market is open and the login is good, ticks flow again sooner *)
(* or later, whatever the ticker did and however often: the watchdog's     *)
(* promise.                                                                *)
TickerRecovers == (Open /\ valid) ~> (ticker = "live" \/ ~Open \/ ~valid)

(* A login that Kite rejects in market hours is announced, or replaced, or *)
(* the ticker does not need it.                                            *)
DeadTokenAnnounced ==
    (Open /\ login > 0 /\ ~valid /\ ticker # "live")
        ~> (alerted \/ valid \/ ticker = "live" \/ ~Open)
==============================================================================
