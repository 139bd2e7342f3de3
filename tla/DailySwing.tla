----------------------------- MODULE DailySwing ------------------------------
(***************************************************************************)
(* The Daily Swing service.  It keeps one position: a row of               *)
(* daily_swing_positions and, in memory, self.active.  Two chains of calls *)
(* work on it at once: "roll" closes a 30-minute bucket under bucket_lock  *)
(* (trail the stop, leave after ten sessions, enter), "tick" checks every  *)
(* price for stop, target and expiry.  Both may exit, one after the other  *)
(* under exit_lock.  The basket itself is BasketExecution's.               *)
(***************************************************************************)
EXTENDS BasketExecution

CONSTANTS
    Levels,          \* closes, as profit over the entry price; entry is 0
    InitialRisk,     \* distance from entry to the initial stop
    TrailGap,        \* 1.25 times the ATR
    MaxDays,         \* bound on the trading days
    CutEntries       \* may a session end while an entry is underway?

ASSUME LevelAssumption ==
    /\ Levels \subseteq Nat /\ 0 \in Levels
    /\ InitialRisk \in Nat \ {0} /\ TrailGap \in Nat /\ MaxDays \in Nat \ {0}

VARIABLES
    rows,        \* daily_swing_positions: one row at most for each setup
    attempts,    \* daily_swing_attempts: the setups it has a row for
    active,      \* self.active: setup, status and best close, or NoActive
    pendingExit, \* is self.pending_exit_reason set?
    backoff,     \* is it before self.exit_retry_after?
    phase,       \* "down", or in run's "loop", or in a market "session"
    today,       \* the trading day
    context      \* context_for_date: the day self.setups was built for, or 0

recordVars == <<rows, attempts>>
memoryVars == <<active, pendingExit, backoff>>
clockVars == <<phase, today, context>>
vars == <<basketVars, recordVars, memoryVars, clockVars>>

NoActive == [setup |-> NoSetup, status |-> "none", best |-> 0]

ActiveStatuses == {"entering", "open"}

(* get_active                                                              *)
ActiveRows == {d \in Setups : rows[d].status \in ActiveStatuses}

(* trailed_stop, as profit over the entry price.                           *)
TrailedStop(best) ==
    CASE best >= 2 * InitialRisk -> Max({-InitialRisk, InitialRisk, best - TrailGap})
      [] best >= InitialRisk /\ best < 2 * InitialRisk -> Max({-InitialRisk, 0})
      [] OTHER -> -InitialRisk

Init ==
    /\ BasketInit
    /\ rows = [d \in Setups |-> [status |-> "none", best |-> 0]]
    /\ attempts = {}
    /\ active = NoActive /\ pendingExit = FALSE /\ backoff = FALSE
    /\ phase = "down" /\ today = 1 /\ context = 0

SetStatus(D, status) ==
    rows' = [d \in Setups |-> IF d \in D THEN [rows[d] EXCEPT !.status = status] ELSE rows[d]]

-------------------------------------------------------------------------------
(* roll: process_bucket and update_position_on_close.                      *)

(* Mutant: the setups in memory are as good as any others.                 *)
ContextKept == UNCHANGED context

(* The setups are built anew if they are another day's.                    *)
ContextOfTheDay == context' = today

(* Either the position has a candle newer than its entry, or it has not.   *)
CloseBucket ==
    /\ phase = "session" /\ pc["roll"] = "idle" /\ ContextOfTheDay
    /\ \/ /\ active.status = "open"
          /\ GotoWith("roll", "trail", [job["roll"] EXCEPT !.setup = active.setup,
                                                           !.best = active.best])
       \/ Goto("roll", "choose")
    /\ UNCHANGED <<orders, ledger, faults, lost, recordVars, memoryVars, phase, today>>

(* Mutant: the last close instead of the best one.                         *)
LastClose(best, close) == close

BestClose(best, close) == Max({best, close})

(* update_trail, then self.active is set from the copy read before it.     *)
Trail ==
    /\ pc["roll"] = "trail"
    /\ \E close \in Levels, timeIsUp \in BOOLEAN :
          LET d == job["roll"].setup
              best == BestClose(job["roll"].best, close)
          IN  /\ rows' = [e \in Setups |->
                             IF rows[e].status = "open" /\ e.sym = d.sym
                               THEN [rows[e] EXCEPT !.best = best] ELSE rows[e]]
              /\ active' = [setup |-> d, status |-> "open", best |-> best]
              /\ GotoWith("roll", IF timeIsUp THEN "lock" ELSE "choose",
                          [job["roll"] EXCEPT !.after = "choose"])
    /\ UNCHANGED <<orders, ledger, faults, lost, attempts, pendingExit, backoff, clockVars>>

(* What rebuild_context found in the history up to the day before.         *)
ContextSetups == {d \in Setups : d.date = context}

Unattempted == ContextSetups \ attempts

(* The confirmed candidates are looked at together.                        *)
Choose ==
    /\ pc["roll"] = "choose"
    /\ \E confirmed \in SUBSET Unattempted :
          IF confirmed = {}
            THEN GotoWith("roll", "idle", NoJob) /\ UNCHANGED attempts
          ELSE IF active # NoActive \/ AnyUnclosed
            THEN GotoWith("roll", "idle", NoJob) /\ attempts' = attempts \cup confirmed
          ELSE /\ GotoWith("roll", "brokerCheck", [NoJob EXCEPT !.rest = confirmed])
               /\ UNCHANGED attempts
    /\ UNCHANGED <<orders, ledger, faults, lost, rows, memoryVars, clockVars>>

(* Which candidate ranks best is for the scores to say.                    *)
BrokerCheck ==
    /\ pc["roll"] = "brokerCheck"
    /\ IF BrokerHoldsNfo
         THEN GotoWith("roll", "idle", NoJob) /\ attempts' = attempts \cup job["roll"].rest
         ELSE /\ \E d \in job["roll"].rest :
                    GotoWith("roll", "attempt",
                        [job["roll"] EXCEPT !.setup = d, !.rest = @ \ {d},
                                            !.contract = d.contract, !.side = d.side])
              /\ UNCHANGED attempts
    /\ UNCHANGED <<orders, ledger, faults, lost, rows, memoryVars, clockVars>>

(* enter: one attempt for each setup, ever.                                *)
Attempt ==
    /\ pc["roll"] = "attempt"
    /\ attempts' = attempts \cup {job["roll"].setup}
    /\ Goto("roll", IF job["roll"].setup \in attempts THEN "finish" ELSE "contract")
    /\ UNCHANGED <<orders, ledger, faults, lost, rows, memoryVars, clockVars>>

(* No contract, no quote, or the defined loss is above the cap.            *)
Decline ==
    /\ pc["roll"] = "contract"
    /\ Goto("roll", "finish")
    /\ UNCHANGED <<orders, ledger, faults, lost, recordVars, memoryVars, clockVars>>

CreateEntering ==
    /\ pc["roll"] = "contract"
    /\ SetStatus({job["roll"].setup}, "entering")
    /\ Goto("roll", "gate")
    /\ UNCHANGED <<orders, ledger, faults, lost, attempts, memoryVars, clockVars>>

Settle ==
    /\ pc["roll"] = "settle"
    /\ LET j == job["roll"]
           isOpen == j.basket # 0 /\ OpenContracts(j.setup.sym) # {}
       IN  /\ SetStatus({j.setup}, IF isOpen THEN "open" ELSE "rejected")
           /\ Goto("roll", IF isOpen THEN "activate" ELSE "finish")
    /\ UNCHANGED <<orders, ledger, faults, lost, attempts, memoryVars, clockVars>>

(* The risk as filled may turn out above the cap: out again at once.       *)
Activate ==
    /\ pc["roll"] = "activate"
    /\ active' = [setup |-> job["roll"].setup, status |-> "open", best |-> 0]
    /\ \E aboveCap \in BOOLEAN :
          GotoWith("roll", IF aboveCap THEN "lock" ELSE "finish",
                   [job["roll"] EXCEPT !.after = "finish"])
    /\ UNCHANGED <<orders, ledger, faults, lost, recordVars, pendingExit, backoff, clockVars>>

(* The candidates that ranked lower are written off.                       *)
Finish ==
    /\ pc["roll"] = "finish"
    /\ attempts' = attempts \cup job["roll"].rest
    /\ GotoWith("roll", "idle", NoJob)
    /\ UNCHANGED <<orders, ledger, faults, lost, rows, memoryVars, clockVars>>

-------------------------------------------------------------------------------
(* exit_position, by either actor.                                         *)

LockedSteps == {"exitLook", "place", "wait", "record", "hedgeLook", "exitCheck", "clear"}
InExit(a) == pc[a] \in LockedSteps /\ job[a].stage \notin EntryStages

(* Mutant: an exit that is pending already is not asked for again.         *)
TickExitOnce ==
    /\ phase = "session" /\ pc["tick"] = "idle"
    /\ active.status = "open" /\ ~backoff /\ ~pendingExit
    /\ Goto("tick", "lock")
    /\ UNCHANGED <<orders, ledger, faults, lost, recordVars, memoryVars, clockVars>>

(* check_live_exit: stop, target, expiry, or what is pending already.      *)
TickExit ==
    /\ phase = "session" /\ pc["tick"] = "idle"
    /\ active.status = "open" /\ ~backoff
    /\ Goto("tick", "lock")
    /\ UNCHANGED <<orders, ledger, faults, lost, recordVars, memoryVars, clockVars>>

Return(a) == GotoWith(a, job[a].after, NoJob)

TakeExitLock(a) ==
    /\ pc[a] = "lock" /\ \A b \in Actors : ~InExit(b)
    /\ IF active.status = "open"
         THEN /\ GotoWith(a, "exitLook", [job[a] EXCEPT !.setup = active.setup, !.stage = "none"])
              /\ pendingExit' = TRUE
         ELSE Return(a) /\ UNCHANGED pendingExit
    /\ UNCHANGED <<orders, ledger, faults, lost, recordVars, active, backoff, clockVars>>

(* Anything left open, or nothing found to close: try again later.         *)
ExitIncomplete(a) ==
    /\ pc[a] = "exitCheck"
    /\ job[a].basket = 0 \/ OpenContracts(job[a].setup.sym) # {}
    /\ backoff' = TRUE
    /\ Return(a)
    /\ UNCHANGED <<orders, ledger, faults, lost, recordVars, active, pendingExit, clockVars>>

(* Mutant: a close that did not fill ends the position all the same.       *)
CloseRowOptimist(a) ==
    /\ pc[a] = "exitCheck" /\ job[a].basket # 0
    /\ SetStatus({d \in Setups : d.sym = job[a].setup.sym /\ rows[d].status = "open"}, "closed")
    /\ Goto(a, "clear")
    /\ UNCHANGED <<orders, ledger, faults, lost, attempts, memoryVars, clockVars>>

CloseRow(a) ==
    /\ pc[a] = "exitCheck"
    /\ job[a].basket # 0 /\ OpenContracts(job[a].setup.sym) = {}
    /\ SetStatus({d \in Setups : d.sym = job[a].setup.sym /\ rows[d].status = "open"}, "closed")
    /\ Goto(a, "clear")
    /\ UNCHANGED <<orders, ledger, faults, lost, attempts, memoryVars, clockVars>>

ClearActive(a) ==
    /\ pc[a] = "clear"
    /\ active' = NoActive /\ pendingExit' = FALSE /\ backoff' = FALSE
    /\ Return(a)
    /\ UNCHANGED <<orders, ledger, faults, lost, recordVars, clockVars>>

(* _EXIT_RETRY_SECONDS have passed.                                        *)
RetryDue ==
    /\ backoff /\ backoff' = FALSE
    /\ UNCHANGED <<basketVars, recordVars, active, pendingExit, clockVars>>

-------------------------------------------------------------------------------
(* run: start, reconciliation, sessions.                                   *)

(* setup refuses to start with more than one active row.                   *)
Setup ==
    /\ phase = "down" /\ Cardinality(ActiveRows) <= 1
    /\ active' = IF ActiveRows = {} THEN NoActive
                 ELSE LET d == CHOOSE e \in ActiveRows : TRUE
                      IN  [setup |-> d, status |-> rows[d].status, best |-> rows[d].best]
    /\ phase' = "loop"
    /\ UNCHANGED <<basketVars, recordVars, pendingExit, backoff, today, context>>

(* A runner that starts, or gets a new login, builds the setups.           *)
BuildContext ==
    \E newLogin \in BOOLEAN : context' = IF newLogin \/ context = 0 THEN today ELSE context

(* Mutant: an interrupted entry is dropped from memory only.               *)
BeginForgetsRow ==
    /\ phase = "loop" /\ phase' = "session" /\ BuildContext
    /\ active' = IF active.status = "entering" THEN NoActive ELSE active
    /\ UNCHANGED <<basketVars, recordVars, pendingExit, backoff, today>>

(* A login is there and the market is open.  An entry that was interrupted *)
(* is settled first: by the ledger, else by what the broker holds.         *)
Begin ==
    /\ phase = "loop" /\ phase' = "session" /\ BuildContext
    /\ IF active.status # "entering"
         THEN UNCHANGED <<rows, active>>
       ELSE IF OpenContracts(active.setup.sym) # {}
         THEN SetStatus({active.setup}, "open") /\ active' = [active EXCEPT !.status = "open"]
       ELSE IF BrokerHoldsNfo
         THEN UNCHANGED <<rows, active>>
       ELSE SetStatus({active.setup}, "rejected") /\ active' = NoActive
    /\ UNCHANGED <<basketVars, attempts, pendingExit, backoff, today>>

EntryUnderway == pc["roll"] \in {"gate", "settle", "activate"} \/ job["roll"].stage \in EntryStages

(* A new token, a stale feed or the market's close ends the five tasks.    *)
SessionCut ==
    /\ phase = "session" /\ faults < MaxFaults
    /\ \E a \in Actors : pc[a] # "idle"
    /\ EntryUnderway => CutEntries
    /\ phase' = "loop"
    /\ Abandon(Actors)
    /\ UNCHANGED <<orders, ledger, recordVars, memoryVars, today, context>>

(* Also an exception out of any task: _run starts over with a new runner.  *)
Crash ==
    /\ phase # "down" /\ faults < MaxFaults
    /\ phase' = "down"
    /\ Abandon(Actors)
    /\ active' = NoActive /\ pendingExit' = FALSE /\ backoff' = FALSE /\ context' = 0
    /\ UNCHANGED <<orders, ledger, recordVars, today>>

(* The market closes between two buckets; what is left of a day's orders   *)
(* lapses.                                                                 *)
NewDay ==
    /\ phase = "session" /\ today < MaxDays
    /\ \A a \in Actors : pc[a] = "idle"
    /\ phase' = "loop" /\ today' = today + 1
    /\ orders' = [o \in DOMAIN orders |->
                     [orders[o] EXCEPT !.status = IF @ = "OPEN" THEN "CANCELLED" ELSE @]]
    /\ UNCHANGED <<ledger, pc, job, faults, lost, recordVars, memoryVars, context>>

-------------------------------------------------------------------------------
RollStep ==
    \/ CloseBucket \/ Trail \/ Choose \/ BrokerCheck \/ Attempt \/ Decline
    \/ CreateEntering \/ Settle \/ Activate \/ Finish

ExitStep(a) == TakeExitLock(a) \/ ExitIncomplete(a) \/ CloseRow(a) \/ ClearActive(a)

Broker == \E o \in DOMAIN orders : \/ \E n \in 1..Lot : Trade(o, n)
                                   \/ Reject(o)

Basket == Broker \/ \E a \in Actors : BasketStep(a)

Next ==
    \/ RollStep \/ TickExit \/ RetryDue
    \/ \E a \in Actors : ExitStep(a)
    \/ Basket /\ UNCHANGED <<recordVars, memoryVars, clockVars>>
    \/ Setup \/ Begin \/ SessionCut \/ Crash \/ NewDay

Spec == Init /\ [][Next]_vars

Goes(a) == ExitStep(a) \/ (BasketStep(a) /\ UNCHANGED <<recordVars, memoryVars, clockVars>>)

RollGoesOn == Trail \/ Choose \/ BrokerCheck \/ Attempt \/ CreateEntering \/ Settle
              \/ Activate \/ Finish \/ Goes("roll")

TickGoesOn == RetryDue \/ (TickExit /\ pendingExit) \/ Goes("tick")

(* The loop starts and starts again, ticks keep coming, the event loop     *)
(* resumes both actors, and an order at the market trades in the end.  A   *)
(* tick must lead to an exit only if one is pending.                       *)
FairSpec ==
    /\ Spec
    /\ WF_phase(Setup \/ Begin) /\ WF_pc(RollGoesOn) /\ WF_<<pc, backoff>>(TickGoesOn)
    /\ WF_orders(Broker)

-------------------------------------------------------------------------------
(* Properties.                                                             *)

TypeOK ==
    /\ \A o \in DOMAIN orders : /\ orders[o].qty \in 1..Lot /\ orders[o].filled \in 0..Lot
                                /\ orders[o].contract \in Contracts
    /\ \A i \in DOMAIN ledger : ledger[i].qty \in 1..Lot /\ ledger[i].contract \in Contracts
    /\ rows \in [Setups -> [status : {"none", "closed", "rejected"} \cup ActiveStatuses,
                            best : Levels]]
    /\ attempts \subseteq Setups
    /\ active.setup \in Setups \cup {NoSetup} /\ active.status \in {"none"} \cup ActiveStatuses
    /\ pendingExit \in BOOLEAN /\ backoff \in BOOLEAN
    /\ phase \in {"down", "loop", "session"} /\ today \in 1..MaxDays /\ context \in 0..today
    /\ lost \subseteq DOMAIN orders /\ faults \in 0..MaxFaults

AtRest == \A a \in Actors : pc[a] = "idle"

Untouched(c) == \A o \in lost : orders[o].contract # c

(* What the ledger takes to be open in a future, with its direction.       *)
OnLedger(c) ==
    IF PrimaryLegs(c) = <<>> THEN 0
    ELSE Sign(OpeningSide(PrimaryLegs(c))) *
         MapThenSumSet(LAMBDA i : OpenPrimary(c)[i], DOMAIN OpenPrimary(c))

(* The ledger's net primary quantity is the account's real future          *)
(* position, long or short, whenever nobody is at work on it and no order  *)
(* of it was lost: every exit and every entry gate trusts it.              *)
FuturesOnLedger ==
    AtRest => \A c \in Contracts : Untouched(c) => Net("primary", c) = OnLedger(c)

(* A real future is always watched: with nobody at work, in a session, the *)
(* position held in memory is open and is the one of that future, so that  *)
(* a tick through its stop will close it.                                  *)
FuturesWatched ==
    (AtRest /\ phase = "session") =>
        \A c \in Contracts : (Net("primary", c) # 0 /\ Untouched(c)) =>
            active.status = "open" /\ active.setup.contract = c

(* setup's own assertion, "More than one active daily-swing position":     *)
(* never two rows entering or open, crashes included, or the service never *)
(* comes up again.                                                         *)
OneActiveRow == Cardinality(ActiveRows) <= 1

(* A future is never opened without its protection: when a position in a   *)
(* future comes up, the whole lot of its option is already there, unless   *)
(* an order of that basket was lost before.                                *)
ProtectedBeforeOpened ==
    [][\A c \in Contracts : (Untouched(c) /\ Net("primary", c) = 0 /\ Net("primary", c)' # 0)
                                => Net("hedge", c) >= Lot]_orders

(* An entry is made on a setup of its own day only, though the runner may  *)
(* have slept over night with yesterday's setups in memory.                *)
EntersOnTodaysSetup ==
    [][\A d \in Setups : rows[d].status = "none" /\ rows'[d].status = "entering"
                            => d.date = today]_rows

(* The protective stop never moves away from the market, restarts, retries *)
(* and concurrent exits included.                                          *)
StopNeverLoosens ==
    [][\A d \in Setups : rows[d].status = "open" /\ rows'[d].status = "open"
                            => TrailedStop(rows'[d].best) >= TrailedStop(rows[d].best)]_rows

(* An exit once begun is retried until no future is open: an order may     *)
(* fail, the session may end (only a crash makes a new process decide anew *)
(* whether to leave).                                                      *)
ExitsCloseFuture == pendingExit ~> ~(pendingExit /\ AnyUnclosed)
==============================================================================
