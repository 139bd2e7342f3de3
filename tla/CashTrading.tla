----------------------------- MODULE CashTrading ------------------------------
(***************************************************************************)
(* Real cash-equity trading: how buy signals become orders, how positions  *)
(* are closed again, and how the order ledger follows what the broker      *)
(* does.  Every task is one asyncio call chain working on one symbol: an   *)
(* entry (execute_cash_entry followed by _finalize_cash_entry) or an exit  *)
(* (the strategy's exit branch or the dashboard's manual exit).  A step of *)
(* a task runs from one await to the next; between two steps the broker,   *)
(* other tasks, a crash or a new trading day may intervene.                *)
(***************************************************************************)
EXTENDS CashLedger, CashBroker

CONSTANTS
    Pipelines,    \* processes evaluating signals: the live pipeline, a triggered run
    Dashboards,   \* concurrent manual-exit requests to the web application
    MaxPositions, \* cash_state.max_positions
    MaxAttempts,  \* _MAX_ENTRY_ATTEMPTS
    EntryQty,     \* shares the notional amount buys
    HasCutoff,    \* is live_cash_entry_cutoff_ist set?
    PendingStatuses,      \* what the broker may call an order that is not terminal
    LostReplies,          \* may place_order raise after the order was accepted?
    BestEffortFailures,   \* may the broker reads that fail open fail?
    LateSettlement,       \* may a buy order still be pending when the next cycle starts?
    MaxOrders, MaxLegs, MaxGtts, MaxFailures, MaxDays  \* bounds on the exploration

Processes == Pipelines \cup Dashboards
Tasks == Processes \X Symbols
Process(t) == t[1]
Symbol(t) == t[2]

ASSUME ProcessAssumption == Pipelines \cap Dashboards = {}
ASSUME NumberAssumption ==
    /\ MaxPositions \in Nat /\ MaxAttempts \in Nat \ {0} /\ EntryQty \in Nat \ {0}
    /\ \A n \in {MaxOrders, MaxLegs, MaxGtts, MaxFailures, MaxDays} : n \in Nat
ASSUME NoneAssumption == None \notin Bars
ASSUME StatusAssumption == PendingStatuses \cap TerminalStatuses = {}

VARIABLES
    ledger,   \* live_order_legs: the rows of each symbol, oldest first
    brackets, \* gtt_brackets: the rows, oldest first
    pc,       \* where each task is; "idle" when there is no such task
    job,      \* the local variables of each task
    cutoff,   \* is it past the entry cutoff of the day?
    failures, \* how many crashes and failed database calls there were
    days,     \* how many trading days have ended so far
    lost      \* history: orders whose placing task never learned or recorded them

recordVars == <<ledger, brackets>>
clockVars == <<cutoff, failures, days>>
vars == <<brokerVars, recordVars, pc, job, clockVars, lost>>

-------------------------------------------------------------------------------
(* Shapes.                                                                 *)

OrderResults == TerminalStatuses \cup PendingStatuses \cup {"UNKNOWN"}

Leg == [side : Sides, status : OrderResults,
        qty : Nat \ {0}, intent : Bars \cup {None}, oid : Nat, seen : Nat]

Bracket == [sym : Symbols, trigger : Nat \ {0}, status : {"active", "cancelled", "closed"}]

NoJob == [kind |-> "none", bar |-> None, gated |-> FALSE, attempt |-> 0, qty |-> 0,
          oid |-> 0, result |-> "none", real |-> "none", trigger |-> 0]

Job == [kind : {"none", "entry", "exit"}, bar : Bars \cup {None}, gated : BOOLEAN,
        attempt : Nat, qty : Nat, oid : Nat,
        result : OrderResults \cup {"none", "cancelled", "closed"},
        real : {"none", "held", "flat", "unverified"}, trigger : Nat]

EntrySteps == {"checkOpen", "checkCapacity", "checkIntent", "lookupTag", "checkHolding",
               "recheck", "finalize", "placeGtt", "recordBracket"}
ExitSteps == {"lookup", "verify", "getBracket", "gttStatus", "cancelGtt",
              "updateBracket", "reconcile", "square"}
OrderSteps == {"place", "wait", "record"}
DatabaseSteps == {"checkOpen", "checkCapacity", "checkIntent", "lookupTag", "checkHolding",
                  "recheck", "record", "finalize", "recordBracket", "lookup", "getBracket",
                  "updateBracket", "reconcile", "square"}
Steps == {"idle"} \cup EntrySteps \cup ExitSteps \cup OrderSteps

Init ==
    /\ BrokerInit
    /\ ledger = [s \in Symbols |-> <<>>]
    /\ brackets = <<>>
    /\ pc = [t \in Tasks |-> "idle"]
    /\ job = [t \in Tasks |-> NoJob]
    /\ cutoff = FALSE /\ failures = 0 /\ days = 0
    /\ lost = {}

-------------------------------------------------------------------------------
(* Derived from the ledger and the broker.                                 *)

Unclosed(s) == UnclosedLegs(ledger[s])

Entry(s) == EntryLeg(ledger[s])

(* What a look at the order's status shows.                                *)
Reported(o) == IF Pending(o) THEN PendingStatuses ELSE {orders[o].status}

(* Symbols whose money is, or is about to be, at risk at the broker.       *)
Exposed == {s \in Symbols : held[s] > 0 \/ \E o \in PendingBuys : orders[o].sym = s}

OnLedger == {s \in Symbols : Unclosed(s) # {}}

(* Completed sells of today, whoever placed them, after every unclosed     *)
(* entry of the symbol was recorded.                                       *)
SoldSince(s) ==
    MapThenSumSet(LAMBDA o : orders[o].filled,
        {o \in TodaysOrders : /\ orders[o].sym = s
                              /\ orders[o].side = "SELL"
                              /\ orders[o].status = "COMPLETE"
                              /\ \A i \in Unclosed(s) : o > ledger[s][i].seen})

(* A slot is released early only on a completed exit at the broker.        *)
Released(s) ==
    /\ s \notin Exposed
    /\ \A i \in Unclosed(s) : ledger[s][i].status = "COMPLETE"
    /\ SoldSince(s) >= SumOfQty(ledger[s], Unclosed(s))

(* occupied_cash_symbols, when the broker can be read.                     *)
Occupied == {s \in OnLedger : ~Released(s)} \cup Exposed

ActiveBrackets(s) == {b \in DOMAIN brackets : /\ brackets[b].sym = s
                                              /\ brackets[b].status = "active"}

-------------------------------------------------------------------------------
(* Steps of tasks: the parts they share.                                   *)

Continue(t, step) == pc' = [pc EXCEPT ![t] = step] /\ UNCHANGED job

ContinueWith(t, step, j) == pc' = [pc EXCEPT ![t] = step] /\ job' = [job EXCEPT ![t] = j]

Finish(t) == ContinueWith(t, "idle", NoJob)

WriteLeg(s, side, status, qty, intent, oid) ==
    ledger' = [ledger EXCEPT ![s] =
                  Append(@, [side |-> side, status |-> status, qty |-> qty,
                             intent |-> intent, oid |-> oid, seen |-> Len(orders)])]

IsEntry(t) == job[t].kind = "entry"
Side(t) == IF IsEntry(t) THEN "BUY" ELSE "SELL"

(* Bounds of the exploration: they stop new tasks, never a task underway.  *)
Room(s) == Len(orders) < MaxOrders /\ Len(ledger[s]) < MaxLegs

(* One cycle's orders are settled before the next cycle looks.             *)
Settled == LateSettlement \/ PendingBuys = {}

(* Mutant: the lock around entries is missing.                             *)
EntryNeverUnderway(p) == FALSE

(* Entries of a pipeline run one at a time, until they are recorded.       *)
EntryUnderway(p) ==
    \E s \in Symbols : /\ IsEntry(<<p, s>>)
                       /\ pc[<<p, s>>] \notin {"finalize", "placeGtt", "recordBracket"}

-------------------------------------------------------------------------------
(* execute_cash_entry.                                                     *)

StartEntry(t, bar, gated) ==
    /\ pc[t] = "idle" /\ Process(t) \in Pipelines
    /\ ~EntryUnderway(Process(t)) /\ Settled /\ Room(Symbol(t)) /\ Len(gtts) < MaxGtts
    /\ ContinueWith(t, "checkOpen",
           [NoJob EXCEPT !.kind = "entry", !.bar = bar, !.gated = gated,
                         !.attempt = 1, !.qty = EntryQty])
    /\ UNCHANGED <<brokerVars, recordVars, clockVars, lost>>

CheckOpen(t) ==
    /\ pc[t] = "checkOpen"
    /\ Continue(t, IF job[t].gated /\ ~cutoff /\ Unclosed(Symbol(t)) = {}
                     THEN "checkCapacity" ELSE "finalize")
    /\ UNCHANGED <<brokerVars, recordVars, clockVars, lost>>

(* Mutant: one position too many.                                          *)
CheckCapacityOffByOne(t) ==
    /\ pc[t] = "checkCapacity"
    /\ \E occupied \in {Occupied} \cup (IF BestEffortFailures THEN {OnLedger} ELSE {}) :
          Continue(t, IF Cardinality(occupied) > MaxPositions
                        THEN "finalize" ELSE "checkIntent")
    /\ UNCHANGED <<brokerVars, recordVars, clockVars, lost>>

CheckCapacity(t) ==
    /\ pc[t] = "checkCapacity"
    /\ \E occupied \in {Occupied} \cup (IF BestEffortFailures THEN {OnLedger} ELSE {}) :
          Continue(t, IF Cardinality(occupied) >= MaxPositions
                        THEN "finalize" ELSE "checkIntent")
    /\ UNCHANGED <<brokerVars, recordVars, clockVars, lost>>

CheckIntent(t) ==
    /\ pc[t] = "checkIntent"
    /\ Continue(t, IF \E i \in DOMAIN ledger[Symbol(t)] :
                          /\ ledger[Symbol(t)][i].intent = job[t].bar
                          /\ ledger[Symbol(t)][i].status \in UnclosedStatuses
                     THEN "finalize" ELSE "lookupTag")
    /\ UNCHANGED <<brokerVars, recordVars, clockVars, lost>>

(* _broker_ground_truth_preflight, first signal: an order of this intent.  *)
NoTaggedOrder(t) ==
    /\ pc[t] = "lookupTag"
    /\ OrdersTagged(Symbol(t), job[t].bar) = {} \/ BestEffortFailures
    /\ Continue(t, "checkHolding")
    /\ UNCHANGED <<brokerVars, recordVars, clockVars, lost>>

TaggedOrderFound(t) ==
    /\ pc[t] = "lookupTag"
    /\ OrdersTagged(Symbol(t), job[t].bar) # {}
    /\ LET o == LatestTagged(Symbol(t), job[t].bar)
       IN  \E status \in Reported(o) :
              /\ WriteLeg(Symbol(t), "BUY", status, orders[o].qty, job[t].bar, o)
              /\ Continue(t, IF ConfirmedNoPosition(status)
                               THEN "checkHolding" ELSE "finalize")
    /\ UNCHANGED <<brokerVars, brackets, clockVars, lost>>

(* Mutants of the second signal: a row even for an empty holding; no look  *)
(* at the holding at all.                                                  *)
EmptyHoldingFound(t) ==
    /\ pc[t] = "checkHolding"
    /\ WriteLeg(Symbol(t), "BUY", "COMPLETE", held[Symbol(t)], job[t].bar, 0)
    /\ Continue(t, "finalize")
    /\ UNCHANGED <<brokerVars, brackets, clockVars, lost>>

HoldingNotChecked(t) ==
    /\ pc[t] = "checkHolding"
    /\ Continue(t, "place")
    /\ UNCHANGED <<brokerVars, recordVars, clockVars, lost>>

(* Second signal: shares held that nothing accounts for.                   *)
HiddenPositionFound(t) ==
    /\ pc[t] = "checkHolding"
    /\ held[Symbol(t)] > 0
    /\ WriteLeg(Symbol(t), "BUY", "COMPLETE", held[Symbol(t)], job[t].bar, 0)
    /\ Continue(t, "finalize")
    /\ UNCHANGED <<brokerVars, brackets, clockVars, lost>>

NoHiddenPosition(t) ==
    /\ pc[t] = "checkHolding"
    /\ held[Symbol(t)] = 0 \/ BestEffortFailures
    /\ Continue(t, "place")
    /\ UNCHANGED <<brokerVars, recordVars, clockVars, lost>>

(* Before a retry: cutoff and ledger are looked at, then the task sleeps.  *)
Recheck(t) ==
    /\ pc[t] = "recheck"
    /\ IF cutoff \/ Unclosed(Symbol(t)) # {}
         THEN Continue(t, "finalize")
         ELSE ContinueWith(t, "place", [job[t] EXCEPT !.attempt = @ + 1])
    /\ UNCHANGED <<brokerVars, recordVars, clockVars, lost>>

-------------------------------------------------------------------------------
(* _place_and_wait and _record, for entries and exits alike.               *)

PlaceAccepted(t) ==
    /\ pc[t] = "place"
    /\ AcceptOrder(Symbol(t), Side(t), job[t].qty, job[t].bar)
    /\ ContinueWith(t, "wait", [job[t] EXCEPT !.oid = Len(orders) + 1])
    /\ UNCHANGED <<held, gtts, recordVars, clockVars, lost>>

PlaceRefused(t) ==
    /\ pc[t] = "place"
    /\ ContinueWith(t, "record", [job[t] EXCEPT !.oid = 0, !.result = "REJECTED"])
    /\ UNCHANGED <<brokerVars, recordVars, clockVars, lost>>

(* The order reaches the broker, the call raises all the same.             *)
PlaceReplyLost(t) ==
    /\ pc[t] = "place" /\ LostReplies
    /\ AcceptOrder(Symbol(t), Side(t), job[t].qty, job[t].bar)
    /\ ContinueWith(t, "record", [job[t] EXCEPT !.oid = 0, !.result = "REJECTED"])
    /\ lost' = lost \cup {Len(orders) + 1}
    /\ UNCHANGED <<held, gtts, recordVars, clockVars>>

(* Mutants: wait_for_fill without its timeout; a failed poll that escapes  *)
(* before the order is recorded.                                           *)
WaitWithoutTimeout(t) ==
    /\ pc[t] = "wait" /\ ~Pending(job[t].oid)
    /\ ContinueWith(t, "record", [job[t] EXCEPT !.result = orders[job[t].oid].status])
    /\ UNCHANGED <<brokerVars, recordVars, clockVars, lost>>

WaitFailureEscapes(t) ==
    /\ pc[t] = "wait"
    /\ Finish(t)
    /\ UNCHANGED <<brokerVars, recordVars, clockVars, lost>>

(* wait_for_fill: a terminal status, or the last one seen at the timeout.  *)
WaitReturns(t) ==
    /\ pc[t] = "wait"
    /\ \E status \in Reported(job[t].oid) :
          ContinueWith(t, "record", [job[t] EXCEPT !.result = status])
    /\ UNCHANGED <<brokerVars, recordVars, clockVars, lost>>

WaitRaises(t) ==
    /\ pc[t] = "wait"
    /\ ContinueWith(t, "record", [job[t] EXCEPT !.result = "UNKNOWN"])
    /\ UNCHANGED <<brokerVars, recordVars, clockVars, lost>>

MayRetry(t) == ConfirmedNoPosition(job[t].result) /\ job[t].attempt < MaxAttempts

Record(t) ==
    /\ pc[t] = "record"
    /\ WriteLeg(Symbol(t), Side(t), job[t].result, job[t].qty, job[t].bar, job[t].oid)
    /\ IF IsEntry(t)
         THEN Continue(t, IF MayRetry(t) THEN "recheck" ELSE "finalize")
         ELSE Finish(t)
    /\ UNCHANGED <<brokerVars, brackets, clockVars, lost>>

-------------------------------------------------------------------------------
(* _finalize_cash_entry and place_bracket.                                 *)

Finalize(t) ==
    /\ pc[t] = "finalize"
    /\ IF Unclosed(Symbol(t)) # {} /\ job[t].gated
         THEN ContinueWith(t, "placeGtt", [job[t] EXCEPT !.qty = Entry(Symbol(t)).qty])
         ELSE Finish(t)
    /\ UNCHANGED <<brokerVars, recordVars, clockVars, lost>>

GttAccepted(t) ==
    /\ pc[t] = "placeGtt"
    /\ AcceptGtt(Symbol(t), job[t].qty)
    /\ ContinueWith(t, "recordBracket", [job[t] EXCEPT !.trigger = Len(gtts) + 1])
    /\ UNCHANGED <<orders, held, recordVars, clockVars, lost>>

GttRefused(t) ==
    /\ pc[t] = "placeGtt"
    /\ Finish(t)
    /\ UNCHANGED <<brokerVars, recordVars, clockVars, lost>>

RecordBracket(t) ==
    /\ pc[t] = "recordBracket"
    /\ brackets' = Append(brackets, [sym |-> Symbol(t), trigger |-> job[t].trigger,
                                     status |-> "active"])
    /\ Finish(t)
    /\ UNCHANGED <<brokerVars, ledger, clockVars, lost>>

-------------------------------------------------------------------------------
(* Exits: the strategy's exit branch, manual_exit.exit_position,           *)
(* reconcile_before_exit, record_broker_side_exit, execute_cash_exit.      *)

StartExit(t) ==
    /\ pc[t] = "idle" /\ Room(Symbol(t))
    /\ Process(t) \in Pipelines => Settled
    /\ ContinueWith(t, "lookup", [NoJob EXCEPT !.kind = "exit"])
    /\ UNCHANGED <<brokerVars, recordVars, clockVars, lost>>

(* The strategy goes on to execute_cash_exit even if it found nothing.     *)
Lookup(t) ==
    /\ pc[t] = "lookup"
    /\ IF Unclosed(Symbol(t)) # {}
         THEN ContinueWith(t, "verify", [job[t] EXCEPT !.qty = Entry(Symbol(t)).qty])
       ELSE IF Process(t) \in Pipelines THEN Continue(t, "square")
       ELSE Finish(t)
    /\ UNCHANGED <<brokerVars, recordVars, clockVars, lost>>

Verify(t) ==
    /\ pc[t] = "verify"
    /\ \E real \in {IF held[Symbol(t)] > 0 THEN "held" ELSE "flat"}
                   \cup (IF BestEffortFailures THEN {"unverified"} ELSE {}) :
          ContinueWith(t, "getBracket", [job[t] EXCEPT !.real = real])
    /\ UNCHANGED <<brokerVars, recordVars, clockVars, lost>>

CloseStep(real) == IF real = "flat" THEN "reconcile" ELSE "square"

GetBracket(t) ==
    /\ pc[t] = "getBracket"
    /\ LET active == ActiveBrackets(Symbol(t))
       IN  IF active = {}
             THEN Continue(t, CloseStep(job[t].real))
             ELSE ContinueWith(t, "gttStatus",
                      [job[t] EXCEPT !.trigger = brackets[Max(active)].trigger])
    /\ UNCHANGED <<brokerVars, recordVars, clockVars, lost>>

(* The status decides about flatness only when the holding is unverified;  *)
(* a status that cannot be read counts as still live.                      *)
GttStatus(t) ==
    /\ pc[t] = "gttStatus"
    /\ \E live \in {gtts[job[t].trigger].status = "active"}
                   \cup (IF BestEffortFailures THEN {TRUE} ELSE {}) :
          ContinueWith(t, IF live THEN "cancelGtt" ELSE "updateBracket",
              [job[t] EXCEPT !.result = IF live THEN "cancelled" ELSE "closed",
                             !.real = IF @ = "unverified" /\ ~live THEN "flat" ELSE @])
    /\ UNCHANGED <<brokerVars, recordVars, clockVars, lost>>

(* A failing delete is taken as "already gone".                            *)
CancelGtt(t) ==
    /\ pc[t] = "cancelGtt"
    /\ \/ /\ gtts[job[t].trigger].status = "active"
          /\ DeleteGtt(job[t].trigger)
       \/ /\ gtts[job[t].trigger].status # "active" \/ BestEffortFailures
          /\ UNCHANGED gtts
    /\ Continue(t, "updateBracket")
    /\ UNCHANGED <<orders, held, recordVars, clockVars, lost>>

UpdateBracket(t) ==
    /\ pc[t] = "updateBracket"
    /\ brackets' = [b \in DOMAIN brackets |->
                       IF brackets[b].trigger = job[t].trigger
                         THEN [brackets[b] EXCEPT !.status = job[t].result]
                         ELSE brackets[b]]
    /\ Continue(t, CloseStep(job[t].real))
    /\ UNCHANGED <<brokerVars, ledger, clockVars, lost>>

(* record_broker_side_exit, for the leg found when the exit began.         *)
Reconcile(t) ==
    /\ pc[t] = "reconcile"
    /\ WriteLeg(Symbol(t), "SELL", "COMPLETE", job[t].qty, None, 0)
    /\ Finish(t)
    /\ UNCHANGED <<brokerVars, brackets, clockVars, lost>>

(* execute_cash_exit: the whole of the first unclosed leg is sold.         *)
Square(t) ==
    /\ pc[t] = "square"
    /\ IF Unclosed(Symbol(t)) = {}
         THEN Finish(t)
         ELSE ContinueWith(t, "place", [job[t] EXCEPT !.qty = Entry(Symbol(t)).qty])
    /\ UNCHANGED <<brokerVars, recordVars, clockVars, lost>>

-------------------------------------------------------------------------------
(* What happens to the program from outside.                               *)

(* The tasks of p on the symbols in S end where they are; all they knew is *)
(* gone, an order they had placed but not recorded included.               *)
Stop(p, S) ==
    /\ failures < MaxFailures
    /\ failures' = failures + 1
    /\ lost' = lost \cup {job[<<p, s>>].oid :
                            s \in {r \in S : /\ pc[<<p, r>>] \in {"wait", "record"}
                                             /\ job[<<p, r>>].oid # 0}}
    /\ pc' = [t \in Tasks |-> IF Process(t) = p /\ Symbol(t) \in S THEN "idle" ELSE pc[t]]
    /\ job' = [t \in Tasks |-> IF Process(t) = p /\ Symbol(t) \in S THEN NoJob ELSE job[t]]
    /\ UNCHANGED <<brokerVars, recordVars, cutoff, days>>

Crash(p) ==
    /\ \E s \in Symbols : pc[<<p, s>>] # "idle"
    /\ Stop(p, Symbols)

(* A call to the (remote) database raises, and no task survives that; the  *)
(* callers log it and go on with the other symbols.                        *)
DatabaseFails(t) ==
    /\ pc[t] \in DatabaseSteps
    /\ Stop(Process(t), {Symbol(t)})

PassCutoff ==
    /\ HasCutoff /\ ~cutoff /\ cutoff' = TRUE
    /\ UNCHANGED <<brokerVars, recordVars, pc, job, failures, days, lost>>

NewDay ==
    /\ days < MaxDays
    /\ \A t \in Tasks : pc[t] = "idle"
    /\ BookRollsOver
    /\ cutoff' = FALSE /\ days' = days + 1
    /\ UNCHANGED <<recordVars, pc, job, failures, lost>>

BrokerSteps ==
    /\ \/ \E o \in DOMAIN orders : \/ \E n \in 1..EntryQty : Fill(o, n)
                                   \/ Reject(o)
                                   \/ Cancel(o)
       \/ \E g \in DOMAIN gtts : GttFires(g)
    /\ UNCHANGED <<recordVars, pc, job, clockVars, lost>>

EntryStep(t) ==
    \/ CheckOpen(t) \/ CheckCapacity(t) \/ CheckIntent(t)
    \/ NoTaggedOrder(t) \/ TaggedOrderFound(t)
    \/ HiddenPositionFound(t) \/ NoHiddenPosition(t) \/ Recheck(t)
    \/ Finalize(t) \/ GttAccepted(t) \/ GttRefused(t) \/ RecordBracket(t)

OrderStep(t) ==
    \/ PlaceAccepted(t) \/ PlaceRefused(t) \/ PlaceReplyLost(t)
    \/ WaitReturns(t) \/ WaitRaises(t) \/ Record(t)

ExitStep(t) ==
    \/ Lookup(t) \/ Verify(t) \/ GetBracket(t) \/ GttStatus(t)
    \/ CancelGtt(t) \/ UpdateBracket(t) \/ Reconcile(t) \/ Square(t)

TaskStep(t) == EntryStep(t) \/ OrderStep(t) \/ ExitStep(t)

Next ==
    \/ \E t \in Tasks : \/ \E bar \in Bars, gated \in BOOLEAN : StartEntry(t, bar, gated)
                        \/ StartExit(t)
                        \/ TaskStep(t)
                        \/ DatabaseFails(t)
    \/ BrokerSteps
    \/ \E p \in Processes : Crash(p)
    \/ PassCutoff
    \/ NewDay

Spec == Init /\ [][Next]_vars

(* The event loop resumes every task in the end.  Nothing relies on a      *)
(* failure: a call that never returns is not rescued by an exception.      *)
Resumes(t) ==
    EntryStep(t) \/ ExitStep(t) \/ PlaceAccepted(t) \/ WaitReturns(t) \/ Record(t)

FairSpec == Spec /\ \A t \in Tasks : WF_vars(Resumes(t))

-------------------------------------------------------------------------------
(* Properties.                                                             *)

(* Type correctness.  Cash trading is long-only, so the first row a symbol *)
(* ever gets is a buy; _net_unclosed_legs relies on that.                  *)
TypeOK ==
    /\ orders \in Seq(Order)
    /\ held \in [Symbols -> Nat]
    /\ gtts \in Seq(Gtt)
    /\ ledger \in [Symbols -> Seq(Leg)]
    /\ \A s \in Symbols : ledger[s] # <<>> => OpeningSide(ledger[s]) = "BUY"
    /\ brackets \in Seq(Bracket)
    /\ pc \in [Tasks -> Steps]
    /\ job \in [Tasks -> Job]
    /\ cutoff \in BOOLEAN /\ failures \in Nat /\ days \in Nat
    /\ lost \subseteq DOMAIN orders

(* What a symbol's pending buy orders may still add to its holding.        *)
StillToBuy(s) ==
    MapThenSumSet(LAMBDA o : orders[o].qty - orders[o].filled,
                  {o \in PendingBuys : orders[o].sym = s})

(* Never two entries in one position: shares held plus shares on order     *)
(* never exceed what one entry buys (execute_cash_entry "refuses to stack  *)
(* a second one"; the PERSISTENT.NS incident).                             *)
NoStacking == \A s \in Symbols : held[s] + StillToBuy(s) <= EntryQty

(* max_positions bounds the symbols with real money at risk, whatever the  *)
(* ledger believes.                                                        *)
CapacityRespected == Cardinality(Exposed) <= MaxPositions

InFlight(s) == \E t \in Tasks : Symbol(t) = s /\ pc[t] # "idle"

(* A real position never vanishes from the ledger: if shares are held, and *)
(* no task is at work on the symbol, and no order of it was lost to a      *)
(* crash, then some row is unclosed and every exit path can find it.       *)
RealPositionsOnRecord ==
    \A s \in Symbols :
        (held[s] > 0 /\ ~InFlight(s) /\ \A o \in lost : orders[o].sym # s)
            => Unclosed(s) # {}

(* Every order the application placed is on the ledger with its own side   *)
(* and quantity, or a task that will record it is at work, or its task     *)
(* died or never learned of it (the UNIONBANK.NS incident: an order whose  *)
(* status could not be polled used to be forgotten).                       *)
NoOrderForgotten ==
    \A o \in DOMAIN orders :
        \/ orders[o].gtt
        \/ o \in lost
        \/ \E t \in Tasks : pc[t] \in {"wait", "record"} /\ job[t].oid = o
        \/ \E i \in DOMAIN ledger[orders[o].sym] :
               LET leg == ledger[orders[o].sym][i]
               IN  leg.oid = o /\ leg.side = orders[o].side /\ leg.qty = orders[o].qty

(* gtt_brackets keeps "the one bracket" of a symbol: at most one GTT of it *)
(* is live at the exchange, so that cancelling the newest row's trigger    *)
(* before a square-off leaves nothing behind that could sell again.        *)
OneLiveBracket ==
    \A s \in Symbols :
        Cardinality({g \in DOMAIN gtts : gtts[g].sym = s /\ gtts[g].status = "active"}) <= 1

(* Every entry and every exit ends: no signal waits forever for a fill     *)
(* (wait_for_fill gives up) or retries forever.                            *)
TasksEnd == \A t \in Tasks : pc[t] # "idle" ~> pc[t] = "idle"


(* The promise: seen through Exposed, cash trading is a position book.     *)
Book == INSTANCE PositionBook WITH open <- Exposed
FollowsBook == Book!Spec
==============================================================================
