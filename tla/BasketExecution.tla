--------------------------- MODULE BasketExecution ---------------------------
(***************************************************************************)
(* Real hedged-futures baskets: a future protected by one long option.     *)
(* An entry buys the option first and trades the future second; an exit    *)
(* closes the future first.  Whatever does not fill is unwound.  The       *)
(* orders of a basket are placed one after the other by one actor of the   *)
(* Daily Swing service; a step of an actor runs from one await to the next.*)
(*                                                                         *)
(* A setup is a record [sym, date, side, contract]: what the strategy saw  *)
(* on a day, and the futures contract an entry on it would trade.          *)
(***************************************************************************)
EXTENDS CashLedger

CONSTANTS
    Setups,         \* every setup that comes up during the exploration
    NoSetup,
    Lot,            \* quantity of a basket: lot size times live_trading_max_lots
    PartialStages,  \* stages whose order may be cancelled after a partial fill
    MaxFaults       \* bound: rejections, timeouts, crashes and cut sessions

Actors == {"roll", "tick"}
Contracts == {d.contract : d \in Setups}

ASSUME SetupAssumption ==
    /\ IsFiniteSet(Setups) /\ NoSetup \notin Setups
    /\ \A d \in Setups : d.side \in Sides
    /\ \A d, e \in Setups : /\ d.contract = e.contract => d.sym = e.sym
                            /\ d.sym = e.sym /\ d.date = e.date => d = e
ASSUME LotAssumption == Lot \in Nat \ {0} /\ MaxFaults \in Nat

VARIABLES
    orders, \* every order the broker accepted, oldest first
    ledger, \* live_order_legs, purposes "primary" and "hedge", oldest first
    pc,     \* where each actor is
    job,    \* the local variables of each actor
    faults, \* how many of the faults above there were
    lost    \* history: orders whose actor ended before recording or unwinding them

basketVars == <<orders, ledger, pc, job, faults, lost>>

Opposite(side) == IF side = "BUY" THEN "SELL" ELSE "BUY"
Sign(side) == IF side = "BUY" THEN 1 ELSE -1

EntryStages == {"hedge", "unwindHedge", "future", "unwindFuture", "dropHedge"}
ExitStages == {"closeFuture", "closeHedge"}

Purpose(stage) == IF stage \in {"future", "unwindFuture", "closeFuture"}
                    THEN "primary" ELSE "hedge"

OrderSide(stage, side) ==
    CASE stage = "hedge"  -> "BUY"
      [] stage = "future" -> side
      [] stage \in {"unwindFuture", "closeFuture"} -> Opposite(side)
      [] OTHER -> "SELL"

NoJob == [setup |-> NoSetup, contract |-> "none", side |-> "BUY", rest |-> {},
          stage |-> "none", qty |-> 0, oid |-> 0, result |-> "none", filled |-> 0,
          basket |-> 0, best |-> 0, after |-> "idle"]

-------------------------------------------------------------------------------
(* The account at the broker.                                              *)

Working(o) == orders[o].status = "OPEN"

Traded(purpose, c, side) ==
    MapThenSumSet(LAMBDA o : orders[o].filled,
        {o \in DOMAIN orders : /\ orders[o].purpose = purpose
                               /\ orders[o].contract = c
                               /\ orders[o].side = side})

(* Net position in a future ("primary") or in its protective option.       *)
Net(purpose, c) == Traded(purpose, c, "BUY") - Traded(purpose, c, "SELL")

(* open_nfo_positions: does the account hold any derivative?               *)
BrokerHoldsNfo == \E c \in Contracts, p \in {"primary", "hedge"} : Net(p, c) # 0

Trade(o, n) ==
    /\ Working(o) /\ orders[o].filled + n <= orders[o].qty
    /\ n = orders[o].qty - orders[o].filled \/ orders[o].stage \in PartialStages
    /\ orders' = [orders EXCEPT ![o].filled = @ + n,
                                ![o].status = IF orders[o].filled + n = orders[o].qty
                                                THEN "COMPLETE" ELSE "OPEN"]
    /\ UNCHANGED <<ledger, pc, job, faults, lost>>

Reject(o) ==
    /\ Working(o) /\ orders[o].filled = 0 /\ faults < MaxFaults
    /\ orders' = [orders EXCEPT ![o].status = "REJECTED"]
    /\ faults' = faults + 1
    /\ UNCHANGED <<ledger, pc, job, lost>>

-------------------------------------------------------------------------------
(* What the ledger says.                                                   *)

(* The rows of a future, in the order they were written.                   *)
PrimaryLegs(c) ==
    LET legs[i \in 0..Len(ledger)] ==
            IF i = 0 THEN <<>>
            ELSE IF ledger[i].purpose = "primary" /\ ledger[i].contract = c
              THEN Append(legs[i - 1], ledger[i]) ELSE legs[i - 1]
    IN  legs[Len(ledger)]

(* Open legs of a contract with the quantity of each that is still open.   *)
OpenPrimary(c) == OpenQuantity(PrimaryLegs(c), UnclosedStatuses)

(* get_open_primary_legs, get_all_unclosed_primary_legs: the contracts.    *)
OpenContracts(s) == {c \in {d.contract : d \in {e \in Setups : e.sym = s}} :
                        DOMAIN OpenPrimary(c) # {}}
AnyUnclosed == \E c \in Contracts : DOMAIN OpenPrimary(c) # {}

FirstOpen(c) ==
    LET i == Min(DOMAIN OpenPrimary(c))
    IN  [qty |-> OpenPrimary(c)[i], side |-> PrimaryLegs(c)[i].side,
         basket |-> PrimaryLegs(c)[i].basket]

HedgeBuys(b) == {i \in DOMAIN ledger : /\ ledger[i].basket = b
                                       /\ ledger[i].purpose = "hedge"
                                       /\ ledger[i].side = "BUY"}

-------------------------------------------------------------------------------
(* Steps of an actor.                                                      *)

Goto(a, step) == pc' = [pc EXCEPT ![a] = step] /\ UNCHANGED job
GotoWith(a, step, j) == pc' = [pc EXCEPT ![a] = step] /\ job' = [job EXCEPT ![a] = j]

(* The order of a stage is about to be placed.                             *)
Order(j, stage, qty) == [j EXCEPT !.stage = stage, !.qty = qty, !.oid = 0,
                                  !.result = "none", !.filled = 0]

PlaceAccepted(a) ==
    /\ pc[a] = "place"
    /\ orders' = Append(orders,
           [setup |-> job[a].setup, contract |-> job[a].contract, stage |-> job[a].stage,
            purpose |-> Purpose(job[a].stage),
            side |-> OrderSide(job[a].stage, job[a].side),
            qty |-> job[a].qty, filled |-> 0, status |-> "OPEN"])
    /\ GotoWith(a, "wait", [job[a] EXCEPT !.oid = Len(orders) + 1])
    /\ UNCHANGED <<ledger, faults, lost>>

PlaceRaises(a) ==
    /\ pc[a] = "place" /\ faults < MaxFaults
    /\ GotoWith(a, "record", [job[a] EXCEPT !.result = "REJECTED"])
    /\ faults' = faults + 1
    /\ UNCHANGED <<orders, ledger, lost>>

Filled(a) ==
    /\ pc[a] = "wait" /\ ~Working(job[a].oid)
    /\ LET o == orders[job[a].oid]
       IN  GotoWith(a, "record", [job[a] EXCEPT !.result = o.status, !.filled = o.filled])
    /\ UNCHANGED <<orders, ledger, faults, lost>>

(* wait_for_fill gives up, the order is cancelled and asked for once more. *)
TimesOut(a) ==
    /\ pc[a] = "wait" /\ Working(job[a].oid) /\ faults < MaxFaults
    /\ orders' = [orders EXCEPT ![job[a].oid].status = "CANCELLED"]
    /\ GotoWith(a, "record", [job[a] EXCEPT !.result = "CANCELLED",
                                            !.filled = orders[job[a].oid].filled])
    /\ faults' = faults + 1
    /\ UNCHANGED <<ledger, lost>>

(* What follows once the order of a stage is recorded.                     *)
PlaceNext(j, stage, qty) == [step |-> "place", job |-> Order(j, stage, qty)]
Proceed(j, step) == [step |-> step, job |-> j]

(* Mutant: the future follows whatever became of the hedge.                *)
AfterHedgeAlways(j) == PlaceNext(j, "future", Lot)

AfterHedge(j) ==
    IF j.result = "COMPLETE" THEN PlaceNext(j, "future", Lot)
    ELSE IF j.filled > 0     THEN PlaceNext(j, "unwindHedge", j.filled)
    ELSE Proceed(j, "settle")

(* Mutants: a partly filled future is left alone; the hedge is given back  *)
(* in the quantity the future filled.                                      *)
AfterFutureNoUnwind(j) ==
    IF j.result = "COMPLETE" THEN Proceed(j, "settle") ELSE PlaceNext(j, "dropHedge", Lot)

AfterFutureWrongQuantity(j) ==
    IF j.result = "COMPLETE" THEN Proceed(j, "settle") ELSE PlaceNext(j, "dropHedge", j.filled)

AfterFuture(j) ==
    IF j.result = "COMPLETE" THEN Proceed(j, "settle")
    ELSE IF j.filled > 0     THEN PlaceNext(j, "unwindFuture", j.filled)
    ELSE PlaceNext(j, "dropHedge", Lot)

FollowUp(j) ==
    CASE j.stage = "hedge"        -> AfterHedge(j)
      [] j.stage = "future"       -> AfterFuture(j)
      [] j.stage = "unwindFuture" -> PlaceNext(j, "dropHedge", Lot)
      [] j.stage = "closeFuture"  -> Proceed(j, "hedgeLook")
      [] j.stage = "closeHedge"   -> Proceed(j, "exitCheck")
      [] OTHER                    -> Proceed(j, "settle")

Record(a) ==
    /\ pc[a] = "record"
    /\ ledger' = Append(ledger,
           [contract |-> job[a].contract, purpose |-> Purpose(job[a].stage),
            side |-> OrderSide(job[a].stage, job[a].side), status |-> job[a].result,
            qty |-> job[a].qty,
            basket |-> IF job[a].stage \in ExitStages THEN 0 ELSE job[a].basket])
    /\ GotoWith(a, FollowUp(job[a]).step, FollowUp(job[a]).job)
    /\ UNCHANGED <<orders, faults, lost>>

OrderStep(a) ==
    \/ PlaceAccepted(a) \/ PlaceRaises(a) \/ Filled(a) \/ TimesOut(a) \/ Record(a)

(* Entry: gated in, nothing open anywhere, contracts found: the hedge.     *)
EnterBasket(a) ==
    /\ pc[a] = "gate"
    /\ ~AnyUnclosed
    /\ GotoWith(a, "place", [Order(job[a], "hedge", Lot) EXCEPT !.basket = Len(ledger) + 1])
    /\ UNCHANGED <<orders, ledger, faults, lost>>

(* The kill switch is off, a position is open, or a contract is missing.   *)
RefuseBasket(a) ==
    /\ pc[a] = "gate"
    /\ GotoWith(a, "settle", [job[a] EXCEPT !.basket = 0])
    /\ UNCHANGED <<orders, ledger, faults, lost>>

(* Exit: the first open leg, with the quantity of it that is left.         *)
CloseFuture(a) ==
    /\ pc[a] = "exitLook"
    /\ \E c \in OpenContracts(job[a].setup.sym) :
          GotoWith(a, "place",
              [Order(job[a], "closeFuture", FirstOpen(c).qty)
                  EXCEPT !.contract = c, !.side = FirstOpen(c).side,
                         !.basket = FirstOpen(c).basket])
    /\ UNCHANGED <<orders, ledger, faults, lost>>

NothingToClose(a) ==
    /\ pc[a] = "exitLook" /\ OpenContracts(job[a].setup.sym) = {}
    /\ GotoWith(a, "exitCheck", [job[a] EXCEPT !.basket = 0])
    /\ UNCHANGED <<orders, ledger, faults, lost>>

(* The hedge goes whatever became of the future, whole, each time.         *)
CloseHedge(a) ==
    /\ pc[a] = "hedgeLook"
    /\ LET hedges == HedgeBuys(job[a].basket)
       IN  IF hedges = {}
             THEN Goto(a, "exitCheck")
             ELSE GotoWith(a, "place", Order(job[a], "closeHedge", ledger[Min(hedges)].qty))
    /\ UNCHANGED <<orders, ledger, faults, lost>>

BasketStep(a) ==
    \/ OrderStep(a) \/ EnterBasket(a) \/ RefuseBasket(a)
    \/ CloseFuture(a) \/ NothingToClose(a) \/ CloseHedge(a)

BasketInit ==
    /\ orders = <<>> /\ ledger = <<>>
    /\ pc = [a \in Actors |-> "idle"]
    /\ job = [a \in Actors |-> NoJob]
    /\ faults = 0 /\ lost = {}

(* The actors in A end where they are.  An order one of them waited for is *)
(* with the broker and on no record; a partly filled future that one was   *)
(* about to unwind, the latest order then, stays as it is.                 *)
Abandon(A) ==
    /\ lost' = lost \cup {job[a].oid : a \in {b \in A : /\ pc[b] \in {"wait", "record"}
                                                        /\ job[b].oid # 0}}
                    \cup {Len(orders) : a \in {b \in A : /\ pc[b] = "place"
                                                         /\ job[b].stage = "unwindFuture"}}
    /\ pc' = [a \in Actors |-> IF a \in A THEN "idle" ELSE pc[a]]
    /\ job' = [a \in Actors |-> IF a \in A THEN NoJob ELSE job[a]]
    /\ faults' = faults + 1
==============================================================================
