------------------------------ MODULE CashBroker ------------------------------
(***************************************************************************)
(* The broker as the application can observe it: today's order book, the   *)
(* delivery shares really held, and the good-till-triggered (GTT) sell     *)
(* brackets waiting at the exchange.  The broker is not part of the        *)
(* repository; its steps are modelled from what infrastructure/kite.py     *)
(* asks of it and from the incidents its comments record.  It acts on its  *)
(* own, at any moment, between any two steps of the application.           *)
(***************************************************************************)
EXTENDS Integers, Sequences, FiniteSets, FiniteSetsExt

CONSTANTS
    Symbols,        \* the instruments that may be traded
    Bars,           \* signal bars; an entry's order is tagged with its bar
    None,           \* "no value", where the code has None
    PartialCancels  \* may an order be cancelled after part of it has filled?

ASSUME SymbolsAssumption == IsFiniteSet(Symbols)

VARIABLES
    orders, \* every order ever accepted, in the order of acceptance
    held,   \* shares held per symbol
    gtts    \* every GTT bracket ever accepted

brokerVars == <<orders, held, gtts>>

TerminalStatuses == {"COMPLETE", "REJECTED", "CANCELLED"}

Order == [sym : Symbols, side : {"BUY", "SELL"}, tag : Bars \cup {None},
          qty : Nat \ {0}, filled : Nat, status : TerminalStatuses \cup {"OPEN"},
          today : BOOLEAN, gtt : BOOLEAN]

Gtt == [sym : Symbols, qty : Nat \ {0}, status : {"active", "deleted", "triggered"}]

Pending(o) == orders[o].status = "OPEN"

PendingBuys == {o \in DOMAIN orders : Pending(o) /\ orders[o].side = "BUY"}

BrokerInit ==
    /\ orders = <<>>
    /\ held = [s \in Symbols |-> 0]
    /\ gtts = <<>>

-------------------------------------------------------------------------------
(* What the application asks of the broker.                                *)

NewOrder(s, side, qty, tag, fromGtt) ==
    [sym |-> s, side |-> side, tag |-> tag, qty |-> qty, filled |-> 0,
     status |-> "OPEN", today |-> TRUE, gtt |-> fromGtt]

AcceptOrder(s, side, qty, tag) ==
    orders' = Append(orders, NewOrder(s, side, qty, tag, FALSE))

(* cash_orders: only today's orders are ever listed.                       *)
TodaysOrders == {o \in DOMAIN orders : orders[o].today}

(* find_todays_order_by_tag: the latest of today's orders with the tag.    *)
OrdersTagged(s, tag) == {o \in TodaysOrders : orders[o].sym = s /\ orders[o].tag = tag}
LatestTagged(s, tag) == Max(OrdersTagged(s, tag))

AcceptGtt(s, qty) == gtts' = Append(gtts, [sym |-> s, qty |-> qty, status |-> "active"])

DeleteGtt(g) == gtts' = [gtts EXCEPT ![g].status = "deleted"]

-------------------------------------------------------------------------------
(* What the broker and the exchange do on their own.                       *)

(* n more shares of a pending order are traded.  Nobody can sell delivery  *)
(* shares that are not held.                                               *)
Fill(o, n) ==
    /\ Pending(o)
    /\ orders[o].filled + n <= orders[o].qty
    /\ orders[o].side = "SELL" => n <= held[orders[o].sym]
    /\ held' = [held EXCEPT ![orders[o].sym] =
                   IF orders[o].side = "BUY" THEN @ + n ELSE @ - n]
    /\ orders' = [orders EXCEPT ![o].filled = @ + n,
                                ![o].status = IF orders[o].filled + n = orders[o].qty
                                                THEN "COMPLETE" ELSE "OPEN"]
    /\ UNCHANGED gtts

(* Risk management refuses an order before any of it trades.               *)
Reject(o) ==
    /\ Pending(o) /\ orders[o].filled = 0
    /\ orders' = [orders EXCEPT ![o].status = "REJECTED"]
    /\ UNCHANGED <<held, gtts>>

Cancellable(o) == PartialCancels \/ orders[o].filled = 0

(* The exchange, or the account's owner, cancels what is left of an order. *)
Cancel(o) ==
    /\ Pending(o) /\ Cancellable(o)
    /\ orders' = [orders EXCEPT ![o].status = "CANCELLED"]
    /\ UNCHANGED <<held, gtts>>

(* A trigger price is reached: the bracket turns into a sell order.        *)
GttFires(g) ==
    /\ gtts[g].status = "active"
    /\ gtts' = [gtts EXCEPT ![g].status = "triggered"]
    /\ orders' = Append(orders, NewOrder(gtts[g].sym, "SELL", gtts[g].qty, None, TRUE))
    /\ UNCHANGED held

(* Day orders do not survive the session, and the next day's order book    *)
(* starts empty.  Holdings and GTTs carry over.                            *)
BookRollsOver ==
    /\ \A o \in DOMAIN orders : Pending(o) => Cancellable(o)
    /\ orders' = [o \in DOMAIN orders |->
                     [orders[o] EXCEPT !.today = FALSE,
                                       !.status = IF @ = "OPEN" THEN "CANCELLED" ELSE @]]
    /\ UNCHANGED <<held, gtts>>

==============================================================================
