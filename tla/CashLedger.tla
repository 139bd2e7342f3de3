------------------------------ MODULE CashLedger ------------------------------
(***************************************************************************)
(* The ledger of real cash orders (table live_order_legs, purpose "cash")  *)
(* as its readers interpret it.  The ledger is append-only: what is open   *)
(* is never stored, it is derived from the legs of one tradingsymbol, in   *)
(* the order they were written.  This module holds the derivations; they   *)
(* are pure functions of the legs, without state.                          *)
(*                                                                         *)
(* A leg is a record with at least the fields side, status and qty.        *)
(* Quantities are natural numbers above zero (the table's CHECK).          *)
(***************************************************************************)
EXTENDS Integers, Sequences, FiniteSets, FiniteSetsExt

Sides == {"BUY", "SELL"}

(* What a row's status can say: the broker's word when the order was       *)
(* recorded, or UNKNOWN when its fill could not be polled.                 *)
LegStatuses == {"COMPLETE", "OPEN", "UNKNOWN", "REJECTED", "CANCELLED"}

(* Statuses taken as proof that no position resulted.                      *)
ConfirmedNoPosition(status) == status \in {"REJECTED", "CANCELLED"}

(* Mutant: only confirmed fills count (the PERSISTENT.NS incident).        *)
ConfirmedStatusesOnly == {"COMPLETE"}

(* Statuses of a leg that is, or might still become, a real position.      *)
UnclosedStatuses == {"COMPLETE", "OPEN", "UNKNOWN"}

SumOfQty(legs, I) == MapThenSumSet(LAMBDA i : legs[i].qty, I)

(* The side of the first row ever written is taken as the opening side.    *)
OpeningSide(legs) == legs[1].side

Openers(legs, statuses) ==
    {i \in DOMAIN legs : /\ legs[i].side = OpeningSide(legs)
                         /\ legs[i].status \in statuses}

(* Only COMPLETE legs of the other side close anything.                    *)
ClosedQty(legs) ==
    SumOfQty(legs, {i \in DOMAIN legs : /\ legs[i].side # OpeningSide(legs)
                                        /\ legs[i].status = "COMPLETE"})

(* Mutants of the netting: any closer closes everything; a leg that is     *)
(* only partly covered does not use up what covers it.                     *)
AnyCloserClosesAll(legs, statuses) ==
    [i \in {j \in Openers(legs, statuses) : ClosedQty(legs) = 0} |-> legs[i].qty]

PartCoverSpentTwice(legs, statuses) ==
    LET openers == Openers(legs, statuses)
        left[i \in 0..Len(legs)] ==
            CASE i = 0 -> ClosedQty(legs)
              [] i > 0 /\ i \notin openers -> left[i - 1]
              [] i > 0 /\ i \in openers ->
                   IF left[i - 1] >= legs[i].qty THEN left[i - 1] - legs[i].qty
                                                 ELSE left[i - 1]
    IN  [i \in {j \in openers : left[j - 1] < legs[j].qty} |->
            legs[i].qty - left[i - 1]]

(***************************************************************************)
(* First-in first-out netting.  left[i] is the closing quantity that is    *)
(* still unspent after the loop has passed leg i: a leg it covers is       *)
(* closed, the first leg it does not cover absorbs all that is left.       *)
(* The result maps each leg still open to the quantity of it that is open. *)
(***************************************************************************)
OpenQuantity(legs, statuses) ==
    LET openers == Openers(legs, statuses)
        left[i \in 0..Len(legs)] ==
            CASE i = 0 -> ClosedQty(legs)
              [] i > 0 /\ i \notin openers -> left[i - 1]
              [] i > 0 /\ i \in openers ->
                   IF left[i - 1] >= legs[i].qty THEN left[i - 1] - legs[i].qty ELSE 0
    IN  [i \in {j \in openers : left[j - 1] < legs[j].qty} |->
            legs[i].qty - left[i - 1]]

(* get_unclosed_cash_legs: indices of the legs not yet fully offset.       *)
UnclosedLegs(legs) == DOMAIN OpenQuantity(legs, UnclosedStatuses)

(* get_unclosed_entry_leg: every exit path acts on the first of them.      *)
EntryLeg(legs) == legs[Min(UnclosedLegs(legs))]

(* Mutant: sells that are only placed count as closed.                     *)
LifecycleTrustingPlaced(legs) ==
    LET entries == {i \in DOMAIN legs : /\ legs[i].side = "BUY"
                                        /\ ~ConfirmedNoPosition(legs[i].status)}
    IN  IF entries = {} THEN "NONE"
        ELSE IF SumOfQty(legs, entries)
                  > SumOfQty(legs, {i \in DOMAIN legs : legs[i].side = "SELL"})
          THEN "ACTIVE" ELSE "CLOSED"

(***************************************************************************)
(* The explicit lifecycle value that the health surface derives from the   *)
(* same rows.  An UNKNOWN leg anywhere wins over everything else.          *)
(***************************************************************************)
Lifecycle(legs) ==
    LET Has(side, status) ==
            \E i \in DOMAIN legs : legs[i].side = side /\ legs[i].status = status
        entries   == {i \in DOMAIN legs : /\ legs[i].side = "BUY"
                                          /\ ~ConfirmedNoPosition(legs[i].status)}
        bought    == SumOfQty(legs, {i \in entries : legs[i].status = "COMPLETE"})
        remaining == bought - ClosedQty(legs)
    IN  IF \E i \in DOMAIN legs : legs[i].status = "UNKNOWN"
          THEN "RECONCILIATION_REQUIRED"
        ELSE IF entries = {}
          THEN "NONE"
        ELSE IF remaining > 0
          THEN IF Has("SELL", "OPEN") THEN "EXIT_PENDING" ELSE "ACTIVE"
        ELSE IF Has("BUY", "OPEN") THEN "OPENING" ELSE "CLOSED"

==============================================================================
