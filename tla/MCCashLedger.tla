----------------------------- MODULE MCCashLedger -----------------------------
(***************************************************************************)
(* Every ledger of one symbol up to MaxLegs rows, built row by row, to     *)
(* compare the derivations of CashLedger with what they are meant to be.   *)
(* The first row is a buy, as long-only trading guarantees.                *)
(***************************************************************************)
EXTENDS CashLedger

CONSTANTS MaxLegs, Quantities

(* The table's CHECK: no row is for nothing.                               *)
ASSUME QuantityAssumption == MaxLegs \in Nat /\ Quantities \subseteq Nat \ {0}

VARIABLE legs

AllLegs == [side : Sides, status : LegStatuses, qty : Quantities]

Init == legs = <<>>

AppendLeg(leg) ==
    /\ Len(legs) < MaxLegs
    /\ legs = <<>> => leg.side = "BUY"
    /\ legs' = Append(legs, leg)

Next == \E leg \in AllLegs : AppendLeg(leg)

Spec == Init /\ [][Next]_legs

-------------------------------------------------------------------------------
Buys == IF legs = <<>> THEN {} ELSE Openers(legs, UnclosedStatuses)
Closed == IF legs = <<>> THEN 0 ELSE ClosedQty(legs)
Bought == SumOfQty(legs, Buys)
BoughtUpTo(i) == SumOfQty(legs, {j \in Buys : j <= i})
StillOpen == OpenQuantity(legs, UnclosedStatuses)

(* Netting loses and invents nothing: what is open is exactly what was     *)
(* bought beyond what was closed (the 2026-08-31 regression hid the rest   *)
(* of a position behind any closer).                                       *)
NothingLostInNetting ==
    SumOfQty([i \in DOMAIN StillOpen |-> [qty |-> StillOpen[i]]], DOMAIN StillOpen)
        = IF Bought > Closed THEN Bought - Closed ELSE 0

(* The loop of _net_unclosed_legs is first-in first-out: a buy is closed   *)
(* exactly when everything bought up to and including it has been closed.  *)
FirstInFirstOut ==
    \A i \in Buys : i \in UnclosedLegs(legs) <=> BoughtUpTo(i) > Closed

(* The two readings of the same rows agree (position_lifecycle and         *)
(* get_unclosed_entry_leg): a position the health surface calls open can   *)
(* be found by the exit paths, one it calls closed holds nothing unclosed. *)
LifecycleAgrees ==
    legs # <<>> =>
        /\ Lifecycle(legs) \in {"ACTIVE", "EXIT_PENDING"} => UnclosedLegs(legs) # {}
        /\ Lifecycle(legs) \in {"NONE", "CLOSED"} => UnclosedLegs(legs) = {}

(* A new buy is visible, in full, right after it is recorded, provided no  *)
(* more was ever closed than bought: _finalize_cash_entry relies on it to  *)
(* place the bracket.                                                      *)
NewBuyVisible ==
    [][(legs # <<>> /\ Closed <= Bought
          /\ legs'[Len(legs')].side = "BUY"
          /\ legs'[Len(legs')].status \in UnclosedStatuses)
       => /\ Len(legs') \in UnclosedLegs(legs')
          /\ OpenQuantity(legs', UnclosedStatuses)[Len(legs')] = legs'[Len(legs')].qty]_legs
==============================================================================
