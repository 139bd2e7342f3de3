--------------------------- MODULE CashLedgerProofs ---------------------------
(***************************************************************************)
(* What the readers of the order ledger make of its rows, for every ledger *)
(* that long-only trading can write, however long and in whatever          *)
(* quantities.                                                             *)
(***************************************************************************)
EXTENDS MCCashLedger, LedgerFacts

(* The inductive invariant: rows are rows, and the first one is a buy.     *)
LedgerInv ==
    /\ legs \in Seq(AllLegs)
    /\ legs # <<>> => OpeningSide(legs) = "BUY"

LEMMA InitLedger == Init => LedgerInv
<1> SUFFICES ASSUME Init PROVE LedgerInv
  OBVIOUS
<1>1. legs = <<>> /\ <<>> \in Seq(AllLegs)
  BY EmptySeq DEF Init
<1> QED BY <1>1 DEF LedgerInv

(* What a new row changes, and what it leaves alone.                       *)
LEMMA RowAppended ==
    ASSUME LedgerInv, NEW leg \in AllLegs, AppendLeg(leg)
    PROVE  /\ LedgerInv'
           /\ Len(legs) \in Nat /\ DOMAIN legs = 1..Len(legs)
           /\ Len(legs') = Len(legs) + 1 /\ DOMAIN legs' = 1..(Len(legs) + 1)
           /\ legs'[Len(legs) + 1] = leg
           /\ \A i \in 1..Len(legs) : legs'[i] = legs[i]
<1>1. legs \in Seq(AllLegs) /\ legs' = Append(legs, leg)
  BY DEF LedgerInv, AppendLeg
<1>2. /\ Len(legs) \in Nat /\ DOMAIN legs = 1..Len(legs)
      /\ legs' \in Seq(AllLegs) /\ legs' # <<>>
      /\ Len(legs') = Len(legs) + 1 /\ DOMAIN legs' = 1..(Len(legs) + 1)
      /\ legs'[Len(legs) + 1] = leg
      /\ \A i \in 1..Len(legs) : legs'[i] = legs[i]
  BY <1>1, LenProperties, AppendProperties
<1>3. legs'[1].side = "BUY"
  <2>1. CASE legs = <<>>
    BY <1>1, <1>2, <2>1, EmptySeq DEF AppendLeg
  <2>2. CASE legs # <<>>
    <3>1. 1 \in 1..Len(legs)
      BY <1>1, <1>2, <2>2, EmptySeq
    <3> QED BY <1>2, <2>2, <3>1 DEF LedgerInv, OpeningSide
  <2> QED BY <2>1, <2>2
<1> QED BY <1>2, <1>3 DEF LedgerInv, OpeningSide

LEMMA StepLedger == LedgerInv /\ [Next]_legs => LedgerInv'
BY RowAppended DEF Next, LedgerInv

LEMMA RowsAreWellFormed ==
    ASSUME NEW rows \in Seq(AllLegs)
    PROVE  /\ WellFormed(rows)
           /\ \A i \in DOMAIN rows : rows[i] \in AllLegs
           /\ rows # <<>> => 1 \in DOMAIN rows
           /\ rows = <<>> => DOMAIN rows = {}
<1>1. /\ Len(rows) \in Nat /\ DOMAIN rows = 1..Len(rows)
      /\ \A i \in DOMAIN rows : rows[i] \in AllLegs
      /\ rows # <<>> => Len(rows) # 0
      /\ rows = <<>> => DOMAIN rows = {}
  BY LenProperties, ElementOfSeq, EmptySeq
<1>2. \A i \in DOMAIN rows : rows[i].qty \in Nat \ {0}
  BY <1>1, QuantityAssumption DEF QuantityAssumption, AllLegs
<1> QED BY <1>1, <1>2 DEF WellFormed

LEMMA LedgerIsWellFormed ==
    ASSUME LedgerInv
    PROVE  /\ WellFormed(legs)
           /\ \A i \in DOMAIN legs : legs[i] \in AllLegs
           /\ legs # <<>> => 1 \in DOMAIN legs
           /\ Buys = Openers(legs, UnclosedStatuses) /\ Closed = ClosedQty(legs)
           /\ Bought = SumOfQty(legs, Openers(legs, UnclosedStatuses))
<1>1. /\ WellFormed(legs)
      /\ \A i \in DOMAIN legs : legs[i] \in AllLegs
      /\ legs # <<>> => 1 \in DOMAIN legs
      /\ legs = <<>> => DOMAIN legs = {}
  BY RowsAreWellFormed DEF LedgerInv
<1>2. Buys = Openers(legs, UnclosedStatuses)
  BY <1>1 DEF Buys, Openers
<1>3. Closed = ClosedQty(legs)
  <2>1. ASSUME legs = <<>> PROVE ClosedQty(legs) = 0
    <3> DEFINE I == {i \in DOMAIN legs : legs[i].side # OpeningSide(legs)
                                         /\ legs[i].status = "COMPLETE"}
    <3>1. I = {} /\ I \in SUBSET DOMAIN legs
      BY <1>1, <2>1
    <3>2. SumOfQty(legs, I) = Total(Qty(legs), I) /\ Total(Qty(legs), {}) = 0
      BY <1>1, <3>1, FiniteLegs, FS_EmptySet, TotalSplits
    <3> QED BY <3>1, <3>2 DEF ClosedQty
  <2> QED BY <2>1 DEF Closed
<1> QED BY <1>1, <1>2, <1>3 DEF Bought

-------------------------------------------------------------------------------
LEMMA BoughtUpToIs ==
    ASSUME LedgerInv, NEW i
    PROVE  BoughtUpTo(i) = OpenedUpTo(legs, UnclosedStatuses, i)
<1> DEFINE I == {j \in Openers(legs, UnclosedStatuses) : j <= i}
<1>1. I \in SUBSET DOMAIN legs
  BY DEF Openers
<1>2. SumOfQty(legs, I) = Total(Qty(legs), I)
  BY <1>1, LedgerIsWellFormed, FiniteLegs
<1>3. Buys = Openers(legs, UnclosedStatuses)
  BY LedgerIsWellFormed
<1> QED BY <1>2, <1>3 DEF BoughtUpTo, OpenedUpTo

LEMMA FifoFollows == LedgerInv => FirstInFirstOut
<1> SUFFICES ASSUME LedgerInv, NEW i \in Buys
             PROVE  i \in UnclosedLegs(legs) <=> BoughtUpTo(i) > Closed
  BY DEF FirstInFirstOut
<1>1. WellFormed(legs) /\ Buys = Openers(legs, UnclosedStatuses) /\ Closed = ClosedQty(legs)
  BY LedgerIsWellFormed
<1>2. UnclosedLegs(legs) = {j \in Openers(legs, UnclosedStatuses) :
                              OpenedUpTo(legs, UnclosedStatuses, j) > ClosedQty(legs)}
  BY <1>1, NettingIs DEF UnclosedLegs
<1> QED BY <1>1, <1>2, BoughtUpToIs

LEMMA NettingFollows == LedgerInv => NothingLostInNetting
<1> SUFFICES ASSUME LedgerInv PROVE NothingLostInNetting
  OBVIOUS
<1> DEFINE D == DOMAIN StillOpen
           rest == [i \in D |-> [qty |-> StillOpen[i]]]
<1>1. /\ WellFormed(legs) /\ Closed = ClosedQty(legs)
      /\ Bought = SumOfQty(legs, Openers(legs, UnclosedStatuses))
  BY LedgerIsWellFormed
<1>2. Total(StillOpen, D) = IF Bought > Closed THEN Bought - Closed ELSE 0
  BY <1>1, NettingTotal DEF StillOpen
<1>3. IsFiniteSet(D)
  <2>1. D \in SUBSET DOMAIN legs
    BY <1>1, NettingIs DEF StillOpen, Openers
  <2> QED BY <1>1, <2>1, FiniteLegs
<1>4. D = DOMAIN rest /\ \A i \in D : Qty(rest)[i] = StillOpen[i]
  BY DEF Qty
<1> HIDE DEF D, rest
<1>5. SumOfQty(rest, D) = Total(Qty(rest), D)
  BY <1>3, <1>4, SumOfQtyIsTotal
<1>6. Total(Qty(rest), D) = Total(StillOpen, D)
  BY <1>3, <1>4, TotalSame
<1> QED BY <1>2, <1>5, <1>6 DEF NothingLostInNetting, D, rest

LEMMA LifecycleFollows == LedgerInv => LifecycleAgrees
<1> SUFFICES ASSUME LedgerInv, legs # <<>>
             PROVE  /\ Lifecycle(legs) \in {"ACTIVE", "EXIT_PENDING"} => UnclosedLegs(legs) # {}
                    /\ Lifecycle(legs) \in {"NONE", "CLOSED"} => UnclosedLegs(legs) = {}
  BY DEF LifecycleAgrees
<1> DEFINE openers == Openers(legs, UnclosedStatuses)
           entries == {i \in DOMAIN legs : /\ legs[i].side = "BUY"
                                           /\ ~ConfirmedNoPosition(legs[i].status)}
           complete == {i \in entries : legs[i].status = "COMPLETE"}
           closed == ClosedQty(legs)
           B(i) == OpenedUpTo(legs, UnclosedStatuses, i)
           n == Len(legs)
<1>1. /\ WellFormed(legs) /\ \A i \in DOMAIN legs : legs[i] \in AllLegs
      /\ OpeningSide(legs) = "BUY" /\ 1 \in DOMAIN legs
      /\ n \in Nat /\ DOMAIN legs = 1..n
  BY LedgerIsWellFormed DEF LedgerInv, WellFormed
<1>2. openers = {i \in DOMAIN legs : legs[i].side = "BUY" /\ legs[i].status \in UnclosedStatuses}
  BY <1>1 DEF Openers
<1>3. entries = openers
  BY <1>1, <1>2 DEF ConfirmedNoPosition, UnclosedStatuses, AllLegs, LegStatuses
<1>4. /\ complete \in SUBSET openers /\ openers \in SUBSET DOMAIN legs
      /\ SumOfQty(legs, complete) = Total(Qty(legs), complete)
      /\ SumOfQty(legs, openers) = Total(Qty(legs), openers)
      /\ IsFiniteSet(openers) /\ \A i \in openers : Qty(legs)[i] \in Nat
      /\ closed \in Nat
  <2>1. complete \in SUBSET openers /\ openers \in SUBSET DOMAIN legs
    BY <1>2, <1>3
  <2>2. \A i \in openers : Qty(legs)[i] \in Nat
    BY <1>1, <2>1 DEF Qty, WellFormed
  <2> QED BY <1>1, <2>1, <2>2, FiniteLegs, OpenedStepwise
<1>5. /\ Total(Qty(legs), complete) \in Nat /\ Total(Qty(legs), openers) \in Nat
      /\ Total(Qty(legs), complete) <= Total(Qty(legs), openers)
  BY <1>4, TotalGrows
<1>6. UnclosedLegs(legs) = {i \in openers : B(i) > closed}
  BY <1>1, NettingIs DEF UnclosedLegs
<1>7. ASSUME Total(Qty(legs), openers) > closed PROVE UnclosedLegs(legs) # {}
  <2> DEFINE open == OpenQuantity(legs, UnclosedStatuses)
  <2>1. Total(open, DOMAIN open) = Total(Qty(legs), openers) - closed
    BY <1>1, <1>4, <1>7, NettingTotal
  <2>2. Total(open, {}) = 0
    BY FS_EmptySet, TotalSplits
  <2> QED BY <1>4, <1>5, <1>7, <2>1, <2>2 DEF UnclosedLegs
<1>8. ASSUME closed >= Total(Qty(legs), openers) PROVE UnclosedLegs(legs) = {}
  <2>1. ASSUME NEW i \in openers PROVE ~(B(i) > closed)
    <3>1. {j \in openers : j <= i} \in SUBSET openers
      OBVIOUS
    <3>2. B(i) \in Nat /\ B(i) <= Total(Qty(legs), openers)
      BY <1>4, <3>1, TotalGrows DEF OpenedUpTo
    <3> QED BY <1>4, <1>5, <1>8, <3>2
  <2> QED BY <1>6, <2>1
<1> DEFINE Has(side, status) == \E i \in DOMAIN legs : legs[i].side = side /\ legs[i].status = status
           bought == SumOfQty(legs, complete)
<1>9. Lifecycle(legs) =
        IF \E i \in DOMAIN legs : legs[i].status = "UNKNOWN" THEN "RECONCILIATION_REQUIRED"
        ELSE IF entries = {} THEN "NONE"
        ELSE IF bought - closed > 0 THEN IF Has("SELL", "OPEN") THEN "EXIT_PENDING" ELSE "ACTIVE"
        ELSE IF Has("BUY", "OPEN") THEN "OPENING" ELSE "CLOSED"
  BY DEF Lifecycle
<1>10. ASSUME Lifecycle(legs) \in {"ACTIVE", "EXIT_PENDING"} PROVE UnclosedLegs(legs) # {}
  <2>1. bought - closed > 0
    <3> HIDE DEF Has, bought, closed, entries
    <3> QED BY <1>9, <1>10
  <2> QED BY <1>4, <1>5, <1>7, <2>1
<1>11. ASSUME Lifecycle(legs) = "NONE" PROVE UnclosedLegs(legs) = {}
  <2>1. entries = {}
    <3> HIDE DEF Has, bought, closed, entries
    <3> QED BY <1>9, <1>11
  <2> QED BY <1>3, <1>6, <2>1
<1>12. ASSUME Lifecycle(legs) = "CLOSED" PROVE UnclosedLegs(legs) = {}
  <2>1. /\ ~(bought - closed > 0) /\ ~Has("BUY", "OPEN")
        /\ \A i \in DOMAIN legs : legs[i].status # "UNKNOWN"
    <3> HIDE DEF Has, bought, closed, entries
    <3> QED BY <1>9, <1>12
  <2>2. complete = openers
    BY <1>2, <1>3, <2>1 DEF UnclosedStatuses
  <2>3. bought = Total(Qty(legs), openers)
    BY <1>4, <2>2
  <2>4. closed >= Total(Qty(legs), openers)
    <3> HIDE DEF Has, bought, closed, entries, complete, openers
    <3> QED BY <1>4, <1>5, <2>1, <2>3
  <2> QED BY <1>8, <2>4
<1> QED BY <1>10, <1>11, <1>12

LEMMA NewBuyFollows ==
    ASSUME LedgerInv, Next, legs # <<>>, Closed <= Bought,
           legs'[Len(legs')].side = "BUY", legs'[Len(legs')].status \in UnclosedStatuses
    PROVE  /\ Len(legs') \in UnclosedLegs(legs')
           /\ OpenQuantity(legs', UnclosedStatuses)[Len(legs')] = legs'[Len(legs')].qty
<1>1. PICK leg \in AllLegs : AppendLeg(leg)
  BY DEF Next
<1> DEFINE n == Len(legs)
<1>2. /\ LedgerInv' /\ n \in Nat /\ DOMAIN legs = 1..n
      /\ Len(legs') = n + 1 /\ DOMAIN legs' = 1..(n + 1) /\ legs'[n + 1] = leg
      /\ \A i \in 1..n : legs'[i] = legs[i]
  BY <1>1, RowAppended
<1>3. WellFormed(legs) /\ WellFormed(legs') /\ 1 \in DOMAIN legs
  BY <1>2, RowsAreWellFormed DEF LedgerInv
<1>4. OpeningSide(legs') = OpeningSide(legs) /\ OpeningSide(legs) = "BUY"
  BY <1>2, <1>3 DEF LedgerInv, OpeningSide
<1>5. \A i \in 1..n : Qty(legs')[i] = Qty(legs)[i]
  BY <1>2 DEF Qty
<1>6. ASSUME NEW I \in SUBSET (1..n) PROVE Total(Qty(legs'), I) = Total(Qty(legs), I)
  BY <1>2, <1>3, <1>5, <1>6, FiniteLegs, TotalSame
<1>7. ClosedQty(legs') = ClosedQty(legs)
  <2> DEFINE I == {i \in DOMAIN legs : legs[i].side # OpeningSide(legs)
                                       /\ legs[i].status = "COMPLETE"}
             J == {i \in DOMAIN legs' : legs'[i].side # OpeningSide(legs')
                                        /\ legs'[i].status = "COMPLETE"}
  <2>1. I = J
    BY <1>2, <1>4
  <2>2. /\ I \in SUBSET (1..n) /\ SumOfQty(legs, I) = Total(Qty(legs), I)
        /\ SumOfQty(legs', J) = Total(Qty(legs'), J)
    BY <1>2, <1>3, FiniteLegs
  <2> QED BY <1>6, <2>1, <2>2 DEF ClosedQty
<1>8. {j \in Openers(legs', UnclosedStatuses) : j <= n} = Openers(legs, UnclosedStatuses)
  BY <1>2, <1>4 DEF Openers
<1>9. OpenedUpTo(legs', UnclosedStatuses, n) = Bought
  <2>1. Openers(legs, UnclosedStatuses) \in SUBSET (1..n)
    BY <1>2 DEF Openers
  <2>2. Bought = Total(Qty(legs), Openers(legs, UnclosedStatuses))
    BY <1>2, <1>3, <2>1, FiniteLegs, LedgerIsWellFormed
  <2> QED BY <1>6, <1>8, <2>1, <2>2 DEF OpenedUpTo
<1>10. /\ n + 1 \in Openers(legs', UnclosedStatuses)
       /\ leg.qty \in Nat \ {0}
  BY <1>2, <1>3, <1>4 DEF Openers, WellFormed
<1>11. /\ OpenedUpTo(legs', UnclosedStatuses, n + 1) = Bought + leg.qty
       /\ Bought \in Nat /\ ClosedQty(legs') \in Nat
  <2>1. n + 1 \in 1..Len(legs') /\ n \in 0..Len(legs') /\ (n + 1) - 1 = n
    BY <1>2
  <2>2. OpenedUpTo(legs', UnclosedStatuses, n + 1)
          = OpenedUpTo(legs', UnclosedStatuses, (n + 1) - 1) + legs'[n + 1].qty
    BY <1>3, <1>10, <2>1, OpenedStepwise
  <2>3. OpenedUpTo(legs', UnclosedStatuses, n) \in Nat /\ ClosedQty(legs') \in Nat
    BY <1>3, <2>1, OpenedStepwise
  <2> QED BY <1>2, <1>9, <2>1, <2>2, <2>3
<1>12. Closed = ClosedQty(legs) /\ Closed <= Bought
  BY LedgerIsWellFormed
<1>13. OpenedUpTo(legs', UnclosedStatuses, n + 1) > ClosedQty(legs')
       /\ ~(OpenedUpTo(legs', UnclosedStatuses, n + 1) - ClosedQty(legs') < leg.qty)
  BY <1>7, <1>10, <1>11, <1>12
<1>14. n + 1 \in UnclosedLegs(legs')
  BY <1>3, <1>10, <1>13, NettingIs DEF UnclosedLegs
<1>15. OpenQuantity(legs', UnclosedStatuses)[n + 1] = leg.qty
  BY <1>2, <1>3, <1>13, <1>14, NettingIs DEF UnclosedLegs
<1> QED BY <1>2, <1>14, <1>15

-------------------------------------------------------------------------------
(* The netting of the ledger is first-in first-out: of any ledger, a buy   *)
(* is closed exactly when everything bought up to and including it is.     *)
THEOREM FifoHolds == Spec => []FirstInFirstOut
BY InitLedger, StepLedger, FifoFollows, PTL DEF Spec

(* The netting loses and invents nothing: what it leaves open in all is    *)
(* what was bought beyond what was closed.                                 *)
THEOREM NettingConserves == Spec => []NothingLostInNetting
BY InitLedger, StepLedger, NettingFollows, PTL DEF Spec

(* What the health surface calls open the exit paths find, and what it     *)
(* calls closed has nothing open.                                          *)
THEOREM LifecycleHolds == Spec => []LifecycleAgrees
BY InitLedger, StepLedger, LifecycleFollows, PTL DEF Spec

(* A recorded buy is visible at once and in full, unless more was closed   *)
(* than bought before.                                                     *)
THEOREM NewBuyIsVisible == Spec => NewBuyVisible
<1>1. LedgerInv /\ [Next]_legs =>
        [legs # <<>> /\ Closed <= Bought
           /\ legs'[Len(legs')].side = "BUY"
           /\ legs'[Len(legs')].status \in UnclosedStatuses
         => /\ Len(legs') \in UnclosedLegs(legs')
            /\ OpenQuantity(legs', UnclosedStatuses)[Len(legs')] = legs'[Len(legs')].qty]_legs
  BY NewBuyFollows
<1> QED BY InitLedger, StepLedger, <1>1, PTL DEF Spec, NewBuyVisible
===============================================================================
