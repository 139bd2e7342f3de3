------------------------------ MODULE LedgerFacts -----------------------------
(***************************************************************************)
(* Facts about the netting of a ledger, which CashLedger defines by a fold *)
(* over its rows.                                                          *)
(***************************************************************************)
EXTENDS CashLedger, SumFacts

(* What the netting needs of the rows: they are a sequence, and none of    *)
(* them is for nothing (the table's CHECK).                                *)
WellFormed(legs) ==
    /\ Len(legs) \in Nat /\ DOMAIN legs = 1..Len(legs)
    /\ \A i \in DOMAIN legs : legs[i].qty \in Nat \ {0}

Qty(legs) == [i \in DOMAIN legs |-> legs[i].qty]

LEMMA SumOfQtyIsTotal ==
    ASSUME NEW legs, NEW I \in SUBSET DOMAIN legs, IsFiniteSet(I)
    PROVE  SumOfQty(legs, I) = Total(Qty(legs), I)
<1> DEFINE f == Qty(legs)
           it == CHOOSE it : it = [s \in SUBSET I |->
                     IF s = {} THEN 0
                     ELSE LET x == CHOOSE x \in s : TRUE IN legs[x].qty + it[s \ {x}]]
<1>1. SumOfQty(legs, I) = it[I]
  BY DEF SumOfQty, MapThenSumSet, MapThenFoldSet
<1>2. \A g : SumsUp(g, f, I) <=>
                g = [s \in SUBSET I |-> IF s = {} THEN 0
                     ELSE LET x == CHOOSE x \in s : TRUE IN legs[x].qty + g[s \ {x}]]
  <2>1. ASSUME NEW g, NEW s \in SUBSET I
        PROVE  (IF s = {} THEN 0 ELSE f[Pick(s)] + g[s \ {Pick(s)}])
                 = (IF s = {} THEN 0
                    ELSE LET x == CHOOSE x \in s : TRUE IN legs[x].qty + g[s \ {x}])
    BY Picked DEF Qty, Pick
  <2> QED BY <2>1 DEF SumsUp
<1> HIDE DEF f
<1>3. SumsUp(it, f, I)
  <2>1. PICK g : SumsUp(g, f, I)
    BY SumsUpExists
  <2>2. g = [s \in SUBSET I |-> IF s = {} THEN 0
                     ELSE LET x == CHOOSE x \in s : TRUE IN legs[x].qty + g[s \ {x}]]
    BY ONLY <1>2, <2>1
  <2>3. it = [s \in SUBSET I |-> IF s = {} THEN 0
                     ELSE LET x == CHOOSE x \in s : TRUE IN legs[x].qty + it[s \ {x}]]
    BY ONLY <2>2
  <2> QED BY ONLY <1>2, <2>3
<1> HIDE DEF it
<1> QED BY <1>1, <1>3, TotalOf DEF f

LEMMA FiniteLegs ==
    ASSUME NEW legs, WellFormed(legs)
    PROVE  /\ IsFiniteSet(DOMAIN legs)
           /\ \A I \in SUBSET DOMAIN legs :
                 /\ IsFiniteSet(I) /\ SumOfQty(legs, I) = Total(Qty(legs), I)
                 /\ Total(Qty(legs), I) \in Nat
           /\ \A i \in DOMAIN legs : Qty(legs)[i] = legs[i].qty
<1>1. IsFiniteSet(DOMAIN legs)
  BY FS_Interval DEF WellFormed
<1>2. ASSUME NEW I \in SUBSET DOMAIN legs
      PROVE  /\ IsFiniteSet(I) /\ SumOfQty(legs, I) = Total(Qty(legs), I)
             /\ Total(Qty(legs), I) \in Nat
  <2>1. IsFiniteSet(I)
    BY <1>1, FS_Subset
  <2>2. \A i \in I : Qty(legs)[i] \in Nat
    BY DEF Qty, WellFormed
  <2> QED BY <2>1, <2>2, SumOfQtyIsTotal, TotalIsNat
<1> QED BY <1>1, <1>2 DEF Qty

(* The closing quantity left when the loop of _net_unclosed_legs has       *)
(* passed a leg.                                                           *)
LeftAfter(legs, statuses) ==
    LET openers == Openers(legs, statuses)
        left[i \in 0..Len(legs)] ==
            CASE i = 0 -> ClosedQty(legs)
              [] i > 0 /\ i \notin openers -> left[i - 1]
              [] i > 0 /\ i \in openers ->
                   IF left[i - 1] >= legs[i].qty THEN left[i - 1] - legs[i].qty ELSE 0
    IN  left

NextLeft(legs, statuses, before, i) ==
    IF i \notin Openers(legs, statuses) THEN before
    ELSE IF before >= legs[i].qty THEN before - legs[i].qty ELSE 0

LEMMA LeftIsDefined ==
    ASSUME NEW legs, NEW statuses, WellFormed(legs)
    PROVE  LET left == LeftAfter(legs, statuses)
           IN  /\ left[0] = ClosedQty(legs)
               /\ \A i \in 1..Len(legs) : left[i] = NextLeft(legs, statuses, left[i - 1], i)
<1> DEFINE n == Len(legs)
           openers == Openers(legs, statuses)
           Steps(g, m) ==
               g = [i \in 0..m |->
                       CASE i = 0 -> ClosedQty(legs)
                         [] i > 0 /\ i \notin openers -> g[i - 1]
                         [] i > 0 /\ i \in openers ->
                              IF g[i - 1] >= legs[i].qty THEN g[i - 1] - legs[i].qty ELSE 0]
           Good == {m \in 0..n : \E g : Steps(g, m)}
<1>1. n \in Nat
  BY DEF WellFormed
<1> HIDE DEF n, openers
<1>2. ASSUME NEW g, NEW m \in 0..n
      PROVE  Steps(g, m) <=>
               /\ g = [i \in 0..m |-> g[i]]
               /\ g[0] = ClosedQty(legs)
               /\ \A i \in 1..m : g[i] = NextLeft(legs, statuses, g[i - 1], i)
  BY <1>1 DEF NextLeft, openers
<1>3. 0 \in Good
  <2>1. PICK g : g = [i \in 0..0 |-> ClosedQty(legs)]
    OBVIOUS
  <2>2. Steps(g, 0)
    BY <2>1
  <2> QED BY <1>1, <2>2
<1> HIDE DEF Steps
<1>4. ASSUME NEW m \in 0..n, m # 0, m - 1 \in Good
      PROVE  m \in Good
  <2>1. PICK g : Steps(g, m - 1)
    BY <1>4
  <2>2. PICK h : h = [i \in 0..m |-> IF i < m THEN g[i]
                                      ELSE NextLeft(legs, statuses, g[m - 1], m)]
    OBVIOUS
  <2>3. m - 1 \in 0..n /\ m \in Nat \ {0}
    BY <1>1, <1>4
  <2>4. /\ g[0] = ClosedQty(legs)
        /\ \A i \in 1..(m - 1) : g[i] = NextLeft(legs, statuses, g[i - 1], i)
    BY <1>2, <2>1, <2>3
  <2>5. \A i \in 0..(m - 1) : h[i] = g[i]
    BY <2>2, <2>3
  <2>6. h[m] = NextLeft(legs, statuses, g[m - 1], m)
    BY <2>2, <2>3
  <2>7. ASSUME NEW i \in 1..m PROVE h[i] = NextLeft(legs, statuses, h[i - 1], i)
    <3>1. i - 1 \in 0..(m - 1) /\ (i = m \/ i \in 1..(m - 1))
      BY <2>3
    <3>2. h[i - 1] = g[i - 1] /\ (i # m => h[i] = g[i])
      BY <2>3, <2>5, <3>1
    <3> QED BY <2>4, <2>6, <3>1, <3>2
  <2>8. h[0] = ClosedQty(legs) /\ h = [i \in 0..m |-> h[i]]
    BY <2>2, <2>3, <2>4, <2>5
  <2>9. Steps(h, m)
    BY <1>2, <2>7, <2>8
  <2> QED BY <2>9
<1>5. n \in Good
  <2> HIDE DEF Good
  <2> QED BY <1>1, <1>3, <1>4, NumberInduction
<1>6. \E g : Steps(g, n)
  BY <1>5
<1>7. Steps(LeftAfter(legs, statuses), n)
  BY <1>6 DEF Steps, LeftAfter, n, openers
<1> QED BY <1>1, <1>2, <1>7 DEF n

(* What was opened by the rows up to i.                                    *)
OpenedUpTo(legs, statuses, i) ==
    Total(Qty(legs), {j \in Openers(legs, statuses) : j <= i})

LEMMA OpenedStepwise ==
    ASSUME NEW legs, NEW statuses, WellFormed(legs)
    PROVE  /\ ClosedQty(legs) \in Nat
           /\ OpenedUpTo(legs, statuses, 0) = 0
           /\ \A i \in 0..Len(legs) : OpenedUpTo(legs, statuses, i) \in Nat
           /\ \A i \in 1..Len(legs) :
                 OpenedUpTo(legs, statuses, i) = OpenedUpTo(legs, statuses, i - 1)
                     + (IF i \in Openers(legs, statuses) THEN legs[i].qty ELSE 0)
           /\ SumOfQty(legs, Openers(legs, statuses)) = OpenedUpTo(legs, statuses, Len(legs))
<1> DEFINE openers == Openers(legs, statuses)
           To(i) == {j \in openers : j <= i}
<1>1. openers \in SUBSET DOMAIN legs /\ DOMAIN legs = 1..Len(legs) /\ Len(legs) \in Nat
  BY DEF Openers, WellFormed
<1>2. ClosedQty(legs) \in Nat
  BY FiniteLegs DEF ClosedQty
<1> HIDE DEF openers
<1>3. \A i : To(i) \in SUBSET DOMAIN legs
  BY <1>1
<1>4. Total(Qty(legs), To(0)) = 0
  <2>1. To(0) = {}
    BY <1>1
  <2> QED BY <2>1, FS_EmptySet, TotalSplits
<1>5. ASSUME NEW i \in 1..Len(legs)
      PROVE  Total(Qty(legs), To(i)) = Total(Qty(legs), To(i - 1))
                                          + (IF i \in openers THEN legs[i].qty ELSE 0)
  <2>1. CASE i \in openers
    <3>1. To(i) = To(i - 1) \cup {i} /\ i \notin To(i - 1)
      BY <1>1, <2>1
    <3> HIDE DEF To
    <3>2. /\ IsFiniteSet(To(i - 1)) /\ Qty(legs)[i] = legs[i].qty /\ Qty(legs)[i] \in Int
          /\ \A j \in To(i - 1) : Qty(legs)[j] \in Int
      <4>1. \A j \in DOMAIN legs : Qty(legs)[j] = legs[j].qty /\ Qty(legs)[j] \in Int
        BY DEF Qty, WellFormed
      <4>2. IsFiniteSet(To(i - 1))
        BY <1>3, FiniteLegs
      <4> QED BY <1>1, <1>3, <4>1, <4>2
    <3>3. Total(Qty(legs), To(i - 1) \cup {i}) = Total(Qty(legs), To(i - 1)) + Qty(legs)[i]
      <4> DEFINE S == To(i - 1)
                 q == Qty(legs)
      <4>1. /\ i \notin S /\ IsFiniteSet(S) /\ q[i] \in Int
            /\ \A j \in S : q[j] \in Int
        BY <3>1, <3>2
      <4> HIDE DEF S, q
      <4>2. Total(q, S \cup {i}) = Total(q, S) + q[i]
        BY ONLY <4>1, TotalWith
      <4> QED BY <4>2 DEF S, q
    <3> QED BY <2>1, <3>1, <3>2, <3>3
  <2>2. CASE i \notin openers
    <3>1. To(i) = To(i - 1)
      BY <1>1, <2>2
    <3>2. Total(Qty(legs), To(i - 1)) \in Nat
      BY <1>3, FiniteLegs
    <3> HIDE DEF To
    <3> QED BY <2>2, <3>1, <3>2
  <2> QED BY <2>1, <2>2
<1>6. To(Len(legs)) = openers
  BY <1>1
<1>7. SumOfQty(legs, openers) = Total(Qty(legs), openers)
  BY <1>1, FiniteLegs
<1>8. \A i : Total(Qty(legs), To(i)) \in Nat
  BY <1>3, FiniteLegs
<1> HIDE DEF To
<1> QED BY <1>2, <1>4, <1>5, <1>6, <1>7, <1>8 DEF OpenedUpTo, To, openers

LEMMA LeftIs ==
    ASSUME NEW legs, NEW statuses, WellFormed(legs), NEW i \in 0..Len(legs)
    PROVE  LeftAfter(legs, statuses)[i] =
               IF ClosedQty(legs) >= OpenedUpTo(legs, statuses, i)
                 THEN ClosedQty(legs) - OpenedUpTo(legs, statuses, i) ELSE 0
<1> DEFINE n == Len(legs)
           closed == ClosedQty(legs)
           B(k) == OpenedUpTo(legs, statuses, k)
           left == LeftAfter(legs, statuses)
           Good == {k \in 0..n : left[k] = IF closed >= B(k) THEN closed - B(k) ELSE 0}
<1>1. /\ n \in Nat /\ DOMAIN legs = 1..n /\ \A k \in 1..n : legs[k].qty \in Nat \ {0}
      /\ closed \in Nat /\ B(0) = 0
      /\ \A k \in 0..n : B(k) \in Nat
      /\ \A k \in 1..n : B(k) = B(k - 1) + (IF k \in Openers(legs, statuses)
                                                THEN legs[k].qty ELSE 0)
  BY OpenedStepwise DEF WellFormed
<1>2. /\ left[0] = closed
      /\ \A k \in 1..n : left[k] = NextLeft(legs, statuses, left[k - 1], k)
  BY LeftIsDefined
<1> HIDE DEF n, closed, B, left
<1>3. 0 \in Good
  BY <1>1, <1>2
<1>4. ASSUME NEW k \in 0..n, k # 0, k - 1 \in Good
      PROVE  k \in Good
  <2>1. /\ k \in 1..n /\ k - 1 \in 0..n /\ B(k) \in Nat /\ B(k - 1) \in Nat
        /\ legs[k].qty \in Nat \ {0}
    BY <1>1, <1>4
  <2>2. /\ left[k] = NextLeft(legs, statuses, left[k - 1], k)
        /\ left[k - 1] = IF closed >= B(k - 1) THEN closed - B(k - 1) ELSE 0
        /\ B(k) = B(k - 1) + (IF k \in Openers(legs, statuses) THEN legs[k].qty ELSE 0)
    BY <1>1, <1>2, <1>4, <2>1
  <2>3. left[k] = IF closed >= B(k) THEN closed - B(k) ELSE 0
    <3> HIDE DEF Good
    <3>1. CASE k \in Openers(legs, statuses)
      <4>1. /\ left[k] = IF left[k - 1] >= legs[k].qty THEN left[k - 1] - legs[k].qty ELSE 0
            /\ B(k) = B(k - 1) + legs[k].qty
        BY <2>2, <3>1 DEF NextLeft
      <4> DEFINE now == left[k]
                 before == left[k - 1]
                 quantity == legs[k].qty
                 opened == B(k - 1)
                 total == B(k)
      <4>2. /\ closed \in Nat /\ quantity \in Nat \ {0} /\ opened \in Nat /\ total \in Nat
            /\ now = IF before >= quantity THEN before - quantity ELSE 0
            /\ before = IF closed >= opened THEN closed - opened ELSE 0
            /\ total = opened + quantity
        BY <1>1, <2>1, <2>2, <4>1
      <4> HIDE DEF now, before, quantity, opened, total
      <4>3. now = IF closed >= total THEN closed - total ELSE 0
        BY ONLY <4>2
      <4> QED BY <4>3 DEF now, total
    <3>2. CASE k \notin Openers(legs, statuses)
      <4>1. left[k] = left[k - 1] /\ B(k) = B(k - 1)
        BY <2>1, <2>2, <3>2 DEF NextLeft
      <4> QED BY <2>2, <4>1
    <3> QED BY <3>1, <3>2
  <2> QED BY <2>3
<1> HIDE DEF Good
<1>5. \A k \in 0..n : k \in Good
  BY <1>1, <1>3, <1>4, NumberInduction
<1> QED BY <1>5 DEF Good, n, closed, B, left

(* The netting in closed form: an opener is open when more was opened up   *)
(* to and including it than was closed, and in the quantity beyond.        *)
LEMMA NettingIs ==
    ASSUME NEW legs, NEW statuses, WellFormed(legs)
    PROVE  LET open == OpenQuantity(legs, statuses)
               B(i) == OpenedUpTo(legs, statuses, i)
           IN  /\ DOMAIN open = {i \in Openers(legs, statuses) : B(i) > ClosedQty(legs)}
               /\ \A i \in DOMAIN open :
                     open[i] = IF B(i) - ClosedQty(legs) < legs[i].qty
                                 THEN B(i) - ClosedQty(legs) ELSE legs[i].qty
<1> DEFINE n == Len(legs)
           closed == ClosedQty(legs)
           openers == Openers(legs, statuses)
           B(k) == OpenedUpTo(legs, statuses, k)
           left == LeftAfter(legs, statuses)
<1>1. OpenQuantity(legs, statuses) = [i \in {j \in openers : left[j - 1] < legs[j].qty} |->
                                         legs[i].qty - left[i - 1]]
  BY DEF OpenQuantity, LeftAfter
<1>2. /\ n \in Nat /\ openers \in SUBSET (1..n)
      /\ \A k \in 1..n : legs[k].qty \in Nat \ {0}
      /\ closed \in Nat
      /\ \A k \in 0..n : B(k) \in Nat
      /\ \A k \in openers : B(k) = B(k - 1) + legs[k].qty
  BY OpenedStepwise DEF WellFormed, Openers
<1>3. \A k \in 0..n : left[k] = IF closed >= B(k) THEN closed - B(k) ELSE 0
  BY LeftIs
<1> HIDE DEF n, closed, B, left, openers
<1>4. ASSUME NEW k \in openers
      PROVE  /\ left[k - 1] < legs[k].qty <=> B(k) > closed
             /\ B(k) > closed => legs[k].qty - left[k - 1]
                                    = IF B(k) - closed < legs[k].qty THEN B(k) - closed
                                                                     ELSE legs[k].qty
  <2>1. /\ k - 1 \in 0..n /\ B(k - 1) \in Nat /\ B(k) \in Nat /\ legs[k].qty \in Nat \ {0}
        /\ B(k) = B(k - 1) + legs[k].qty
        /\ left[k - 1] = IF closed >= B(k - 1) THEN closed - B(k - 1) ELSE 0
    BY <1>2, <1>3
  <2> QED BY <1>2, <2>1
<1>5. {j \in openers : left[j - 1] < legs[j].qty} = {j \in openers : B(j) > closed}
  BY <1>4
<1> QED BY <1>1, <1>4, <1>5 DEF closed, B, openers

(* What the netting leaves open in all is what was opened beyond what was  *)
(* closed.                                                                 *)
LEMMA NettingTotal ==
    ASSUME NEW legs, NEW statuses, WellFormed(legs)
    PROVE  LET open == OpenQuantity(legs, statuses)
               opened == SumOfQty(legs, Openers(legs, statuses))
           IN  Total(open, DOMAIN open) = IF opened > ClosedQty(legs)
                                            THEN opened - ClosedQty(legs) ELSE 0
<1> DEFINE n == Len(legs)
           closed == ClosedQty(legs)
           openers == Openers(legs, statuses)
           open == OpenQuantity(legs, statuses)
           B(k) == OpenedUpTo(legs, statuses, k)
           D == DOMAIN open
           To(k) == {j \in D : j <= k}
           Good == {k \in 0..n : Total(open, To(k)) = IF B(k) > closed THEN B(k) - closed ELSE 0}
<1>1. /\ n \in Nat /\ openers \in SUBSET (1..n)
      /\ \A k \in 1..n : legs[k].qty \in Nat \ {0}
      /\ closed \in Nat /\ B(0) = 0 /\ B(n) = SumOfQty(legs, openers)
      /\ \A k \in 0..n : B(k) \in Nat
      /\ \A k \in 1..n : B(k) = B(k - 1) + (IF k \in openers THEN legs[k].qty ELSE 0)
  BY OpenedStepwise DEF WellFormed, Openers
<1>2. /\ DOMAIN open = {i \in openers : B(i) > closed}
      /\ \A i \in DOMAIN open :
            open[i] = IF B(i) - closed < legs[i].qty THEN B(i) - closed ELSE legs[i].qty
  BY NettingIs
<1> HIDE DEF n, closed, B, open, openers
<1>3. /\ D \in SUBSET (1..n) /\ D \in SUBSET openers
      /\ \A i \in openers : i \in D <=> B(i) > closed
      /\ \A i \in D : open[i] = IF B(i) - closed < legs[i].qty
                                  THEN B(i) - closed ELSE legs[i].qty
  BY <1>1, <1>2
<1> HIDE DEF D
<1>4. n \in Nat /\ \A i \in D : i \in Nat /\ 1 <= i /\ i <= n
  <2>1. n \in Nat
    BY <1>1
  <2>2. D \in SUBSET (1..n)
    BY <1>3
  <2> QED BY ONLY <2>1, <2>2
<1>5. \A k : IsFiniteSet(To(k))
  <2>1. \A k : To(k) \in SUBSET (1..n)
    BY <1>3
  <2>2. IsFiniteSet(1..n)
    BY <1>1, FS_Interval
  <2> HIDE DEF To
  <2> QED BY <2>1, <2>2, FS_Subset
<1>6. ASSUME NEW i \in D PROVE open[i] \in Nat \ {0}
  <2>1. B(i) \in Nat /\ closed \in Nat /\ B(i) > closed /\ legs[i].qty \in Nat \ {0}
    BY <1>1, <1>3, <1>4
  <2> QED BY <1>3, <2>1
<1>7. 0 \in Good
  <2>1. To(0) = {}
    BY <1>4
  <2>2. Total(open, To(0)) = 0
    BY <2>1, FS_EmptySet, TotalSplits
  <2> QED BY <1>1, <2>2
<1>8. ASSUME NEW k \in 0..n, k # 0, k - 1 \in Good
      PROVE  k \in Good
  <2>1. /\ k \in 1..n /\ k - 1 \in 0..n /\ B(k) \in Nat /\ B(k - 1) \in Nat
        /\ legs[k].qty \in Nat \ {0}
        /\ B(k) = B(k - 1) + (IF k \in openers THEN legs[k].qty ELSE 0)
        /\ Total(open, To(k - 1)) = IF B(k - 1) > closed THEN B(k - 1) - closed ELSE 0
    BY <1>1, <1>8
  <2>2. CASE k \in D
    <3>1. To(k) = To(k - 1) \cup {k} /\ k \notin To(k - 1)
      <4>1. \A j \in D : j <= k <=> (j <= k - 1 \/ j = k)
        BY <1>4
      <4>2. ~(k <= k - 1)
        BY <1>4
      <4> QED BY <2>2, <4>1, <4>2
    <3>2. /\ open[k] \in Int /\ \A j \in To(k - 1) : open[j] \in Int
      BY <1>6, <2>2
    <3>3. Total(open, To(k)) = Total(open, To(k - 1)) + open[k]
      <4> HIDE DEF To, Good
      <4>1. Total(open, To(k - 1) \cup {k}) = Total(open, To(k - 1)) + open[k]
        BY <1>5, <3>1, <3>2, TotalWith
      <4> QED BY <3>1, <4>1
    <3>4. /\ k \in openers /\ B(k) > closed
          /\ open[k] = IF B(k) - closed < legs[k].qty THEN B(k) - closed ELSE legs[k].qty
      BY <1>3, <2>2
    <3>5. Total(open, To(k)) = IF B(k) > closed THEN B(k) - closed ELSE 0
      <4> HIDE DEF To, Good
      <4> QED BY <1>1, <2>1, <3>3, <3>4
    <3> QED BY <3>5
  <2>3. CASE k \notin D
    <3>1. To(k) = To(k - 1)
      BY <1>4, <2>3
    <3>2. k \in openers => ~(B(k) > closed)
      BY <1>3, <2>3
    <3>3. Total(open, To(k)) = IF B(k) > closed THEN B(k) - closed ELSE 0
      <4> HIDE DEF To, Good
      <4> QED BY <1>1, <2>1, <3>1, <3>2
    <3> QED BY <3>3
  <2> QED BY <2>2, <2>3
<1> HIDE DEF Good
<1>9. n \in Good
  <2>1. \A k \in 0..n : k \in Good
    BY <1>4, <1>7, <1>8, NumberInduction
  <2> QED BY <1>4, <2>1
<1>10. To(n) = D
  BY <1>4
<1> HIDE DEF To
<1> QED BY <1>1, <1>9, <1>10 DEF Good, D, open, closed, openers

-------------------------------------------------------------------------------
(* A ledger grows by a row at a time.                                      *)

Opened(legs) == SumOfQty(legs, Openers(legs, UnclosedStatuses))

(* The ledger closes leg after leg: none is closed in part.                *)
NettedInFull(legs) ==
    /\ ClosedQty(legs) <= Opened(legs)
    /\ \A i \in Openers(legs, UnclosedStatuses) :
          LET upto == OpenedUpTo(legs, UnclosedStatuses, i)
          IN  ClosedQty(legs) >= upto \/ ClosedQty(legs) <= upto - legs[i].qty

GrowsByOne(legs, more) ==
    /\ WellFormed(legs) /\ WellFormed(more)
    /\ Len(more) = Len(legs) + 1
    /\ \A i \in 1..Len(legs) : more[i] = legs[i]

LEMMA SumStays ==
    ASSUME NEW legs, NEW more, GrowsByOne(legs, more), NEW I \in SUBSET DOMAIN legs
    PROVE  /\ SumOfQty(more, I) = SumOfQty(legs, I) /\ SumOfQty(legs, I) \in Nat
           /\ I \in SUBSET DOMAIN more
           /\ SumOfQty(more, I \cup {Len(more)}) = SumOfQty(legs, I) + more[Len(more)].qty
<1> DEFINE n == Len(more)
<1>1. /\ Len(legs) \in Nat /\ n = Len(legs) + 1 /\ DOMAIN legs = 1..Len(legs) /\ DOMAIN more = 1..n
      /\ \A i \in DOMAIN legs : more[i] = legs[i]
      /\ \A i \in DOMAIN more : more[i].qty \in Nat
      /\ \A i \in DOMAIN legs : legs[i].qty \in Nat
  BY DEF GrowsByOne, WellFormed
<1>2. I \in SUBSET DOMAIN more /\ n \in DOMAIN more /\ n \notin I
      /\ I \cup {n} \in SUBSET DOMAIN more
  BY <1>1
<1>3. /\ IsFiniteSet(I) /\ SumOfQty(legs, I) = Total(Qty(legs), I)
      /\ SumOfQty(more, I) = Total(Qty(more), I)
      /\ SumOfQty(more, I \cup {n}) = Total(Qty(more), I \cup {n})
      /\ Total(Qty(legs), I) \in Nat
      /\ \A i \in DOMAIN legs : Qty(legs)[i] = legs[i].qty
      /\ \A i \in DOMAIN more : Qty(more)[i] = more[i].qty
  BY <1>2, FiniteLegs DEF GrowsByOne
<1> HIDE DEF n
<1>4. \A i \in I : Qty(legs)[i] = Qty(more)[i]
  BY <1>1, <1>2, <1>3
<1>5. Total(Qty(legs), I) = Total(Qty(more), I)
  BY <1>3, <1>4, TotalSame
<1>6. Qty(more)[n] = more[n].qty /\ Qty(more)[n] \in Int /\ \A i \in I : Qty(more)[i] \in Int
  BY <1>1, <1>2, <1>3
<1>7. Total(Qty(more), I \cup {n}) = Total(Qty(more), I) + Qty(more)[n]
  <2>1. IsFiniteSet(I) /\ n \notin I
    BY <1>2, <1>3
  <2> QED BY <1>6, <2>1, TotalWith
<1> QED BY <1>2, <1>3, <1>5, <1>6, <1>7 DEF n

LEMMA OpenedStays ==
    ASSUME NEW legs, NEW more, NEW statuses, GrowsByOne(legs, more),
           Openers(more, statuses) \cap DOMAIN legs = Openers(legs, statuses),
           NEW i \in 0..Len(legs)
    PROVE  OpenedUpTo(more, statuses, i) = OpenedUpTo(legs, statuses, i)
<1> DEFINE I == {j \in Openers(legs, statuses) : j <= i}
<1>1. /\ Len(legs) \in Nat /\ DOMAIN legs = 1..Len(legs) /\ DOMAIN more = 1..(Len(legs) + 1)
  BY DEF GrowsByOne, WellFormed
<1>2. \A j \in DOMAIN more : j <= i => j \in DOMAIN legs
  BY <1>1
<1>3. {j \in Openers(more, statuses) : j <= i} = I
  BY <1>1, <1>2 DEF Openers
<1>4. I \in SUBSET DOMAIN legs
  BY DEF Openers
<1> HIDE DEF I
<1>5. SumOfQty(more, I) = SumOfQty(legs, I) /\ I \in SUBSET DOMAIN more
  BY <1>4, SumStays
<1>6. SumOfQty(more, I) = Total(Qty(more), I) /\ SumOfQty(legs, I) = Total(Qty(legs), I)
  BY <1>4, <1>5, FiniteLegs DEF GrowsByOne
<1> QED BY <1>3, <1>5, <1>6 DEF OpenedUpTo, I

(* More is opened up to a later row.                                       *)
LEMMA OpenedGrows ==
    ASSUME NEW legs, NEW statuses, WellFormed(legs),
           NEW i \in 0..Len(legs), NEW k \in 0..Len(legs), i <= k
    PROVE  /\ OpenedUpTo(legs, statuses, i) \in Nat /\ OpenedUpTo(legs, statuses, k) \in Nat
           /\ OpenedUpTo(legs, statuses, i) <= OpenedUpTo(legs, statuses, k)
<1> DEFINE I == {j \in Openers(legs, statuses) : j <= i}
           K == {j \in Openers(legs, statuses) : j <= k}
<1>1. K \in SUBSET DOMAIN legs /\ DOMAIN legs = 1..Len(legs) /\ Len(legs) \in Nat
  BY DEF Openers, WellFormed
<1>2. I \in SUBSET K
  <2>1. \A j \in DOMAIN legs : j <= i => j <= k
    BY <1>1
  <2> QED BY <1>1, <2>1 DEF Openers
<1>3. IsFiniteSet(K) /\ \A j \in K : Qty(legs)[j] \in Nat
  BY <1>1, FiniteLegs DEF WellFormed
<1> HIDE DEF I, K
<1>4. /\ Total(Qty(legs), I) \in Nat /\ Total(Qty(legs), K) \in Nat
      /\ Total(Qty(legs), I) <= Total(Qty(legs), K)
  BY <1>2, <1>3, TotalGrows
<1> QED BY <1>4 DEF OpenedUpTo, I, K

(* A buy joins the openers, if it counts as one.                           *)
LEMMA BuyAppended ==
    ASSUME NEW legs, NEW more, GrowsByOne(legs, more), OpeningSide(more) = "BUY",
           more[Len(more)].side = "BUY", NettedInFull(legs)
    PROVE  /\ NettedInFull(more) /\ ClosedQty(more) = ClosedQty(legs)
           /\ Opened(legs) \in Nat /\ ClosedQty(legs) \in Nat
           /\ Opened(more) = Opened(legs) + (IF more[Len(more)].status \in UnclosedStatuses
                                               THEN more[Len(more)].qty ELSE 0)
<1> DEFINE n == Len(more)
           old == Openers(legs, UnclosedStatuses)
           new == Openers(more, UnclosedStatuses)
           closers == {i \in DOMAIN legs : /\ legs[i].side # OpeningSide(legs)
                                           /\ legs[i].status = "COMPLETE"}
           B(i) == OpenedUpTo(legs, UnclosedStatuses, i)
<1>1. /\ Len(legs) \in Nat /\ n = Len(legs) + 1 /\ DOMAIN legs = 1..Len(legs)
      /\ DOMAIN more = DOMAIN legs \cup {n} /\ n \notin DOMAIN legs
      /\ \A i \in DOMAIN legs : more[i] = legs[i]
      /\ \A i \in DOMAIN more : more[i].qty \in Nat \ {0}
  <2>1. 1..(Len(legs) + 1) = (1..Len(legs)) \cup {Len(legs) + 1} /\ Len(legs) + 1 \notin 1..Len(legs)
    BY DEF GrowsByOne, WellFormed
  <2> QED BY <2>1 DEF GrowsByOne, WellFormed
<1>2. DOMAIN legs # {} => OpeningSide(legs) = "BUY"
  BY <1>1 DEF OpeningSide
<1>3. /\ closers = {i \in DOMAIN more : /\ more[i].side # OpeningSide(more)
                                        /\ more[i].status = "COMPLETE"}
      /\ closers \in SUBSET DOMAIN legs
  BY <1>1, <1>2
<1>4. ClosedQty(more) = ClosedQty(legs) /\ ClosedQty(legs) \in Nat
  <2>0. closers \in SUBSET DOMAIN legs
    BY <1>3
  <2> HIDE DEF closers, n
  <2>1. SumOfQty(more, closers) = SumOfQty(legs, closers) /\ SumOfQty(legs, closers) \in Nat
    BY <2>0, SumStays
  <2> QED BY <1>3, <2>1 DEF ClosedQty, closers
<1>5. /\ new = old \cup (IF more[n].status \in UnclosedStatuses THEN {n} ELSE {})
      /\ old \in SUBSET DOMAIN legs /\ new \cap DOMAIN legs = old
  BY <1>1, <1>2 DEF Openers
<1> HIDE DEF n, old, new
<1>6. /\ Opened(legs) = SumOfQty(legs, old) /\ Opened(more) = SumOfQty(more, new)
      /\ Opened(legs) \in Nat /\ SumOfQty(more, old) = Opened(legs)
      /\ SumOfQty(more, old \cup {n}) = Opened(legs) + more[n].qty
  <2>1. old \in SUBSET DOMAIN legs
    BY <1>5
  <2>2. /\ SumOfQty(more, old) = SumOfQty(legs, old) /\ SumOfQty(legs, old) \in Nat
        /\ SumOfQty(more, old \cup {n}) = SumOfQty(legs, old) + more[n].qty
    <3> HIDE DEF closers, B
    <3>1. /\ SumOfQty(more, old) = SumOfQty(legs, old) /\ SumOfQty(legs, old) \in Nat
          /\ SumOfQty(more, old \cup {Len(more)}) = SumOfQty(legs, old) + more[Len(more)].qty
      <4>1. SumOfQty(more, old) = SumOfQty(legs, old) /\ SumOfQty(legs, old) \in Nat
        BY <2>1, SumStays
      <4>2. SumOfQty(more, old \cup {Len(more)}) = SumOfQty(legs, old) + more[Len(more)].qty
        BY <2>1, SumStays
      <4> QED BY <4>1, <4>2
    <3> QED BY <3>1 DEF n
  <2> QED BY <2>2 DEF Opened, old, new
<1>7. Opened(more) = Opened(legs) + (IF more[n].status \in UnclosedStatuses THEN more[n].qty ELSE 0)
  <2>1. CASE more[n].status \in UnclosedStatuses
    BY <1>5, <1>6, <2>1
  <2>2. CASE more[n].status \notin UnclosedStatuses
    <3>1. new = old
      BY <1>5, <2>2
    <3> QED BY <1>6, <2>2, <3>1
  <2> QED BY <2>1, <2>2
<1>8. \A i \in 0..Len(legs) : OpenedUpTo(more, UnclosedStatuses, i) = B(i)
  BY <1>5, OpenedStays DEF old, new
<1>9. B(Len(legs)) = Opened(legs)
  BY OpenedStepwise DEF GrowsByOne, Opened
<1> HIDE DEF B
<1>10. ClosedQty(more) <= Opened(more)
  <2>1. ClosedQty(legs) <= Opened(legs) /\ more[n].qty \in Nat
    BY <1>1 DEF NettedInFull
  <2> QED BY <1>4, <1>6, <1>7, <2>1
<1>11. ASSUME NEW i \in new
       PROVE  LET upto == OpenedUpTo(more, UnclosedStatuses, i)
              IN  ClosedQty(more) >= upto \/ ClosedQty(more) <= upto - more[i].qty
  <2>1. CASE i \in old
    <3>1. i \in 0..Len(legs) /\ more[i] = legs[i]
      BY <1>1, <1>5, <2>1
    <3> QED BY <1>4, <1>8, <2>1, <3>1 DEF NettedInFull, old, B
  <2>2. CASE i = n
    <3>1. OpenedUpTo(more, UnclosedStatuses, n) = OpenedUpTo(more, UnclosedStatuses, n - 1) + more[n].qty
      BY <1>1, <1>11, <2>2, OpenedStepwise DEF GrowsByOne, new, n
    <3>2. n - 1 = Len(legs) /\ OpenedUpTo(more, UnclosedStatuses, n - 1) = Opened(legs)
      BY <1>1, <1>8, <1>9
    <3>3. ClosedQty(more) <= Opened(legs) /\ more[n].qty \in Nat
      BY <1>1, <1>4 DEF NettedInFull
    <3> QED BY <1>6, <2>2, <3>1, <3>2, <3>3
  <2> QED BY <1>5, <2>1, <2>2
<1> QED BY <1>4, <1>6, <1>7, <1>10, <1>11 DEF NettedInFull, n, new

(* The first unclosed row, in a ledger that closes row after row: what was *)
(* closed is what was opened before it.                                    *)
LEMMA FirstUnclosed ==
    ASSUME NEW legs, WellFormed(legs), NettedInFull(legs), UnclosedLegs(legs) # {},
           NEW first, first \in UnclosedLegs(legs), \A i \in UnclosedLegs(legs) : first <= i
    PROVE  /\ first \in Openers(legs, UnclosedStatuses) /\ first \in 1..Len(legs)
           /\ ClosedQty(legs) + legs[first].qty = OpenedUpTo(legs, UnclosedStatuses, first)
<1> DEFINE n == Len(legs)
           C == ClosedQty(legs)
           openers == Openers(legs, UnclosedStatuses)
           B(i) == OpenedUpTo(legs, UnclosedStatuses, i)
           Good == {k \in 0..n : B(k) > C => \E j \in openers : j <= k /\ B(j) > C}
<1>1. /\ n \in Nat /\ openers \in SUBSET (1..n)
      /\ \A i \in 1..n : legs[i].qty \in Nat \ {0}
      /\ C \in Nat /\ B(0) = 0
      /\ \A i \in 0..n : B(i) \in Nat
      /\ \A i \in 1..n : B(i) = B(i - 1) + (IF i \in openers THEN legs[i].qty ELSE 0)
  BY OpenedStepwise DEF WellFormed, Openers
<1>2. UnclosedLegs(legs) = {i \in openers : B(i) > C}
  BY NettingIs DEF UnclosedLegs
<1>3. \A i \in openers : C >= B(i) \/ C <= B(i) - legs[i].qty
  BY DEF NettedInFull
<1> HIDE DEF n, C, openers, B
<1>4. 0 \in Good
  BY <1>1
<1>5. ASSUME NEW k \in 0..n, k # 0, k - 1 \in Good
      PROVE  k \in Good
  <2>1. /\ k \in 1..n /\ B(k) \in Nat /\ B(k - 1) \in Nat
        /\ B(k) = B(k - 1) + (IF k \in openers THEN legs[k].qty ELSE 0)
    BY <1>1, <1>5
  <2>2. CASE k \in openers
    BY <1>1, <2>2
  <2>3. CASE k \notin openers
    <3>1. ASSUME B(k) > C PROVE \E j \in openers : j <= k /\ B(j) > C
      <4>1. PICK j \in openers : j <= k - 1 /\ B(j) > C
        BY <1>5, <2>1, <2>3, <3>1
      <4>2. j <= k
        BY <1>1, <4>1
      <4> QED BY <4>1, <4>2
    <3> QED BY <3>1
  <2> QED BY <2>2, <2>3
<1> HIDE DEF Good
<1>6. \A k \in 0..n : k \in Good
  BY <1>1, <1>4, <1>5, NumberInduction
<1>7. first \in openers /\ B(first) > C /\ first \in 1..n /\ first - 1 \in 0..n
  <2>1. first \in openers /\ B(first) > C
    BY <1>2
  <2>2. first \in 1..n
    BY <1>1, <2>1
  <2>3. first - 1 \in 0..n
    BY <1>1, <2>2
  <2> QED BY <2>1, <2>2, <2>3
<1>8. ~(B(first - 1) > C)
  <2>1. SUFFICES ASSUME B(first - 1) > C PROVE FALSE
    OBVIOUS
  <2>2. PICK j \in openers : j <= first - 1 /\ B(j) > C
    BY <1>6, <1>7, <2>1 DEF Good
  <2>3. first <= j
    BY <1>2, <2>2
  <2>4. j \in Nat /\ first \in Nat
    BY <1>1, <1>7, <2>2
  <2> QED BY <2>2, <2>3, <2>4
<1>9. /\ B(first) = B(first - 1) + legs[first].qty
      /\ B(first) \in Nat /\ B(first - 1) \in Nat /\ legs[first].qty \in Nat
      /\ C <= B(first) - legs[first].qty
  <2>1. C <= B(first) - legs[first].qty
    <3>1. C >= B(first) \/ C <= B(first) - legs[first].qty
      BY <1>3, <1>7
    <3>2. B(first) \in Nat
      BY <1>1, <1>7
    <3> QED BY <1>1, <1>7, <3>1, <3>2
  <2> QED BY <1>1, <1>7, <2>1
<1>10. C + legs[first].qty = B(first)
  BY <1>1, <1>8, <1>9
<1> QED BY <1>7, <1>10 DEF n, C, openers, B

ClosesFirst(legs, qty) ==
    \E first \in UnclosedLegs(legs) : /\ \A i \in UnclosedLegs(legs) : first <= i
                                      /\ qty = legs[first].qty

(* A sell closes the first unclosed row, or it was not completed.          *)
LEMMA SellAppended ==
    ASSUME NEW legs, NEW more, GrowsByOne(legs, more), OpeningSide(more) = "BUY",
           Len(legs) # 0, more[Len(more)].side = "SELL", NettedInFull(legs),
           more[Len(more)].status = "COMPLETE" => ClosesFirst(legs, more[Len(more)].qty)
    PROVE  /\ NettedInFull(more) /\ Opened(more) = Opened(legs)
           /\ Opened(legs) \in Nat /\ ClosedQty(legs) \in Nat
           /\ ClosedQty(more) = ClosedQty(legs) + (IF more[Len(more)].status = "COMPLETE"
                                                     THEN more[Len(more)].qty ELSE 0)
<1> DEFINE n == Len(more)
           old == Openers(legs, UnclosedStatuses)
           new == Openers(more, UnclosedStatuses)
           closers == {i \in DOMAIN legs : /\ legs[i].side # OpeningSide(legs)
                                           /\ legs[i].status = "COMPLETE"}
           B(i) == OpenedUpTo(legs, UnclosedStatuses, i)
<1>1. /\ Len(legs) \in Nat /\ n = Len(legs) + 1 /\ DOMAIN legs = 1..Len(legs)
      /\ DOMAIN more = DOMAIN legs \cup {n} /\ n \notin DOMAIN legs
      /\ \A i \in DOMAIN legs : more[i] = legs[i]
      /\ \A i \in DOMAIN more : more[i].qty \in Nat \ {0}
  <2>1. 1..(Len(legs) + 1) = (1..Len(legs)) \cup {Len(legs) + 1} /\ Len(legs) + 1 \notin 1..Len(legs)
    BY DEF GrowsByOne, WellFormed
  <2> QED BY <2>1 DEF GrowsByOne, WellFormed
<1>2. OpeningSide(legs) = "BUY"
  <2>1. 1 \in DOMAIN legs
    BY <1>1
  <2> QED BY <1>1, <2>1 DEF OpeningSide
<1>3. /\ {i \in DOMAIN more : /\ more[i].side # OpeningSide(more)
                              /\ more[i].status = "COMPLETE"}
           = closers \cup (IF more[n].status = "COMPLETE" THEN {n} ELSE {})
      /\ closers \in SUBSET DOMAIN legs
  BY <1>1, <1>2
<1>4. new = old /\ old \in SUBSET DOMAIN legs
  BY <1>1, <1>2 DEF Openers
<1> HIDE DEF old, new, closers, n
<1>5. Opened(more) = Opened(legs) /\ Opened(legs) \in Nat
  <2>1. SumOfQty(more, old) = SumOfQty(legs, old) /\ SumOfQty(legs, old) \in Nat
    BY <1>4, SumStays
  <2> QED BY <1>4, <2>1 DEF Opened, old, new
<1>6. /\ ClosedQty(legs) \in Nat
      /\ ClosedQty(more) = ClosedQty(legs) + (IF more[n].status = "COMPLETE" THEN more[n].qty ELSE 0)
  <2>0. closers \in SUBSET DOMAIN legs
    BY <1>3
  <2>1. SumOfQty(more, closers) = SumOfQty(legs, closers) /\ SumOfQty(legs, closers) \in Nat
    BY <2>0, SumStays
  <2>2. SumOfQty(more, closers \cup {n}) = SumOfQty(legs, closers) + more[n].qty
    BY <2>0, SumStays DEF n
  <2>3. ClosedQty(legs) = SumOfQty(legs, closers)
    BY DEF ClosedQty, closers
  <2>4. CASE more[n].status = "COMPLETE"
    BY <1>3, <2>1, <2>2, <2>3, <2>4 DEF ClosedQty
  <2>5. CASE more[n].status # "COMPLETE"
    <3>1. ClosedQty(more) = SumOfQty(more, closers)
      <4>1. closers \cup (IF more[n].status = "COMPLETE" THEN {n} ELSE {}) = closers
        BY <2>5
      <4> QED BY <1>3, <4>1 DEF ClosedQty
    <3> QED BY <2>1, <2>3, <2>5, <3>1
  <2> QED BY <2>4, <2>5
<1>7. \A i \in 0..Len(legs) : OpenedUpTo(more, UnclosedStatuses, i) = B(i)
  <2>1. Openers(more, UnclosedStatuses) \cap DOMAIN legs = Openers(legs, UnclosedStatuses)
    BY <1>4 DEF old, new
  <2> HIDE DEF B
  <2>2. \A statuses : Openers(more, statuses) \cap DOMAIN legs = Openers(legs, statuses)
           => \A i \in 0..Len(legs) : OpenedUpTo(more, statuses, i) = OpenedUpTo(legs, statuses, i)
    <3> SUFFICES ASSUME NEW statuses, NEW i \in 0..Len(legs),
                        Openers(more, statuses) \cap DOMAIN legs = Openers(legs, statuses)
                 PROVE  OpenedUpTo(more, statuses, i) = OpenedUpTo(legs, statuses, i)
      OBVIOUS
    <3> QED BY OpenedStays
  <2> QED BY <2>1, <2>2 DEF B
<1>8. B(Len(legs)) = Opened(legs)
  BY OpenedStepwise DEF GrowsByOne, Opened
<1> HIDE DEF B
<1>9. CASE more[n].status # "COMPLETE"
  <2>1. ClosedQty(more) = ClosedQty(legs)
    BY <1>6, <1>9
  <2>2. \A i \in old : i \in 0..Len(legs) /\ more[i] = legs[i]
    BY <1>1, <1>4
  <2>3. NettedInFull(more)
    BY <1>4, <1>5, <1>7, <2>1, <2>2 DEF NettedInFull, old, new, B
  <2> QED BY <1>5, <1>6, <2>3 DEF n
<1>10. CASE more[n].status = "COMPLETE"
  <2>1. PICK first \in UnclosedLegs(legs) :
            /\ \A i \in UnclosedLegs(legs) : first <= i
            /\ more[n].qty = legs[first].qty
    BY <1>10 DEF n, ClosesFirst
  <2>2. /\ first \in old /\ first \in 1..Len(legs)
        /\ ClosedQty(legs) + legs[first].qty = B(first)
    BY <2>1, FirstUnclosed DEF GrowsByOne, old, B
  <2>3. ClosedQty(more) = B(first)
    BY <1>6, <1>10, <2>1, <2>2
  <2>4. \A i, k \in 0..Len(legs) : /\ B(i) \in Nat
                                   /\ i <= k => B(i) <= B(k)
    BY OpenedGrows DEF GrowsByOne, B
  <2>5. ClosedQty(more) <= Opened(more)
    <3>1. first \in 0..Len(legs) /\ Len(legs) \in 0..Len(legs) /\ first <= Len(legs)
      BY <1>1, <2>2
    <3> QED BY <1>5, <1>8, <2>3, <2>4, <3>1
  <2>6. ASSUME NEW i \in old
        PROVE  ClosedQty(more) >= B(i) \/ ClosedQty(more) <= B(i) - legs[i].qty
    <3>1. i \in 1..Len(legs) /\ i - 1 \in 0..Len(legs) /\ i \in 0..Len(legs)
          /\ first \in 0..Len(legs)
      BY <1>1, <1>4, <2>2
    <3>2. CASE i <= first
      BY <2>3, <2>4, <3>1, <3>2
    <3>3. CASE ~(i <= first)
      <4>1. first <= i - 1
        BY <2>2, <3>1, <3>3
      <4>2. B(i) = B(i - 1) + legs[i].qty
        BY <3>1, OpenedStepwise DEF GrowsByOne, old, B
      <4>3. B(first) <= B(i - 1) /\ B(i - 1) \in Nat /\ B(first) \in Nat
        BY <2>4, <3>1, <4>1
      <4>4. legs[i].qty \in Nat
        BY <3>1 DEF GrowsByOne, WellFormed
      <4> QED BY <2>3, <4>2, <4>3, <4>4
    <3> QED BY <3>2, <3>3
  <2>7. \A i \in old : i \in 0..Len(legs) /\ more[i] = legs[i]
    BY <1>1, <1>4
  <2>8. NettedInFull(more)
    BY <1>4, <1>7, <2>5, <2>6, <2>7 DEF NettedInFull, new
  <2> QED BY <1>5, <1>6, <2>8 DEF n
<1> QED BY <1>9, <1>10
===============================================================================
