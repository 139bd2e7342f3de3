---------------------------- MODULE EngineRunsProofs ---------------------------
(***************************************************************************)
(* Theorems about the engine: for any bars, the incremental engine gives   *)
(* what the batch engine gives, is the strategy the books are checked      *)
(* against, and keeps the trades table a backtest would rebuild.           *)
(***************************************************************************)
EXTENDS EngineRuns, SumFacts

(* What one candidate does to a scan.                                      *)
ScanStart(queue) == [queue |-> queue, last |-> -1]

ScanStep(h, b, i, before) ==
    IF FiniteDistance(b, i) /\ Distance(h, b, i) >= before.last /\ i % Stride # 0
    THEN Admitted(before.queue, Distance(h, b, i), Label(h, i)) ELSE before

Scans(f, h, b, queue, n) ==
    f = [i \in -1..n |-> IF i = -1 THEN ScanStart(queue) ELSE ScanStep(h, b, i, f[i - 1])]

ScanSize(b) == IF b < MaxBarsBack - 1 THEN b ELSE MaxBarsBack - 1

-------------------------------------------------------------------------------
(* Induction from -1, where the recursions of the engine start.            *)
LEMMA InductionFromBefore ==
    ASSUME NEW n \in Int, n >= -1, NEW Good, -1 \in Good,
           \A i \in 0..n : i - 1 \in Good => i \in Good
    PROVE  \A i \in -1..n : i \in Good
<1> DEFINE Shifted == {k \in 0..(n + 1) : k - 1 \in Good}
<1>1. n + 1 \in Nat
  OBVIOUS
<1>2. 0 \in Shifted
  BY <1>1
<1>3. ASSUME NEW k \in 0..(n + 1), k # 0, k - 1 \in Shifted PROVE k \in Shifted
  <2>1. k - 1 \in 0..n /\ (k - 1) - 1 \in Good
    BY <1>3
  <2>2. k - 1 \in Good
    BY <2>1
  <2> QED BY <1>3, <2>2
<1> HIDE DEF Shifted
<1>4. \A k \in 0..(n + 1) : k \in Shifted
  BY <1>1, <1>2, <1>3, NumberInduction
<1>5. ASSUME NEW i \in -1..n PROVE i \in Good
  <2>1. i + 1 \in 0..(n + 1) /\ (i + 1) - 1 = i
    OBVIOUS
  <2>2. i + 1 \in Shifted
    BY <1>4, <2>1
  <2> QED BY <2>1, <2>2 DEF Shifted
<1> QED BY <1>5

-------------------------------------------------------------------------------
(* The scan of one bar's neighbours.                                       *)

LEMMA ScanStepwise ==
    ASSUME NEW n \in Int, n >= -1, NEW f, NEW h, NEW b, NEW queue, Scans(f, h, b, queue, n)
    PROVE  /\ f[-1] = ScanStart(queue)
           /\ \A i \in 0..n : f[i] = ScanStep(h, b, i, f[i - 1])
BY DEF Scans

LEMMA ScanFromSteps ==
    ASSUME NEW n \in Int, n >= -1, NEW f, NEW h, NEW b, NEW queue,
           NEW e, f = [i \in -1..n |-> e[i]], f[-1] = ScanStart(queue),
           \A i \in 0..n : f[i] = ScanStep(h, b, i, f[i - 1])
    PROVE  Scans(f, h, b, queue, n)
<1>1. \A i \in -1..n : f[i] = e[i] /\ (i = -1 \/ i \in 0..n)
  OBVIOUS
<1>2. \A i \in -1..n : e[i] = IF i = -1 THEN ScanStart(queue) ELSE ScanStep(h, b, i, f[i - 1])
  BY <1>1
<1> QED BY <1>2 DEF Scans

LEMMA ScanExists ==
    ASSUME NEW n \in Int, n >= -1, NEW h, NEW b, NEW queue
    PROVE  \E f : Scans(f, h, b, queue, n)
<1> DEFINE Good == {k \in -1..n : \E f : Scans(f, h, b, queue, k)}
<1>1. -1 \in Good
  <2>1. PICK f : f = [i \in -1..(-1) |-> ScanStart(queue)]
    OBVIOUS
  <2>2. \A i \in -1..(-1) : i = -1
    OBVIOUS
  <2>3. Scans(f, h, b, queue, -1)
    BY <2>1, <2>2 DEF Scans
  <2> QED BY <2>3
<1>2. ASSUME NEW k \in 0..n, k - 1 \in Good PROVE k \in Good
  <2>1. PICK g : Scans(g, h, b, queue, k - 1)
    BY <1>2
  <2>2. PICK f : f = [i \in -1..k |-> IF i < k THEN g[i] ELSE ScanStep(h, b, k, g[k - 1])]
    OBVIOUS
  <2>3. k \in Int /\ k >= 0 /\ k - 1 \in Int /\ k - 1 >= -1
    BY <1>2
  <2>4. /\ g[-1] = ScanStart(queue)
        /\ \A i \in 0..(k - 1) : g[i] = ScanStep(h, b, i, g[i - 1])
    BY <2>1, <2>3, ScanStepwise
  <2>5. (\A i \in -1..(k - 1) : f[i] = g[i]) /\ f[k] = ScanStep(h, b, k, g[k - 1])
    BY <2>2, <2>3
  <2>6. ASSUME NEW i \in 0..k PROVE f[i] = ScanStep(h, b, i, f[i - 1])
    <3>1. i - 1 \in -1..(k - 1) /\ (i = k \/ (i \in 0..(k - 1) /\ i \in -1..(k - 1)))
      BY <2>3
    <3> QED BY <2>4, <2>5, <3>1
  <2>7. f[-1] = ScanStart(queue)
    BY <2>3, <2>4, <2>5
  <2> DEFINE e == [i \in -1..k |-> IF i < k THEN g[i] ELSE ScanStep(h, b, k, g[k - 1])]
  <2>8. f = [i \in -1..k |-> e[i]]
    BY <2>2
  <2> HIDE DEF e
  <2>9. Scans(f, h, b, queue, k)
    BY ONLY <2>3, <2>6, <2>7, <2>8, ScanFromSteps
  <2> QED BY <2>9
<1> HIDE DEF Good
<1>3. n \in Good
  BY <1>1, <1>2, InductionFromBefore
<1> QED BY <1>3 DEF Good

LEMMA ScanUnique ==
    ASSUME NEW n \in Int, n >= -1, NEW h, NEW g, NEW b, NEW queue, NEW e, NEW f,
           Scans(e, g, b, queue, n), Scans(f, h, b, queue, n),
           \A i \in 0..n : Distance(g, b, i) = Distance(h, b, i) /\ Label(g, i) = Label(h, i)
    PROVE  e[n] = f[n]
<1> DEFINE Good == {k \in -1..n : e[k] = f[k]}
<1>1. /\ e[-1] = ScanStart(queue) /\ f[-1] = ScanStart(queue)
      /\ \A i \in 0..n : e[i] = ScanStep(g, b, i, e[i - 1]) /\ f[i] = ScanStep(h, b, i, f[i - 1])
  BY ScanStepwise
<1>2. -1 \in Good
  BY <1>1
<1>3. ASSUME NEW i \in 0..n, i - 1 \in Good PROVE i \in Good
  <2>1. e[i - 1] = f[i - 1]
    BY <1>3
  <2>2. e[i] = ScanStep(g, b, i, e[i - 1]) /\ f[i] = ScanStep(h, b, i, e[i - 1])
    BY <1>1, <2>1
  <2>3. ScanStep(g, b, i, e[i - 1]) = ScanStep(h, b, i, e[i - 1])
    BY DEF ScanStep
  <2> QED BY <2>2, <2>3
<1> HIDE DEF Good
<1>4. n \in Good
  BY <1>2, <1>3, InductionFromBefore
<1> QED BY <1>4 DEF Good

LEMMA ScannedIs ==
    ASSUME NEW b \in Nat, NEW h, NEW queue
    PROVE  /\ ScanSize(b) \in Int /\ ScanSize(b) >= -1 /\ ScanSize(b) <= b
           /\ \E f : Scans(f, h, b, queue, ScanSize(b)) /\ Scanned(h, b, queue) = f[ScanSize(b)].queue
<1>1. ScanSize(b) \in Int /\ ScanSize(b) >= -1 /\ ScanSize(b) <= b
  BY EngineAssumption DEF ScanSize
<1> DEFINE size == ScanSize(b)
           it == CHOOSE it : it = [i \in -1..size |->
                    IF i = -1 THEN [queue |-> queue, last |-> -1]
                    ELSE LET before == it[i - 1]
                             distance == Distance(h, b, i)
                         IN  IF FiniteDistance(b, i) /\ distance >= before.last /\ i % Stride # 0
                             THEN Admitted(before.queue, distance, Label(h, i))
                             ELSE before]
<1>2. Scanned(h, b, queue) = it[size].queue
  BY DEF Scanned, ScanSize
<1> HIDE DEF size
<1>3. \A f : Scans(f, h, b, queue, size) <=>
                f = [i \in -1..size |->
                    IF i = -1 THEN [queue |-> queue, last |-> -1]
                    ELSE LET before == f[i - 1]
                             distance == Distance(h, b, i)
                         IN  IF FiniteDistance(b, i) /\ distance >= before.last /\ i % Stride # 0
                             THEN Admitted(before.queue, distance, Label(h, i))
                             ELSE before]
  BY DEF Scans, ScanStep, ScanStart
<1>4. PICK f : Scans(f, h, b, queue, size)
  BY <1>1, ScanExists DEF size
<1>5. f = [i \in -1..size |->
                    IF i = -1 THEN [queue |-> queue, last |-> -1]
                    ELSE LET before == f[i - 1]
                             distance == Distance(h, b, i)
                         IN  IF FiniteDistance(b, i) /\ distance >= before.last /\ i % Stride # 0
                             THEN Admitted(before.queue, distance, Label(h, i))
                             ELSE before]
  BY ONLY <1>3, <1>4
<1>6. it = [i \in -1..size |->
                    IF i = -1 THEN [queue |-> queue, last |-> -1]
                    ELSE LET before == it[i - 1]
                             distance == Distance(h, b, i)
                         IN  IF FiniteDistance(b, i) /\ distance >= before.last /\ i % Stride # 0
                             THEN Admitted(before.queue, distance, Label(h, i))
                             ELSE before]
  BY ONLY <1>5
<1>7. Scans(it, h, b, queue, size)
  BY ONLY <1>3, <1>6
<1> HIDE DEF it
<1> QED BY <1>1, <1>2, <1>7 DEF size

(* A scan sees the bars up to its own only.                                *)
Agree(g, h, b) == \A c \in 0..b : At(g, c) = At(h, c)

LEMMA ScannedSame ==
    ASSUME NEW b \in Nat, NEW g, NEW h, Agree(g, h, b), NEW queue
    PROVE  Scanned(g, b, queue) = Scanned(h, b, queue)
<1> DEFINE n == ScanSize(b)
<1>1. n \in Int /\ n >= -1 /\ n <= b
  BY ScannedIs
<1>2. PICK e : Scans(e, g, b, queue, n) /\ Scanned(g, b, queue) = e[n].queue
  BY ScannedIs
<1>3. PICK f : Scans(f, h, b, queue, n) /\ Scanned(h, b, queue) = f[n].queue
  BY ScannedIs
<1> HIDE DEF n
<1>4. ASSUME NEW i \in 0..n
      PROVE  Distance(g, b, i) = Distance(h, b, i) /\ Label(g, i) = Label(h, i)
  <2>1. i \in 0..b /\ b \in 0..b /\ i \in Nat
    BY <1>1
  <2>2. Distance(g, b, i) = Distance(h, b, i)
    BY <2>1 DEF Agree, Distance, Feature
  <2>3. Label(g, i) = Label(h, i)
    <3>1. CASE i < LabelSpan
      BY <3>1 DEF Label
    <3>2. CASE ~(i < LabelSpan)
      <4>1. i - LabelSpan \in 0..b
        BY <1>1, <2>1, <3>2, EngineAssumption
      <4>2. At(g, i - LabelSpan) = At(h, i - LabelSpan) /\ At(g, i) = At(h, i)
        BY <2>1, <4>1 DEF Agree
      <4> QED BY <3>2, <4>2 DEF Label
    <3> QED BY <3>1, <3>2
  <2> QED BY <2>2, <2>3
<1>5. e[n] = f[n]
  BY <1>1, <1>2, <1>3, <1>4, ScanUnique
<1> QED BY <1>2, <1>3, <1>5

-------------------------------------------------------------------------------
(* One bar.                                                                *)

Bearish(h) == {k \in Bars(h) : BearishChange(h, k)}
Bullish(h) == {k \in Bars(h) : BullishChange(h, k)}

LEMMA TurnsSame ==
    ASSUME NEW b \in Int, NEW g, NEW h, Len(g) \in Nat, Len(h) \in Nat, Agree(g, h, b),
           b < Len(g), b < Len(h)
    PROVE  /\ {k \in Bearish(g) : k <= b} = {k \in Bearish(h) : k <= b}
           /\ {k \in Bullish(g) : k <= b} = {k \in Bullish(h) : k <= b}
<1>1. ASSUME NEW k \in Int, k >= 0, k <= b
      PROVE  /\ Rate(g, k) = Rate(h, k) /\ Rate(g, k - 1) = Rate(h, k - 1)
             /\ k \in Bars(g) /\ k \in Bars(h)
  <2>1. k \in 0..b /\ (k - 1 < 0 \/ k - 1 \in 0..b) /\ ~(k < 0)
    BY <1>1
  <2>2. k \in Bars(g) /\ k \in Bars(h)
    BY <1>1 DEF Bars
  <2> QED BY <2>1, <2>2 DEF Agree, Rate
<1>2. ASSUME NEW k \in Bars(g) \cup Bars(h) PROVE k \in Int /\ k >= 0
  BY DEF Bars
<1>3. ASSUME NEW k \in Bars(g) \cup Bars(h), k <= b
      PROVE  /\ k \in Bars(g) /\ k \in Bars(h)
             /\ BearishChange(g, k) <=> BearishChange(h, k)
             /\ BullishChange(g, k) <=> BullishChange(h, k)
  BY <1>1, <1>2, <1>3 DEF BearishChange, BullishChange
<1> QED BY <1>3 DEF Bearish, Bullish

LEMMA SinceSame ==
    ASSUME NEW b, NEW A, NEW B, {k \in A : k <= b} = {k \in B : k <= b}
    PROVE  BarsSince(A, b) = BarsSince(B, b)
BY DEF BarsSince

LEMMA AgreeBefore ==
    ASSUME NEW b \in Int, NEW c \in Int, c <= b, NEW g, NEW h, Agree(g, h, b)
    PROVE  Agree(g, h, c)
BY DEF Agree

LEMMA StepSame ==
    ASSUME NEW b \in Nat, NEW g, NEW h, Len(g) \in Nat, Len(h) \in Nat, Agree(g, h, b),
           b < Len(g), b < Len(h), NEW state, NEW queue, NEW prediction
    PROVE  Step(g, b, state, queue, prediction) = Step(h, b, state, queue, prediction)
<1>1. At(g, b) = At(h, b) /\ Rate(g, b) = Rate(h, b)
  BY DEF Agree, Rate
<1>2. /\ b \in Bearish(g) <=> b \in Bearish(h)
      /\ b \in Bullish(g) <=> b \in Bullish(h)
  <2>1. /\ b \in {k \in Bearish(g) : k <= b} <=> b \in {k \in Bearish(h) : k <= b}
        /\ b \in {k \in Bullish(g) : k <= b} <=> b \in {k \in Bullish(h) : k <= b}
    BY TurnsSame
  <2> QED BY <2>1
<1>3. /\ BarsSince(Bearish(g), b - 1) = BarsSince(Bearish(h), b - 1)
      /\ BarsSince(Bullish(g), b - 1) = BarsSince(Bullish(h), b - 1)
  <2>1. Agree(g, h, b - 1) /\ b - 1 \in Int /\ b - 1 < Len(g) /\ b - 1 < Len(h)
    BY AgreeBefore
  <2>2. /\ {k \in Bearish(g) : k <= b - 1} = {k \in Bearish(h) : k <= b - 1}
        /\ {k \in Bullish(g) : k <= b - 1} = {k \in Bullish(h) : k <= b - 1}
    BY <2>1, TurnsSame
  <2> QED BY <2>2, SinceSame
<1>4. ASSUME NEW exits, NEW startLong, NEW startShort
      PROVE  Exits(g, b, exits, startLong, startShort) = Exits(h, b, exits, startLong, startShort)
  BY <1>2, <1>3 DEF Exits, Bearish, Bullish
<1> QED BY <1>1, <1>4 DEF Step, Passes

-------------------------------------------------------------------------------
(* The state after each bar.                                               *)

Evaluated(h, b, state) ==
    LET queue == Scanned(h, b, state.queue) IN Step(h, b, state, queue, Votes(queue))

Boots(f, h, n) ==
    f = [b \in -1..n |-> IF b = -1 THEN QueueState ELSE Evaluated(h, b, f[b - 1]).state]

LEMMA EvaluatedSame ==
    ASSUME NEW b \in Nat, NEW g, NEW h, Len(g) \in Nat, Len(h) \in Nat, Agree(g, h, b),
           b < Len(g), b < Len(h), NEW state
    PROVE  Evaluated(g, b, state) = Evaluated(h, b, state)
BY ScannedSame, StepSame DEF Evaluated

LEMMA PrefixIs ==
    ASSUME NEW h \in Seq(Shapes), NEW b \in -1..LastBar(h)
    PROVE  /\ Prefix(h, b) \in Seq(Shapes) /\ Len(Prefix(h, b)) = b + 1
           /\ LastBar(Prefix(h, b)) = b /\ Len(h) \in Nat /\ b + 1 <= Len(h)
           /\ Agree(Prefix(h, b), h, b)
<1>1. Len(h) \in Nat /\ b + 1 \in 0..Len(h)
  BY LenProperties DEF LastBar
<1>2. /\ SubSeq(h, 1, b + 1) \in Seq(Shapes)
      /\ Len(SubSeq(h, 1, b + 1)) = b + 1
      /\ \A i \in 1..(b + 1) : SubSeq(h, 1, b + 1)[i] = h[i]
  BY <1>1, SubSeqProperties
<1>3. ASSUME NEW c \in 0..b PROVE At(Prefix(h, b), c) = At(h, c)
  <2>1. c + 1 \in 1..(b + 1)
    BY <1>1
  <2> QED BY <1>2, <2>1 DEF At, Prefix
<1> QED BY <1>1, <1>2, <1>3 DEF Prefix, LastBar, Agree

LEMMA BootsStepwise ==
    ASSUME NEW n \in Int, n >= -1, NEW f, NEW h, Boots(f, h, n)
    PROVE  /\ f[-1] = QueueState
           /\ \A b \in 0..n : f[b] = Evaluated(h, b, f[b - 1]).state
BY DEF Boots

LEMMA BootsFromSteps ==
    ASSUME NEW n \in Int, n >= -1, NEW f, NEW h, NEW e, f = [b \in -1..n |-> e[b]],
           f[-1] = QueueState, \A b \in 0..n : f[b] = Evaluated(h, b, f[b - 1]).state
    PROVE  Boots(f, h, n)
<1>1. \A b \in -1..n : f[b] = e[b] /\ (b = -1 \/ b \in 0..n)
  OBVIOUS
<1>2. \A b \in -1..n : e[b] = IF b = -1 THEN QueueState ELSE Evaluated(h, b, f[b - 1]).state
  BY <1>1
<1> QED BY <1>2 DEF Boots

LEMMA BootsExists ==
    ASSUME NEW n \in Int, n >= -1, NEW h
    PROVE  \E f : Boots(f, h, n)
<1> DEFINE Good == {k \in -1..n : \E f : Boots(f, h, k)}
<1>1. -1 \in Good
  <2>1. PICK f : f = [b \in -1..(-1) |-> QueueState]
    OBVIOUS
  <2>2. \A b \in -1..(-1) : b = -1
    OBVIOUS
  <2>3. Boots(f, h, -1)
    BY <2>1, <2>2 DEF Boots
  <2> QED BY <2>3
<1>2. ASSUME NEW k \in 0..n, k - 1 \in Good PROVE k \in Good
  <2>1. PICK g : Boots(g, h, k - 1)
    BY <1>2
  <2> DEFINE e == [b \in -1..k |-> IF b < k THEN g[b] ELSE Evaluated(h, k, g[k - 1]).state]
  <2>2. PICK f : f = [b \in -1..k |-> e[b]]
    OBVIOUS
  <2>3. k \in Int /\ k >= 0 /\ k >= -1 /\ k - 1 \in Int /\ k - 1 >= -1
    BY <1>2
  <2>4. /\ g[-1] = QueueState
        /\ \A b \in 0..(k - 1) : g[b] = Evaluated(h, b, g[b - 1]).state
    BY <2>1, <2>3, BootsStepwise
  <2>5. (\A b \in -1..(k - 1) : f[b] = g[b]) /\ f[k] = Evaluated(h, k, g[k - 1]).state
    BY <2>2, <2>3
  <2> HIDE DEF e
  <2>6. ASSUME NEW b \in 0..k PROVE f[b] = Evaluated(h, b, f[b - 1]).state
    <3>1. b - 1 \in -1..(k - 1) /\ (b = k \/ (b \in 0..(k - 1) /\ b \in -1..(k - 1)))
      BY <2>3
    <3> QED BY <2>4, <2>5, <3>1
  <2>7. f[-1] = QueueState
    BY <2>3, <2>4, <2>5
  <2>8. Boots(f, h, k)
    BY ONLY <2>2, <2>3, <2>6, <2>7, BootsFromSteps
  <2> QED BY <2>8
<1> HIDE DEF Good
<1>3. n \in Good
  BY <1>1, <1>2, InductionFromBefore
<1> QED BY <1>3 DEF Good

LEMMA BootsUnique ==
    ASSUME NEW n \in Int, n >= -1, NEW g, NEW h, Len(g) \in Nat, Len(h) \in Nat, Agree(g, h, n),
           n < Len(g), n < Len(h), NEW e, NEW f, Boots(e, g, n),
           NEW m \in Int, n <= m, Boots(f, h, m)
    PROVE  e[n] = f[n]
<1> DEFINE Good == {k \in -1..n : e[k] = f[k]}
<1>1. /\ e[-1] = QueueState /\ \A b \in 0..n : e[b] = Evaluated(g, b, e[b - 1]).state
      /\ f[-1] = QueueState /\ \A b \in 0..m : f[b] = Evaluated(h, b, f[b - 1]).state
  BY BootsStepwise
<1>2. -1 \in Good
  BY <1>1
<1>3. ASSUME NEW b \in 0..n, b - 1 \in Good PROVE b \in Good
  <2>1. e[b - 1] = f[b - 1]
    BY <1>3
  <2>2. b \in Nat /\ b \in 0..m /\ b < Len(g) /\ b < Len(h) /\ Agree(g, h, b)
    BY AgreeBefore
  <2>3. Evaluated(g, b, e[b - 1]) = Evaluated(h, b, e[b - 1])
    BY <2>2, EvaluatedSame
  <2> QED BY <1>1, <2>1, <2>2, <2>3
<1> HIDE DEF Good
<1>4. \A b \in -1..n : b \in Good
  BY ONLY n \in Int, n >= -1, <1>2, <1>3, InductionFromBefore
<1>5. n \in Good
  BY <1>4
<1> QED BY <1>5 DEF Good

LEMMA BootstrapIs ==
    ASSUME NEW h, Len(h) \in Nat, Len(h) <= MaxBarsBack + 1
    PROVE  \E f : Boots(f, h, LastBar(h)) /\ Bootstrap(h) = f[LastBar(h)]
<1> DEFINE first == MaxBarsBackIndex(Len(h))
           n == LastBar(h)
           it == CHOOSE it : it = [b \in first - 1..n |->
                    IF b = first - 1 THEN QueueState
                    ELSE LET before == it[b - 1]
                             queue == Scanned(h, b, before.queue)
                         IN  Step(h, b, before, queue, Votes(queue)).state]
<1>1. Bootstrap(h) = it[n]
  BY DEF Bootstrap
<1>2. first = 0 /\ first - 1 = -1 /\ n \in Int /\ n >= -1
  BY EngineAssumption DEF MaxBarsBackIndex, LastBar
<1> HIDE DEF first, n
<1>3. \A f : Boots(f, h, n) <=>
                f = [b \in first - 1..n |->
                    IF b = first - 1 THEN QueueState
                    ELSE LET before == f[b - 1]
                             queue == Scanned(h, b, before.queue)
                         IN  Step(h, b, before, queue, Votes(queue)).state]
  BY <1>2 DEF Boots, Evaluated
<1>4. PICK f : Boots(f, h, n)
  BY <1>2, BootsExists
<1>5. f = [b \in first - 1..n |->
                    IF b = first - 1 THEN QueueState
                    ELSE LET before == f[b - 1]
                             queue == Scanned(h, b, before.queue)
                         IN  Step(h, b, before, queue, Votes(queue)).state]
  BY ONLY <1>3, <1>4
<1>6. it = [b \in first - 1..n |->
                    IF b = first - 1 THEN QueueState
                    ELSE LET before == it[b - 1]
                             queue == Scanned(h, b, before.queue)
                         IN  Step(h, b, before, queue, Votes(queue)).state]
  BY ONLY <1>5
<1>7. Boots(it, h, n)
  BY ONLY <1>3, <1>6
<1> HIDE DEF it
<1> QED BY <1>1, <1>7 DEF n

(* Bootstrapping up to a bar is bootstrapping up to the one before and     *)
(* evaluating the bar.                                                     *)
StateAt(h, b) == Bootstrap(Prefix(h, b))

LEMMA StateSteps ==
    ASSUME NEW h \in Seq(Shapes)
    PROVE  /\ StateAt(h, -1) = QueueState
           /\ \A b \in 0..LastBar(h) : b <= MaxBarsBack =>
                 StateAt(h, b) = Evaluated(h, b, StateAt(h, b - 1)).state
<1>1. ASSUME NEW b \in -1..LastBar(h), b <= MaxBarsBack
      PROVE  \E f : Boots(f, Prefix(h, b), b) /\ StateAt(h, b) = f[b]
  <2>1. Len(Prefix(h, b)) \in Nat /\ Len(Prefix(h, b)) <= MaxBarsBack + 1 /\ LastBar(Prefix(h, b)) = b
    BY <1>1, PrefixIs, EngineAssumption
  <2> QED BY <2>1, BootstrapIs DEF StateAt
<1>2. Len(h) \in Nat /\ LastBar(h) \in Int /\ LastBar(h) = Len(h) - 1 /\ MaxBarsBack \in Nat
  BY LenProperties, EngineAssumption DEF LastBar
<1>3. StateAt(h, -1) = QueueState
  <2>1. PICK f : Boots(f, Prefix(h, -1), -1) /\ StateAt(h, -1) = f[-1]
    BY <1>1, <1>2
  <2> QED BY <2>1, BootsStepwise
<1>4. ASSUME NEW b \in 0..LastBar(h), b <= MaxBarsBack
      PROVE  StateAt(h, b) = Evaluated(h, b, StateAt(h, b - 1)).state
  <2>1. /\ b \in -1..LastBar(h) /\ b - 1 \in -1..LastBar(h) /\ b - 1 <= MaxBarsBack /\ b \in Nat
        /\ b - 1 \in Int /\ b - 1 >= -1 /\ b - 1 <= b /\ b \in 0..b
    BY <1>2, <1>4
  <2> DEFINE p == Prefix(h, b)
             q == Prefix(h, b - 1)
  <2>2. /\ Len(p) = b + 1 /\ Len(q) = b /\ Agree(p, h, b) /\ Agree(q, h, b - 1)
    BY <2>1, PrefixIs
  <2>3. Agree(q, p, b - 1)
    BY <2>1, <2>2 DEF Agree
  <2>4. PICK f : Boots(f, p, b) /\ StateAt(h, b) = f[b]
    BY <1>1, <1>4, <2>1
  <2>5. PICK e : Boots(e, q, b - 1) /\ StateAt(h, b - 1) = e[b - 1]
    BY <1>1, <2>1
  <2> HIDE DEF p, q
  <2>6. e[b - 1] = f[b - 1]
    <3>1. Len(p) \in Nat /\ Len(q) \in Nat /\ b - 1 < Len(p) /\ b - 1 < Len(q)
      BY <2>1, <2>2
    <3> QED BY ONLY <2>1, <2>3, <2>4, <2>5, <3>1, BootsUnique
  <2>7. f[b] = Evaluated(p, b, f[b - 1]).state
    <3>1. \A c \in 0..b : f[c] = Evaluated(p, c, f[c - 1]).state
      BY ONLY <2>1, <2>4, BootsStepwise
    <3> QED BY <2>1, <3>1
  <2>8. Evaluated(p, b, f[b - 1]) = Evaluated(h, b, f[b - 1])
    BY <1>2, <2>1, <2>2, EvaluatedSame
  <2> QED BY <2>4, <2>5, <2>6, <2>7, <2>8
<1> QED BY <1>3, <1>4

-------------------------------------------------------------------------------
(* A run over several bars.                                                *)

(* What evaluating bar n - 1 gives.                                        *)
Outcome(h, n) == Evaluated(h, n - 1, StateAt(h, n - 2)).result

ResultsOK(h, rs) ==
    \A n \in DOMAIN rs : (n <= MaxBarsBack + 1 /\ rs[n] # NoResult) => rs[n] = Outcome(h, n)

StateOK(h, b, state) == b <= MaxBarsBack => state = StateAt(h, b)

Sequential(rs) == \E S : rs \in Seq(S)

(* The results so far and the state after bar b.                           *)
RunOK(h, b, run) ==
    /\ Sequential(run.results) /\ Len(run.results) = b + 1
    /\ ResultsOK(h, run.results) /\ StateOK(h, b, run.state)

Further(h, b, run) ==
    [results |-> Append(run.results, EvaluateLatestBar(Prefix(h, b), run.state).result),
     state |-> EvaluateLatestBar(Prefix(h, b), run.state).state]

Continues(f, h, lo, n, start) ==
    f = [b \in lo..n |-> IF b = lo THEN start ELSE Further(h, b, f[b - 1])]

LEMMA InductionFrom ==
    ASSUME NEW lo \in Int, NEW n \in Int, n >= lo, NEW Good, lo \in Good,
           \A i \in (lo + 1)..n : i - 1 \in Good => i \in Good
    PROVE  \A i \in lo..n : i \in Good
<1> DEFINE Shifted == {k \in 0..(n - lo) : k + lo \in Good}
<1>1. n - lo \in Nat
  OBVIOUS
<1>2. 0 \in Shifted
  BY <1>1
<1>3. ASSUME NEW k \in 0..(n - lo), k # 0, k - 1 \in Shifted PROVE k \in Shifted
  <2>1. k + lo \in (lo + 1)..n /\ (k - 1) + lo \in Good /\ (k - 1) + lo = (k + lo) - 1
    BY <1>3
  <2>2. k + lo \in Good
    BY <2>1
  <2> QED BY <1>3, <2>2
<1> HIDE DEF Shifted
<1>4. \A k \in 0..(n - lo) : k \in Shifted
  BY <1>1, <1>2, <1>3, NumberInduction
<1>5. ASSUME NEW i \in lo..n PROVE i \in Good
  <2>1. i - lo \in 0..(n - lo) /\ (i - lo) + lo = i
    OBVIOUS
  <2>2. i - lo \in Shifted
    BY <1>4, <2>1
  <2> QED BY <2>1, <2>2 DEF Shifted
<1> QED BY <1>5

LEMMA ContinuesStepwise ==
    ASSUME NEW lo \in Int, NEW n \in Int, n >= lo, NEW f, NEW h, NEW start,
           Continues(f, h, lo, n, start)
    PROVE  f[lo] = start /\ \A b \in (lo + 1)..n : f[b] = Further(h, b, f[b - 1])
<1>1. \A b \in lo..n : f[b] = IF b = lo THEN start ELSE Further(h, b, f[b - 1])
  BY DEF Continues
<1>2. lo \in lo..n /\ \A b \in (lo + 1)..n : b \in lo..n /\ b # lo
  OBVIOUS
<1> QED BY <1>1, <1>2

LEMMA ContinuesExists ==
    ASSUME NEW lo \in Int, NEW n \in Int, n >= lo, NEW h, NEW start
    PROVE  \E f : Continues(f, h, lo, n, start)
<1> DEFINE Good == {k \in lo..n : \E f : Continues(f, h, lo, k, start)}
<1>1. lo \in Good
  <2>1. PICK f : f = [b \in lo..lo |-> start]
    OBVIOUS
  <2>2. \A b \in lo..lo : b = lo
    OBVIOUS
  <2>3. Continues(f, h, lo, lo, start)
    BY <2>1, <2>2 DEF Continues
  <2> QED BY <2>3
<1>2. ASSUME NEW k \in (lo + 1)..n, k - 1 \in Good PROVE k \in Good
  <2>1. PICK g : Continues(g, h, lo, k - 1, start)
    BY <1>2
  <2> DEFINE e == [b \in lo..k |-> IF b < k THEN g[b] ELSE Further(h, k, g[k - 1])]
  <2>2. PICK f : f = e
    OBVIOUS
  <2>3. k \in Int /\ k > lo /\ k - 1 \in Int /\ k - 1 >= lo /\ k \in lo..n
    BY <1>2
  <2>4. g[lo] = start /\ \A b \in (lo + 1)..(k - 1) : g[b] = Further(h, b, g[b - 1])
    BY ONLY lo \in Int, <2>1, <2>3, ContinuesStepwise
  <2>5. (\A b \in lo..(k - 1) : f[b] = g[b]) /\ f[k] = Further(h, k, g[k - 1])
    BY <2>2, <2>3
  <2>6. f = [b \in lo..k |-> f[b]]
    BY <2>2
  <2> HIDE DEF e
  <2>7. ASSUME NEW b \in lo..k PROVE f[b] = IF b = lo THEN start ELSE Further(h, b, f[b - 1])
    <3>1. CASE b = lo
      BY <2>3, <2>4, <2>5, <3>1
    <3>2. CASE b # lo
      <4>1. b - 1 \in lo..(k - 1) /\ (b = k \/ (b \in (lo + 1)..(k - 1) /\ b \in lo..(k - 1)))
        BY <2>3, <3>2
      <4> QED BY <2>4, <2>5, <3>2, <4>1
    <3> QED BY <3>1, <3>2
  <2>8. Continues(f, h, lo, k, start)
    BY ONLY <2>6, <2>7 DEF Continues
  <2> QED BY <2>3, <2>8
<1> HIDE DEF Good
<1>3. \A k \in lo..n : k \in Good
  BY ONLY lo \in Int, n \in Int, n >= lo, <1>1, <1>2, InductionFrom
<1>4. n \in Good
  BY <1>3
<1> QED BY <1>4 DEF Good

LEMMA FurtherIs ==
    ASSUME history \in Seq(Shapes), saved.upTo \in Int, saved.upTo <= LastBar(history)
    PROVE  \E f : /\ Continues(f, history, saved.upTo, LastBar(history),
                               [results |-> results, state |-> saved.state])
                  /\ FurtherResults = f[LastBar(history)]
<1> DEFINE n == LastBar(history)
           lo == saved.upTo
           it == CHOOSE it : it = [b \in lo..n |->
                    IF b = lo THEN [results |-> results, state |-> saved.state]
                    ELSE LET before == it[b - 1]
                             evaluated == EvaluateLatestBar(Prefix(history, b), before.state)
                         IN  [results |-> Append(before.results, evaluated.result),
                              state |-> evaluated.state]]
<1>1. FurtherResults = it[n]
  BY DEF FurtherResults
<1>2. lo \in Int /\ n \in Int /\ n >= lo
  BY LenProperties DEF LastBar
<1> HIDE DEF lo, n
<1>3. \A f : Continues(f, history, lo, n, [results |-> results, state |-> saved.state]) <=>
                f = [b \in lo..n |->
                    IF b = lo THEN [results |-> results, state |-> saved.state]
                    ELSE LET before == f[b - 1]
                             evaluated == EvaluateLatestBar(Prefix(history, b), before.state)
                         IN  [results |-> Append(before.results, evaluated.result),
                              state |-> evaluated.state]]
  BY DEF Continues, Further
<1>4. PICK f : Continues(f, history, lo, n, [results |-> results, state |-> saved.state])
  BY <1>2, ContinuesExists
<1>5. f = [b \in lo..n |->
                    IF b = lo THEN [results |-> results, state |-> saved.state]
                    ELSE LET before == f[b - 1]
                             evaluated == EvaluateLatestBar(Prefix(history, b), before.state)
                         IN  [results |-> Append(before.results, evaluated.result),
                              state |-> evaluated.state]]
  BY ONLY <1>3, <1>4
<1>6. it = [b \in lo..n |->
                    IF b = lo THEN [results |-> results, state |-> saved.state]
                    ELSE LET before == it[b - 1]
                             evaluated == EvaluateLatestBar(Prefix(history, b), before.state)
                         IN  [results |-> Append(before.results, evaluated.result),
                              state |-> evaluated.state]]
  BY ONLY <1>5
<1>7. Continues(it, history, lo, n, [results |-> results, state |-> saved.state])
  BY ONLY <1>3, <1>6
<1> HIDE DEF it
<1> QED BY <1>1, <1>7 DEF n, lo

Appends(r, rs, e) == r = Append(rs, e)

LEMMA AppendedResult ==
    ASSUME NEW rs, Sequential(rs), NEW e, NEW r, Appends(r, rs, e)
    PROVE  /\ Sequential(r) /\ Len(rs) \in Nat /\ Len(r) = Len(rs) + 1
           /\ \A n : n \in DOMAIN rs <=> n \in 1..Len(rs)
           /\ \A n : n \in DOMAIN r <=> n \in 1..Len(r)
           /\ \A n \in 1..Len(rs) : r[n] = rs[n]
           /\ r[Len(r)] = e
<1>1. PICK S : rs \in Seq(S)
  BY DEF Sequential
<1> DEFINE T == S \cup {e}
<1>2. rs \in Seq(T) /\ e \in T
  <2>1. S \subseteq T /\ e \in T
    OBVIOUS
  <2> HIDE DEF T
  <2> QED BY <1>1, <2>1, SeqMonotonic
<1> HIDE DEF T
<1>3. /\ r \in Seq(T) /\ Len(r) = Len(rs) + 1
      /\ \A i \in 1..Len(rs) : r[i] = rs[i]
      /\ r[Len(rs) + 1] = e
  BY <1>2, AppendProperties DEF Appends
<1>4. Len(rs) \in Nat /\ DOMAIN rs = 1..Len(rs) /\ DOMAIN r = 1..Len(r)
  BY <1>2, <1>3, LenProperties
<1> QED BY <1>3, <1>4 DEF Sequential

LEMMA EvaluatePrefix ==
    ASSUME NEW h \in Seq(Shapes), NEW b \in 0..LastBar(h), NEW state
    PROVE  EvaluateLatestBar(Prefix(h, b), state) = Evaluated(h, b, state)
<1>1. Len(h) \in Nat /\ LastBar(h) = Len(h) - 1
  BY LenProperties DEF LastBar
<1>2. b \in -1..LastBar(h) /\ b \in Nat /\ b < Len(h)
  BY <1>1
<1>3. /\ Len(Prefix(h, b)) = b + 1 /\ LastBar(Prefix(h, b)) = b /\ Agree(Prefix(h, b), h, b)
  BY <1>2, PrefixIs
<1>4. EvaluateLatestBar(Prefix(h, b), state) = Evaluated(Prefix(h, b), b, state)
  BY <1>3 DEF EvaluateLatestBar, Evaluated
<1>5. Len(Prefix(h, b)) \in Nat /\ b < Len(Prefix(h, b))
  BY <1>2, <1>3
<1> QED BY <1>1, <1>2, <1>3, <1>4, <1>5, EvaluatedSame

LEMMA FurtherOK ==
    ASSUME NEW h \in Seq(Shapes), NEW b \in 0..LastBar(h), NEW run, RunOK(h, b - 1, run)
    PROVE  RunOK(h, b, Further(h, b, run))
<1>1. b \in Nat /\ MaxBarsBack \in Nat
  BY LenProperties, EngineAssumption DEF LastBar
<1> DEFINE e == Evaluated(h, b, run.state)
           r == Append(run.results, e.result)
<1>2. Further(h, b, run) = [results |-> r, state |-> e.state]
  BY EvaluatePrefix DEF Further
<1>3. Sequential(run.results) /\ Len(run.results) = b
  BY <1>1 DEF RunOK
<1>4. /\ Sequential(r) /\ Len(r) = b + 1
      /\ \A n : n \in DOMAIN run.results <=> n \in 1..b
      /\ \A n : n \in DOMAIN r <=> n \in 1..(b + 1)
      /\ \A n \in 1..b : r[n] = run.results[n]
      /\ r[b + 1] = e.result
  <2> HIDE DEF e
  <2>1. PICK rs, x, q : rs = run.results /\ x = e.result /\ Appends(q, rs, x)
    BY DEF Appends
  <2>2. Sequential(rs)
    BY <1>3, <2>1
  <2>3. /\ Sequential(q) /\ Len(rs) \in Nat /\ Len(q) = Len(rs) + 1
        /\ \A n : n \in DOMAIN rs <=> n \in 1..Len(rs)
        /\ \A n : n \in DOMAIN q <=> n \in 1..Len(q)
        /\ \A n \in 1..Len(rs) : q[n] = rs[n]
        /\ q[Len(q)] = x
    BY ONLY <2>1, <2>2, AppendedResult
  <2> QED BY <1>3, <2>1, <2>3 DEF Appends
<1>5. b <= MaxBarsBack => /\ e = Evaluated(h, b, StateAt(h, b - 1))
                          /\ e.state = StateAt(h, b)
  <2>1. b <= MaxBarsBack => b - 1 <= MaxBarsBack
    BY <1>1
  <2>2. b <= MaxBarsBack => run.state = StateAt(h, b - 1)
    BY <2>1 DEF RunOK, StateOK
  <2> QED BY <2>2, StateSteps
<1>6. Outcome(h, b + 1) = Evaluated(h, b, StateAt(h, b - 1)).result
  BY <1>1 DEF Outcome
<1> HIDE DEF e, r
<1>7. ResultsOK(h, r)
  <2>1. ASSUME NEW n \in DOMAIN r, n <= MaxBarsBack + 1, r[n] # NoResult
        PROVE  r[n] = Outcome(h, n)
    <3>1. CASE n = b + 1
      BY <1>1, <1>4, <1>5, <1>6, <2>1, <3>1
    <3>2. CASE n # b + 1
      <4>1. n \in 1..b
        BY <1>1, <1>4, <3>2
      <4> QED BY <1>4, <2>1, <4>1 DEF RunOK, ResultsOK
    <3> QED BY <3>1, <3>2
  <2> QED BY <2>1 DEF ResultsOK
<1>8. StateOK(h, b, e.state)
  BY <1>5 DEF StateOK
<1> QED BY <1>2, <1>4, <1>7, <1>8 DEF RunOK

-------------------------------------------------------------------------------
(* The inductive invariant: what was evaluated is what the whole history   *)
(* gives, as long as max_bars_back covers it.                              *)
RunsInv ==
    /\ history \in Seq(Shapes)
    /\ Sequential(results) /\ Len(results) <= Len(history) /\ ResultsOK(history, results)
    /\ saved # NoState => /\ saved.upTo = Len(results) - 1
                          /\ StateOK(history, saved.upTo, saved.state)

LEMMA RunsStart == Init => RunsInv
<1> SUFFICES ASSUME Init PROVE RunsInv
  OBVIOUS
<1>1. <<>> \in Seq(Shapes) /\ Len(<<>>) = 0 /\ DOMAIN <<>> = {}
  BY EmptySeq
<1>2. Sequential(<<>>)
  BY <1>1 DEF Sequential
<1> QED BY <1>1, <1>2 DEF Init, RunsInv, ResultsOK

(* A candle changes nothing about the bars before it.                      *)
LEMMA CandleAppended ==
    ASSUME NEW h \in Seq(Shapes), NEW bar \in Shapes, NEW g, g = Append(h, bar)
    PROVE  /\ g \in Seq(Shapes) /\ Len(h) \in Nat /\ Len(g) = Len(h) + 1
           /\ Agree(h, g, LastBar(h))
           /\ \A b \in -1..LastBar(h) : Prefix(g, b) = Prefix(h, b) /\ StateAt(g, b) = StateAt(h, b)
           /\ \A n \in 1..Len(h) : Outcome(g, n) = Outcome(h, n)
<1>1. /\ g \in Seq(Shapes) /\ Len(h) \in Nat /\ Len(g) = Len(h) + 1
      /\ \A i \in 1..Len(h) : g[i] = h[i]
  BY AppendProperties, LenProperties
<1>2. Agree(h, g, LastBar(h))
  <2>1. ASSUME NEW c \in 0..LastBar(h) PROVE At(h, c) = At(g, c)
    <3>1. c + 1 \in 1..Len(h)
      BY <1>1 DEF LastBar
    <3> QED BY <1>1, <3>1 DEF At
  <2> QED BY <2>1 DEF Agree
<1>3. ASSUME NEW b \in -1..LastBar(h) PROVE Prefix(g, b) = Prefix(h, b)
  <2>1. /\ b + 1 \in 0..Len(h) /\ \A i \in 1..(b + 1) : i \in 1..Len(h)
    BY <1>1 DEF LastBar
  <2>2. SubSeq(g, 1, b + 1) = SubSeq(h, 1, b + 1)
    <3> DEFINE m == b + 1
               p == SubSeq(g, 1, m)
               q == SubSeq(h, 1, m)
    <3>1. m \in Nat /\ \A i \in 1..m : g[i] \in Shapes /\ h[i] \in Shapes /\ g[i] = h[i]
      BY <1>1, <2>1, ElementOfSeq
    <3> HIDE DEF m
    <3>2. 1 \in Int /\ m \in Int /\ \A i \in 1..m : g[i] \in Shapes /\ h[i] \in Shapes
      BY ONLY <3>1
    <3>3. /\ p \in Seq(Shapes) /\ Len(p) = IF 1 <= m THEN m - 1 + 1 ELSE 0
          /\ \A i \in 1..(m - 1 + 1) : p[i] = g[1 + i - 1]
      BY ONLY <3>2, SubSeqProperties
    <3>4. /\ q \in Seq(Shapes) /\ Len(q) = IF 1 <= m THEN m - 1 + 1 ELSE 0
          /\ \A i \in 1..(m - 1 + 1) : q[i] = h[1 + i - 1]
      BY ONLY <3>2, SubSeqProperties
    <3> HIDE DEF p, q
    <3>5. /\ p \in Seq(Shapes) /\ q \in Seq(Shapes) /\ Len(p) = m /\ Len(q) = m
          /\ \A i \in 1..m : p[i] = g[i] /\ q[i] = h[i]
      BY ONLY <3>1, <3>3, <3>4
    <3>6. p = q
      BY <3>1, <3>5, SeqEqual
    <3> QED BY <3>6 DEF p, q, m
  <2> QED BY <2>2 DEF Prefix
<1>4. \A b \in -1..LastBar(h) : StateAt(g, b) = StateAt(h, b)
  BY <1>3 DEF StateAt
<1>5. ASSUME NEW n \in 1..Len(h) PROVE Outcome(g, n) = Outcome(h, n)
  <2>1. n - 1 \in Nat /\ n - 1 < Len(h) /\ n - 1 < Len(g) /\ n - 1 <= LastBar(h) /\ n - 2 \in -1..LastBar(h)
        /\ LastBar(h) \in Int
    BY <1>1 DEF LastBar
  <2>2. Agree(h, g, n - 1)
    BY <1>2, <2>1, AgreeBefore
  <2>3. Evaluated(h, n - 1, StateAt(h, n - 2)) = Evaluated(g, n - 1, StateAt(h, n - 2))
    <3>1. Len(g) \in Nat
      BY <1>1
    <3> QED BY ONLY <1>1, <2>1, <2>2, <3>1, EvaluatedSame
  <2> QED BY <1>4, <2>1, <2>3 DEF Outcome
<1> QED BY <1>1, <1>2, <1>3, <1>4, <1>5

LEMMA CandleKeeps ==
    ASSUME RunsInv, CandleCloses
    PROVE  RunsInv'
<1>1. PICK bar \in Shapes : history' = Append(history, bar)
  BY DEF CandleCloses, PossibleBars
<1>2. UNCHANGED <<saved, results>>
  BY DEF CandleCloses
<1> DEFINE g == history'
<1>3. /\ g \in Seq(Shapes) /\ Len(history) \in Nat /\ Len(g) = Len(history) + 1
      /\ \A b \in -1..LastBar(history) : StateAt(g, b) = StateAt(history, b)
      /\ \A n \in 1..Len(history) : Outcome(g, n) = Outcome(history, n)
  BY <1>1, CandleAppended DEF RunsInv
<1> HIDE DEF g
<1>4. Sequential(results) /\ Len(results) <= Len(history) /\ Len(results) \in Nat
      /\ DOMAIN results = 1..Len(results)
  BY LenProperties DEF RunsInv, Sequential
<1>5. ResultsOK(g, results)
  <2>1. \A n \in DOMAIN results : n \in 1..Len(history)
    BY <1>3, <1>4
  <2> QED BY <1>3, <2>1 DEF RunsInv, ResultsOK
<1>6. saved # NoState => saved.upTo = Len(results) - 1 /\ StateOK(g, saved.upTo, saved.state)
  <2>1. Len(results) - 1 \in -1..LastBar(history)
    BY <1>3, <1>4 DEF LastBar
  <2> QED BY <1>3, <2>1 DEF RunsInv, StateOK
<1>7. Len(results) <= Len(g)
  BY <1>3, <1>4
<1> QED BY <1>2, <1>3, <1>4, <1>5, <1>6, <1>7 DEF RunsInv, g

(* A run ends with the newest bar, whatever it came to before.             *)
EndsWithNewest(h, run) ==
    \E before : RunOK(h, LastBar(h) - 1, before) /\ run = Further(h, LastBar(h), before)

LEMMA FirstRun ==
    ASSUME RunsInv, Len(history) > 0
    PROVE  EndsWithNewest(history, FirstResults)
<1> DEFINE b == LastBar(history)
           empty == [n \in 1..b |-> NoResult]
           run == [results |-> empty, state |-> StateAt(history, b - 1)]
<1>1. history \in Seq(Shapes) /\ Len(history) \in Nat /\ b \in Nat /\ b \in 0..b /\ b + 1 = Len(history)
  BY LenProperties DEF RunsInv, LastBar
<1>2. FirstResults = Further(history, b, run)
  <2>1. EvaluateLatestBar(Prefix(history, b), run.state) = Evaluated(history, b, run.state)
    BY <1>1, EvaluatePrefix
  <2>2. EvaluateLatestBar(history, run.state) = Evaluated(history, b, run.state)
    BY DEF EvaluateLatestBar, Evaluated
  <2> QED BY <2>1, <2>2 DEF FirstResults, Further, StateAt
<1>3. RunOK(history, b - 1, run)
  <2>1. empty \in Seq({NoResult}) /\ Len(empty) = b /\ \A n \in DOMAIN empty : empty[n] = NoResult
    <3> HIDE DEF b
    <3> QED BY <1>1
  <2>2. Sequential(empty)
    BY <2>1 DEF Sequential
  <2>3. (b - 1) + 1 = b
    BY <1>1
  <2> HIDE DEF b, empty
  <2> QED BY <2>1, <2>2, <2>3 DEF RunOK, ResultsOK, StateOK
<1> QED BY <1>2, <1>3 DEF EndsWithNewest

LEMMA LaterRun ==
    ASSUME RunsInv, saved # NoState, Len(history) > Len(results)
    PROVE  EndsWithNewest(history, FurtherResults)
<1> DEFINE n == LastBar(history)
           lo == saved.upTo
           start == [results |-> results, state |-> saved.state]
<1>1. /\ history \in Seq(Shapes) /\ Len(history) \in Nat /\ Len(results) \in Nat
      /\ n = Len(history) - 1 /\ lo = Len(results) - 1 /\ StateOK(history, lo, saved.state)
      /\ Sequential(results) /\ ResultsOK(history, results)
  BY LenProperties DEF RunsInv, LastBar, Sequential
<1>2. lo \in Int /\ n \in Int /\ n >= lo /\ lo >= -1
  BY <1>1
<1>3. PICK f : Continues(f, history, lo, n, start) /\ FurtherResults = f[n]
  BY <1>1, <1>2, FurtherIs
<1>4. RunOK(history, lo, start)
  BY <1>1 DEF RunOK
<1>10. n > lo
  BY <1>1
<1> HIDE DEF n, lo, start
<1>5. f[lo] = start /\ \A b \in (lo + 1)..n : f[b] = Further(history, b, f[b - 1])
  BY ONLY <1>2, <1>3, ContinuesStepwise
<1> DEFINE Good == {b \in lo..n : RunOK(history, b, f[b])}
<1>6. lo \in Good
  BY <1>2, <1>4, <1>5
<1>7. ASSUME NEW b \in (lo + 1)..n, b - 1 \in Good PROVE b \in Good
  <2>1. b \in 0..LastBar(history) /\ b \in lo..n
    BY <1>2 DEF n
  <2>2. RunOK(history, b - 1, f[b - 1])
    BY <1>7
  <2>3. RunOK(history, b, f[b])
    BY <1>1, <1>5, <2>1, <2>2, FurtherOK
  <2> QED BY <2>1, <2>3
<1> HIDE DEF Good
<1>8. \A b \in lo..n : b \in Good
  BY ONLY <1>2, <1>6, <1>7, InductionFrom
<1>9. n - 1 \in Good /\ n \in (lo + 1)..n
  <2>1. n >= lo + 1
    BY <1>1, <1>10
  <2> QED BY <1>2, <1>8, <2>1
<1>11. RunOK(history, n - 1, f[n - 1]) /\ f[n] = Further(history, n, f[n - 1])
  BY <1>5, <1>9 DEF Good
<1> QED BY <1>3, <1>11 DEF EndsWithNewest, n

LEMMA NewestOK ==
    ASSUME NEW h \in Seq(Shapes), Len(h) > 0, NEW run, EndsWithNewest(h, run)
    PROVE  RunOK(h, LastBar(h), run)
<1>1. PICK before : RunOK(h, LastBar(h) - 1, before) /\ run = Further(h, LastBar(h), before)
  BY DEF EndsWithNewest
<1>2. LastBar(h) \in 0..LastBar(h)
  BY LenProperties DEF LastBar
<1> QED BY <1>1, <1>2, FurtherOK

LEMMA NewestRun ==
    ASSUME RunsInv, Len(history) > Len(results), NEW run,
           run = IF saved = NoState THEN FirstResults ELSE FurtherResults
    PROVE  EndsWithNewest(history, run)
<1>1. Len(history) \in Nat /\ Len(results) \in Nat
  BY LenProperties DEF RunsInv, Sequential
<1>2. Len(history) > 0
  BY <1>1
<1> QED BY <1>2, FirstRun, LaterRun

LEMMA EvaluateKeeps ==
    ASSUME RunsInv, Evaluate
    PROVE  RunsInv'
<1> DEFINE run == IF saved = NoState THEN FirstResults ELSE FurtherResults
<1>1. /\ Backlog > 0 /\ results' = run.results
      /\ saved' = [upTo |-> LastBar(history), state |-> run.state]
      /\ history' = history
  BY DEF Evaluate
<1>2. Len(history) \in Nat /\ Len(results) \in Nat /\ history \in Seq(Shapes)
  BY LenProperties DEF RunsInv, Sequential
<1>3. Len(history) > 0 /\ Len(history) > Len(results)
  BY <1>1, <1>2 DEF Backlog
<1>4. RunOK(history, LastBar(history), run)
  BY <1>2, <1>3, NewestRun, NewestOK
<1> HIDE DEF run
<1>5. /\ Sequential(results') /\ Len(results') = LastBar(history) + 1
      /\ ResultsOK(history, results') /\ StateOK(history, LastBar(history), run.state)
  BY <1>1, <1>4 DEF RunOK
<1>6. saved'.upTo = LastBar(history) /\ saved'.state = run.state
  BY <1>1
<1>7. LastBar(history) = Len(history) - 1
  BY DEF LastBar
<1> QED BY <1>1, <1>2, <1>5, <1>6, <1>7 DEF RunsInv

LEMMA RunsKept == RunsInv /\ [Next]_vars => RunsInv'
<1>1. RunsInv /\ Backfill => RunsInv'
  BY DEF Backfill, RunsInv
<1>2. RunsInv /\ UNCHANGED vars => RunsInv'
  BY DEF vars, RunsInv
<1> QED BY <1>1, <1>2, CandleKeeps, EvaluateKeeps DEF Next

LEMMA RunsHold == Spec => []RunsInv
BY RunsStart, RunsKept, PTL DEF Spec

-------------------------------------------------------------------------------
(* The state kept in engine_state is the one a bootstrap builds from the   *)
(* candles, however many runs came late, resumed, or died before they      *)
(* wrote a trade (fast_predict.py, bootstrap_queue_state and               *)
(* evaluate_latest_bar), as long as max_bars_back covers the history.      *)
THEOREM SavedStateIsBootstrap == Spec => []SavedIsBootstrap
<1>1. RunsInv => SavedIsBootstrap
  BY DEF RunsInv, StateOK, StateAt, SavedIsBootstrap
<1> QED BY <1>1, RunsHold, PTL

-------------------------------------------------------------------------------
(* The batch engine's pass.                                                *)

ClassOf(h, b, before) ==
    [queue |-> Scanned(h, b, before.queue), prediction |-> Votes(Scanned(h, b, before.queue)),
     signal |-> SignalAfter(before.signal, Votes(Scanned(h, b, before.queue)), Passes(h, b))]

Classifies(f, h, n) ==
    f = [b \in -1..n |-> IF b = -1 THEN <<Unclassified>>
                         ELSE Append(f[b - 1], ClassOf(h, b, Last(f[b - 1])))]

(* What the state after a bar says of the bar.                             *)
ClassAt(h, b) ==
    [queue |-> StateAt(h, b).queue, prediction |-> Votes(StateAt(h, b).queue),
     signal |-> StateAt(h, b).signal]

LEMMA ClassifiesStepwise ==
    ASSUME NEW n \in Int, n >= -1, NEW f, NEW h, Classifies(f, h, n)
    PROVE  /\ f[-1] = <<Unclassified>>
           /\ \A b \in 0..n : f[b] = Append(f[b - 1], ClassOf(h, b, Last(f[b - 1])))
BY DEF Classifies

LEMMA ClassifiesExists ==
    ASSUME NEW n \in Int, n >= -1, NEW h
    PROVE  \E f : Classifies(f, h, n)
<1> DEFINE Good == {k \in -1..n : \E f : Classifies(f, h, k)}
<1>1. -1 \in Good
  <2>1. PICK f : f = [b \in -1..(-1) |-> <<Unclassified>>]
    OBVIOUS
  <2>2. \A b \in -1..(-1) : b = -1
    OBVIOUS
  <2>3. Classifies(f, h, -1)
    BY <2>1, <2>2 DEF Classifies
  <2> QED BY <2>3
<1>2. ASSUME NEW k \in 0..n, k - 1 \in Good PROVE k \in Good
  <2>1. PICK g : Classifies(g, h, k - 1)
    BY <1>2
  <2> DEFINE step(b, done) == Append(done, ClassOf(h, b, Last(done)))
             e == [b \in -1..k |-> IF b < k THEN g[b] ELSE step(k, g[k - 1])]
  <2>2. PICK f : f = e
    OBVIOUS
  <2>3. k \in Int /\ k >= 0 /\ k - 1 \in Int /\ k - 1 >= -1 /\ k \in -1..n
    BY <1>2
  <2>4. g[-1] = <<Unclassified>> /\ \A b \in 0..(k - 1) : g[b] = step(b, g[b - 1])
    BY ONLY <2>1, <2>3, ClassifiesStepwise
  <2> HIDE DEF step
  <2>5. (\A b \in -1..(k - 1) : f[b] = g[b]) /\ f[k] = step(k, g[k - 1])
    BY <2>2, <2>3
  <2>6. f = [b \in -1..k |-> f[b]]
    BY <2>2
  <2> HIDE DEF e
  <2>7. ASSUME NEW b \in -1..k PROVE f[b] = IF b = -1 THEN <<Unclassified>> ELSE step(b, f[b - 1])
    <3>1. CASE b = -1
      BY <2>3, <2>4, <2>5, <3>1
    <3>2. CASE b # -1
      <4>1. b - 1 \in -1..(k - 1) /\ (b = k \/ (b \in 0..(k - 1) /\ b \in -1..(k - 1)))
        BY <2>3, <3>2
      <4> QED BY <2>4, <2>5, <3>2, <4>1
    <3> QED BY <3>1, <3>2
  <2>8. Classifies(f, h, k)
    BY ONLY <2>6, <2>7 DEF Classifies, step
  <2> QED BY <2>3, <2>8
<1> HIDE DEF Good
<1>3. \A k \in -1..n : k \in Good
  BY ONLY n \in Int, n >= -1, <1>1, <1>2, InductionFromBefore
<1>4. n \in Good
  BY <1>3
<1> QED BY <1>4 DEF Good

LEMMA ClassifiedIs ==
    ASSUME NEW h, Len(h) \in Nat, Len(h) <= MaxBarsBack + 1
    PROVE  \E f : Classifies(f, h, LastBar(h)) /\ Classified(h) = Tail(f[LastBar(h)])
<1> DEFINE first == MaxBarsBackIndex(Len(h))
           n == LastBar(h)
           it == CHOOSE it : it = [b \in -1..n |->
                    IF b = -1 THEN <<Unclassified>>
                    ELSE LET done == it[b - 1]
                             before == Last(done)
                             queue == IF b >= first THEN Scanned(h, b, before.queue) ELSE before.queue
                             prediction == IF b >= first THEN Votes(queue) ELSE 0
                         IN  Append(done, [queue |-> queue, prediction |-> prediction,
                                 signal |-> SignalAfter(before.signal, prediction, Passes(h, b))])]
<1>1. Classified(h) = Tail(it[n])
  BY DEF Classified
<1>2. first = 0 /\ n \in Int /\ n >= -1
  BY EngineAssumption DEF MaxBarsBackIndex, LastBar
<1> HIDE DEF first, n
<1>3. ASSUME NEW f
      PROVE  Classifies(f, h, n) <=>
                f = [b \in -1..n |->
                    IF b = -1 THEN <<Unclassified>>
                    ELSE LET done == f[b - 1]
                             before == Last(done)
                             queue == IF b >= first THEN Scanned(h, b, before.queue) ELSE before.queue
                             prediction == IF b >= first THEN Votes(queue) ELSE 0
                         IN  Append(done, [queue |-> queue, prediction |-> prediction,
                                 signal |-> SignalAfter(before.signal, prediction, Passes(h, b))])]
  <2>1. \A b \in -1..n : b # -1 => b >= first
    BY <1>2
  <2>2. ASSUME NEW b \in -1..n
        PROVE (IF b = -1 THEN <<Unclassified>> ELSE Append(f[b - 1], ClassOf(h, b, Last(f[b - 1]))))
              = (IF b = -1 THEN <<Unclassified>>
                 ELSE LET done == f[b - 1]
                             before == Last(done)
                             queue == IF b >= first THEN Scanned(h, b, before.queue) ELSE before.queue
                             prediction == IF b >= first THEN Votes(queue) ELSE 0
                         IN  Append(done, [queue |-> queue, prediction |-> prediction,
                                 signal |-> SignalAfter(before.signal, prediction, Passes(h, b))]))
    BY <2>1 DEF ClassOf
  <2> QED BY <2>2 DEF Classifies
<1>4. PICK f : Classifies(f, h, n)
  BY <1>2, ClassifiesExists
<1>5. f = [b \in -1..n |->
                    IF b = -1 THEN <<Unclassified>>
                    ELSE LET done == f[b - 1]
                             before == Last(done)
                             queue == IF b >= first THEN Scanned(h, b, before.queue) ELSE before.queue
                             prediction == IF b >= first THEN Votes(queue) ELSE 0
                         IN  Append(done, [queue |-> queue, prediction |-> prediction,
                                 signal |-> SignalAfter(before.signal, prediction, Passes(h, b))])]
  BY ONLY <1>3, <1>4
<1>6. it = [b \in -1..n |->
                    IF b = -1 THEN <<Unclassified>>
                    ELSE LET done == it[b - 1]
                             before == Last(done)
                             queue == IF b >= first THEN Scanned(h, b, before.queue) ELSE before.queue
                             prediction == IF b >= first THEN Votes(queue) ELSE 0
                         IN  Append(done, [queue |-> queue, prediction |-> prediction,
                                 signal |-> SignalAfter(before.signal, prediction, Passes(h, b))])]
  BY ONLY <1>5
<1>7. Classifies(it, h, n)
  BY ONLY <1>3, <1>6
<1> HIDE DEF it
<1> QED BY <1>1, <1>7 DEF n

LEMMA ClassSteps ==
    ASSUME NEW h \in Seq(Shapes), NEW b \in 0..LastBar(h), b <= MaxBarsBack,
           NEW before, before.queue = StateAt(h, b - 1).queue, before.signal = StateAt(h, b - 1).signal
    PROVE  ClassOf(h, b, before) = ClassAt(h, b)
<1> DEFINE s == StateAt(h, b - 1)
<1>1. StateAt(h, b) = Evaluated(h, b, s).state
  BY StateSteps
<1> HIDE DEF s
<1>2. /\ Evaluated(h, b, s).state.queue = Scanned(h, b, s.queue)
      /\ Evaluated(h, b, s).state.signal
            = SignalAfter(s.signal, Votes(Scanned(h, b, s.queue)), Passes(h, b))
  BY DEF Evaluated, Step
<1>3. before.queue = s.queue /\ before.signal = s.signal
  BY DEF s
<1> QED BY <1>1, <1>2, <1>3 DEF ClassOf, ClassAt

LEMMA ClassifiedAt ==
    ASSUME NEW h \in Seq(Shapes), Len(h) <= MaxBarsBack + 1
    PROVE  /\ Len(h) \in Nat /\ Len(Classified(h)) = Len(h)
           /\ \A b \in 0..(Len(h) - 1) : Classified(h)[b + 1] = ClassAt(h, b)
<1> DEFINE n == LastBar(h)
<1>1. Len(h) \in Nat /\ n = Len(h) - 1 /\ n \in Int /\ n >= -1 /\ MaxBarsBack \in Nat /\ n <= MaxBarsBack
  BY LenProperties, EngineAssumption DEF LastBar
<1>2. PICK f : Classifies(f, h, n) /\ Classified(h) = Tail(f[n])
  BY <1>1, ClassifiedIs
<1> HIDE DEF n
<1>3. f[-1] = <<Unclassified>> /\ \A b \in 0..n : f[b] = Append(f[b - 1], ClassOf(h, b, Last(f[b - 1])))
  BY <1>1, <1>2, ClassifiesStepwise
<1> DEFINE Fine(b, done) == /\ Sequential(done) /\ Len(done) = b + 2
                            /\ done[1] = Unclassified
                            /\ \A c \in 0..b : done[c + 2] = ClassAt(h, c)
           Good == {b \in -1..n : Fine(b, f[b])}
<1>4. -1 \in Good
  <2>1. <<Unclassified>> \in Seq({Unclassified}) /\ Len(<<Unclassified>>) = 1
        /\ <<Unclassified>>[1] = Unclassified
    OBVIOUS
  <2>2. Sequential(<<Unclassified>>)
    BY <2>1 DEF Sequential
  <2>3. Fine(-1, <<Unclassified>>)
    BY <2>1, <2>2
  <2>4. -1 \in -1..n /\ f[-1] = <<Unclassified>>
    BY <1>1, <1>3
  <2> HIDE DEF Fine
  <2> QED BY <2>3, <2>4
<1>5. ASSUME NEW b \in 0..n, b - 1 \in Good PROVE b \in Good
  <2> DEFINE done == f[b - 1]
             r == f[b]
             x == ClassOf(h, b, Last(done))
  <2>1. Fine(b - 1, done) /\ b \in Int /\ b >= 0 /\ b \in -1..n /\ b <= MaxBarsBack /\ b \in 0..LastBar(h)
    BY <1>1, <1>5 DEF n
  <2>2. Appends(r, done, x)
    BY <1>3 DEF Appends
  <2> HIDE DEF r, done, x
  <2>3. /\ Sequential(r) /\ Len(done) \in Nat /\ Len(r) = Len(done) + 1
        /\ \A k \in 1..Len(done) : r[k] = done[k]
        /\ r[Len(r)] = x
    BY ONLY <2>1, <2>2, AppendedResult
  <2>4. Len(done) = b + 1 /\ Last(done) = done[b + 1]
    BY <2>1 DEF Last
  <2>5. x = ClassAt(h, b)
    <3>1. CASE b = 0
      <4>1. Last(done) = Unclassified /\ StateAt(h, -1) = QueueState
        BY <2>1, <2>4, <3>1, StateSteps
      <4>2. Last(done).queue = StateAt(h, b - 1).queue /\ Last(done).signal = StateAt(h, b - 1).signal
        BY <3>1, <4>1 DEF Unclassified, QueueState
      <4> QED BY <2>1, <4>2, ClassSteps DEF x
    <3>2. CASE b # 0
      <4>1. b - 1 \in 0..(b - 1) /\ (b - 1) + 2 = b + 1
        BY <2>1, <3>2
      <4>2. Last(done) = ClassAt(h, b - 1)
        BY <2>1, <2>4, <4>1
      <4>3. Last(done).queue = StateAt(h, b - 1).queue /\ Last(done).signal = StateAt(h, b - 1).signal
        BY <4>2 DEF ClassAt
      <4> QED BY <2>1, <4>3, ClassSteps DEF x
    <3> QED BY <3>1, <3>2
  <2>6. Fine(b, r)
    <3>1. 1 \in 1..Len(done) /\ Len(r) = b + 2
      BY <2>1, <2>3, <2>4
    <3>2. ASSUME NEW c \in 0..b PROVE r[c + 2] = ClassAt(h, c)
      <4>1. CASE c = b
        BY <2>3, <2>5, <3>1, <4>1
      <4>2. CASE c # b
        <5>1. c \in 0..(b - 1) /\ c + 2 \in 1..Len(done)
          BY <2>1, <2>4, <4>2
        <5> QED BY <2>1, <2>3, <5>1
      <4> QED BY <4>1, <4>2
    <3> QED BY <2>1, <2>3, <3>1, <3>2
  <2> QED BY <2>1, <2>6 DEF r
<1> HIDE DEF Good
<1>6. \A b \in -1..n : b \in Good
  BY ONLY <1>1, <1>4, <1>5, InductionFromBefore
<1>7. Fine(n, f[n])
  BY <1>1, <1>6 DEF Good
<1> DEFINE done == f[n]
<1>8. PICK S : done \in Seq(S) /\ Len(done) = n + 2 /\ \A c \in 0..n : done[c + 2] = ClassAt(h, c)
  BY <1>7 DEF Sequential
<1> HIDE DEF done
<1>9. /\ Len(Tail(done)) = n + 1 /\ \A i \in 1..Len(Tail(done)) : Tail(done)[i] = done[i + 1]
  <2>1. done # <<>>
    BY <1>1, <1>8
  <2> QED BY <1>1, <1>8, <2>1, HeadTailProperties
<1>10. ASSUME NEW b \in 0..(Len(h) - 1) PROVE Tail(done)[b + 1] = ClassAt(h, b)
  <2>1. b + 1 \in 1..(n + 1) /\ b \in 0..n /\ (b + 1) + 1 = b + 2
    BY <1>1
  <2> QED BY <1>8, <1>9, <2>1
<1> QED BY <1>1, <1>2, <1>9, <1>10 DEF done

-------------------------------------------------------------------------------
(* Before there are labels, nobody votes.                                  *)

Silent(queue) == Sequential(queue) /\ \A i \in 1..Len(queue) : queue[i].label = 0

LEMMA SilentAdmits ==
    ASSUME NEW queue, Silent(queue), NEW distance
    PROVE  Silent(Admitted(queue, distance, 0).queue)
<1> DEFINE x == [distance |-> distance, label |-> 0]
           longer == Append(queue, x)
<1>1. x.label = 0
  OBVIOUS
<1>2. Sequential(queue) /\ Appends(longer, queue, x)
  BY DEF Silent, Appends
<1>3. /\ Admitted(queue, distance, 0).queue
            = IF Len(longer) > NeighborsCount THEN Tail(longer) ELSE longer
  BY DEF Admitted
<1> HIDE DEF x, longer
<1>4. /\ Sequential(longer) /\ Len(queue) \in Nat /\ Len(longer) = Len(queue) + 1
      /\ \A i \in 1..Len(queue) : longer[i] = queue[i]
      /\ longer[Len(longer)] = x
  BY ONLY <1>2, AppendedResult
<1>5. \A i \in 1..Len(longer) : longer[i].label = 0
  <2>1. ASSUME NEW i \in 1..Len(longer) PROVE longer[i].label = 0
    <3>1. i = Len(longer) \/ i \in 1..Len(queue)
      BY <1>4
    <3> QED BY <1>1, <1>4, <3>1 DEF Silent
  <2> QED BY <2>1
<1>6. Silent(longer)
  BY <1>4, <1>5 DEF Silent
<1>7. Silent(Tail(longer))
  <2>1. PICK S : longer \in Seq(S)
    BY <1>4 DEF Sequential
  <2>2. longer # <<>>
    BY <1>4, EmptySeq
  <2>3. /\ Tail(longer) \in Seq(S) /\ Len(Tail(longer)) = Len(longer) - 1
        /\ \A i \in 1..Len(Tail(longer)) : Tail(longer)[i] = longer[i + 1]
    BY ONLY <2>1, <2>2, HeadTailProperties
  <2>4. \A i \in 1..Len(Tail(longer)) : i + 1 \in 1..Len(longer)
    BY <1>4, <2>3
  <2> QED BY <1>5, <2>3, <2>4 DEF Silent, Sequential
<1> QED BY <1>3, <1>6, <1>7

LEMMA SilentScans ==
    ASSUME NEW b \in Nat, b < LabelSpan, NEW h, NEW queue, Silent(queue)
    PROVE  Silent(Scanned(h, b, queue))
<1> DEFINE n == ScanSize(b)
<1>1. n \in Int /\ n >= -1 /\ n <= b /\ LabelSpan \in Nat
  BY ScannedIs, EngineAssumption
<1>2. PICK f : Scans(f, h, b, queue, n) /\ Scanned(h, b, queue) = f[n].queue
  BY ScannedIs
<1> HIDE DEF n
<1>3. f[-1] = ScanStart(queue) /\ \A i \in 0..n : f[i] = ScanStep(h, b, i, f[i - 1])
  BY <1>1, <1>2, ScanStepwise
<1> DEFINE Good == {i \in -1..n : Silent(f[i].queue)}
<1>4. -1 \in Good
  BY <1>1, <1>3 DEF ScanStart
<1>5. ASSUME NEW i \in 0..n, i - 1 \in Good PROVE i \in Good
  <2>1. Silent(f[i - 1].queue) /\ i < LabelSpan /\ i \in -1..n
    BY <1>1, <1>5
  <2>2. Label(h, i) = 0
    BY <2>1 DEF Label
  <2>3. \A d : Silent(Admitted(f[i - 1].queue, d, 0).queue)
    BY <2>1, SilentAdmits
  <2>4. \/ f[i] = f[i - 1]
        \/ f[i] = Admitted(f[i - 1].queue, Distance(h, b, i), 0)
    BY <1>3, <2>2 DEF ScanStep
  <2> QED BY <2>1, <2>3, <2>4
<1> HIDE DEF Good
<1>6. \A i \in -1..n : i \in Good
  BY ONLY <1>1, <1>4, <1>5, InductionFromBefore
<1> QED BY <1>1, <1>2, <1>6 DEF Good

LEMMA SilentVotes ==
    ASSUME NEW queue, Silent(queue)
    PROVE  Votes(queue) = 0
<1> DEFINE n == Len(queue)
           it == CHOOSE it : it = [k \in 0..n |-> IF k = 0 THEN 0 ELSE it[k - 1] + queue[k].label]
<1>1. Votes(queue) = it[n]
  BY DEF Votes
<1>2. n \in Nat /\ \A k \in 1..n : queue[k].label = 0
  BY LenProperties DEF Silent, Sequential
<1> HIDE DEF n
<1>3. it = [k \in 0..n |-> IF k = 0 THEN 0 ELSE it[k - 1] + queue[k].label]
  <2>1. PICK f : f = [k \in 0..n |-> 0]
    OBVIOUS
  <2>2. ASSUME NEW k \in 0..n PROVE 0 = IF k = 0 THEN 0 ELSE f[k - 1] + queue[k].label
    <3>1. k # 0 => k - 1 \in 0..n /\ k \in 1..n
      BY <1>2
    <3> QED BY <1>2, <2>1, <3>1
  <2>3. f = [k \in 0..n |-> IF k = 0 THEN 0 ELSE f[k - 1] + queue[k].label]
    BY <2>1, <2>2
  <2> QED BY ONLY <2>3
<1> HIDE DEF it
<1> DEFINE Good == {k \in 0..n : it[k] = 0}
<1>4. 0 \in Good
  BY <1>2, <1>3
<1>5. ASSUME NEW k \in 0..n, k # 0, k - 1 \in Good PROVE k \in Good
  <2>1. k \in 1..n /\ it[k - 1] = 0 /\ queue[k].label = 0
    BY <1>2, <1>5
  <2>2. it[k] = it[k - 1] + queue[k].label
    BY <1>3, <1>5
  <2> QED BY <2>1, <2>2
<1> HIDE DEF Good
<1>6. \A k \in 0..n : k \in Good
  BY ONLY <1>2, <1>4, <1>5, NumberInduction
<1> QED BY <1>1, <1>2, <1>6 DEF Good

LEMMA StateFields ==
    ASSUME NEW h \in Seq(Shapes), NEW b \in 0..LastBar(h), b <= MaxBarsBack,
           NEW s, s = StateAt(h, b - 1), NEW t, t = StateAt(h, b)
    PROVE  /\ t.queue = Scanned(h, b, s.queue)
           /\ t.signal = SignalAfter(s.signal, Votes(t.queue), Passes(h, b))
           /\ t.exits = AdvancedExitState(s.exits,
                            t.signal = 1 /\ t.signal # s.signal /\ Rate(h, b) = "rising",
                            t.signal = -1 /\ t.signal # s.signal /\ Rate(h, b) = "falling",
                            t.signal # s.signal)
<1>1. t = Evaluated(h, b, s).state
  BY StateSteps
<1>2. /\ t.queue = Scanned(h, b, s.queue)
      /\ t.signal = SignalAfter(s.signal, Votes(Scanned(h, b, s.queue)), Passes(h, b))
  BY <1>1 DEF Evaluated, Step
<1>3. t.exits = AdvancedExitState(s.exits,
                    t.signal = 1 /\ t.signal # s.signal /\ Rate(h, b) = "rising",
                    t.signal = -1 /\ t.signal # s.signal /\ Rate(h, b) = "falling",
                    t.signal # s.signal)
  BY ONLY <1>1, <1>2 DEF Evaluated, Step
<1> QED BY <1>2, <1>3

LEMMA SilentState ==
    ASSUME NEW h \in Seq(Shapes)
    PROVE  \A b \in -1..LastBar(h) :
              (b < LabelSpan /\ b <= MaxBarsBack) => StateAt(h, b).signal = 0
<1> DEFINE n == LastBar(h)
           Fine(b) == (b < LabelSpan /\ b <= MaxBarsBack) =>
                         Silent(StateAt(h, b).queue) /\ StateAt(h, b).signal = 0
           Good == {b \in -1..n : Fine(b)}
<1>1. n \in Int /\ n >= -1 /\ LabelSpan \in Nat /\ MaxBarsBack \in Nat
  BY LenProperties, EngineAssumption DEF LastBar
<1>2. -1 \in Good
  <2>1. StateAt(h, -1).queue = <<>> /\ StateAt(h, -1).signal = 0
    BY StateSteps DEF QueueState, EmptyQueue
  <2>2. <<>> \in Seq({}) /\ Len(<<>>) = 0
    BY EmptySeq
  <2>3. Silent(<<>>)
    BY <2>2 DEF Silent, Sequential
  <2> QED BY <1>1, <2>1, <2>3
<1>3. ASSUME NEW b \in 0..n, b - 1 \in Good PROVE b \in Good
  <2> SUFFICES ASSUME b < LabelSpan, b <= MaxBarsBack
               PROVE  Silent(StateAt(h, b).queue) /\ StateAt(h, b).signal = 0
    BY <1>1
  <2>1. b \in Nat /\ Silent(StateAt(h, b - 1).queue) /\ StateAt(h, b - 1).signal = 0
    BY <1>1, <1>3
  <2>2. /\ StateAt(h, b).queue = Scanned(h, b, StateAt(h, b - 1).queue)
        /\ StateAt(h, b).signal = SignalAfter(StateAt(h, b - 1).signal, Votes(StateAt(h, b).queue), Passes(h, b))
    BY StateFields
  <2>3. Silent(StateAt(h, b).queue)
    BY <2>1, <2>2, SilentScans
  <2>4. Votes(StateAt(h, b).queue) = 0
    BY <2>3, SilentVotes
  <2>5. SignalAfter(0, 0, Passes(h, b)) = 0
    BY DEF SignalAfter
  <2> QED BY <2>1, <2>2, <2>3, <2>4, <2>5
<1> HIDE DEF Good, n
<1>4. \A b \in -1..n : b \in Good
  BY ONLY <1>1, <1>2, <1>3, InductionFromBefore
<1> QED BY <1>4 DEF Good, n

-------------------------------------------------------------------------------
(* Counting bars: the batch engine looks back, the incremental one counts. *)

LEMMA SinceSteps ==
    ASSUME NEW n \in Nat, NEW A, A \subseteq 0..n
    PROVE  /\ BarsSince(A, -1) = -1
           /\ \A b \in 0..n : BarsSince(A, b) = NextCount(b \in A, BarsSince(A, b - 1))
           /\ \A b \in -1..n : BarsSince(A, b) \in Int /\ BarsSince(A, b) >= -1
<1> DEFINE Past(b) == {k \in A : k <= b}
<1>0. \A k \in A : k \in Int /\ 0 <= k /\ k <= n
  OBVIOUS
<1>1. ASSUME NEW b \in -1..n, Past(b) # {}
      PROVE  /\ Max(Past(b)) \in Past(b) /\ Max(Past(b)) \in 0..n /\ Max(Past(b)) <= b
             /\ \A k \in Past(b) : k <= Max(Past(b))
             /\ BarsSince(A, b) = b - Max(Past(b))
  <2>1. Past(b) \in SUBSET (0..n)
    OBVIOUS
  <2>2. BarsSince(A, b) = b - Max(Past(b))
    BY <1>1 DEF BarsSince
  <2>3. \A k \in Past(b) : k <= b
    OBVIOUS
  <2> HIDE DEF Past
  <2>4. Max(Past(b)) \in Past(b) /\ \A k \in Past(b) : k <= Max(Past(b))
    BY <1>1, <2>1, Extremum
  <2> QED BY <2>1, <2>2, <2>3, <2>4
<1>2. ASSUME NEW b \in -1..n, Past(b) = {} PROVE BarsSince(A, b) = -1
  BY <1>2 DEF BarsSince
<1>3. \A b \in -1..n : BarsSince(A, b) \in Int /\ BarsSince(A, b) >= -1
  <2> HIDE DEF Past
  <2>1. ASSUME NEW b \in -1..n PROVE BarsSince(A, b) \in Int /\ BarsSince(A, b) >= -1
    <3>1. CASE Past(b) = {}
      BY <1>2, <3>1
    <3>2. CASE Past(b) # {}
      <4> DEFINE m == Max(Past(b))
      <4>1. m \in 0..n /\ m <= b /\ BarsSince(A, b) = b - m
        BY <1>1, <3>2
      <4> HIDE DEF m
      <4> QED BY <4>1
    <3> QED BY <3>1, <3>2
  <2> QED BY <2>1
<1>4. BarsSince(A, -1) = -1
  <2>1. Past(-1) = {}
    <3>1. \A k \in A : ~(k <= -1)
      BY <1>0
    <3> QED BY <3>1
  <2> QED BY <1>2, <2>1
<1>5. ASSUME NEW b \in 0..n PROVE BarsSince(A, b) = NextCount(b \in A, BarsSince(A, b - 1))
  <2>1. b \in -1..n /\ b - 1 \in -1..n /\ b \in Int
    OBVIOUS
  <2>2. CASE b \in A
    <3>1. b \in Past(b)
      BY <2>2
    <3> HIDE DEF Past
    <3> DEFINE m == Max(Past(b))
    <3>2. m \in 0..n /\ m <= b /\ b <= m /\ BarsSince(A, b) = b - m
      BY <1>1, <2>1, <3>1
    <3> HIDE DEF m
    <3>3. BarsSince(A, b) = 0
      BY <2>1, <3>2
    <3> QED BY <2>2, <3>3 DEF NextCount
  <2>3. CASE b \notin A
    <3>1. Past(b) = Past(b - 1)
      <4>1. \A k \in A : k <= b <=> k <= b - 1
        BY <1>0, <2>1, <2>3
      <4> QED BY <4>1
    <3> HIDE DEF Past
    <3>2. CASE Past(b) = {}
      <4>1. BarsSince(A, b) = -1 /\ BarsSince(A, b - 1) = -1
        BY <1>2, <2>1, <3>1, <3>2
      <4> QED BY <2>3, <4>1 DEF NextCount
    <3>3. CASE Past(b) # {}
      <4> DEFINE m == Max(Past(b))
                 c == BarsSince(A, b - 1)
      <4>1. /\ m \in 0..n /\ BarsSince(A, b) = b - m
        BY <1>1, <2>1, <3>3
      <4>2. m <= b - 1 /\ c = b - 1 - m
        BY <1>1, <2>1, <3>1, <3>3
      <4> HIDE DEF m, c
      <4>3. c \in Int /\ c >= 0 /\ BarsSince(A, b) = c + 1
        BY <2>1, <4>1, <4>2
      <4> QED BY <2>3, <4>3 DEF NextCount, c
    <3> QED BY <3>2, <3>3
  <2> QED BY <2>2, <2>3
<1> QED BY <1>3, <1>4, <1>5

-------------------------------------------------------------------------------
(* What the state after a bar remembers of the bars before.                *)

SignalAt(h, b) == StateAt(h, b).signal

Flips(h) == {b \in 0..LastBar(h) : SignalAt(h, b) # SignalAt(h, b - 1)}
Longs(h) == {b \in Flips(h) : SignalAt(h, b) = 1 /\ Rate(h, b) = "rising"}
Shorts(h) == {b \in Flips(h) : SignalAt(h, b) = -1 /\ Rate(h, b) = "falling"}

Remembers(h, b, exits) ==
    /\ exits.sinceGreenEntry = BarsSince(Longs(h), b)
    /\ exits.sinceRedEntry = BarsSince(Shorts(h), b)
    /\ \E u, v, w \in BOOLEAN :
          /\ exits.changedWindow = <<u, v, w>>
          /\ (u <=> b - 2 \in Flips(h)) /\ (v <=> b - 1 \in Flips(h)) /\ (w <=> b \in Flips(h))

LEMMA WindowMoves ==
    ASSUME NEW u \in BOOLEAN, NEW v \in BOOLEAN, NEW w \in BOOLEAN, NEW x \in BOOLEAN
    PROVE  Append(Tail(<<u, v, w>>), x) = <<v, w, x>>
<1> DEFINE s == <<u, v, w>>
           t == Tail(s)
           r == Append(t, x)
           q == <<v, w, x>>
<1>1. s \in Seq(BOOLEAN) /\ s # <<>> /\ Len(s) = 3 /\ s[1] = u /\ s[2] = v /\ s[3] = w
  OBVIOUS
<1>2. q \in Seq(BOOLEAN) /\ Len(q) = 3 /\ q[1] = v /\ q[2] = w /\ q[3] = x
  OBVIOUS
<1> HIDE DEF s, q
<1>3. t \in Seq(BOOLEAN) /\ Len(t) = 2 /\ t[1] = v /\ t[2] = w
  <2>1. t \in Seq(BOOLEAN) /\ Len(t) = Len(s) - 1 /\ \A i \in 1..Len(t) : t[i] = s[i + 1]
    BY <1>1, HeadTailProperties
  <2>2. Len(t) = 2 /\ 1 \in 1..2 /\ 2 \in 1..2
    BY <1>1, <2>1
  <2> HIDE DEF t
  <2> QED BY <1>1, <2>1, <2>2
<1> HIDE DEF t
<1>4. r \in Seq(BOOLEAN) /\ Len(r) = 3 /\ r[1] = v /\ r[2] = w /\ r[3] = x
  <2>1. /\ r \in Seq(BOOLEAN) /\ Len(r) = Len(t) + 1
        /\ \A i \in 1..Len(t) : r[i] = t[i]
        /\ r[Len(t) + 1] = x
    BY <1>3, AppendProperties
  <2>2. Len(t) + 1 = 3 /\ 1 \in 1..Len(t) /\ 2 \in 1..Len(t)
    BY <1>3
  <2> HIDE DEF r
  <2> QED BY <1>3, <2>1, <2>2
<1> HIDE DEF r
<1>5. \A i \in 1..3 : r[i] = q[i]
  BY <1>2, <1>4
<1>6. r = q
  BY <1>2, <1>4, <1>5, SeqEqual
<1> QED BY <1>6 DEF r, q, t, s

LEMMA StateRemembers ==
    ASSUME NEW h \in Seq(Shapes)
    PROVE  \A b \in -1..LastBar(h) : b <= MaxBarsBack => Remembers(h, b, StateAt(h, b).exits)
<1> DEFINE n == LastBar(h)
           Good == {b \in -1..n : b <= MaxBarsBack => Remembers(h, b, StateAt(h, b).exits)}
<1>1. n \in Int /\ n >= -1 /\ MaxBarsBack \in Nat
  BY LenProperties, EngineAssumption DEF LastBar
<1>2. Flips(h) \subseteq 0..n /\ Longs(h) \subseteq 0..n /\ Shorts(h) \subseteq 0..n
  BY DEF Flips, Longs, Shorts
<1>3. -1 \in Good
  <2>1. StateAt(h, -1).exits = ExitState
    BY StateSteps DEF QueueState
  <2>2. BarsSince(Longs(h), -1) = -1 /\ BarsSince(Shorts(h), -1) = -1
    <3>1. {k \in Longs(h) : k <= -1} = {} /\ {k \in Shorts(h) : k <= -1} = {}
      BY <1>1, <1>2
    <3> QED BY <3>1 DEF BarsSince
  <2>3. -1 - 2 \notin Flips(h) /\ -1 - 1 \notin Flips(h) /\ -1 \notin Flips(h)
    BY <1>1, <1>2
  <2>4. Remembers(h, -1, ExitState)
    BY <2>2, <2>3 DEF Remembers, ExitState
  <2>5. -1 \in -1..n
    BY <1>1
  <2> QED BY <2>1, <2>4, <2>5
<1>4. ASSUME NEW b \in 0..n, b - 1 \in Good PROVE b \in Good
  <2> SUFFICES ASSUME b <= MaxBarsBack PROVE Remembers(h, b, StateAt(h, b).exits)
    BY <1>1
  <2> DEFINE s == StateAt(h, b - 1)
             t == StateAt(h, b)
             flips == t.signal # s.signal
             long == t.signal = 1 /\ t.signal # s.signal /\ Rate(h, b) = "rising"
             short == t.signal = -1 /\ t.signal # s.signal /\ Rate(h, b) = "falling"
  <2>1. t.exits = AdvancedExitState(s.exits, long, short, flips)
    BY StateFields
  <2>2. Remembers(h, b - 1, s.exits) /\ b \in Int
    BY <1>1, <1>4
  <2>3. (flips <=> b \in Flips(h)) /\ (long <=> b \in Longs(h)) /\ (short <=> b \in Shorts(h))
    BY DEF Flips, Longs, Shorts, SignalAt
  <2> HIDE DEF s, t, flips, long, short
  <2>4. /\ t.exits.sinceGreenEntry = NextCount(b \in Longs(h), s.exits.sinceGreenEntry)
        /\ t.exits.sinceRedEntry = NextCount(b \in Shorts(h), s.exits.sinceRedEntry)
        /\ t.exits.changedWindow = Append(Tail(s.exits.changedWindow), flips)
    BY <2>1, <2>3 DEF AdvancedExitState, NextCount
  <2>5. n \in Nat /\ b \in 0..n
    BY <1>1
  <2>6. /\ BarsSince(Longs(h), b) = NextCount(b \in Longs(h), BarsSince(Longs(h), b - 1))
        /\ BarsSince(Shorts(h), b) = NextCount(b \in Shorts(h), BarsSince(Shorts(h), b - 1))
    BY <1>2, <2>5, SinceSteps
  <2>7. PICK u, v, w \in BOOLEAN :
            /\ s.exits.changedWindow = <<u, v, w>>
            /\ (u <=> b - 1 - 2 \in Flips(h)) /\ (v <=> b - 1 - 1 \in Flips(h)) /\ (w <=> b - 1 \in Flips(h))
    BY <2>2 DEF Remembers
  <2>8. flips \in BOOLEAN
    BY DEF flips
  <2>9. t.exits.changedWindow = <<v, w, flips>>
    BY <2>4, <2>7, <2>8, WindowMoves
  <2>10. b - 1 - 1 = b - 2
    BY <2>2
  <2>11. (v <=> b - 2 \in Flips(h)) /\ (w <=> b - 1 \in Flips(h)) /\ (flips <=> b \in Flips(h))
    BY <2>3, <2>7, <2>10
  <2>12. Remembers(h, b, t.exits)
    BY <2>2, <2>4, <2>6, <2>8, <2>9, <2>11 DEF Remembers
  <2> QED BY <2>12 DEF t
<1> HIDE DEF Good, n
<1>5. \A b \in -1..n : b \in Good
  BY ONLY <1>1, <1>3, <1>4, InductionFromBefore
<1> QED BY <1>5 DEF Good, n

-------------------------------------------------------------------------------
(* The batch engine's events.                                              *)

LEMMA ClassFields ==
    ASSUME NEW h, NEW b
    PROVE  /\ ClassAt(h, b).queue = StateAt(h, b).queue
           /\ ClassAt(h, b).prediction = Votes(StateAt(h, b).queue)
           /\ ClassAt(h, b).signal = SignalAt(h, b)
BY DEF ClassAt, SignalAt

LEMMA ChangedAre ==
    ASSUME NEW h \in Seq(Shapes), Len(h) <= MaxBarsBack + 1
    PROVE  Changed(Classified(h)) = Flips(h)
<1>1. /\ Len(h) \in Nat /\ Len(Classified(h)) = Len(h) /\ LastBar(h) = Len(h) - 1 /\ MaxBarsBack \in Nat
      /\ \A b \in 0..(Len(h) - 1) : Classified(h)[b + 1] = ClassAt(h, b)
  BY ClassifiedAt, EngineAssumption DEF LastBar
<1>2. \A b \in 0..(Len(h) - 1) : Classified(h)[b + 1].signal = SignalAt(h, b)
  BY <1>1, ClassFields
<1>3. \A b \in 1..(Len(h) - 1) : Classified(h)[b].signal = SignalAt(h, b - 1)
  <2>1. ASSUME NEW b \in 1..(Len(h) - 1) PROVE Classified(h)[b].signal = SignalAt(h, b - 1)
    <3>1. b - 1 \in 0..(Len(h) - 1) /\ (b - 1) + 1 = b
      BY <1>1
    <3> QED BY <1>2, <3>1
  <2> QED BY <2>1
<1>4. 0 \notin Flips(h)
  <2>1. SUFFICES ASSUME 0 \in Flips(h) PROVE FALSE
    OBVIOUS
  <2>2. LastBar(h) \in Int /\ LastBar(h) >= 0 /\ SignalAt(h, 0) # SignalAt(h, 0 - 1)
    BY <1>1, <2>1 DEF Flips
  <2>3. LabelSpan \in Int /\ LabelSpan >= 2
    BY EngineAssumption
  <2>4. SignalAt(h, 0) = 0 /\ SignalAt(h, -1) = 0
    BY <1>1, <2>2, <2>3, SilentState DEF SignalAt
  <2> QED BY <2>2, <2>4
<1>5. \A b : b \in Flips(h) <=> b \in 1..(Len(h) - 1) /\ SignalAt(h, b) # SignalAt(h, b - 1)
  <2>1. \A b : b \in Flips(h) <=> b \in 0..(Len(h) - 1) /\ SignalAt(h, b) # SignalAt(h, b - 1)
    BY <1>1 DEF Flips
  <2>2. \A b : b \in 0..(Len(h) - 1) <=> (b \in 1..(Len(h) - 1) \/ (b = 0 /\ 0 \in 0..(Len(h) - 1)))
    BY <1>1
  <2> QED BY <1>4, <2>1, <2>2
<1>6. \A b : b \in Changed(Classified(h)) <=>
             b \in 1..(Len(h) - 1) /\ Classified(h)[b + 1].signal # Classified(h)[b].signal
  BY <1>1 DEF Changed
<1>7. \A b \in 1..(Len(h) - 1) : b \in 0..(Len(h) - 1)
  BY <1>1
<1>8. \A b : b \in Changed(Classified(h)) <=> b \in Flips(h)
  BY <1>2, <1>3, <1>5, <1>6, <1>7
<1> QED BY <1>8

LEMMA EntriesAre ==
    ASSUME NEW h \in Seq(Shapes), Len(h) <= MaxBarsBack + 1
    PROVE  Entries(h, Classified(h)).long = Longs(h) /\ Entries(h, Classified(h)).short = Shorts(h)
<1>1. /\ Len(h) \in Nat /\ LastBar(h) = Len(h) - 1
      /\ \A b \in 0..(Len(h) - 1) : Classified(h)[b + 1] = ClassAt(h, b)
  BY ClassifiedAt DEF LastBar
<1>2. \A b \in Flips(h) : Classified(h)[b + 1].signal = SignalAt(h, b)
  <2>1. \A b \in Flips(h) : b \in 0..(Len(h) - 1)
    BY <1>1 DEF Flips
  <2> QED BY <1>1, <2>1, ClassFields
<1>3. Changed(Classified(h)) = Flips(h)
  BY ChangedAre
<1>4. Entries(h, Classified(h)).long =
         {b \in Flips(h) : Classified(h)[b + 1].signal = 1 /\ Rate(h, b) = "rising"}
  BY <1>3 DEF Entries
<1>5. Entries(h, Classified(h)).short =
         {b \in Flips(h) : Classified(h)[b + 1].signal = -1 /\ Rate(h, b) = "falling"}
  BY <1>3 DEF Entries
<1> QED BY <1>2, <1>4, <1>5 DEF Longs, Shorts

EventOf(h, b, long, short, endLong, endShort, early) ==
    [signal |-> CASE long -> "BUY" [] short -> "SELL" [] OTHER -> "NEUTRAL",
     price |-> At(h, b).close, prediction |-> Votes(StateAt(h, b).queue),
     endLong |-> endLong, endShort |-> endShort, earlyFlip |-> early]

LEMMA EventOfSame ==
    ASSUME NEW h, NEW b,
           NEW p1 \in BOOLEAN, NEW p2 \in BOOLEAN, NEW p3 \in BOOLEAN, NEW p4 \in BOOLEAN, NEW p5 \in BOOLEAN,
           NEW q1 \in BOOLEAN, NEW q2 \in BOOLEAN, NEW q3 \in BOOLEAN, NEW q4 \in BOOLEAN, NEW q5 \in BOOLEAN,
           p1 <=> q1, p2 <=> q2, p3 <=> q3, p4 <=> q4, p5 <=> q5
    PROVE  EventOf(h, b, p1, p2, p3, p4, p5) = EventOf(h, b, q1, q2, q3, q4, q5)
<1>1. p1 = q1 /\ p2 = q2 /\ p3 = q3 /\ p4 = q4 /\ p5 = q5
  OBVIOUS
<1> QED BY ONLY <1>1

ExitsOf(h, useDynamicExits) ==
    IF useDynamicExits THEN DynamicExits(h, Entries(h, Classified(h)))
    ELSE StrictExits(h, Classified(h), Entries(h, Classified(h)))

LEMMA EventsAre ==
    ASSUME NEW h \in Seq(Shapes), Len(h) <= MaxBarsBack + 1, NEW dynamic, NEW n \in 1..Len(h)
    PROVE  EventsWith(h, dynamic)[n] =
               EventOf(h, n - 1, n - 1 \in Longs(h), n - 1 \in Shorts(h),
                       n - 1 \in ExitsOf(h, dynamic).long, n - 1 \in ExitsOf(h, dynamic).short,
                       n - 1 \in EarlyFlips(Flips(h)))
<1>1. n - 1 \in 0..(Len(h) - 1) /\ (n - 1) + 1 = n
  BY LenProperties
<1>2. Classified(h)[n].prediction = Votes(StateAt(h, n - 1).queue)
  BY <1>1, ClassifiedAt, ClassFields
<1>3. EventsWith(h, dynamic)[n] =
         [signal |-> CASE n - 1 \in Entries(h, Classified(h)).long -> "BUY"
                       [] n - 1 \in Entries(h, Classified(h)).short -> "SELL"
                       [] OTHER -> "NEUTRAL",
          price |-> At(h, n - 1).close,
          prediction |-> Classified(h)[n].prediction,
          endLong |-> n - 1 \in ExitsOf(h, dynamic).long, endShort |-> n - 1 \in ExitsOf(h, dynamic).short,
          earlyFlip |-> n - 1 \in EarlyFlips(Changed(Classified(h)))]
  BY DEF EventsWith, ExitsOf
<1> QED BY <1>2, <1>3, ChangedAre, EntriesAre DEF EventOf

-------------------------------------------------------------------------------
(* What the incremental engine gives a bar is what the batch engine gives. *)

LEMMA FlipsLate ==
    ASSUME NEW h \in Seq(Shapes), Len(h) <= MaxBarsBack + 1
    PROVE  \A k \in Flips(h) : k \in Int /\ k >= 2
<1>1. Len(h) \in Nat /\ LastBar(h) = Len(h) - 1 /\ LabelSpan \in Int /\ LabelSpan >= 2 /\ MaxBarsBack \in Nat
  BY LenProperties, EngineAssumption DEF LastBar
<1>2. ASSUME NEW k \in Flips(h) PROVE k \in Int /\ k >= 2
  <2>1. k \in 0..LastBar(h) /\ SignalAt(h, k) # SignalAt(h, k - 1)
    BY DEF Flips
  <2>2. k \in Int /\ k - 1 \in -1..LastBar(h) /\ k \in -1..LastBar(h) /\ k <= MaxBarsBack /\ k - 1 <= MaxBarsBack
    BY <1>1, <2>1
  <2>3. CASE k < 2
    <3>1. k < LabelSpan /\ k - 1 < LabelSpan
      BY <1>1, <2>2, <2>3
    <3>2. SignalAt(h, k) = 0 /\ SignalAt(h, k - 1) = 0
      BY <2>2, <3>1, SilentState DEF SignalAt
    <3> QED BY <2>1, <3>2
  <2> QED BY <2>2, <2>3
<1> QED BY <1>2

LEMMA EarlyIs ==
    ASSUME NEW h \in Seq(Shapes), Len(h) <= MaxBarsBack + 1, NEW b \in 0..LastBar(h),
           NEW exits, Remembers(h, b - 1, exits)
    PROVE  (\E n \in 1..3 : exits.changedWindow[n]) <=> (b >= 3 /\ Flips(h) \cap (b - 3)..(b - 1) # {})
<1>1. b \in Int /\ b - 1 - 2 = b - 3 /\ b - 1 - 1 = b - 2
  OBVIOUS
<1>2. \A k \in Flips(h) : k \in Int /\ k >= 2
  BY FlipsLate
<1>3. PICK u, v, w \in BOOLEAN :
            /\ exits.changedWindow = <<u, v, w>>
            /\ (u <=> b - 3 \in Flips(h)) /\ (v <=> b - 2 \in Flips(h)) /\ (w <=> b - 1 \in Flips(h))
  BY <1>1 DEF Remembers
<1>4. (\E n \in 1..3 : exits.changedWindow[n]) <=> (u \/ v \/ w)
  <2> DEFINE x == exits.changedWindow
  <2>1. x[1] = u /\ x[2] = v /\ x[3] = w
    BY <1>3
  <2> HIDE DEF x
  <2>2. (\E n \in 1..3 : x[n]) <=> (x[1] \/ x[2] \/ x[3])
    <3>1. \A n : n \in 1..3 <=> n = 1 \/ n = 2 \/ n = 3
      OBVIOUS
    <3> QED BY ONLY <3>1
  <2> QED BY <2>1, <2>2 DEF x
<1>5. \A k : k \in (b - 3)..(b - 1) <=> k = b - 3 \/ k = b - 2 \/ k = b - 1
  BY <1>1
<1>6. Flips(h) \cap (b - 3)..(b - 1) # {} <=> (u \/ v \/ w)
  BY <1>3, <1>5
<1>7. (u \/ v \/ w) => b >= 3
  BY <1>1, <1>2, <1>3
<1> QED BY <1>4, <1>6, <1>7

LEMMA OutcomeIs ==
    ASSUME NEW h \in Seq(Shapes), Len(h) <= MaxBarsBack + 1, NEW n \in 1..Len(h)
    PROVE  Outcome(h, n) = HistoricalEvents(h)[n]
<1> DEFINE b == n - 1
           s == StateAt(h, b - 1)
           t == StateAt(h, b)
           queue == Scanned(h, b, s.queue)
           changed == t.signal # s.signal
           long == t.signal = 1 /\ changed /\ Rate(h, b) = "rising"
           short == t.signal = -1 /\ changed /\ Rate(h, b) = "falling"
           endsLong == b \in Bearish(h) /\ Outlasts(BarsSince(Bearish(h), b - 1), s.exits.sinceGreenEntry)
           endsShort == b \in Bullish(h) /\ Outlasts(BarsSince(Bullish(h), b - 1), s.exits.sinceRedEntry)
           early == changed /\ \E k \in 1..3 : s.exits.changedWindow[k]
<1>1. /\ b \in 0..LastBar(h) /\ b - 1 \in -1..LastBar(h) /\ b <= MaxBarsBack /\ b - 1 <= MaxBarsBack
      /\ b - 1 = n - 2 /\ b \in Int
  BY LenProperties, EngineAssumption DEF LastBar
<1>2. t.queue = queue /\ t.signal = SignalAfter(s.signal, Votes(t.queue), Passes(h, b))
  BY <1>1, StateFields
<1>3. Outcome(h, n) = EventOf(h, b, long, short, endsLong, endsShort, early)
  <2>1. Outcome(h, n) = Step(h, b, s, queue, Votes(queue)).result
    BY <1>1 DEF Outcome, Evaluated
  <2>2. t.signal = SignalAfter(s.signal, Votes(queue), Passes(h, b)) /\ Votes(queue) = Votes(t.queue)
    BY <1>2
  <2> HIDE DEF s, t, queue, b
  <2>3. Step(h, b, s, queue, Votes(queue)).result =
          [signal |-> CASE long -> "BUY" [] short -> "SELL" [] OTHER -> "NEUTRAL",
           price |-> At(h, b).close, prediction |-> Votes(queue),
           endLong |-> endsLong, endShort |-> endsShort, earlyFlip |-> early]
    BY <2>2 DEF Step, Exits, Bearish, Bullish
  <2> QED BY <2>1, <2>2, <2>3 DEF EventOf, t
<1>4. Remembers(h, b - 1, s.exits)
  BY <1>1, StateRemembers
<1>5. /\ s.exits.sinceGreenEntry = BarsSince(Longs(h), b - 1)
      /\ s.exits.sinceRedEntry = BarsSince(Shorts(h), b - 1)
  BY <1>4 DEF Remembers
<1>6. (changed <=> b \in Flips(h)) /\ (long <=> b \in Longs(h)) /\ (short <=> b \in Shorts(h))
  BY <1>1 DEF Flips, Longs, Shorts, SignalAt
<1>7. /\ endsLong <=> b \in ExitsOf(h, TRUE).long
      /\ endsShort <=> b \in ExitsOf(h, TRUE).short
  <2>1. /\ ExitsOf(h, TRUE).long =
              {k \in Bearish(h) : Outlasts(BarsSince(Bearish(h), k - 1), BarsSince(Longs(h), k - 1))}
        /\ ExitsOf(h, TRUE).short =
              {k \in Bullish(h) : Outlasts(BarsSince(Bullish(h), k - 1), BarsSince(Shorts(h), k - 1))}
    BY EntriesAre DEF ExitsOf, DynamicExits, Bearish, Bullish
  <2> HIDE DEF b, s
  <2> QED BY <1>5, <2>1
<1>8. early <=> b \in EarlyFlips(Flips(h))
  <2>1. (\E k \in 1..3 : s.exits.changedWindow[k]) <=> (b >= 3 /\ Flips(h) \cap (b - 3)..(b - 1) # {})
    BY <1>1, <1>4, EarlyIs
  <2>2. b \in EarlyFlips(Flips(h)) <=> b \in Flips(h) /\ b >= 3 /\ Flips(h) \cap (b - 3)..(b - 1) # {}
    BY DEF EarlyFlips
  <2> QED BY <1>6, <2>1, <2>2
<1>9. /\ long \in BOOLEAN /\ short \in BOOLEAN /\ endsLong \in BOOLEAN /\ endsShort \in BOOLEAN
      /\ early \in BOOLEAN
  OBVIOUS
<1>10. HistoricalEvents(h)[n] =
          EventOf(h, b, b \in Longs(h), b \in Shorts(h), b \in ExitsOf(h, TRUE).long,
                  b \in ExitsOf(h, TRUE).short, b \in EarlyFlips(Flips(h)))
  BY EventsAre DEF HistoricalEvents
<1> HIDE DEF b, long, short, endsLong, endsShort, early
<1>11. EventOf(h, b, long, short, endsLong, endsShort, early) =
          EventOf(h, b, b \in Longs(h), b \in Shorts(h), b \in ExitsOf(h, TRUE).long,
                  b \in ExitsOf(h, TRUE).short, b \in EarlyFlips(Flips(h)))
  <2> DEFINE q1 == b \in Longs(h)
             q2 == b \in Shorts(h)
             q3 == b \in ExitsOf(h, TRUE).long
             q4 == b \in ExitsOf(h, TRUE).short
             q5 == b \in EarlyFlips(Flips(h))
  <2>1. (long <=> q1) /\ (short <=> q2) /\ (endsLong <=> q3) /\ (endsShort <=> q4) /\ (early <=> q5)
    BY <1>6, <1>7, <1>8
  <2>2. q1 \in BOOLEAN /\ q2 \in BOOLEAN /\ q3 \in BOOLEAN /\ q4 \in BOOLEAN /\ q5 \in BOOLEAN
    OBVIOUS
  <2> HIDE DEF q1, q2, q3, q4, q5
  <2>3. EventOf(h, b, long, short, endsLong, endsShort, early) = EventOf(h, b, q1, q2, q3, q4, q5)
    BY ONLY <1>9, <2>1, <2>2, EventOfSame
  <2> QED BY <2>3 DEF q1, q2, q3, q4, q5
<1> QED BY <1>3, <1>10, <1>11

(* "This is not an approximation" (fast_predict.py): with the state kept   *)
(* between runs or bootstrapped, every bar the live pipeline evaluated     *)
(* gave the events the batch engine gives it in the whole history, however *)
(* many candles came since, as long as max_bars_back covers them.          *)
THEOREM LiveIsBacktest == Spec => []LiveAsBacktest
<1>1. RunsInv => LiveAsBacktest
  <2> SUFFICES ASSUME RunsInv, NEW n \in DOMAIN results, results[n] # NoResult,
                      Len(history) <= MaxBarsBack + 1
               PROVE  results[n] = HistoricalEvents(history)[n]
    BY DEF LiveAsBacktest
  <2>1. history \in Seq(Shapes) /\ Sequential(results) /\ Len(results) <= Len(history)
    BY DEF RunsInv
  <2>2. n \in 1..Len(results) /\ Len(results) \in Nat /\ Len(history) \in Nat
    BY <2>1, LenProperties DEF Sequential
  <2>3. n \in 1..Len(history) /\ n <= MaxBarsBack + 1
    BY <2>1, <2>2, EngineAssumption
  <2>4. results[n] = Outcome(history, n)
    BY <2>3 DEF RunsInv, ResultsOK
  <2> QED BY <2>1, <2>3, <2>4, OutcomeIs
<1> QED BY <1>1, RunsHold, PTL

-------------------------------------------------------------------------------
(* What a prefix of the history knows of its bars.                         *)

LEMMA PrefixOfPrefix ==
    ASSUME NEW h \in Seq(Shapes), NEW b \in -1..LastBar(h), NEW c \in -1..b
    PROVE  Prefix(Prefix(h, b), c) = Prefix(h, c)
<1> DEFINE g == Prefix(h, b)
<1>1. LastBar(h) \in Int /\ b \in Int /\ c \in Int /\ c \in -1..LastBar(h)
  BY LenProperties DEF LastBar
<1>2. g \in Seq(Shapes) /\ Len(g) = b + 1 /\ LastBar(g) = b /\ Agree(g, h, b)
  BY PrefixIs
<1> HIDE DEF g
<1>3. c \in -1..LastBar(g)
  BY <1>1, <1>2
<1>4. /\ Prefix(g, c) \in Seq(Shapes) /\ Len(Prefix(g, c)) = c + 1 /\ Agree(Prefix(g, c), g, c)
  BY <1>2, <1>3, PrefixIs
<1>5. /\ Prefix(h, c) \in Seq(Shapes) /\ Len(Prefix(h, c)) = c + 1 /\ Agree(Prefix(h, c), h, c)
  BY <1>1, PrefixIs
<1> DEFINE p == Prefix(g, c)
           q == Prefix(h, c)
<1>6. \A k \in 1..(c + 1) : p[k] = q[k]
  <2>1. \A k \in 0..c : At(p, k) = At(q, k)
    BY <1>1, <1>2, <1>4, <1>5 DEF Agree
  <2> HIDE DEF p, q
  <2>2. ASSUME NEW k \in 1..(c + 1) PROVE p[k] = q[k]
    <3>1. k - 1 \in 0..c /\ (k - 1) + 1 = k
      BY <1>1
    <3> QED BY <2>1, <3>1 DEF At
  <2> QED BY <2>2
<1>7. p \in Seq(Shapes) /\ q \in Seq(Shapes) /\ Len(p) = Len(q) /\ Len(p) = c + 1
  BY <1>4, <1>5
<1> HIDE DEF p, q
<1>8. p = q
  BY <1>6, <1>7, SeqEqual
<1> QED BY <1>8 DEF p, q, g

LEMMA PrefixKnows ==
    ASSUME NEW h \in Seq(Shapes), NEW b \in 0..LastBar(h), NEW g, g = Prefix(h, b)
    PROVE  /\ \A c \in -1..b : StateAt(g, c) = StateAt(h, c) /\ SignalAt(g, c) = SignalAt(h, c)
           /\ \A k : k \in Flips(g) <=> k \in Flips(h) /\ k <= b
           /\ \A k : k \in Longs(g) <=> k \in Longs(h) /\ k <= b
           /\ \A k : k \in Shorts(g) <=> k \in Shorts(h) /\ k <= b
<1>1. /\ g \in Seq(Shapes) /\ LastBar(g) = b /\ Agree(g, h, b)
      /\ LastBar(h) \in Int /\ b \in Int /\ b \in -1..LastBar(h) /\ b <= LastBar(h)
  BY PrefixIs, LenProperties DEF LastBar
<1>2. \A c \in -1..b : StateAt(g, c) = StateAt(h, c) /\ SignalAt(g, c) = SignalAt(h, c)
  BY <1>1, PrefixOfPrefix DEF StateAt, SignalAt
<1>3. \A k \in 0..b : Rate(g, k) = Rate(h, k)
  BY <1>1 DEF Rate, Agree
<1>4. \A k : k \in 0..LastBar(g) <=> k \in 0..LastBar(h) /\ k <= b
  BY <1>1
<1>5. \A k \in 0..b : k \in -1..b /\ k - 1 \in -1..b
  BY <1>1
<1>6. \A k : k \in Flips(g) <=> k \in Flips(h) /\ k <= b
  <2>1. \A k : k \in Flips(g) <=> k \in 0..b /\ SignalAt(g, k) # SignalAt(g, k - 1)
    BY <1>1 DEF Flips
  <2>2. \A k : k \in Flips(h) <=> k \in 0..LastBar(h) /\ SignalAt(h, k) # SignalAt(h, k - 1)
    BY DEF Flips
  <2> QED BY <1>1, <1>2, <1>4, <1>5, <2>1, <2>2
<1>7. \A k \in Flips(g) : k \in 0..b /\ SignalAt(g, k) = SignalAt(h, k) /\ Rate(g, k) = Rate(h, k)
  <2>1. \A k \in Flips(g) : k \in 0..b
    BY <1>1 DEF Flips
  <2> QED BY <1>2, <1>3, <1>5, <2>1
<1> QED BY <1>2, <1>6, <1>7 DEF Longs, Shorts

(* Whether the strict exit of a side comes with bar b.                     *)
StrictEnd(h, b, side, started) ==
    /\ b - HoldSpan \in started /\ SignalAt(h, b - HoldSpan) = side
    /\ \/ BarsHeld(Flips(h), b) = HoldSpan
       \/ /\ BarsHeld(Flips(h), b) \in 1..HoldSpan - 1
          /\ b \in Flips(h) /\ SignalAt(h, b) = -side

LEMMA StrictAre ==
    ASSUME NEW h \in Seq(Shapes), Len(h) <= MaxBarsBack + 1, NEW b \in 0..LastBar(h)
    PROVE  /\ b \in ExitsOf(h, FALSE).long <=> StrictEnd(h, b, 1, Longs(h))
           /\ b \in ExitsOf(h, FALSE).short <=> StrictEnd(h, b, -1, Shorts(h))
<1>1. /\ Len(h) \in Nat /\ LastBar(h) = Len(h) - 1 /\ b \in Int /\ Bars(h) = 0..LastBar(h)
      /\ HoldSpan \in Int
      /\ \A k \in 0..LastBar(h) : Classified(h)[k + 1].signal = SignalAt(h, k)
  BY ClassifiedAt, ClassFields, EngineAssumption DEF LastBar, Bars
<1>2. \A k : k \in Longs(h) \/ k \in Shorts(h) => k \in 0..LastBar(h)
  BY DEF Longs, Shorts, Flips
<1>3. b - HoldSpan + 1 = (b - HoldSpan) + 1
  OBVIOUS
<1>4. \A k : k \in ExitsOf(h, FALSE).long <=>
             /\ k \in Bars(h)
             /\ k - HoldSpan \in Longs(h) /\ Classified(h)[k - HoldSpan + 1].signal = 1
             /\ \/ BarsHeld(Flips(h), k) = HoldSpan
                \/ /\ BarsHeld(Flips(h), k) \in 1..HoldSpan - 1
                   /\ k \in Flips(h) /\ Classified(h)[k + 1].signal = -1
  BY ChangedAre, EntriesAre DEF ExitsOf, StrictExits
<1>5. \A k : k \in ExitsOf(h, FALSE).short <=>
             /\ k \in Bars(h)
             /\ k - HoldSpan \in Shorts(h) /\ Classified(h)[k - HoldSpan + 1].signal = -1
             /\ \/ BarsHeld(Flips(h), k) = HoldSpan
                \/ /\ BarsHeld(Flips(h), k) \in 1..HoldSpan - 1
                   /\ k \in Flips(h) /\ Classified(h)[k + 1].signal = -(-1)
  BY ChangedAre, EntriesAre DEF ExitsOf, StrictExits
<1> QED BY <1>1, <1>2, <1>4, <1>5 DEF StrictEnd

LEMMA HeldSame ==
    ASSUME NEW A, NEW B, NEW b, \A k : k \in B <=> k \in A /\ k <= b
    PROVE  BarsHeld(B, b) = BarsHeld(A, b)
<1>1. {k \in B : k <= b} = {k \in A : k <= b}
  OBVIOUS
<1> QED BY <1>1 DEF BarsHeld

LEMMA StrictSame ==
    ASSUME NEW h \in Seq(Shapes), NEW b \in 0..LastBar(h), NEW g, g = Prefix(h, b)
    PROVE  /\ StrictEnd(g, b, 1, Longs(g)) <=> StrictEnd(h, b, 1, Longs(h))
           /\ StrictEnd(g, b, -1, Shorts(g)) <=> StrictEnd(h, b, -1, Shorts(h))
<1>1. b \in Int /\ b \in -1..b /\ HoldSpan \in Int /\ HoldSpan >= 1 /\ b - HoldSpan <= b
  BY EngineAssumption
<1>2. BarsHeld(Flips(g), b) = BarsHeld(Flips(h), b) /\ (b \in Flips(g) <=> b \in Flips(h))
  BY <1>1, PrefixKnows, HeldSame
<1>3. SignalAt(g, b) = SignalAt(h, b)
  BY <1>1, PrefixKnows
<1>4. /\ b - HoldSpan \in Longs(g) <=> b - HoldSpan \in Longs(h)
      /\ b - HoldSpan \in Shorts(g) <=> b - HoldSpan \in Shorts(h)
  BY <1>1, PrefixKnows
<1>5. b - HoldSpan \in Longs(h) \/ b - HoldSpan \in Shorts(h) => SignalAt(g, b - HoldSpan) = SignalAt(h, b - HoldSpan)
  <2>1. b - HoldSpan \in Longs(h) \/ b - HoldSpan \in Shorts(h) => b - HoldSpan \in -1..b
    BY <1>1 DEF Longs, Shorts, Flips
  <2> QED BY <2>1, PrefixKnows
<1> QED BY <1>2, <1>3, <1>4, <1>5 DEF StrictEnd

-------------------------------------------------------------------------------
(* A bar validated on the history up to it is what the whole history says. *)

StrictEventIs(h, b) ==
    EventOf(h, b, b \in Longs(h), b \in Shorts(h), StrictEnd(h, b, 1, Longs(h)),
            StrictEnd(h, b, -1, Shorts(h)), b \in EarlyFlips(Flips(h)))

LEMMA StrictEvents ==
    ASSUME NEW h \in Seq(Shapes), Len(h) <= MaxBarsBack + 1, NEW n \in 1..Len(h)
    PROVE  EventsWith(h, FALSE)[n] = StrictEventIs(h, n - 1)
<1> DEFINE b == n - 1
           p1 == b \in Longs(h)
           p2 == b \in Shorts(h)
           p3 == b \in ExitsOf(h, FALSE).long
           p4 == b \in ExitsOf(h, FALSE).short
           p5 == b \in EarlyFlips(Flips(h))
           q3 == StrictEnd(h, b, 1, Longs(h))
           q4 == StrictEnd(h, b, -1, Shorts(h))
<1>1. b \in 0..LastBar(h)
  BY LenProperties DEF LastBar
<1>2. (p3 <=> q3) /\ (p4 <=> q4)
  BY <1>1, StrictAre
<1>3. p1 \in BOOLEAN /\ p2 \in BOOLEAN /\ p3 \in BOOLEAN /\ p4 \in BOOLEAN /\ p5 \in BOOLEAN
  OBVIOUS
<1>4. q3 \in BOOLEAN /\ q4 \in BOOLEAN
  BY DEF StrictEnd
<1>5. EventsWith(h, FALSE)[n] = EventOf(h, b, p1, p2, p3, p4, p5)
  BY EventsAre
<1> HIDE DEF b, p1, p2, p3, p4, p5, q3, q4
<1>6. EventOf(h, b, p1, p2, p3, p4, p5) = EventOf(h, b, p1, p2, q3, q4, p5)
  BY ONLY <1>2, <1>3, <1>4, EventOfSame
<1> QED BY <1>5, <1>6 DEF StrictEventIs, b, p1, p2, p5, q3, q4

LEMMA EarlySame ==
    ASSUME NEW A, NEW B, NEW b \in Int, \A k : k \in B <=> k \in A /\ k <= b
    PROVE  b \in EarlyFlips(B) <=> b \in EarlyFlips(A)
<1>1. \A k \in (b - 3)..(b - 1) : k <= b
  OBVIOUS
<1>2. B \cap (b - 3)..(b - 1) = A \cap (b - 3)..(b - 1)
  BY <1>1
<1> QED BY <1>2 DEF EarlyFlips

LEMMA StrictEventSame ==
    ASSUME NEW h \in Seq(Shapes), NEW b \in 0..LastBar(h), NEW g, g = Prefix(h, b)
    PROVE  StrictEventIs(g, b) = StrictEventIs(h, b)
<1> DEFINE p1 == b \in Longs(g)
           p2 == b \in Shorts(g)
           p3 == StrictEnd(g, b, 1, Longs(g))
           p4 == StrictEnd(g, b, -1, Shorts(g))
           p5 == b \in EarlyFlips(Flips(g))
           q1 == b \in Longs(h)
           q2 == b \in Shorts(h)
           q3 == StrictEnd(h, b, 1, Longs(h))
           q4 == StrictEnd(h, b, -1, Shorts(h))
           q5 == b \in EarlyFlips(Flips(h))
<1>1. b \in Int /\ b \in -1..b /\ b <= b /\ b \in 0..b
  OBVIOUS
<1>2. p1 <=> q1
  BY <1>1, PrefixKnows
<1>3. p2 <=> q2
  BY <1>1, PrefixKnows
<1>4. (p3 <=> q3) /\ (p4 <=> q4)
  BY StrictSame
<1>5. p5 <=> q5
  BY <1>1, PrefixKnows, EarlySame
<1>6. /\ p1 \in BOOLEAN /\ p2 \in BOOLEAN /\ p3 \in BOOLEAN /\ p4 \in BOOLEAN /\ p5 \in BOOLEAN
      /\ q1 \in BOOLEAN /\ q2 \in BOOLEAN /\ q3 \in BOOLEAN /\ q4 \in BOOLEAN /\ q5 \in BOOLEAN
  BY DEF StrictEnd
<1>7. StrictEventIs(g, b) = EventOf(g, b, p1, p2, p3, p4, p5)
  BY DEF StrictEventIs
<1>8. StrictEventIs(h, b) = EventOf(h, b, q1, q2, q3, q4, q5)
  BY DEF StrictEventIs
<1>9. At(g, b) = At(h, b) /\ StateAt(g, b) = StateAt(h, b)
  <2>1. b \in -1..LastBar(h)
    BY LenProperties DEF LastBar
  <2>2. Agree(g, h, b)
    BY <2>1, PrefixIs
  <2> QED BY <1>1, <2>2, PrefixKnows DEF Agree
<1> HIDE DEF p1, p2, p3, p4, p5, q1, q2, q3, q4, q5
<1>10. EventOf(g, b, p1, p2, p3, p4, p5) = EventOf(h, b, p1, p2, p3, p4, p5)
  BY <1>9 DEF EventOf
<1>11. EventOf(h, b, p1, p2, p3, p4, p5) = EventOf(h, b, q1, q2, q3, q4, q5)
  BY ONLY <1>2, <1>3, <1>4, <1>5, <1>6, EventOfSame
<1> QED BY <1>7, <1>8, <1>10, <1>11

LEMMA EventsLength ==
    ASSUME NEW h \in Seq(Shapes), NEW dynamic
    PROVE  Len(EventsWith(h, dynamic)) = Len(h)
<1> DEFINE e == EventsWith(h, dynamic)
           S == {e[n] : n \in 1..Len(h)}
<1>1. Len(h) \in Nat /\ DOMAIN e = 1..Len(h) /\ e = [n \in 1..Len(h) |-> e[n]]
  BY LenProperties DEF EventsWith
<1> HIDE DEF e
<1>2. \A n \in 1..Len(h) : e[n] \in S
  OBVIOUS
<1> HIDE DEF S
<1>3. e \in Seq(S)
  BY <1>1, <1>2
<1>4. Len(e) \in Nat /\ DOMAIN e = 1..Len(e)
  BY <1>3, LenProperties
<1>5. Len(e) = Len(h)
  BY <1>1, <1>4
<1> QED BY <1>5 DEF e

LEMMA ValidatedIs ==
    ASSUME NEW h \in Seq(Shapes), Len(h) <= MaxBarsBack + 1, NEW n \in 1..Len(h)
    PROVE  ValidationHistory(h)[n] = EventsWith(h, FALSE)[n]
<1> DEFINE g == Prefix(h, n - 1)
<1>1. n - 1 \in 0..LastBar(h) /\ n - 1 \in -1..LastBar(h) /\ (n - 1) + 1 = n
  BY LenProperties DEF LastBar
<1>2. g \in Seq(Shapes) /\ Len(g) = n
  BY <1>1, PrefixIs
<1>3. ValidationHistory(h)[n] = Last(EventsWith(g, FALSE))
  BY DEF ValidationHistory, Analyze
<1>4. StrictEventIs(g, n - 1) = StrictEventIs(h, n - 1)
  BY <1>1, StrictEventSame
<1> HIDE DEF g
<1>5. Len(EventsWith(g, FALSE)) = n
  BY <1>2, EventsLength
<1>6. Last(EventsWith(g, FALSE)) = EventsWith(g, FALSE)[n]
  BY <1>5 DEF Last
<1>7. n \in 1..Len(g) /\ Len(g) <= MaxBarsBack + 1
  BY <1>2, LenProperties, EngineAssumption
<1>8. EventsWith(g, FALSE)[n] = StrictEventIs(g, n - 1)
  BY <1>2, <1>7, StrictEvents
<1>9. EventsWith(h, FALSE)[n] = StrictEventIs(h, n - 1)
  BY StrictEvents
<1> QED BY <1>3, <1>4, <1>6, <1>8, <1>9

(* No bar repaints: every row of the validation CSV, computed on the       *)
(* history up to its bar with the default settings' strict exits, is what  *)
(* one pass over the whole history says of that bar (validation/runner.py, *)
(* _run_every_bar; alpha_engine.py, _predict), as long as max_bars_back    *)
(* covers the history.                                                     *)
THEOREM NothingRepaints == Spec => []NeverRepaints
<1>1. RunsInv => NeverRepaints
  <2> SUFFICES ASSUME RunsInv, Len(history) <= MaxBarsBack + 1
               PROVE  ValidationHistory(history) = EventsWith(history, FALSE)
    BY DEF NeverRepaints
  <2> DEFINE v == ValidationHistory(history)
             e == EventsWith(history, FALSE)
  <2>1. history \in Seq(Shapes)
    BY DEF RunsInv
  <2>2. \A n \in 1..Len(history) : v[n] = e[n]
    BY <2>1, ValidatedIs
  <2>3. v = [n \in 1..Len(history) |-> v[n]]
    BY DEF ValidationHistory
  <2>4. e = [n \in 1..Len(history) |-> e[n]]
    BY DEF EventsWith
  <2> HIDE DEF v, e
  <2>5. v = e
    BY <2>2, <2>3, <2>4
  <2> QED BY <2>5 DEF v, e
<1> QED BY <1>1, RunsHold, PTL

-------------------------------------------------------------------------------
(* Whatever max_bars_back covers: the signal has three values, and no      *)
(* counter runs ahead of the bars.                                         *)

StateTyped(s, b) ==
    /\ s \in EngineStates /\ Len(s.queue) <= NeighborsCount
    /\ s.signal = -1 \/ s.signal = 0 \/ s.signal = 1
    /\ s.exits.sinceRedEntry \in Int /\ s.exits.sinceRedEntry >= -1 /\ s.exits.sinceRedEntry <= b
    /\ s.exits.sinceGreenEntry \in Int /\ s.exits.sinceGreenEntry >= -1 /\ s.exits.sinceGreenEntry <= b

Neighbours == [distance : Int, label : -1..1]

QueueTyped(queue) == queue \in Seq(Neighbours) /\ Len(queue) <= NeighborsCount

LEMMA AdmittedTyped ==
    ASSUME NEW queue, QueueTyped(queue), NEW d \in Int, NEW label \in -1..1
    PROVE  QueueTyped(Admitted(queue, d, label).queue)
<1> DEFINE x == [distance |-> d, label |-> label]
           longer == Append(queue, x)
<1>1. x \in Neighbours /\ queue \in Seq(Neighbours) /\ Len(queue) <= NeighborsCount /\ NeighborsCount \in Nat
  BY EngineAssumption DEF Neighbours, QueueTyped
<1> HIDE DEF x
<1>2. longer \in Seq(Neighbours) /\ Len(longer) = Len(queue) + 1 /\ Len(queue) \in Nat /\ longer # <<>>
  BY <1>1, AppendProperties, LenProperties
<1>3. Admitted(queue, d, label).queue = IF Len(longer) > NeighborsCount THEN Tail(longer) ELSE longer
  BY DEF Admitted, x
<1> HIDE DEF longer
<1>4. Tail(longer) \in Seq(Neighbours) /\ Len(Tail(longer)) = Len(longer) - 1
  BY <1>2, HeadTailProperties
<1> QED BY <1>1, <1>2, <1>3, <1>4 DEF QueueTyped

LEMMA ScannedTyped ==
    ASSUME NEW h \in Seq(Shapes), NEW b \in 0..LastBar(h), NEW queue, QueueTyped(queue)
    PROVE  QueueTyped(Scanned(h, b, queue))
<1> DEFINE size == ScanSize(b)
<1>1. Len(h) \in Nat /\ LastBar(h) = Len(h) - 1 /\ b \in Nat /\ b < Len(h)
  BY LenProperties DEF LastBar
<1>2. size \in Int /\ size >= -1 /\ size <= b
  BY <1>1, ScannedIs
<1>3. PICK f : Scans(f, h, b, queue, size) /\ Scanned(h, b, queue) = f[size].queue
  BY <1>1, ScannedIs
<1> HIDE DEF size
<1>4. /\ f[-1] = ScanStart(queue)
      /\ \A i \in 0..size : f[i] = ScanStep(h, b, i, f[i - 1])
  BY <1>2, <1>3, ScanStepwise
<1> DEFINE Good == {i \in -1..size : QueueTyped(f[i].queue)}
<1>5. -1 \in Good
  BY <1>2, <1>4 DEF ScanStart
<1>6. ASSUME NEW i \in 0..size, i - 1 \in Good PROVE i \in Good
  <2>1. i \in 0..LastBar(h) /\ i \in -1..size /\ i \in Int
    BY <1>1, <1>2
  <2>2. QueueTyped(f[i - 1].queue)
    BY <1>6
  <2>3. Distance(h, b, i) \in Int
    <3>1. h[b + 1] \in Shapes /\ h[i + 1] \in Shapes
      BY <1>1, <2>1, ElementOfSeq
    <3>2. h[b + 1].feature \in Nat /\ h[i + 1].feature \in Nat
      BY <3>1, RunsAssumption
    <3>3. Feature(h, b) \in Nat /\ Feature(h, i) \in Nat
      BY <3>2 DEF Feature, At
    <3> HIDE DEF Good
    <3> QED BY <3>3 DEF Distance
  <2>4. Label(h, i) \in -1..1
    <3>1. Label(h, i) = 0 \/ Label(h, i) = -1 \/ Label(h, i) = 1
      BY DEF Label
    <3> QED BY <3>1
  <2>5. QueueTyped(ScanStep(h, b, i, f[i - 1]).queue)
    BY <2>2, <2>3, <2>4, AdmittedTyped DEF ScanStep
  <2> QED BY <1>4, <2>1, <2>5
<1> HIDE DEF Good
<1>7. \A i \in -1..size : i \in Good
  BY <1>2, <1>5, <1>6, InductionFromBefore
<1>8. size \in Good
  BY <1>2, <1>7
<1> QED BY <1>3, <1>8 DEF Good

LEMMA NextCountTyped ==
    ASSUME NEW starts, NEW c \in Int, c >= -1, NEW b \in Int, b >= 0, c <= b - 1
    PROVE  NextCount(starts, c) \in Int /\ NextCount(starts, c) >= -1 /\ NextCount(starts, c) <= b
BY DEF NextCount

LEMMA WindowTyped ==
    ASSUME NEW w \in [1..3 -> BOOLEAN], NEW changed \in BOOLEAN
    PROVE  Append(Tail(w), changed) \in [1..3 -> BOOLEAN]
<1>1. w \in Seq(BOOLEAN) /\ Len(w) = 3
  BY SeqDef, LenProperties
<1>2. w # <<>>
  BY <1>1, EmptySeq
<1>3. Tail(w) \in Seq(BOOLEAN) /\ Len(Tail(w)) = 2
  BY <1>1, <1>2, HeadTailProperties
<1> DEFINE r == Append(Tail(w), changed)
<1>4. r \in Seq(BOOLEAN) /\ Len(r) = 3
  BY <1>3, AppendProperties
<1> HIDE DEF r
<1>5. r \in [1..3 -> BOOLEAN]
  BY <1>4, LenProperties
<1> QED BY <1>5 DEF r

LEMMA EvaluatedTyped ==
    ASSUME NEW h \in Seq(Shapes), NEW b \in 0..LastBar(h), NEW s, StateTyped(s, b - 1)
    PROVE  StateTyped(Evaluated(h, b, s).state, b)
<1> DEFINE queue == Scanned(h, b, s.queue)
           signal == SignalAfter(s.signal, Votes(queue), Passes(h, b))
           changed == signal # s.signal
           long == signal = 1 /\ changed /\ Rate(h, b) = "rising"
           short == signal = -1 /\ changed /\ Rate(h, b) = "falling"
           t == Evaluated(h, b, s).state
           red == s.exits.sinceRedEntry
           green == s.exits.sinceGreenEntry
           window == s.exits.changedWindow
           moved == Append(Tail(window), changed)
<1>1. signal = -1 \/ signal = 0 \/ signal = 1
  BY DEF SignalAfter, StateTyped
<1>2. t = [signal |-> signal, queue |-> queue,
           exits |-> [sinceRedEntry |-> NextCount(short, red), sinceGreenEntry |-> NextCount(long, green),
                      changedWindow |-> moved]]
  <2> HIDE DEF queue
  <2> QED BY DEF Evaluated, Step, AdvancedExitState, queue
<1>3. red \in Int /\ red >= -1 /\ red <= b - 1 /\ green \in Int /\ green >= -1 /\ green <= b - 1
  BY DEF StateTyped
<1>4. b \in Int /\ b >= 0
  BY LenProperties DEF LastBar
<1>5. s \in EngineStates /\ Len(s.queue) <= NeighborsCount
  BY DEF StateTyped
<1>6. QueueTyped(queue)
  <2>1. QueueTyped(s.queue)
    BY <1>5 DEF QueueTyped, EngineStates, Neighbours
  <2> QED BY <2>1, ScannedTyped
<1>7. moved \in [1..3 -> BOOLEAN]
  <2>1. window \in [1..3 -> BOOLEAN] /\ changed \in BOOLEAN
    BY <1>5 DEF EngineStates
  <2> HIDE DEF window, changed
  <2> QED BY <2>1, WindowTyped
<1> HIDE DEF queue, signal, changed, long, short, t, red, green, window, moved
<1> DEFINE reds == NextCount(short, red)
           greens == NextCount(long, green)
<1>8. /\ reds \in Int /\ reds >= -1 /\ reds <= b
      /\ greens \in Int /\ greens >= -1 /\ greens <= b
  BY <1>3, <1>4, NextCountTyped
<1>9. t = [signal |-> signal, queue |-> queue,
           exits |-> [sinceRedEntry |-> reds, sinceGreenEntry |-> greens, changedWindow |-> moved]]
  BY <1>2
<1> HIDE DEF reds, greens
<1>10. t \in EngineStates
  <2>1. signal \in -1..1 /\ queue \in Seq([distance : Int, label : -1..1])
    BY <1>1, <1>6 DEF QueueTyped, Neighbours
  <2> QED BY <1>7, <1>8, <1>9, <2>1 DEF EngineStates
<1>11. /\ t.signal = signal /\ t.queue = queue
       /\ t.exits.sinceRedEntry = reds /\ t.exits.sinceGreenEntry = greens
  BY <1>9
<1>12. StateTyped(t, b)
  BY <1>1, <1>6, <1>8, <1>10, <1>11 DEF StateTyped, QueueTyped
<1> QED BY <1>12 DEF t

BootsFrom(f, h, lo, n) ==
    f = [b \in lo..n |-> IF b = lo THEN QueueState ELSE Evaluated(h, b, f[b - 1]).state]

LEMMA BootsFromStepwise ==
    ASSUME NEW lo \in Int, NEW n \in Int, n >= lo, NEW f, NEW h, BootsFrom(f, h, lo, n)
    PROVE  f[lo] = QueueState /\ \A b \in (lo + 1)..n : f[b] = Evaluated(h, b, f[b - 1]).state
<1>1. \A b \in lo..n : f[b] = IF b = lo THEN QueueState ELSE Evaluated(h, b, f[b - 1]).state
  BY DEF BootsFrom
<1>2. lo \in lo..n /\ \A b \in (lo + 1)..n : b \in lo..n /\ b # lo
  OBVIOUS
<1> QED BY <1>1, <1>2

LEMMA BootsFromExists ==
    ASSUME NEW lo \in Int, NEW n \in Int, n >= lo, NEW h
    PROVE  \E f : BootsFrom(f, h, lo, n)
<1> DEFINE Good == {k \in lo..n : \E f : BootsFrom(f, h, lo, k)}
<1>1. lo \in Good
  <2>1. PICK f : f = [b \in lo..lo |-> QueueState]
    OBVIOUS
  <2>2. \A b \in lo..lo : b = lo
    OBVIOUS
  <2>3. BootsFrom(f, h, lo, lo)
    BY <2>1, <2>2 DEF BootsFrom
  <2> QED BY <2>3
<1>2. ASSUME NEW k \in (lo + 1)..n, k - 1 \in Good PROVE k \in Good
  <2>1. PICK g : BootsFrom(g, h, lo, k - 1)
    BY <1>2
  <2> DEFINE e == [b \in lo..k |-> IF b < k THEN g[b] ELSE Evaluated(h, k, g[k - 1]).state]
  <2>2. PICK f : f = e
    OBVIOUS
  <2>3. k \in Int /\ k > lo /\ k - 1 \in Int /\ k - 1 >= lo /\ k \in lo..n
    BY <1>2
  <2>4. g[lo] = QueueState /\ \A b \in (lo + 1)..(k - 1) : g[b] = Evaluated(h, b, g[b - 1]).state
    BY ONLY lo \in Int, <2>1, <2>3, BootsFromStepwise
  <2>5. (\A b \in lo..(k - 1) : f[b] = g[b]) /\ f[k] = Evaluated(h, k, g[k - 1]).state
    BY <2>2, <2>3
  <2>6. f = [b \in lo..k |-> f[b]]
    BY <2>2
  <2> HIDE DEF e
  <2>7. ASSUME NEW b \in lo..k PROVE f[b] = IF b = lo THEN QueueState ELSE Evaluated(h, b, f[b - 1]).state
    <3>1. CASE b = lo
      BY <2>3, <2>4, <2>5, <3>1
    <3>2. CASE b # lo
      <4>1. b - 1 \in lo..(k - 1) /\ (b = k \/ (b \in (lo + 1)..(k - 1) /\ b \in lo..(k - 1)))
        BY <2>3, <3>2
      <4> QED BY <2>4, <2>5, <3>2, <4>1
    <3> QED BY <3>1, <3>2
  <2>8. BootsFrom(f, h, lo, k)
    BY ONLY <2>6, <2>7 DEF BootsFrom
  <2> QED BY <2>3, <2>8
<1> HIDE DEF Good
<1>3. \A k \in lo..n : k \in Good
  BY ONLY lo \in Int, n \in Int, n >= lo, <1>1, <1>2, InductionFrom
<1>4. n \in Good
  BY <1>3
<1> QED BY <1>4 DEF Good

LEMMA BootstrapFrom ==
    ASSUME NEW h, Len(h) \in Nat
    PROVE  LET first == MaxBarsBackIndex(Len(h))
           IN  /\ first - 1 \in Int /\ first - 1 >= -1 /\ first - 1 <= LastBar(h)
               /\ \E f : BootsFrom(f, h, first - 1, LastBar(h)) /\ Bootstrap(h) = f[LastBar(h)]
<1> DEFINE first == MaxBarsBackIndex(Len(h))
           n == LastBar(h)
           it == CHOOSE it : it = [b \in first - 1..n |->
                    IF b = first - 1 THEN QueueState
                    ELSE LET before == it[b - 1]
                             queue == Scanned(h, b, before.queue)
                         IN  Step(h, b, before, queue, Votes(queue)).state]
<1>1. Bootstrap(h) = it[n]
  BY DEF Bootstrap
<1>2. first - 1 \in Int /\ first - 1 >= -1 /\ n \in Int /\ n >= first - 1
  <2>1. MaxBarsBack \in Nat /\ MaxBarsBack >= 1
    BY EngineAssumption
  <2> QED BY <2>1 DEF MaxBarsBackIndex, LastBar
<1> HIDE DEF first, n
<1>3. \A f : BootsFrom(f, h, first - 1, n) <=>
                f = [b \in first - 1..n |->
                    IF b = first - 1 THEN QueueState
                    ELSE LET before == f[b - 1]
                             queue == Scanned(h, b, before.queue)
                         IN  Step(h, b, before, queue, Votes(queue)).state]
  BY DEF BootsFrom, Evaluated
<1>4. PICK f : BootsFrom(f, h, first - 1, n)
  BY <1>2, BootsFromExists
<1>5. f = [b \in first - 1..n |->
                    IF b = first - 1 THEN QueueState
                    ELSE LET before == f[b - 1]
                             queue == Scanned(h, b, before.queue)
                         IN  Step(h, b, before, queue, Votes(queue)).state]
  BY ONLY <1>3, <1>4
<1>6. it = [b \in first - 1..n |->
                    IF b = first - 1 THEN QueueState
                    ELSE LET before == it[b - 1]
                             queue == Scanned(h, b, before.queue)
                         IN  Step(h, b, before, queue, Votes(queue)).state]
  BY ONLY <1>5
<1>7. BootsFrom(it, h, first - 1, n)
  BY ONLY <1>3, <1>6
<1> HIDE DEF it
<1> QED BY <1>1, <1>2, <1>7 DEF n, first

LEMMA BootstrapTyped ==
    ASSUME NEW h \in Seq(Shapes)
    PROVE  StateTyped(Bootstrap(h), LastBar(h))
<1> DEFINE lo == MaxBarsBackIndex(Len(h)) - 1
           n == LastBar(h)
<1>1. lo \in Int /\ lo >= -1 /\ lo <= n /\ n \in Int /\ Len(h) \in Nat
  BY BootstrapFrom, LenProperties DEF LastBar
<1>2. PICK f : BootsFrom(f, h, lo, n) /\ Bootstrap(h) = f[n]
  BY <1>1, BootstrapFrom
<1>12. n = LastBar(h)
  OBVIOUS
<1> HIDE DEF lo, n
<1>3. f[lo] = QueueState /\ \A b \in (lo + 1)..n : f[b] = Evaluated(h, b, f[b - 1]).state
  BY <1>1, <1>2, BootsFromStepwise
<1> DEFINE Good == {b \in lo..n : StateTyped(f[b], b)}
<1>4. lo \in Good
  <2>1. StateTyped(QueueState, lo)
    <3>1. QueueState \in EngineStates /\ Len(QueueState.queue) = 0
      <4>1. <<>> \in Seq([distance : Int, label : -1..1]) /\ Len(<<>>) = 0
        BY EmptySeq
      <4>2. <<FALSE, FALSE, FALSE>> \in [1..3 -> BOOLEAN]
        <5>1. PICK w : w = <<FALSE, FALSE, FALSE>>
          OBVIOUS
        <5>2. w \in Seq(BOOLEAN) /\ Len(w) = 3
          BY <5>1
        <5>3. w \in [1..3 -> BOOLEAN]
          BY <5>2, LenProperties
        <5> QED BY <5>1, <5>3
      <4>3. ExitState \in [sinceRedEntry : Int, sinceGreenEntry : Int, changedWindow : [1..3 -> BOOLEAN]]
        BY <4>2 DEF ExitState
      <4> QED BY <4>1, <4>3 DEF EngineStates, QueueState, EmptyQueue
    <3>2. NeighborsCount \in Nat
      BY EngineAssumption
    <3> QED BY <1>1, <3>1, <3>2 DEF StateTyped, QueueState, ExitState
  <2> QED BY <1>1, <1>3, <2>1
<1>5. ASSUME NEW b \in (lo + 1)..n, b - 1 \in Good PROVE b \in Good
  <2>1. b \in Int /\ b >= 0 /\ b \in lo..n /\ b \in 0..LastBar(h)
    BY <1>1, <1>12
  <2>2. StateTyped(f[b - 1], b - 1)
    BY <1>5
  <2>3. StateTyped(f[b], b)
    BY <1>3, <2>1, <2>2, EvaluatedTyped
  <2> QED BY <2>1, <2>3
<1> HIDE DEF Good
<1>6. \A b \in lo..n : b \in Good
  BY ONLY <1>1, <1>4, <1>5, InductionFrom
<1>7. n \in Good
  BY <1>1, <1>6
<1> QED BY <1>2, <1>7 DEF Good, n

(* The kernel has no rate on the first bar, and one ever after.            *)
RatesOK(h) ==
    \A b \in 0..LastBar(h) :
        Rate(h, b) \in {"rising", "falling", "none"} /\ (Rate(h, b) = "none" <=> b = 0)

EngineInv ==
    /\ RunsInv /\ RatesOK(history)
    /\ saved # NoState => StateTyped(saved.state, saved.upTo)

LEMMA EngineStart == Init => EngineInv
<1> SUFFICES ASSUME Init PROVE EngineInv
  OBVIOUS
<1>1. Len(history) = 0 /\ saved = NoState
  BY DEF Init
<1>2. RatesOK(history)
  BY <1>1 DEF RatesOK, LastBar
<1> QED BY <1>1, <1>2, RunsStart DEF EngineInv

LEMMA EngineCandle ==
    ASSUME EngineInv, CandleCloses
    PROVE  EngineInv'
<1>1. RunsInv /\ RatesOK(history) /\ RunsInv' /\ history \in Seq(Shapes)
  BY CandleKeeps DEF EngineInv, RunsInv
<1>2. PICK bar \in PossibleBars(Len(history)) : history' = Append(history, bar)
  BY DEF CandleCloses
<1>3. bar \in Shapes /\ (bar.rate = "none" <=> Len(history) = 0) /\ bar.rate \in {"rising", "falling", "none"}
  BY <1>2, RunsAssumption DEF PossibleBars
<1>4. PICK g : g = history'
  OBVIOUS
<1>5. RatesOK(g)
  <2>1. g \in Seq(Shapes) /\ Len(history) \in Nat /\ Len(g) = Len(history) + 1 /\ Agree(history, g, LastBar(history))
    BY <1>1, <1>2, <1>3, <1>4, CandleAppended
  <2>2. g[Len(history) + 1] = bar
    BY <1>1, <1>2, <1>3, <1>4, AppendProperties
  <2>3. LastBar(history) = Len(history) - 1 /\ LastBar(g) = Len(history)
    BY <2>1 DEF LastBar
  <2>4. ASSUME NEW b \in 0..LastBar(g)
        PROVE  Rate(g, b) \in {"rising", "falling", "none"} /\ (Rate(g, b) = "none" <=> b = 0)
    <3>1. CASE b = Len(history)
      <4>1. Rate(g, b) = bar.rate
        BY <2>1, <2>2, <3>1 DEF Rate, At
      <4> QED BY <1>3, <3>1, <4>1
    <3>2. CASE b # Len(history)
      <4>1. b \in 0..LastBar(history)
        BY <2>1, <2>3, <3>2
      <4>2. Rate(g, b) = Rate(history, b)
        BY <2>1, <4>1 DEF Rate, Agree
      <4> QED BY <1>1, <4>1, <4>2 DEF RatesOK
    <3> QED BY <3>1, <3>2
  <2> QED BY <2>4 DEF RatesOK
<1>6. saved' = saved
  BY DEF CandleCloses
<1> QED BY <1>1, <1>4, <1>5, <1>6 DEF EngineInv

LEMMA EngineEvaluates ==
    ASSUME EngineInv, Evaluate
    PROVE  EngineInv' /\ saved' \in SavedStates
<1> DEFINE n == LastBar(history)
           run == IF saved = NoState THEN FirstResults ELSE FurtherResults
<1>1. /\ RunsInv /\ RunsInv' /\ history \in Seq(Shapes) /\ Len(history) \in Nat /\ n = Len(history) - 1
      /\ Len(results) \in Nat
  BY EvaluateKeeps, LenProperties DEF EngineInv, RunsInv, Sequential, LastBar
<1>2. /\ Backlog > 0 /\ history' = history /\ saved' = [upTo |-> n, state |-> run.state]
  BY DEF Evaluate
<1>3. Len(history) > Len(results) /\ n \in Int /\ n >= 0 /\ n \in 0..LastBar(history)
  BY <1>1, <1>2 DEF Backlog
<1>4. ASSUME saved = NoState PROVE StateTyped(FirstResults.state, n)
  <2> DEFINE g == Prefix(history, n - 1)
  <2>1. g \in Seq(Shapes) /\ LastBar(g) = n - 1
    BY <1>1, <1>3, PrefixIs
  <2>2. StateTyped(Bootstrap(g), n - 1)
    BY <2>1, BootstrapTyped
  <2>3. StateTyped(Evaluated(history, n, Bootstrap(g)).state, n)
    BY <1>1, <1>3, <2>2, EvaluatedTyped
  <2>4. FirstResults.state = Evaluated(history, n, Bootstrap(g)).state
    BY DEF FirstResults, EvaluateLatestBar, Evaluated
  <2> QED BY <2>3, <2>4
<1>5. ASSUME saved # NoState PROVE StateTyped(FurtherResults.state, n)
  <2> DEFINE lo == saved.upTo
             start == [results |-> results, state |-> saved.state]
  <2>1. lo = Len(results) - 1 /\ StateTyped(saved.state, lo)
    BY <1>5 DEF EngineInv, RunsInv
  <2>2. lo \in Int /\ lo >= -1 /\ lo <= n
    BY <1>1, <1>3, <2>1
  <2>3. PICK f : Continues(f, history, lo, n, start) /\ FurtherResults = f[n]
    BY <1>1, <2>2, FurtherIs
  <2>4. StateTyped(start.state, lo)
    BY <2>1
  <2>5. n = LastBar(history)
    OBVIOUS
  <2> HIDE DEF n, lo, start
  <2>6. f[lo] = start /\ \A b \in (lo + 1)..n : f[b] = Further(history, b, f[b - 1])
    BY ONLY <1>3, <2>2, <2>3, ContinuesStepwise
  <2> DEFINE Good == {b \in lo..n : StateTyped(f[b].state, b)}
  <2>7. lo \in Good
    BY <1>3, <2>2, <2>4, <2>6
  <2>8. ASSUME NEW b \in (lo + 1)..n, b - 1 \in Good PROVE b \in Good
    <3>1. b \in Int /\ b >= 0 /\ b \in lo..n /\ b \in 0..LastBar(history)
      BY <1>3, <2>2, <2>5
    <3>2. StateTyped(f[b - 1].state, b - 1)
      BY <2>8
    <3>3. f[b].state = Evaluated(history, b, f[b - 1].state).state
      <4> DEFINE e == EvaluateLatestBar(Prefix(history, b), f[b - 1].state)
      <4>1. f[b] = [results |-> Append(f[b - 1].results, e.result), state |-> e.state]
        BY <2>6 DEF Further
      <4>2. f[b].state = e.state
        BY <4>1
      <4>3. e = Evaluated(history, b, f[b - 1].state)
        BY <1>1, <3>1, EvaluatePrefix
      <4> QED BY ONLY <4>2, <4>3
    <3>4. StateTyped(f[b].state, b)
      BY <1>1, <3>1, <3>2, <3>3, EvaluatedTyped
    <3> QED BY <3>1, <3>4
  <2> HIDE DEF Good
  <2>9. \A b \in lo..n : b \in Good
    BY ONLY <1>3, <2>2, <2>7, <2>8, InductionFrom
  <2>10. n \in Good
    BY <1>3, <2>2, <2>9
  <2> QED BY <2>3, <2>10 DEF Good
<1>6. StateTyped(run.state, n)
  BY <1>4, <1>5
<1> HIDE DEF run
<1>7. saved'.state = run.state /\ saved'.upTo = n
  BY <1>2
<1>8. StateTyped(saved'.state, saved'.upTo)
  BY <1>6, <1>7
<1>9. RatesOK(history')
  BY <1>2 DEF EngineInv
<1>10. saved' \in SavedStates
  <2>1. run.state \in EngineStates /\ n \in Nat
    BY <1>3, <1>6 DEF StateTyped
  <2> QED BY <1>2, <2>1 DEF SavedStates
<1> QED BY <1>1, <1>8, <1>9, <1>10 DEF EngineInv

LEMMA EngineKept == EngineInv /\ [Next]_vars => EngineInv'
<1>1. EngineInv /\ Backfill => EngineInv'
  <2> SUFFICES ASSUME EngineInv, Backfill PROVE EngineInv'
    OBVIOUS
  <2>1. history' = history /\ saved' = saved /\ RunsInv'
    BY RunsKept DEF Backfill, EngineInv, Next
  <2> QED BY <2>1 DEF EngineInv
<1>2. EngineInv /\ UNCHANGED vars => EngineInv'
  <2> SUFFICES ASSUME EngineInv, UNCHANGED vars PROVE EngineInv'
    OBVIOUS
  <2>1. history' = history /\ saved' = saved /\ RunsInv'
    BY RunsKept DEF vars, EngineInv
  <2> QED BY <2>1 DEF EngineInv
<1> QED BY <1>1, <1>2, EngineCandle, EngineEvaluates DEF Next

-------------------------------------------------------------------------------
(* The engine is the strategy the books are checked against.               *)

(* A live entry's counter, one bar later.                                  *)
LEMMA LiveSteps ==
    ASSUME NEW c \in Int, c >= 0, NEW g \in Int, g >= -1,
           NEW turns \in BOOLEAN, NEW starts \in BOOLEAN, ~(turns /\ starts)
    PROVE  Outlasts(NextCount(turns, c), NextCount(starts, g)) <=> (starts \/ (Outlasts(c, g) /\ ~turns))
<1>1. CASE turns
  <2>1. NextCount(turns, c) = 0
    BY <1>1 DEF NextCount
  <2>2. NextCount(starts, g) \in Int /\ NextCount(starts, g) >= -1
    BY DEF NextCount
  <2> DEFINE d == NextCount(starts, g)
  <2> HIDE DEF d
  <2>3. ~Outlasts(0, d)
    BY <2>2 DEF Outlasts, d
  <2> QED BY <1>1, <2>1, <2>3 DEF d
<1>2. CASE ~turns
  <2>1. NextCount(turns, c) = c + 1
    BY <1>2 DEF NextCount
  <2>2. CASE starts
    <3>1. NextCount(starts, g) = 0
      BY <2>2 DEF NextCount
    <3>2. Outlasts(c + 1, 0)
      BY DEF Outlasts
    <3> QED BY <2>1, <2>2, <3>1, <3>2
  <2>3. CASE ~starts /\ g >= 0
    <3>1. NextCount(starts, g) = g + 1
      BY <2>3 DEF NextCount
    <3>2. Outlasts(c + 1, g + 1) <=> Outlasts(c, g)
      BY <2>3 DEF Outlasts
    <3> QED BY <1>2, <2>1, <2>3, <3>1, <3>2
  <2>4. CASE ~starts /\ ~(g >= 0)
    <3>1. NextCount(starts, g) = -1
      BY <2>4 DEF NextCount
    <3>2. ~Outlasts(c + 1, -1) /\ ~Outlasts(c, g)
      BY <2>4 DEF Outlasts
    <3> QED BY <2>1, <2>4, <3>1, <3>2
  <2> QED BY <2>2, <2>3, <2>4
<1> QED BY <1>1, <1>2

LEMMA SinceLive ==
    ASSUME NEW n \in Nat, NEW A, A \subseteq 0..n, A # {}
    PROVE  BarsSince(A, n) \in Int /\ BarsSince(A, n) >= 0
<1> DEFINE m == Max(A)
<1>1. \A k \in A : k \in Int /\ k <= n
  OBVIOUS
<1>2. {k \in A : k <= n} = A
  BY <1>1
<1>3. m \in A
  <2>1. A \in SUBSET (0..n)
    OBVIOUS
  <2> QED BY <2>1, Extremum
<1>4. BarsSince(A, n) = n - m
  BY <1>2 DEF BarsSince
<1> HIDE DEF m
<1> QED BY <1>1, <1>3, <1>4

BearishBy(h, b) == {k \in 0..b : BearishChange(h, k)}
BullishBy(h, b) == {k \in 0..b : BullishChange(h, k)}

(* Counting the kernel's turns up to a bar.                                *)
LEMMA TurnsCounted ==
    ASSUME NEW h, Len(h) \in Nat, NEW b \in 1..LastBar(h)
    PROVE  /\ BearishBy(h, b - 1) # {} =>
                 /\ BarsSince(BearishBy(h, b - 1), b - 1) \in Int /\ BarsSince(BearishBy(h, b - 1), b - 1) >= 0
           /\ BullishBy(h, b - 1) # {} =>
                 /\ BarsSince(BullishBy(h, b - 1), b - 1) \in Int /\ BarsSince(BullishBy(h, b - 1), b - 1) >= 0
           /\ BarsSince(BearishBy(h, b), b) =
                 NextCount(BearishChange(h, b), BarsSince(BearishBy(h, b - 1), b - 1))
           /\ BarsSince(BullishBy(h, b), b) =
                 NextCount(BullishChange(h, b), BarsSince(BullishBy(h, b - 1), b - 1))
           /\ BarsSince(Bearish(h), b - 1) = BarsSince(BearishBy(h, b - 1), b - 1)
           /\ BarsSince(Bullish(h), b - 1) = BarsSince(BullishBy(h, b - 1), b - 1)
<1>1. /\ b \in Int /\ b - 1 \in Nat /\ b \in Nat /\ b \in 0..b /\ LastBar(h) \in Int
      /\ LastBar(h) = Len(h) - 1
  BY DEF LastBar
<1>2. /\ BearishBy(h, b - 1) \subseteq 0..(b - 1) /\ BullishBy(h, b - 1) \subseteq 0..(b - 1)
      /\ BearishBy(h, b) \subseteq 0..b /\ BullishBy(h, b) \subseteq 0..b
  BY DEF BearishBy, BullishBy
<1>3. \A k : k \in 0..b /\ k <= b - 1 <=> k \in 0..(b - 1) /\ k <= b - 1
  BY <1>1
<1>4. \A k : k \in Bars(h) /\ k <= b - 1 <=> k \in 0..(b - 1) /\ k <= b - 1
  BY <1>1 DEF Bars
<1>5. /\ {k \in BearishBy(h, b) : k <= b - 1} = {k \in BearishBy(h, b - 1) : k <= b - 1}
      /\ {k \in BullishBy(h, b) : k <= b - 1} = {k \in BullishBy(h, b - 1) : k <= b - 1}
  BY <1>3 DEF BearishBy, BullishBy
<1>6. /\ {k \in Bearish(h) : k <= b - 1} = {k \in BearishBy(h, b - 1) : k <= b - 1}
      /\ {k \in Bullish(h) : k <= b - 1} = {k \in BullishBy(h, b - 1) : k <= b - 1}
  BY <1>4 DEF BearishBy, BullishBy, Bearish, Bullish
<1>7. /\ BarsSince(BearishBy(h, b), b - 1) = BarsSince(BearishBy(h, b - 1), b - 1)
      /\ BarsSince(BullishBy(h, b), b - 1) = BarsSince(BullishBy(h, b - 1), b - 1)
      /\ BarsSince(Bearish(h), b - 1) = BarsSince(BearishBy(h, b - 1), b - 1)
      /\ BarsSince(Bullish(h), b - 1) = BarsSince(BullishBy(h, b - 1), b - 1)
  BY <1>5, <1>6, SinceSame
<1>8. /\ BarsSince(BearishBy(h, b), b) = NextCount(b \in BearishBy(h, b), BarsSince(BearishBy(h, b), b - 1))
      /\ BarsSince(BullishBy(h, b), b) = NextCount(b \in BullishBy(h, b), BarsSince(BullishBy(h, b), b - 1))
  BY <1>1, <1>2, SinceSteps
<1>9. /\ (b \in BearishBy(h, b)) = BearishChange(h, b)
      /\ (b \in BullishBy(h, b)) = BullishChange(h, b)
  BY <1>1 DEF BearishBy, BullishBy, BearishChange, BullishChange
<1>10. /\ BearishBy(h, b - 1) # {} =>
             /\ BarsSince(BearishBy(h, b - 1), b - 1) \in Int /\ BarsSince(BearishBy(h, b - 1), b - 1) >= 0
       /\ BullishBy(h, b - 1) # {} =>
             /\ BarsSince(BullishBy(h, b - 1), b - 1) \in Int /\ BarsSince(BullishBy(h, b - 1), b - 1) >= 0
  BY <1>1, <1>2, SinceLive
<1> QED BY <1>7, <1>8, <1>9, <1>10

StrategyRecord(direction, bullish, longLive, shortLive) ==
    [direction |-> direction, bullish |-> bullish, longLive |-> longLive, shortLive |-> shortLive]

EvaluationRecord(signal, price, endLong, endShort) ==
    [signal |-> signal, price |-> price, endLong |-> endLong, endShort |-> endShort]

DirectionOf(s) == IF s.signal = 1 THEN "up" ELSE "down"

(* The strategy's state after bar b, s being the engine's.                 *)
StrategyAt(h, b, s) ==
    StrategyRecord(DirectionOf(s), Rate(h, b) = "rising",
                   Outlasts(BarsSince(BearishBy(h, b), b), s.exits.sinceGreenEntry),
                   Outlasts(BarsSince(BullishBy(h, b), b), s.exits.sinceRedEntry))

LEMMA RecordsSame ==
    ASSUME NEW d, NEW p1 \in BOOLEAN, NEW p2 \in BOOLEAN, NEW p3 \in BOOLEAN,
           NEW q1 \in BOOLEAN, NEW q2 \in BOOLEAN, NEW q3 \in BOOLEAN,
           p1 <=> q1, p2 <=> q2, p3 <=> q3
    PROVE  /\ StrategyRecord(d, p1, p2, p3) = StrategyRecord(d, q1, q2, q3)
           /\ \A x : EvaluationRecord(d, x, p2, p3) = EvaluationRecord(d, x, q2, q3)
<1>1. p1 = q1 /\ p2 = q2 /\ p3 = q3
  OBVIOUS
<1> QED BY ONLY <1>1

(* Bar b, evaluated from the state s, gives the result r and the state t.  *)
IsBar(h, b, s, t, r, before, after) ==
    /\ t = Evaluated(h, b, s).state /\ r = Evaluated(h, b, s).result
    /\ before = StrategyAt(h, b - 1, s) /\ after = StrategyAt(h, b, t)

LEMMA OneBar ==
    ASSUME NEW h \in Seq(Shapes), RatesOK(h), NEW b \in 0..LastBar(h), NEW s, StateTyped(s, b - 1),
           s.signal # 0, BearishBy(h, b - 1) # {}, BullishBy(h, b - 1) # {},
           NEW t, NEW r, NEW before, NEW after, IsBar(h, b, s, t, r, before, after)
    PROVE  /\ after = AdvancedExits(before, after.direction, after.bullish)
           /\ EvaluationRecord(r.signal, r.price, r.endLong, r.endShort)
                 = Evaluation(before, after.direction, after.bullish, r.price)
<1> DEFINE now == Rate(h, b)
           was == Rate(h, b - 1)
           startLong == t.signal = 1 /\ t.signal # s.signal /\ now = "rising"
           startShort == t.signal = -1 /\ t.signal # s.signal /\ now = "falling"
           red == s.exits.sinceRedEntry
           green == s.exits.sinceGreenEntry
           cb == BarsSince(BearishBy(h, b - 1), b - 1)
           cu == BarsSince(BullishBy(h, b - 1), b - 1)
           tb == BearishChange(h, b)
           tu == BullishChange(h, b)
           ll == Outlasts(cb, green)
           sl == Outlasts(cu, red)
<1> /\ t = Evaluated(h, b, s).state /\ r = Evaluated(h, b, s).result
    /\ before = StrategyAt(h, b - 1, s) /\ after = StrategyAt(h, b, t)
  BY DEF IsBar
<1>1. Len(h) \in Nat /\ LastBar(h) = Len(h) - 1 /\ b \in Int
  BY LenProperties DEF LastBar
<1>2. b >= 2
  <2>1. PICK k \in 0..(b - 1) : BearishChange(h, k)
    BY DEF BearishBy
  <2>2. k \in Int /\ k >= 0 /\ k <= b - 1 /\ k \in 0..LastBar(h)
    BY <1>1
  <2>3. Rate(h, k) = "falling"
    BY <2>1 DEF BearishChange
  <2>4. k # 0
    BY <2>2, <2>3 DEF RatesOK
  <2> QED BY <1>1, <2>2, <2>4
<1>3. (now = "rising" \/ now = "falling") /\ (was = "rising" \/ was = "falling")
  <2>1. b # 0 /\ b - 1 # 0 /\ b \in 0..LastBar(h) /\ b - 1 \in 0..LastBar(h) /\ b \in 1..LastBar(h)
    BY <1>1, <1>2
  <2> QED BY <2>1 DEF RatesOK
<1>4. b \in 1..LastBar(h)
  BY <1>1, <1>2
<1>5. /\ cb \in Int /\ cb >= 0 /\ cu \in Int /\ cu >= 0
      /\ BarsSince(BearishBy(h, b), b) = NextCount(tb, cb)
      /\ BarsSince(BullishBy(h, b), b) = NextCount(tu, cu)
      /\ BarsSince(Bearish(h), b - 1) = cb /\ BarsSince(Bullish(h), b - 1) = cu
  BY <1>1, <1>4, TurnsCounted
<1>6. /\ red \in Int /\ red >= -1 /\ green \in Int /\ green >= -1
      /\ s.signal = 1 \/ s.signal = -1
  BY DEF StateTyped
<1>7. t.signal = 1 \/ t.signal = -1
  <2>1. t.signal = SignalAfter(s.signal, Votes(Scanned(h, b, s.queue)), Passes(h, b))
    BY DEF Evaluated, Step
  <2> QED BY <1>6, <2>1 DEF SignalAfter
<1>8. /\ t.exits.sinceRedEntry = NextCount(startShort, red)
      /\ t.exits.sinceGreenEntry = NextCount(startLong, green)
  BY DEF Evaluated, Step, AdvancedExitState
<1>9. /\ r.signal = CASE startLong -> "BUY" [] startShort -> "SELL" [] OTHER -> "NEUTRAL"
      /\ r.price = At(h, b).close
  BY DEF Evaluated, Step
<1>10. b \in Bars(h)
  BY <1>1 DEF Bars
<1>11. (r.endLong <=> tb /\ ll) /\ (r.endShort <=> tu /\ sl) /\ r.endLong \in BOOLEAN /\ r.endShort \in BOOLEAN
  <2>1. /\ r.endLong = (b \in Bearish(h) /\ Outlasts(BarsSince(Bearish(h), b - 1), green))
        /\ r.endShort = (b \in Bullish(h) /\ Outlasts(BarsSince(Bullish(h), b - 1), red))
    BY DEF Evaluated, Step, Exits, Bearish, Bullish
  <2>2. (b \in Bearish(h) <=> tb) /\ (b \in Bullish(h) <=> tu)
    BY <1>10 DEF Bearish, Bullish
  <2> QED BY <1>5, <2>1, <2>2
<1>12. (tb <=> now = "falling" /\ was = "rising") /\ (tu <=> now = "rising" /\ was = "falling")
  BY DEF BearishChange, BullishChange
<1>13. /\ tb \in BOOLEAN /\ tu \in BOOLEAN /\ startLong \in BOOLEAN /\ startShort \in BOOLEAN
       /\ ll \in BOOLEAN /\ sl \in BOOLEAN
  BY DEF BearishChange, BullishChange, Outlasts
<1>14. before = StrategyRecord(DirectionOf(s), was = "rising", ll, sl)
  BY DEF StrategyAt
<1>15. after = StrategyRecord(DirectionOf(t), now = "rising",
                             Outlasts(NextCount(tb, cb), NextCount(startLong, green)),
                             Outlasts(NextCount(tu, cu), NextCount(startShort, red)))
  BY <1>5, <1>8 DEF StrategyAt
<1> DEFINE la == Outlasts(NextCount(tb, cb), NextCount(startLong, green))
           sa == Outlasts(NextCount(tu, cu), NextCount(startShort, red))
           up == now = "rising"
           dir == DirectionOf(t)
<1>16. ~(tb /\ startLong) /\ ~(tu /\ startShort)
  BY <1>12
<1>17. (la <=> startLong \/ (ll /\ ~tb)) /\ (sa <=> startShort \/ (sl /\ ~tu))
  <2> HIDE DEF cb, cu, red, green, tb, tu, startLong, startShort
  <2> QED BY <1>5, <1>6, <1>13, <1>16, LiveSteps
<1>18. la \in BOOLEAN /\ sa \in BOOLEAN /\ up \in BOOLEAN
  BY DEF Outlasts
<1>19. /\ before.direction = DirectionOf(s) /\ before.bullish = (was = "rising")
       /\ before.longLive = ll /\ before.shortLive = sl
  BY <1>14 DEF StrategyRecord
<1>20. after.direction = dir /\ after.bullish = up
  BY <1>15 DEF StrategyRecord
<1>21. /\ EntrySignal(before, dir, up) = CASE startLong -> "BUY" [] startShort -> "SELL" [] OTHER -> "NEUTRAL"
       /\ EntrySignal(before, dir, up) = "BUY" <=> startLong
       /\ EntrySignal(before, dir, up) = "SELL" <=> startShort
  <2>1. (dir = "up" <=> t.signal = 1) /\ (dir = "down" <=> t.signal = -1) /\ (dir # DirectionOf(s) <=> t.signal # s.signal)
    BY <1>6, <1>7 DEF DirectionOf
  <2> HIDE DEF dir
  <2>2. EntrySignal(before, dir, up) =
           CASE dir = DirectionOf(s) -> "NEUTRAL"
             [] dir # DirectionOf(s) /\ dir = "up" /\ up -> "BUY"
             [] dir # DirectionOf(s) /\ dir = "down" /\ ~up -> "SELL"
             [] OTHER -> "NEUTRAL"
    BY <1>19 DEF EntrySignal
  <2>3. /\ dir = "up" \/ dir = "down"
        /\ startLong <=> dir # DirectionOf(s) /\ dir = "up" /\ up
        /\ startShort <=> dir # DirectionOf(s) /\ dir = "down" /\ ~up
    BY <1>3, <1>7, <2>1
  <2> HIDE DEF startLong, startShort, up
  <2>4. CASE dir = DirectionOf(s)
    BY <2>2, <2>3, <2>4
  <2>5. CASE startLong
    BY <2>2, <2>3, <2>5
  <2>6. CASE startShort
    BY <2>2, <2>3, <2>6
  <2>7. CASE ~startLong /\ ~startShort /\ dir # DirectionOf(s)
    BY <2>2, <2>3, <2>7
  <2> QED BY <2>4, <2>5, <2>6, <2>7
<1>22. (TurnsBearish(before, up) <=> tb) /\ (TurnsBullish(before, up) <=> tu)
  BY <1>3, <1>12, <1>19 DEF TurnsBearish, TurnsBullish
<1> HIDE DEF ll, sl, la, sa, up, dir, tb, tu, startLong, startShort
<1>23. after = AdvancedExits(before, dir, up)
  <2> DEFINE q2 == EntrySignal(before, dir, up) = "BUY" \/ (before.longLive /\ ~TurnsBearish(before, up))
             q3 == EntrySignal(before, dir, up) = "SELL" \/ (before.shortLive /\ ~TurnsBullish(before, up))
  <2>1. (la <=> q2) /\ (sa <=> q3)
    BY <1>17, <1>19, <1>21, <1>22
  <2>2. q2 \in BOOLEAN /\ q3 \in BOOLEAN
    BY <1>18, <2>1
  <2>3. AdvancedExits(before, dir, up) = StrategyRecord(dir, up, q2, q3)
    BY DEF AdvancedExits, StrategyRecord
  <2>4. after = StrategyRecord(dir, up, la, sa)
    BY <1>15 DEF dir, up, la, sa, tb, tu, startLong, startShort
  <2> HIDE DEF q2, q3
  <2>5. StrategyRecord(dir, up, la, sa) = StrategyRecord(dir, up, q2, q3)
    BY ONLY <1>18, <2>1, <2>2, RecordsSame
  <2> QED BY ONLY <2>3, <2>4, <2>5
<1>24. EvaluationRecord(r.signal, r.price, r.endLong, r.endShort) = Evaluation(before, dir, up, r.price)
  <2> DEFINE p2 == r.endLong
             p3 == r.endShort
             q2 == EndsLong(before, up)
             q3 == EndsShort(before, up)
  <2>1. (q2 <=> tb /\ ll) /\ (q3 <=> tu /\ sl)
    BY <1>19, <1>22 DEF EndsLong, EndsShort
  <2>2. (p2 <=> q2) /\ (p3 <=> q3) /\ p2 \in BOOLEAN /\ p3 \in BOOLEAN
    BY <1>11, <2>1
  <2>3. q2 \in BOOLEAN /\ q3 \in BOOLEAN
    BY <1>13, <1>19, <1>22 DEF EndsLong, EndsShort, TurnsBearish, TurnsBullish
  <2>4. r.signal = EntrySignal(before, dir, up)
    BY <1>9, <1>21 DEF startLong, startShort
  <2>5. Evaluation(before, dir, up, r.price) = EvaluationRecord(r.signal, r.price, q2, q3)
    BY <2>4 DEF Evaluation, EvaluationRecord
  <2> HIDE DEF p2, p3, q2, q3
  <2>6. EvaluationRecord(r.signal, r.price, p2, p3) = EvaluationRecord(r.signal, r.price, q2, q3)
    BY ONLY <1>18, <2>2, <2>3, RecordsSame
  <2> QED BY <2>5, <2>6 DEF p2, p3
<1> QED BY <1>20, <1>23, <1>24

LEMMA NewestBar ==
    ASSUME EngineInv, saved # NoState, Len(history) = Len(results) + 1, saved.upTo >= 0,
           NEW b, b = saved.upTo + 1
    PROVE  /\ b = LastBar(history) /\ b \in 0..LastBar(history)
           /\ Last(FurtherResults.results) = Evaluated(history, b, saved.state).result
           /\ FurtherResults.state = Evaluated(history, b, saved.state).state
<1> DEFINE lo == saved.upTo
           start == [results |-> results, state |-> saved.state]
           e == Evaluated(history, b, saved.state)
<1>1. /\ history \in Seq(Shapes) /\ Len(history) \in Nat /\ lo = Len(results) - 1 /\ Len(results) \in Nat
      /\ Sequential(results) /\ LastBar(history) = Len(history) - 1
  BY LenProperties DEF EngineInv, RunsInv, Sequential, LastBar
<1>2. /\ b = LastBar(history) /\ b \in 0..LastBar(history) /\ b \in Int /\ lo \in Int /\ lo <= b
      /\ b - 1 = lo /\ b \in (lo + 1)..b
  BY <1>1
<1>3. PICK f : Continues(f, history, lo, b, start) /\ FurtherResults = f[b]
  BY <1>1, <1>2, FurtherIs
<1>4. start.results = results /\ start.state = saved.state
  OBVIOUS
<1> HIDE DEF lo, start, e
<1>5. f[lo] = start /\ f[b] = Further(history, b, f[lo])
  BY <1>2, <1>3, ContinuesStepwise
<1>6. EvaluateLatestBar(Prefix(history, b), saved.state) = e
  BY <1>1, <1>2, EvaluatePrefix DEF e
<1>7. f[b].state = e.state /\ Appends(f[b].results, results, e.result)
  BY <1>4, <1>5, <1>6 DEF Further, Appends
<1>8. PICK rs : rs = f[b].results
  OBVIOUS
<1>9. Appends(rs, results, e.result)
  BY <1>7, <1>8
<1>10. rs[Len(rs)] = e.result
  BY ONLY <1>1, <1>9, AppendedResult
<1>11. Last(rs) = e.result
  BY <1>10 DEF Last
<1> QED BY <1>2, <1>3, <1>7, <1>8, <1>11 DEF e

LEMMA StrategyIs ==
    StrategyOf = StrategyAt(history, saved.upTo, saved.state)
BY DEF StrategyOf, StrategyAt, StrategyRecord, DirectionOf, Turns, BearishBy, BullishBy

LEMMA StrategyNext ==
    StrategyOf' = StrategyAt(history', saved'.upTo, saved'.state)
BY DEF StrategyOf, StrategyAt, StrategyRecord, DirectionOf, Turns, BearishBy, BullishBy

LEMMA StrategyStep ==
    ASSUME EngineInv, [Next]_vars, Settled, saved' # saved, Len(results') = Len(results) + 1
    PROVE  LET newest == Last(results')
               direction == StrategyOf'.direction
               bullish == StrategyOf'.bullish
           IN  /\ StrategyOf' = AdvancedExits(StrategyOf, direction, bullish)
               /\ [signal |-> newest.signal, price |-> newest.price,
                   endLong |-> newest.endLong, endShort |-> newest.endShort]
                      = Evaluation(StrategyOf, direction, bullish, newest.price)
<1> DEFINE b == saved.upTo + 1
           s == saved.state
           e == Evaluated(history, b, s)
           before == StrategyAt(history, b - 1, s)
           after == StrategyAt(history, b, e.state)
<1>1. Evaluate
  BY DEF Next, vars, CandleCloses, Backfill
<1>2. /\ saved # NoState /\ s.signal # 0
      /\ Turns(BearishChange) # {} /\ Turns(BullishChange) # {}
  BY DEF Settled
<1>3. /\ results' = FurtherResults.results
      /\ saved' = [upTo |-> LastBar(history), state |-> FurtherResults.state]
      /\ history' = history
  BY <1>1, <1>2 DEF Evaluate
<1>4. /\ history \in Seq(Shapes) /\ Len(history) \in Nat /\ LastBar(history) = Len(history) - 1
      /\ Len(results) \in Nat /\ saved.upTo = Len(results) - 1 /\ RatesOK(history)
      /\ StateTyped(s, saved.upTo)
  BY <1>2, LenProperties DEF EngineInv, RunsInv, Sequential, LastBar
<1>5. Len(history) = Len(results) + 1
  <2>1. Backlog > 0
    BY <1>1 DEF Evaluate
  <2>2. RunOK(history, LastBar(history), FurtherResults)
    BY <1>2, <1>4, <2>1, LaterRun, NewestOK DEF EngineInv, Backlog
  <2>3. Len(results') = LastBar(history) + 1
    BY <1>3, <2>2 DEF RunOK
  <2> QED BY <1>4, <2>3
<1>6. saved.upTo >= 0
  <2>1. PICK k \in 0..saved.upTo : TRUE
    BY <1>2 DEF Turns
  <2> QED BY <1>4, <2>1
<1>7. /\ b = LastBar(history) /\ b \in 0..LastBar(history)
      /\ Last(FurtherResults.results) = e.result /\ FurtherResults.state = e.state
  BY <1>2, <1>5, <1>6, NewestBar
<1>8. b - 1 = saved.upTo
  BY <1>4
<1>9. BearishBy(history, b - 1) # {} /\ BullishBy(history, b - 1) # {}
  BY <1>2, <1>8 DEF Turns, BearishBy, BullishBy
<1>10. StrategyOf = before
  BY <1>8, StrategyIs
<1>11. StrategyOf' = after
  <2>1. saved'.upTo = b /\ saved'.state = e.state
    BY <1>3, <1>7
  <2> QED BY <1>3, <2>1, StrategyNext
<1>12. Last(results') = e.result
  BY <1>3, <1>7
<1>13. StateTyped(s, b - 1)
  BY <1>4, <1>8
<1> HIDE DEF b, s, e, before, after
<1>14. PICK newest : newest = e.result
  OBVIOUS
<1>15. /\ after = AdvancedExits(before, after.direction, after.bullish)
       /\ EvaluationRecord(newest.signal, newest.price, newest.endLong, newest.endShort)
             = Evaluation(before, after.direction, after.bullish, newest.price)
  <2>1. PICK t : t = e.state
    OBVIOUS
  <2>2. b \in 0..LastBar(history) /\ s.signal # 0
    BY <1>2, <1>7 DEF s
  <2>3. IsBar(history, b, s, t, newest, before, after)
    BY <1>14, <2>1 DEF before, after, e, IsBar
  <2> QED BY ONLY <1>4, <1>9, <1>13, <2>2, <2>3, OneBar
<1>16. Last(results') = newest
  BY <1>12, <1>14
<1> QED BY <1>10, <1>11, <1>15, <1>16 DEF EvaluationRecord

(* The engine is the strategy the books are checked against: once it has a *)
(* signal and the kernel has turned each way, each bar evaluated moves the *)
(* strategy's state as Strategy says and gives the entry and exits it      *)
(* gives, an exit just when the kernel turns against an entry made since   *)
(* its last turn (fast_predict.py, evaluate_latest_bar and                 *)
(* _advance_exit_state), whatever max_bars_back covers.                    *)
THEOREM EngineIsStrategy == Spec => ImplementsStrategy
<1>1. EngineInv /\ [Next]_vars =>
        [Settled /\ saved' # saved /\ Len(results') = Len(results) + 1 =>
          LET newest == Last(results')
              direction == StrategyOf'.direction
              bullish == StrategyOf'.bullish
          IN  /\ StrategyOf' = AdvancedExits(StrategyOf, direction, bullish)
              /\ [signal |-> newest.signal, price |-> newest.price,
                  endLong |-> newest.endLong, endShort |-> newest.endShort]
                     = Evaluation(StrategyOf, direction, bullish, newest.price)]_vars
  BY StrategyStep
<1> QED BY <1>1, EngineStart, EngineKept, PTL DEF Spec, ImplementsStrategy

-------------------------------------------------------------------------------
(* The trades table.                                                       *)

TradeRow == [side : Sides, bar : Nat, entry : Nat, status : {"open", "closed", "abandoned"},
             exitBar : Nat, exit : Nat]

(* A table of such rows, of bars up to the newest.                         *)
RowsIn(rows, newest) ==
    rows \in Seq(TradeRow) /\ \A i \in DOMAIN rows : rows[i].bar \in 1..newest

Opposite(side) == IF side = "BUY" THEN "SELL" ELSE "BUY"

OpenOf(rows, side) == {i \in DOMAIN rows : rows[i].status = "open" /\ rows[i].side = side}

NewestOpen(rows, side) == LatestOpen(rows, {side})

(* The table stands where Pine does.                                       *)
Agrees(rows, state) ==
    /\ ClosedTrades(rows) = state.scored
    /\ state.current.side \in Sides =>
           LET last == NewestOpen(rows, state.current.side)
           IN  /\ last # 0 /\ rows[last].bar = state.current.bar
               /\ rows[last].entry = state.current.entry
               /\ OpenOf(rows, Opposite(state.current.side)) = {}

LEMMA Appended ==
    ASSUME NEW S, NEW q \in Seq(S), NEW x \in S, NEW r, r = Append(q, x)
    PROVE  /\ r \in Seq(S) /\ r # <<>> /\ Len(q) \in Nat /\ Len(r) = Len(q) + 1
           /\ DOMAIN q = 1..Len(q) /\ DOMAIN r = DOMAIN q \cup {Len(r)} /\ Len(r) \notin DOMAIN q
           /\ \A i \in DOMAIN q : r[i] = q[i] /\ q[i] \in S
           /\ r[Len(r)] = x
<1>1. /\ r \in Seq(S) /\ r # <<>> /\ Len(r) = Len(q) + 1
      /\ \A i \in 1..Len(q) : r[i] = q[i]
      /\ r[Len(q) + 1] = x
  BY AppendProperties
<1>2. Len(q) \in Nat /\ DOMAIN q = 1..Len(q) /\ \A i \in 1..Len(q) : q[i] \in S
  BY LenProperties, ElementOfSeq
<1>3. DOMAIN r = 1..(Len(q) + 1)
  BY <1>1, LenProperties
<1>4. 1..(Len(q) + 1) = (1..Len(q)) \cup {Len(q) + 1} /\ Len(q) + 1 \notin 1..Len(q)
  BY <1>2
<1> QED BY <1>1, <1>2, <1>3, <1>4

LEMMA Updated ==
    ASSUME NEW S, NEW q \in Seq(S), NEW k \in DOMAIN q, NEW x \in S, NEW r,
           r = [q EXCEPT ![k] = x]
    PROVE  /\ r \in Seq(S) /\ Len(r) = Len(q) /\ DOMAIN r = DOMAIN q
           /\ r[k] = x /\ \A i \in DOMAIN q : i # k => r[i] = q[i]
           /\ \A i \in DOMAIN q : q[i] \in S
<1>1. Len(q) \in Nat /\ DOMAIN q = 1..Len(q) /\ \A i \in 1..Len(q) : q[i] \in S
  BY LenProperties, ElementOfSeq
<1>2. r \in Seq(S) /\ Len(r) = Len(q)
  BY <1>1, ExceptSeq
<1> QED BY <1>1, <1>2

LEMMA Rows ==
    ASSUME NEW S, NEW q \in Seq(S)
    PROVE  /\ Len(q) \in Nat /\ DOMAIN q = 1..Len(q) /\ \A i \in DOMAIN q : q[i] \in S
           /\ OpenRows(q) \subseteq DOMAIN q /\ IsFiniteSet(DOMAIN q) /\ IsFiniteSet(OpenRows(q))
           /\ Cardinality(OpenRows(q)) \in Nat
           /\ \A i \in OpenRows(q) : i \in Nat \ {0}
<1>1. Len(q) \in Nat /\ DOMAIN q = 1..Len(q) /\ \A i \in 1..Len(q) : q[i] \in S
  BY LenProperties, ElementOfSeq
<1>2. IsFiniteSet(DOMAIN q)
  BY <1>1, FS_Interval
<1>3. OpenRows(q) \subseteq DOMAIN q
  BY DEF OpenRows
<1>4. IsFiniteSet(OpenRows(q)) /\ Cardinality(OpenRows(q)) \in Nat
  BY <1>2, <1>3, FS_Subset, FS_CardinalityType
<1>5. \A i \in OpenRows(q) : i \in Nat \ {0}
  BY <1>1, <1>3
<1> QED BY <1>1, <1>2, <1>3, <1>4, <1>5

(* The newest open row is one of the open rows asked for, if there is one. *)
LEMMA LatestOpenIs ==
    ASSUME NEW S, NEW q \in Seq(S), NEW sides
    PROVE  LET asked == {i \in DOMAIN q : q[i].status = "open" /\ q[i].side \in sides}
               last == LatestOpen(q, sides)
           IN  /\ asked \subseteq OpenRows(q) /\ last \in Nat
               /\ (last = 0 <=> asked = {})
               /\ (last # 0 => last \in asked /\ \A i \in asked : i <= last)
<1> DEFINE asked == {i \in DOMAIN q : q[i].status = "open" /\ q[i].side \in sides}
           last == LatestOpen(q, sides)
<1>1. asked \subseteq OpenRows(q)
  BY DEF OpenRows
<1>2. Len(q) \in Nat /\ asked \in SUBSET (0..Len(q)) /\ \A i \in asked : i \in Nat \ {0}
  BY <1>1, Rows
<1>3. last = IF asked = {} THEN 0 ELSE Max(asked)
  BY DEF LatestOpen
<1> HIDE DEF asked, last
<1>4. CASE asked = {}
  BY <1>1, <1>3, <1>4 DEF asked, last
<1>5. CASE asked # {}
  <2>1. Max(asked) \in asked /\ \A i \in asked : i <= Max(asked)
    BY <1>2, <1>5, Extremum
  <2>2. last # 0 /\ last \in Nat /\ last \in asked /\ \A i \in asked : i <= last
    BY <1>2, <1>3, <1>5, <2>1
  <2> QED BY <1>1, <1>5, <2>2 DEF asked, last
<1> QED BY <1>4, <1>5

LEMMA TradeOpened ==
    ASSUME NEW b \in Nat, b >= 1, NEW q, RowsIn(q, b), NEW side \in Sides,
           NEW close \in Nat, NEW r, r = OpenTrade(q, side, b, close)
    PROVE  /\ RowsIn(r, b)
           /\ \A i : i \in DOMAIN r <=> i \in DOMAIN q \/ i = Len(r)
           /\ Len(r) \notin DOMAIN q /\ \A i \in DOMAIN q : r[i] = q[i] /\ i <= Len(r)
           /\ r[Len(r)].side = side /\ r[Len(r)].status = "open" /\ r[Len(r)].bar = b
           /\ r[Len(r)].entry = close
<1> DEFINE x == [side |-> side, bar |-> b, entry |-> close, status |-> "open",
                 exitBar |-> 0, exit |-> 0]
<1>1. x \in TradeRow /\ x.status = "open" /\ x.side = side /\ x.bar = b /\ x.entry = close
  BY DEF TradeRow
<1>2. q \in Seq(TradeRow) /\ \A i \in DOMAIN q : q[i].bar \in 1..b
  BY DEF RowsIn
<1>3. r = Append(q, x)
  BY DEF OpenTrade
<1> HIDE DEF x
<1>4. /\ r \in Seq(TradeRow) /\ DOMAIN r = DOMAIN q \cup {Len(r)} /\ Len(r) \notin DOMAIN q
      /\ \A i \in DOMAIN q : r[i] = q[i]
      /\ r[Len(r)] = x /\ Len(q) \in Nat /\ Len(r) = Len(q) + 1 /\ DOMAIN q = 1..Len(q)
  BY <1>1, <1>2, <1>3, Appended
<1>5. \A i \in DOMAIN r : r[i].bar \in 1..b
  <2>1. b \in 1..b
    OBVIOUS
  <2> QED BY <1>1, <1>2, <1>4, <2>1
<1>6. \A i \in DOMAIN q : i <= Len(r)
  BY <1>4
<1> QED BY <1>1, <1>4, <1>5, <1>6 DEF RowsIn

LEMMA TradesAbandoned ==
    ASSUME NEW b \in Nat, NEW q, RowsIn(q, b), NEW side,
           NEW r, r = AbandonOpenTrade(q, side)
    PROVE  /\ RowsIn(r, b) /\ DOMAIN r = DOMAIN q
           /\ \A i \in DOMAIN q :
                 /\ r[i].side = q[i].side /\ r[i].bar = q[i].bar /\ r[i].entry = q[i].entry
                 /\ r[i].exitBar = q[i].exitBar /\ r[i].exit = q[i].exit
                 /\ r[i].status = IF q[i].status = "open" /\ q[i].side = side
                                  THEN "abandoned" ELSE q[i].status
<1>1. q \in Seq(TradeRow) /\ \A i \in DOMAIN q : q[i].bar \in 1..b
  BY DEF RowsIn
<1>2. Len(q) \in Nat /\ DOMAIN q = 1..Len(q) /\ \A i \in DOMAIN q : q[i] \in TradeRow
  BY <1>1, Rows
<1>3. /\ DOMAIN r = DOMAIN q
      /\ \A i \in DOMAIN q :
            r[i] = IF q[i].status = "open" /\ q[i].side = side
                   THEN [q[i] EXCEPT !.status = "abandoned"] ELSE q[i]
  BY DEF AbandonOpenTrade
<1>4. ASSUME NEW i \in DOMAIN q
      PROVE  /\ r[i] \in TradeRow
             /\ r[i].side = q[i].side /\ r[i].bar = q[i].bar /\ r[i].entry = q[i].entry
             /\ r[i].exitBar = q[i].exitBar /\ r[i].exit = q[i].exit
             /\ r[i].status = IF q[i].status = "open" /\ q[i].side = side
                              THEN "abandoned" ELSE q[i].status
  BY <1>2, <1>3 DEF TradeRow
<1>5. r \in Seq(TradeRow)
  <2>1. r = [i \in 1..Len(q) |->
                 IF q[i].status = "open" /\ q[i].side = side
                 THEN [q[i] EXCEPT !.status = "abandoned"] ELSE q[i]]
    BY <1>2 DEF AbandonOpenTrade
  <2>2. r \in [1..Len(q) -> TradeRow]
    BY <1>2, <1>3, <1>4, <2>1
  <2> QED BY <1>2, <2>2, SeqDef
<1> QED BY <1>1, <1>3, <1>4, <1>5 DEF RowsIn

LEMMA NewestIs ==
    ASSUME NEW S, NEW q \in Seq(S), NEW side, NEW last, last = NewestOpen(q, side)
    PROVE  /\ last = 0 => OpenOf(q, side) = {}
           /\ last # 0 => last \in OpenOf(q, side) /\ \A i \in OpenOf(q, side) : i <= last
<1>1. OpenOf(q, side) = {i \in DOMAIN q : q[i].status = "open" /\ q[i].side \in {side}}
  BY DEF OpenOf
<1>2. last = LatestOpen(q, {side})
  BY DEF NewestOpen
<1> QED BY <1>1, <1>2, LatestOpenIs

LEMMA TradeClosed ==
    ASSUME NEW b \in Nat, NEW q, RowsIn(q, b), NEW side, NEW close \in Nat,
           NEW r, r = CloseOpenTrade(q, side, b, close),
           NEW last, last = NewestOpen(q, side)
    PROVE  /\ RowsIn(r, b) /\ DOMAIN r = DOMAIN q
           /\ last = 0 => r = q /\ OpenOf(q, side) = {}
           /\ last # 0 => /\ last \in OpenOf(q, side)
                          /\ r[last].side = side /\ r[last].bar = q[last].bar
                          /\ r[last].entry = q[last].entry /\ r[last].status = "closed"
                          /\ r[last].exitBar = b /\ r[last].exit = close
                          /\ \A i \in DOMAIN q : i # last => r[i] = q[i]
<1>1. q \in Seq(TradeRow) /\ \A i \in DOMAIN q : q[i].bar \in 1..b
  BY DEF RowsIn
<1>2. r = IF last = 0 THEN q
          ELSE [q EXCEPT ![last].status = "closed", ![last].exitBar = b, ![last].exit = close]
  BY DEF CloseOpenTrade, NewestOpen
<1>3. CASE last = 0
  BY <1>1, <1>2, <1>3, NewestIs
<1>4. CASE last # 0
  <2> DEFINE y == [q[last] EXCEPT !.status = "closed", !.exitBar = b, !.exit = close]
  <2>1. last \in OpenOf(q, side) /\ last \in DOMAIN q /\ q[last].side = side
        /\ q[last] \in TradeRow
    BY <1>1, <1>4, NewestIs, Rows DEF OpenOf
  <2>2. /\ y \in TradeRow /\ y.status = "closed" /\ y.side = side /\ y.bar = q[last].bar
        /\ y.entry = q[last].entry /\ y.exitBar = b /\ y.exit = close
    BY <2>1 DEF TradeRow
  <2>3. r = [q EXCEPT ![last] = y]
    BY <1>2, <1>4, <2>1
  <2> HIDE DEF y
  <2>4. /\ r \in Seq(TradeRow) /\ DOMAIN r = DOMAIN q /\ r[last] = y
        /\ \A i \in DOMAIN q : i # last => r[i] = q[i]
    BY <1>1, <2>1, <2>2, <2>3, Updated
  <2>5. \A i \in DOMAIN q : r[i].bar \in 1..b
    BY <1>1, <2>1, <2>2, <2>4
  <2> QED BY <1>4, <2>1, <2>2, <2>4, <2>5 DEF RowsIn
<1> QED BY <1>3, <1>4

LEMMA OppositeIs ==
    ASSUME NEW side \in Sides
    PROVE  Opposite(side) \in Sides /\ Opposite(side) # side
BY DEF Opposite, Sides

ScoreOf(row) == [side |-> row.side, bar |-> row.bar, entry |-> row.entry,
                 exitBar |-> row.exitBar, exit |-> row.exit]

LEMMA ClosedIs ==
    ASSUME NEW rows, NEW x
    PROVE  x \in ClosedTrades(rows) <=>
               \E i \in DOMAIN rows : rows[i].status = "closed" /\ x = ScoreOf(rows[i])
BY DEF ClosedTrades, ScoreOf, Range

(* An entry abandons the other side's trade and opens its own.             *)
LEMMA EntryAgrees ==
    ASSUME NEW b \in Nat, b >= 1, NEW q, RowsIn(q, b), NEW side \in Sides,
           NEW e, e.price \in Nat, NEW before, NEW after, Agrees(q, before),
           after.current = Started(side, b, e), after.scored = before.scored,
           NEW r, r = OpenTrade(AbandonOpenTrade(q, Opposite(side)), side, b, e.price)
    PROVE  Agrees(r, after)
<1> DEFINE other == Opposite(side)
<1>1. PICK m : m = AbandonOpenTrade(q, other)
  OBVIOUS
<1>2. /\ RowsIn(m, b) /\ DOMAIN m = DOMAIN q
      /\ \A i \in DOMAIN q :
            /\ m[i].side = q[i].side /\ m[i].bar = q[i].bar /\ m[i].entry = q[i].entry
            /\ m[i].exitBar = q[i].exitBar /\ m[i].exit = q[i].exit
            /\ m[i].status = IF q[i].status = "open" /\ q[i].side = other
                             THEN "abandoned" ELSE q[i].status
  BY <1>1, TradesAbandoned
<1>3. r = OpenTrade(m, side, b, e.price)
  BY <1>1
<1>4. /\ RowsIn(r, b)
      /\ \A i : i \in DOMAIN r <=> i \in DOMAIN m \/ i = Len(r)
      /\ Len(r) \notin DOMAIN m /\ \A i \in DOMAIN m : r[i] = m[i] /\ i <= Len(r)
      /\ r[Len(r)].side = side /\ r[Len(r)].status = "open" /\ r[Len(r)].bar = b
      /\ r[Len(r)].entry = e.price
  BY <1>2, <1>3, TradeOpened
<1>5. other # side
  BY OppositeIs
<1> HIDE DEF other
<1>6. ClosedTrades(r) = ClosedTrades(q)
  <2>1. \A i \in DOMAIN q : m[i].status = "closed" <=> q[i].status = "closed"
    BY <1>2
  <2>2. \A i \in DOMAIN q : ScoreOf(m[i]) = ScoreOf(q[i])
    BY <1>2 DEF ScoreOf
  <2>3. ASSUME NEW x
        PROVE  x \in ClosedTrades(r) <=> x \in ClosedTrades(q)
    <3>1. x \in ClosedTrades(r) <=>
              \E i \in DOMAIN r : r[i].status = "closed" /\ x = ScoreOf(r[i])
      BY ClosedIs
    <3>2. x \in ClosedTrades(q) <=>
              \E i \in DOMAIN q : q[i].status = "closed" /\ x = ScoreOf(q[i])
      BY ClosedIs
    <3> QED BY <1>2, <1>4, <2>1, <2>2, <3>1, <3>2
  <2> QED BY <2>3
<1>7. OpenOf(r, other) = {}
  <2>1. ASSUME NEW i \in DOMAIN r, r[i].status = "open", r[i].side = other
        PROVE  FALSE
    <3>1. i \in DOMAIN q /\ r[i] = m[i]
      BY <1>2, <1>4, <1>5, <2>1
    <3>2. q[i].side = other /\ m[i].status = "open"
      BY <1>2, <2>1, <3>1
    <3> QED BY <1>2, <3>1, <3>2
  <2> QED BY <2>1 DEF OpenOf
<1>8. PICK last : last = NewestOpen(r, side)
  OBVIOUS
<1>9. last = Len(r) /\ last # 0
  <2>1. Len(r) \in OpenOf(r, side)
    BY <1>4 DEF OpenOf
  <2>2. r \in Seq(TradeRow)
    BY <1>4 DEF RowsIn
  <2>3. last # 0 /\ last \in OpenOf(r, side) /\ Len(r) <= last
    BY <1>8, <2>1, <2>2, NewestIs
  <2>4. last \in DOMAIN r /\ last \in Nat /\ Len(r) \in Nat
    BY <2>2, <2>3, Rows DEF OpenOf
  <2>5. last <= Len(r)
    BY <1>4, <2>4
  <2> QED BY <2>3, <2>4, <2>5
<1>10. /\ after.current.side = side /\ after.current.bar = b /\ after.current.entry = e.price
  BY DEF Started
<1>11. ClosedTrades(r) = after.scored
  BY <1>6 DEF Agrees
<1>12. OpenOf(r, Opposite(after.current.side)) = {}
  BY <1>7, <1>10 DEF other
<1>13. /\ NewestOpen(r, after.current.side) # 0
       /\ r[NewestOpen(r, after.current.side)].bar = after.current.bar
       /\ r[NewestOpen(r, after.current.side)].entry = after.current.entry
  BY <1>4, <1>8, <1>9, <1>10
<1> QED BY <1>11, <1>12, <1>13 DEF Agrees

(* An exit closes the trade Pine closes, and no other side's.              *)
LEMMA ExitAgrees ==
    ASSUME NEW b \in Nat, NEW q, RowsIn(q, b), NEW side \in Sides,
           NEW e, e.price \in Nat, NEW before, NEW after, Agrees(q, before),
           before.current.side \in Sides,
           IF before.current.side = side
           THEN /\ after.current = Flat
                /\ after.scored = before.scored \cup {ScoredTrade(before.current, b, e)}
           ELSE after.current = before.current /\ after.scored = before.scored,
           NEW r, r = CloseOpenTrade(q, side, b, e.price)
    PROVE  Agrees(r, after)
<1>1. PICK last : last = NewestOpen(q, side)
  OBVIOUS
<1>2. /\ RowsIn(r, b) /\ DOMAIN r = DOMAIN q
      /\ last = 0 => r = q /\ OpenOf(q, side) = {}
      /\ last # 0 => /\ last \in OpenOf(q, side)
                     /\ r[last].side = side /\ r[last].bar = q[last].bar
                     /\ r[last].entry = q[last].entry /\ r[last].status = "closed"
                     /\ r[last].exitBar = b /\ r[last].exit = e.price
                     /\ \A i \in DOMAIN q : i # last => r[i] = q[i]
  BY <1>1, TradeClosed
<1>3. /\ ClosedTrades(q) = before.scored
      /\ NewestOpen(q, before.current.side) # 0
      /\ q[NewestOpen(q, before.current.side)].bar = before.current.bar
      /\ q[NewestOpen(q, before.current.side)].entry = before.current.entry
      /\ OpenOf(q, Opposite(before.current.side)) = {}
  BY DEF Agrees
<1>4. CASE before.current.side = side
  <2>1. /\ last # 0 /\ q[last].bar = before.current.bar /\ q[last].entry = before.current.entry
        /\ last \in DOMAIN q /\ q[last].status = "open"
    BY <1>1, <1>2, <1>3, <1>4 DEF OpenOf
  <2>2. ScoreOf(r[last]) = ScoredTrade(before.current, b, e)
    BY <1>2, <1>4, <2>1 DEF ScoreOf, ScoredTrade
  <2>3. ASSUME NEW x
        PROVE  x \in ClosedTrades(r) <=>
                   x \in ClosedTrades(q) \/ x = ScoredTrade(before.current, b, e)
    <3>1. x \in ClosedTrades(r) <=>
              \E i \in DOMAIN r : r[i].status = "closed" /\ x = ScoreOf(r[i])
      BY ClosedIs
    <3>2. x \in ClosedTrades(q) <=>
              \E i \in DOMAIN q : q[i].status = "closed" /\ x = ScoreOf(q[i])
      BY ClosedIs
    <3>3. \A i \in DOMAIN q : i # last => r[i] = q[i]
      BY <1>2, <2>1
    <3>4. r[last].status = "closed" /\ last \in DOMAIN r
      BY <1>2, <2>1
    <3> QED BY <1>2, <2>1, <2>2, <3>1, <3>2, <3>3, <3>4
  <2>4. ClosedTrades(r) = after.scored
    BY <1>3, <1>4, <2>3
  <2>5. after.current.side \notin Sides
    BY <1>4 DEF Flat, Sides
  <2> QED BY <2>4, <2>5 DEF Agrees
<1>5. CASE before.current.side # side
  <2>1. OpenOf(q, side) = {}
    <3>1. Opposite(before.current.side) = side
      BY <1>5 DEF Opposite, Sides
    <3> QED BY <1>3, <3>1
  <2>2. r = q
    BY <1>2, <2>1
  <2> QED BY <1>3, <1>5, <2>2 DEF Agrees
<1> QED BY <1>4, <1>5

LEMMA SameAgrees ==
    ASSUME NEW rows, NEW before, NEW after, Agrees(rows, before),
           after.current = before.current, after.scored = before.scored
    PROVE  Agrees(rows, after)
BY DEF Agrees

-------------------------------------------------------------------------------
(* Pine's replay, bar by bar.                                              *)
NothingReplayed == [current |-> Flat, scored |-> {}]

Replays(f, evs) ==
    f = [n \in 0..Len(evs) |-> IF n = 0 THEN NothingReplayed ELSE PineBar(f[n - 1], n, evs[n])]

Pine(evs) == CHOOSE f : Replays(f, evs)

LEMMA ReplayExists ==
    ASSUME NEW evs, Len(evs) \in Nat
    PROVE  \E f : Replays(f, evs)
<1> DEFINE Z == NothingReplayed
           Upto(f, k) ==
               f = [n \in 0..k |-> IF n = 0 THEN Z ELSE PineBar(f[n - 1], n, evs[n])]
           Good == {k \in 0..Len(evs) : \E f : Upto(f, k)}
<1>1. 0 \in Good
  <2>1. PICK f : f = [n \in 0..0 |-> Z]
    OBVIOUS
  <2>2. f = [n \in 0..0 |-> IF n = 0 THEN Z ELSE PineBar(f[n - 1], n, evs[n])]
    BY <2>1
  <2> QED BY <2>2
<1>2. ASSUME NEW i \in 0..Len(evs), i # 0, i - 1 \in Good PROVE i \in Good
  <2>1. PICK f : Upto(f, i - 1)
    BY <1>2
  <2>2. PICK g : g = [n \in 0..i |-> IF n = i THEN PineBar(f[i - 1], i, evs[i]) ELSE f[n]]
    OBVIOUS
  <2>3. i \in Nat /\ i >= 1 /\ i - 1 \in Nat
    BY <1>2
  <2>4. ASSUME NEW n \in 0..i
        PROVE  g[n] = IF n = 0 THEN Z ELSE PineBar(g[n - 1], n, evs[n])
    <3>1. CASE n = i
      <4>1. i - 1 \in 0..i /\ i - 1 # i
        BY <2>3
      <4>2. g[i - 1] = f[i - 1] /\ g[i] = PineBar(f[i - 1], i, evs[i])
        BY <2>2, <2>3, <4>1
      <4> QED BY <2>3, <3>1, <4>2
    <3>2. CASE n # i
      <4>1. n \in 0..(i - 1) /\ (n # 0 => n - 1 \in 0..i /\ n - 1 # i)
        BY <2>3, <3>2
      <4>2. f[n] = IF n = 0 THEN Z ELSE PineBar(f[n - 1], n, evs[n])
        BY <2>1, <4>1
      <4>3. g[n] = f[n] /\ (n # 0 => g[n - 1] = f[n - 1])
        BY <2>2, <3>2, <4>1
      <4> QED BY <4>2, <4>3
    <3> QED BY <3>1, <3>2
  <2>5. Upto(g, i)
    BY <2>2, <2>4
  <2> QED BY <2>5
<1> HIDE DEF Good
<1>3. \A i \in 0..Len(evs) : i \in Good
  BY <1>1, <1>2, NumberInduction
<1>4. Len(evs) \in Good
  BY <1>3
<1> QED BY <1>4 DEF Good, Replays

LEMMA ReplayUnique ==
    ASSUME NEW evs, Len(evs) \in Nat, NEW f, NEW g, Replays(f, evs), Replays(g, evs)
    PROVE  \A n \in 0..Len(evs) : f[n] = g[n]
<1> DEFINE Good == {k \in 0..Len(evs) : f[k] = g[k]}
<1>1. ASSUME NEW n \in 0..Len(evs)
      PROVE  /\ f[n] = IF n = 0 THEN NothingReplayed ELSE PineBar(f[n - 1], n, evs[n])
             /\ g[n] = IF n = 0 THEN NothingReplayed ELSE PineBar(g[n - 1], n, evs[n])
  BY DEF Replays
<1>2. 0 \in Good
  BY <1>1
<1>3. ASSUME NEW i \in 0..Len(evs), i # 0, i - 1 \in Good PROVE i \in Good
  BY <1>1, <1>3
<1> HIDE DEF Good
<1>4. \A i \in 0..Len(evs) : i \in Good
  BY <1>2, <1>3, NumberInduction
<1> QED BY <1>4 DEF Good

LEMMA PineIs ==
    ASSUME NEW evs, Len(evs) \in Nat
    PROVE  /\ Replays(Pine(evs), evs)
           /\ Pine(evs)[0] = NothingReplayed
           /\ \A n \in 1..Len(evs) : Pine(evs)[n] = PineBar(Pine(evs)[n - 1], n, evs[n])
           /\ ReplayPineBacktest(evs) = Pine(evs)[Len(evs)]
<1> DEFINE f == Pine(evs)
<1>1. Replays(f, evs)
  BY ReplayExists DEF Pine
<1>2. ReplayPineBacktest(evs) = f[Len(evs)]
  BY DEF ReplayPineBacktest, Pine, Replays, NothingReplayed
<1> HIDE DEF f
<1>3. \A n \in 0..Len(evs) :
          f[n] = IF n = 0 THEN NothingReplayed ELSE PineBar(f[n - 1], n, evs[n])
  BY <1>1 DEF Replays
<1>4. f[0] = NothingReplayed
  BY <1>3
<1>5. \A n \in 1..Len(evs) : f[n] = PineBar(f[n - 1], n, evs[n])
  BY <1>3
<1> QED BY <1>1, <1>2, <1>4, <1>5 DEF f

-------------------------------------------------------------------------------
(* What one bar does to Pine's position and to the table.                  *)

LEMMA PineHolds ==
    ASSUME NEW s, NEW b, NEW e, NEW t, t = PineBar(s, b, e)
    PROVE  /\ (s.current.side = "BUY" \/ e.signal = "BUY") /\ e.signal # "SELL" /\ ~e.endLong
                  => t.current.side = "BUY"
           /\ (s.current.side = "SELL" \/ e.signal = "SELL") /\ e.signal # "BUY" /\ ~e.endShort
                  => t.current.side = "SELL"
<1> DEFINE long == IF e.signal = "BUY" THEN Started("BUY", b, e) ELSE s.current
           endsLong == e.endLong /\ long.side = "BUY"
           held == IF endsLong THEN Flat ELSE long
           short == IF e.signal = "SELL" THEN Started("SELL", b, e) ELSE held
           endsShort == e.endShort /\ short.side = "SELL"
<1>1. t.current = IF endsShort THEN Flat ELSE short
  BY DEF PineBar
<1>2. Started("BUY", b, e).side = "BUY" /\ Started("SELL", b, e).side = "SELL"
  BY DEF Started
<1>3. ASSUME s.current.side = "BUY" \/ e.signal = "BUY", e.signal # "SELL", ~e.endLong
      PROVE  t.current.side = "BUY"
  BY <1>1, <1>2, <1>3
<1>4. ASSUME s.current.side = "SELL" \/ e.signal = "SELL", e.signal # "BUY", ~e.endShort
      PROVE  t.current.side = "SELL"
  BY <1>1, <1>2, <1>4
<1> QED BY <1>3, <1>4

LEMMA EntryTyped ==
    ASSUME NEW b \in Nat, b >= 1, NEW q, RowsIn(q, b), NEW side \in Sides, NEW other, NEW price \in Nat
    PROVE  RowsIn(OpenTrade(AbandonOpenTrade(q, other), side, b, price), b)
<1>1. PICK m : m = AbandonOpenTrade(q, other)
  OBVIOUS
<1>2. RowsIn(m, b)
  BY <1>1, TradesAbandoned
<1>3. RowsIn(OpenTrade(m, side, b, price), b)
  BY <1>2, TradeOpened
<1> QED BY <1>1, <1>3

LEMMA ExitTyped ==
    ASSUME NEW b \in Nat, NEW q, RowsIn(q, b), NEW side, NEW price \in Nat
    PROVE  RowsIn(CloseOpenTrade(q, side, b, price), b)
BY TradeClosed

LEMMA ProcessedTyped ==
    ASSUME NEW b \in Nat, b >= 1, NEW q, RowsIn(q, b), NEW e, e.price \in Nat
    PROVE  RowsIn(Processed(q, b, e), b)
<1> DEFINE long == IF e.signal = "BUY"
                   THEN OpenTrade(AbandonOpenTrade(q, "SELL"), "BUY", b, e.price) ELSE q
           ended == IF e.endLong THEN CloseOpenTrade(long, "BUY", b, e.price) ELSE long
           short == IF e.signal = "SELL"
                    THEN OpenTrade(AbandonOpenTrade(ended, "BUY"), "SELL", b, e.price) ELSE ended
<1>1. Processed(q, b, e) = IF e.endShort THEN CloseOpenTrade(short, "SELL", b, e.price) ELSE short
  BY DEF Processed
<1>2. "BUY" \in Sides /\ "SELL" \in Sides
  BY DEF Sides
<1>3. RowsIn(long, b)
  BY <1>2, EntryTyped
<1> HIDE DEF long
<1>4. RowsIn(ended, b)
  BY <1>3, ExitTyped
<1> HIDE DEF ended
<1>5. RowsIn(short, b)
  BY <1>2, <1>4, EntryTyped
<1> HIDE DEF short
<1> QED BY <1>1, <1>5, ExitTyped

(* What the bookkeeping of one bar's event and Pine's replay of it share:  *)
(* an exit ends the side that is in the market, and comes with no entry on *)
(* it.                                                                     *)
ExitsFit(s, e) ==
    /\ e.signal \in {"BUY", "SELL", "NEUTRAL"} /\ e.price \in Nat
    /\ e.endLong \in BOOLEAN /\ e.endShort \in BOOLEAN
    /\ e.endLong => e.signal # "BUY" /\ s.current.side = "BUY"
    /\ e.endShort => e.signal # "SELL" /\ s.current.side = "SELL"

Position(current, scored) == [current |-> current, scored |-> scored]

LEMMA BarAgrees ==
    ASSUME NEW b \in Nat, b >= 1, NEW q, RowsIn(q, b), NEW s, Agrees(q, s),
           NEW e, ExitsFit(s, e), NEW t, t = PineBar(s, b, e), NEW r, r = Processed(q, b, e)
    PROVE  Agrees(r, t)
<1> DEFINE x == ScoredTrade(s.current, b, e)
<1>1. /\ e.signal \in {"BUY", "SELL", "NEUTRAL"} /\ e.price \in Nat
      /\ e.endLong \in BOOLEAN /\ e.endShort \in BOOLEAN
      /\ e.endLong => e.signal # "BUY" /\ s.current.side = "BUY"
      /\ e.endShort => e.signal # "SELL" /\ s.current.side = "SELL"
  BY DEF ExitsFit
<1>2. "BUY" \in Sides /\ "SELL" \in Sides /\ Flat.side \notin Sides
  BY DEF Sides, Flat
<1>3. Opposite("BUY") = "SELL" /\ Opposite("SELL") = "BUY"
  BY DEF Opposite
<1>4. \A side : Started(side, b, e).side = side
  BY DEF Started
<1>5. CASE e.signal = "BUY"
  <2> DEFINE m == OpenTrade(AbandonOpenTrade(q, "SELL"), "BUY", b, e.price)
             after == Position(Started("BUY", b, e), s.scored)
  <2>1. RowsIn(m, b)
    BY <1>1, <1>2, EntryTyped
  <2>2. after.current = Started("BUY", b, e) /\ after.scored = s.scored
    BY DEF Position
  <2>3. r = IF e.endShort THEN CloseOpenTrade(m, "SELL", b, e.price) ELSE m
    BY <1>1, <1>5 DEF Processed
  <2>4. t.current = after.current /\ t.scored = after.scored
    BY <1>1, <1>4, <1>5, <2>2 DEF PineBar
  <2>5. Agrees(m, after)
    <3> HIDE DEF after
    <3> QED BY <1>1, <1>2, <1>3, <2>2, EntryAgrees
  <2> HIDE DEF m, after
  <2>6. CASE e.endShort
    <3>1. after.current.side = "BUY" /\ after.current.side # "SELL"
      BY <1>4, <2>2
    <3>2. r = CloseOpenTrade(m, "SELL", b, e.price)
      BY <2>3, <2>6
    <3> QED BY <1>1, <1>2, <2>1, <2>4, <2>5, <3>1, <3>2, ExitAgrees
  <2>7. CASE ~e.endShort
    BY <2>3, <2>4, <2>5, <2>7, SameAgrees
  <2> QED BY <2>6, <2>7
<1>6. CASE e.signal = "SELL"
  <2> DEFINE ended == IF e.endLong THEN CloseOpenTrade(q, "BUY", b, e.price) ELSE q
             held == IF e.endLong THEN Position(Flat, s.scored \cup {x}) ELSE s
  <2>1. RowsIn(ended, b)
    BY <1>1, ExitTyped
  <2>2. Agrees(ended, held)
    <3>1. CASE e.endLong
      <4>1. held.current = Flat /\ held.scored = s.scored \cup {x}
        BY <3>1 DEF Position
      <4>2. ended = CloseOpenTrade(q, "BUY", b, e.price) /\ s.current.side = "BUY"
        BY <1>1, <3>1
      <4> HIDE DEF ended, held
      <4> QED BY <1>1, <1>2, <4>1, <4>2, ExitAgrees
    <3>2. CASE ~e.endLong
      BY <3>2
    <3> QED BY <3>1, <3>2
  <2>3. r = OpenTrade(AbandonOpenTrade(ended, "BUY"), "SELL", b, e.price)
    BY <1>1, <1>6 DEF Processed
  <2>4. t.current = Started("SELL", b, e) /\ t.scored = held.scored
    BY <1>1, <1>6 DEF PineBar, Position
  <2> HIDE DEF ended, held
  <2> QED BY <1>1, <1>2, <1>3, <2>1, <2>2, <2>3, <2>4, EntryAgrees
<1>7. CASE e.signal = "NEUTRAL"
  <2>1. CASE e.endLong
    <3>1. r = CloseOpenTrade(q, "BUY", b, e.price) /\ ~e.endShort
      BY <1>1, <1>7, <2>1 DEF Processed
    <3>2. t.current = Flat /\ t.scored = s.scored \cup {x}
      BY <1>1, <1>7, <2>1, <3>1 DEF PineBar
    <3>3. s.current.side = "BUY"
      BY <1>1, <2>1
    <3> QED BY <1>1, <1>2, <3>1, <3>2, <3>3, ExitAgrees
  <2>2. CASE e.endShort
    <3>1. r = CloseOpenTrade(q, "SELL", b, e.price) /\ ~e.endLong
      BY <1>1, <1>7, <2>2 DEF Processed
    <3>2. t.current = Flat /\ t.scored = s.scored \cup {x}
      BY <1>1, <1>7, <2>2, <3>1 DEF PineBar
    <3>3. s.current.side = "SELL"
      BY <1>1, <2>2
    <3> QED BY <1>1, <1>2, <3>1, <3>2, <3>3, ExitAgrees
  <2>3. CASE ~e.endLong /\ ~e.endShort
    <3>1. r = q
      BY <1>7, <2>3 DEF Processed
    <3>2. t.current = s.current /\ t.scored = s.scored
      BY <1>7, <2>3 DEF PineBar
    <3> QED BY <3>1, <3>2, SameAgrees
  <2> QED BY <1>1, <2>1, <2>2, <2>3
<1> QED BY <1>1, <1>5, <1>6, <1>7

-------------------------------------------------------------------------------
(* The batch engine's exits, and the side Pine is on.                      *)

(* An entry since the kernel last turned against it.                       *)
HoldsLong(h, b) ==
    \E n \in Longs(h) : n <= b /\ \A k \in (n + 1)..b : ~BearishChange(h, k)
HoldsShort(h, b) ==
    \E n \in Shorts(h) : n <= b /\ \A k \in (n + 1)..b : ~BullishChange(h, k)

LEMMA EntriesTyped ==
    ASSUME NEW h \in Seq(Shapes)
    PROVE  /\ Longs(h) \subseteq 0..LastBar(h) /\ Shorts(h) \subseteq 0..LastBar(h)
           /\ \A b \in Longs(h) : Rate(h, b) = "rising"
           /\ \A b \in Shorts(h) : Rate(h, b) = "falling"
BY DEF Longs, Shorts, Flips

LEMMA SinceIs ==
    ASSUME NEW n \in Nat, NEW A, A \subseteq 0..n, NEW b \in Int, b <= n, BarsSince(A, b) >= 0
    PROVE  \E m \in A : /\ m <= b /\ BarsSince(A, b) = b - m
                        /\ \A k \in A : k <= b => k <= m
<1> DEFINE past == {k \in A : k <= b}
           m == Max(past)
<1>1. past # {} /\ BarsSince(A, b) = b - m
  <2>1. BarsSince(A, b) = IF past = {} THEN -1 ELSE b - m
    BY DEF BarsSince
  <2>2. past # {}
    BY <2>1
  <2> QED BY <2>1, <2>2
<1>2. past \in SUBSET (0..n)
  OBVIOUS
<1>3. m \in past /\ \A k \in past : k <= m
  <2> HIDE DEF past
  <2> QED BY <1>1, <1>2, Extremum
<1> QED BY <1>1, <1>3

(* A dynamic exit comes only with an entry on its side since the kernel's  *)
(* last turn.                                                              *)
LEMMA ExitHeld ==
    ASSUME NEW h \in Seq(Shapes), Len(h) <= MaxBarsBack + 1, NEW b \in 0..LastBar(h)
    PROVE  /\ b \in ExitsOf(h, TRUE).long => BearishChange(h, b) /\ HoldsLong(h, b - 1)
           /\ b \in ExitsOf(h, TRUE).short => BullishChange(h, b) /\ HoldsShort(h, b - 1)
<1>1. /\ LastBar(h) \in Int /\ b \in Int /\ b >= 0 /\ LastBar(h) \in Nat /\ b - 1 \in Int
      /\ b - 1 <= LastBar(h) /\ Len(h) \in Nat /\ LastBar(h) = Len(h) - 1
  BY LenProperties DEF LastBar
<1>2. /\ ExitsOf(h, TRUE).long =
            {k \in Bearish(h) : Outlasts(BarsSince(Bearish(h), k - 1), BarsSince(Longs(h), k - 1))}
      /\ ExitsOf(h, TRUE).short =
            {k \in Bullish(h) : Outlasts(BarsSince(Bullish(h), k - 1), BarsSince(Shorts(h), k - 1))}
  BY EntriesAre DEF ExitsOf, DynamicExits, Bearish, Bullish
<1>3. Bearish(h) \subseteq 0..LastBar(h) /\ Bullish(h) \subseteq 0..LastBar(h)
  BY <1>1 DEF Bearish, Bullish, Bars
<1>4. Longs(h) \subseteq 0..LastBar(h) /\ Shorts(h) \subseteq 0..LastBar(h)
  BY EntriesTyped
<1>5. ASSUME b \in ExitsOf(h, TRUE).long PROVE BearishChange(h, b) /\ HoldsLong(h, b - 1)
  <2>1. b \in Bearish(h) /\ Outlasts(BarsSince(Bearish(h), b - 1), BarsSince(Longs(h), b - 1))
    BY <1>2, <1>5
  <2>2. /\ BarsSince(Bearish(h), b - 1) >= 0 /\ BarsSince(Longs(h), b - 1) >= 0
        /\ BarsSince(Bearish(h), b - 1) > BarsSince(Longs(h), b - 1)
    BY <2>1 DEF Outlasts
  <2>3. PICK turn \in Bearish(h) : /\ turn <= b - 1 /\ BarsSince(Bearish(h), b - 1) = b - 1 - turn
                                   /\ \A k \in Bearish(h) : k <= b - 1 => k <= turn
    BY <1>1, <1>3, <2>2, SinceIs
  <2>4. PICK n \in Longs(h) : /\ n <= b - 1 /\ BarsSince(Longs(h), b - 1) = b - 1 - n
                              /\ \A k \in Longs(h) : k <= b - 1 => k <= n
    BY <1>1, <1>4, <2>2, SinceIs
  <2>5. n \in Int /\ n >= 0 /\ turn \in Int /\ turn < n
    BY <1>1, <1>3, <1>4, <2>2, <2>3, <2>4
  <2>6. ASSUME NEW k \in (n + 1)..(b - 1) PROVE ~BearishChange(h, k)
    <3>1. k \in Bars(h) /\ k <= b - 1 /\ ~(k <= turn)
      BY <1>1, <2>5, <2>6 DEF Bars
    <3> QED BY <2>3, <3>1 DEF Bearish
  <2> QED BY <2>1, <2>4, <2>6 DEF HoldsLong, Bearish
<1>6. ASSUME b \in ExitsOf(h, TRUE).short PROVE BullishChange(h, b) /\ HoldsShort(h, b - 1)
  <2>1. b \in Bullish(h) /\ Outlasts(BarsSince(Bullish(h), b - 1), BarsSince(Shorts(h), b - 1))
    BY <1>2, <1>6
  <2>2. /\ BarsSince(Bullish(h), b - 1) >= 0 /\ BarsSince(Shorts(h), b - 1) >= 0
        /\ BarsSince(Bullish(h), b - 1) > BarsSince(Shorts(h), b - 1)
    BY <2>1 DEF Outlasts
  <2>3. PICK turn \in Bullish(h) : /\ turn <= b - 1 /\ BarsSince(Bullish(h), b - 1) = b - 1 - turn
                                   /\ \A k \in Bullish(h) : k <= b - 1 => k <= turn
    BY <1>1, <1>3, <2>2, SinceIs
  <2>4. PICK n \in Shorts(h) : /\ n <= b - 1 /\ BarsSince(Shorts(h), b - 1) = b - 1 - n
                               /\ \A k \in Shorts(h) : k <= b - 1 => k <= n
    BY <1>1, <1>4, <2>2, SinceIs
  <2>5. n \in Int /\ n >= 0 /\ turn \in Int /\ turn < n
    BY <1>1, <1>3, <1>4, <2>2, <2>3, <2>4
  <2>6. ASSUME NEW k \in (n + 1)..(b - 1) PROVE ~BullishChange(h, k)
    <3>1. k \in Bars(h) /\ k <= b - 1 /\ ~(k <= turn)
      BY <1>1, <2>5, <2>6 DEF Bars
    <3> QED BY <2>3, <3>1 DEF Bullish
  <2> QED BY <2>1, <2>4, <2>6 DEF HoldsShort, Bullish
<1> QED BY <1>5, <1>6

LEMMA EventFields ==
    ASSUME NEW h \in Seq(Shapes), Len(h) <= MaxBarsBack + 1, NEW n \in 1..Len(h),
           NEW e, e = HistoricalEvents(h)[n]
    PROVE  /\ e.signal \in {"BUY", "SELL", "NEUTRAL"} /\ e.price \in Nat
           /\ e.signal = "BUY" <=> n - 1 \in Longs(h)
           /\ e.signal = "SELL" <=> n - 1 \in Shorts(h)
           /\ e.endLong \in BOOLEAN /\ e.endShort \in BOOLEAN
           /\ e.endLong <=> n - 1 \in ExitsOf(h, TRUE).long
           /\ e.endShort <=> n - 1 \in ExitsOf(h, TRUE).short
<1> DEFINE b == n - 1
           long == b \in Longs(h)
           short == b \in Shorts(h)
           endLong == b \in ExitsOf(h, TRUE).long
           endShort == b \in ExitsOf(h, TRUE).short
           early == b \in EarlyFlips(Flips(h))
<1>1. e = EventOf(h, b, long, short, endLong, endShort, early)
  BY EventsAre DEF HistoricalEvents
<1>2. At(h, b).close \in Nat
  <2>1. h[n] \in Shapes /\ b + 1 = n
    BY LenProperties, ElementOfSeq
  <2>2. h[n].close \in Nat
    BY <2>1, RunsAssumption
  <2> QED BY <2>1, <2>2 DEF At
<1>3. ~(long /\ short)
  BY EntriesTyped
<1>4. long \in BOOLEAN /\ short \in BOOLEAN /\ endLong \in BOOLEAN /\ endShort \in BOOLEAN
  OBVIOUS
<1> HIDE DEF b, long, short, endLong, endShort, early
<1>5. e.price \in Nat
  BY <1>1, <1>2 DEF EventOf
<1>6. e.signal = CASE long -> "BUY" [] short -> "SELL" [] OTHER -> "NEUTRAL"
  BY <1>1 DEF EventOf
<1>7. /\ e.signal \in {"BUY", "SELL", "NEUTRAL"}
      /\ e.signal = "BUY" <=> long
      /\ e.signal = "SELL" <=> short
  BY <1>3, <1>4, <1>6
<1>8. e.endLong = endLong /\ e.endShort = endShort
  BY <1>1 DEF EventOf
<1>9. /\ e.endLong \in BOOLEAN /\ e.endShort \in BOOLEAN
      /\ e.endLong <=> endLong
      /\ e.endShort <=> endShort
  BY <1>4, <1>8
<1> QED BY <1>5, <1>7, <1>9 DEF b, long, short, endLong, endShort

(* The side of an entry since the kernel's last turn is the side Pine is   *)
(* on: the kernel has moved that way since, so nothing took it out.        *)
LEMMA SidesHeld ==
    ASSUME NEW h \in Seq(Shapes), Len(h) <= MaxBarsBack + 1, RatesOK(h), NEW evs, evs = HistoricalEvents(h),
           NEW b \in 0..LastBar(h)
    PROVE  /\ HoldsLong(h, b) => Rate(h, b) = "rising" /\ Pine(evs)[b + 1].current.side = "BUY"
           /\ HoldsShort(h, b) => Rate(h, b) = "falling" /\ Pine(evs)[b + 1].current.side = "SELL"
<1> DEFINE m == LastBar(h)
           Held(c) == /\ HoldsLong(h, c) => Rate(h, c) = "rising" /\ Pine(evs)[c + 1].current.side = "BUY"
                      /\ HoldsShort(h, c) => Rate(h, c) = "falling" /\ Pine(evs)[c + 1].current.side = "SELL"
           Good == {c \in 0..m : Held(c)}
<1>1. Len(h) \in Nat /\ m = Len(h) - 1 /\ m \in Nat /\ Len(evs) = Len(h)
  <2>1. Len(h) \in Nat /\ m = Len(h) - 1
    BY LenProperties DEF LastBar
  <2>2. Len(evs) = Len(h)
    BY EventsLength DEF HistoricalEvents
  <2> QED BY <2>1, <2>2
<1>2. \A n \in 1..Len(h) : Pine(evs)[n] = PineBar(Pine(evs)[n - 1], n, evs[n])
  BY <1>1, PineIs
<1>3. /\ Longs(h) \subseteq 0..m /\ Shorts(h) \subseteq 0..m
      /\ \A c \in Longs(h) : Rate(h, c) = "rising"
      /\ \A c \in Shorts(h) : Rate(h, c) = "falling"
  BY EntriesTyped
<1>4. ASSUME NEW c \in 0..m, c # 0 => Held(c - 1) PROVE Held(c)
  <2> DEFINE e == evs[c + 1]
             s == Pine(evs)[c]
             t == Pine(evs)[c + 1]
  <2>1. c + 1 \in 1..Len(h) /\ (c + 1) - 1 = c /\ c \in Int /\ c >= 0
    BY <1>1
  <2>2. t = PineBar(s, c + 1, e)
    BY <1>2, <2>1
  <2>3. /\ e.signal = "BUY" <=> c \in Longs(h)
        /\ e.signal = "SELL" <=> c \in Shorts(h)
        /\ e.endLong \in BOOLEAN /\ e.endShort \in BOOLEAN
        /\ e.endLong <=> c \in ExitsOf(h, TRUE).long
        /\ e.endShort <=> c \in ExitsOf(h, TRUE).short
    <3> HIDE DEF e
    <3>1. PICK x, k : x = e /\ k = c + 1
      OBVIOUS
    <3>2. k \in 1..Len(h) /\ x = HistoricalEvents(h)[k] /\ k - 1 = c
      BY <2>1, <3>1 DEF e
    <3>3. /\ x.signal = "BUY" <=> k - 1 \in Longs(h)
          /\ x.signal = "SELL" <=> k - 1 \in Shorts(h)
          /\ x.endLong \in BOOLEAN /\ x.endShort \in BOOLEAN
          /\ x.endLong <=> k - 1 \in ExitsOf(h, TRUE).long
          /\ x.endShort <=> k - 1 \in ExitsOf(h, TRUE).short
      BY <3>2, EventFields
    <3> QED BY <3>1, <3>2, <3>3
  <2>4. /\ e.endLong => Rate(h, c) = "falling"
        /\ e.endShort => Rate(h, c) = "rising"
    BY <2>3, ExitHeld DEF BearishChange, BullishChange
  <2> HIDE DEF e, s, t
  <2>5. ASSUME HoldsLong(h, c) PROVE Rate(h, c) = "rising" /\ t.current.side = "BUY"
    <3>1. PICK n \in Longs(h) : n <= c /\ \A k \in (n + 1)..c : ~BearishChange(h, k)
      BY <2>5 DEF HoldsLong
    <3>2. n \in Int /\ n >= 0
      BY <1>3
    <3>3. CASE n = c
      <4>1. Rate(h, c) = "rising" /\ e.signal = "BUY"
        BY <1>3, <2>3, <3>3
      <4>2. e.signal # "SELL" /\ ~e.endLong
        BY <2>4, <4>1
      <4> QED BY <2>2, <4>1, <4>2, PineHolds
    <3>4. CASE n # c
      <4>1. c # 0 /\ n <= c - 1 /\ c \in (n + 1)..c /\ \A k \in (n + 1)..(c - 1) : k \in (n + 1)..c
        BY <2>1, <3>1, <3>2, <3>4
      <4>2. HoldsLong(h, c - 1)
        BY <3>1, <4>1 DEF HoldsLong
      <4>3. Rate(h, c - 1) = "rising" /\ s.current.side = "BUY"
        BY <1>4, <2>1, <4>1, <4>2 DEF s
      <4>4. Rate(h, c) \in {"rising", "falling", "none"} /\ (Rate(h, c) = "none" <=> c = 0)
        BY DEF RatesOK
      <4>5. Rate(h, c) = "rising"
        BY <3>1, <4>1, <4>3, <4>4 DEF BearishChange
      <4>6. e.signal # "SELL" /\ ~e.endLong
        BY <1>3, <2>3, <2>4, <4>5
      <4> QED BY <2>2, <4>3, <4>5, <4>6, PineHolds
    <3> QED BY <3>3, <3>4
  <2>6. ASSUME HoldsShort(h, c) PROVE Rate(h, c) = "falling" /\ t.current.side = "SELL"
    <3>1. PICK n \in Shorts(h) : n <= c /\ \A k \in (n + 1)..c : ~BullishChange(h, k)
      BY <2>6 DEF HoldsShort
    <3>2. n \in Int /\ n >= 0
      BY <1>3
    <3>3. CASE n = c
      <4>1. Rate(h, c) = "falling" /\ e.signal = "SELL"
        BY <1>3, <2>3, <3>3
      <4>2. e.signal # "BUY" /\ ~e.endShort
        BY <2>4, <4>1
      <4> QED BY <2>2, <4>1, <4>2, PineHolds
    <3>4. CASE n # c
      <4>1. c # 0 /\ n <= c - 1 /\ c \in (n + 1)..c /\ \A k \in (n + 1)..(c - 1) : k \in (n + 1)..c
        BY <2>1, <3>1, <3>2, <3>4
      <4>2. HoldsShort(h, c - 1)
        BY <3>1, <4>1 DEF HoldsShort
      <4>3. Rate(h, c - 1) = "falling" /\ s.current.side = "SELL"
        BY <1>4, <2>1, <4>1, <4>2 DEF s
      <4>4. Rate(h, c) \in {"rising", "falling", "none"} /\ (Rate(h, c) = "none" <=> c = 0)
        BY DEF RatesOK
      <4>5. Rate(h, c) = "falling"
        BY <3>1, <4>1, <4>3, <4>4 DEF BullishChange
      <4>6. e.signal # "BUY" /\ ~e.endShort
        BY <1>3, <2>3, <2>4, <4>5
      <4> QED BY <2>2, <4>3, <4>5, <4>6, PineHolds
    <3> QED BY <3>3, <3>4
  <2> QED BY <2>5, <2>6 DEF t
<1> HIDE DEF Held
<1>5. 0 \in Good
  BY <1>1, <1>4
<1>6. ASSUME NEW i \in 0..m, i # 0, i - 1 \in Good PROVE i \in Good
  BY <1>4, <1>6
<1> HIDE DEF Good
<1>7. \A i \in 0..m : i \in Good
  BY <1>1, <1>5, <1>6, NumberInduction
<1>8. b \in Good
  BY <1>7
<1> QED BY <1>8 DEF Good, Held

LEMMA EventsFit ==
    ASSUME NEW h \in Seq(Shapes), Len(h) <= MaxBarsBack + 1, RatesOK(h), NEW evs, evs = HistoricalEvents(h),
           NEW n \in 1..Len(h)
    PROVE  ExitsFit(Pine(evs)[n - 1], evs[n])
<1> DEFINE e == evs[n]
           s == Pine(evs)[n - 1]
           b == n - 1
<1>1. /\ Len(h) \in Nat /\ LastBar(h) = Len(h) - 1 /\ b \in 0..LastBar(h) /\ b \in Int /\ b >= 0
      /\ LastBar(h) \in Int
  BY LenProperties DEF LastBar
<1>2. /\ e.signal \in {"BUY", "SELL", "NEUTRAL"} /\ e.price \in Nat
      /\ e.signal = "BUY" <=> b \in Longs(h)
      /\ e.signal = "SELL" <=> b \in Shorts(h)
      /\ e.endLong \in BOOLEAN /\ e.endShort \in BOOLEAN
      /\ e.endLong <=> b \in ExitsOf(h, TRUE).long
      /\ e.endShort <=> b \in ExitsOf(h, TRUE).short
  BY EventFields
<1>3. /\ Longs(h) \subseteq 0..LastBar(h) /\ Shorts(h) \subseteq 0..LastBar(h)
      /\ \A c \in Longs(h) : Rate(h, c) = "rising"
      /\ \A c \in Shorts(h) : Rate(h, c) = "falling"
  BY EntriesTyped
<1>4. ASSUME e.endLong PROVE e.signal # "BUY" /\ s.current.side = "BUY"
  <2>1. BearishChange(h, b) /\ HoldsLong(h, b - 1)
    BY <1>1, <1>2, <1>4, ExitHeld
  <2>2. b # 0
    BY <1>1, <1>3, <2>1 DEF HoldsLong
  <2>3. b - 1 \in 0..LastBar(h) /\ (b - 1) + 1 = n - 1
    BY <1>1, <2>2
  <2>4. Pine(evs)[(b - 1) + 1].current.side = "BUY"
    BY <2>1, <2>3, SidesHeld
  <2>5. e.signal # "BUY"
    BY <1>2, <1>3, <2>1 DEF BearishChange
  <2> QED BY <2>3, <2>4, <2>5
<1>5. ASSUME e.endShort PROVE e.signal # "SELL" /\ s.current.side = "SELL"
  <2>1. BullishChange(h, b) /\ HoldsShort(h, b - 1)
    BY <1>1, <1>2, <1>5, ExitHeld
  <2>2. b # 0
    BY <1>1, <1>3, <2>1 DEF HoldsShort
  <2>3. b - 1 \in 0..LastBar(h) /\ (b - 1) + 1 = n - 1
    BY <1>1, <2>2
  <2>4. Pine(evs)[(b - 1) + 1].current.side = "SELL"
    BY <2>1, <2>3, SidesHeld
  <2>5. e.signal # "SELL"
    BY <1>2, <1>3, <2>1 DEF BullishChange
  <2> QED BY <2>3, <2>4, <2>5
<1> QED BY <1>2, <1>4, <1>5 DEF ExitsFit

-------------------------------------------------------------------------------
(* What the backtest stores.                                               *)

(* A finite set written out as a sequence.                                 *)
LEMMA Listed ==
    ASSUME NEW S, IsFiniteSet(S), NEW q, q = SetToSeq(S)
    PROVE  /\ q \in Seq(S) /\ \A x \in S : \E i \in DOMAIN q : q[i] = x
<1> DEFINE n == Cardinality(S)
<1>1. n \in Nat /\ ExistsBijection(1..n, S)
  BY FS_CardinalityType
<1>2. PICK f : f \in Bijection(1..n, S)
  BY <1>1 DEF ExistsBijection
<1>3. f \in [1..n -> S] /\ IsInjective(f)
  BY <1>2 DEF Bijection, Injection, IsInjective
<1>4. q \in [1..n -> S] /\ IsInjective(q)
  BY <1>3 DEF SetToSeq
<1>5. q \in Injection(1..n, S)
  BY <1>4 DEF Injection, IsInjective
<1>6. Cardinality(1..n) = n
  BY <1>1, FS_Interval
<1>7. q \in Surjection(1..n, S)
  BY <1>5, <1>6, FS_Injection
<1>8. \A x \in S : \E i \in 1..n : q[i] = x
  BY <1>7 DEF Surjection
<1>9. q \in Seq(S)
  BY <1>1, <1>4, SeqDef
<1> HIDE DEF n
<1> QED BY <1>4, <1>8, <1>9

(* A trade Pine has scored, and the one it has open.                       *)
Score == [side : Sides, bar : Nat, entry : Nat, exitBar : Nat, exit : Nat]

PineTyped(s, b) ==
    /\ IsFiniteSet(s.scored) /\ s.scored \subseteq Score /\ \A x \in s.scored : x.bar \in 1..b
    /\ s.current = Flat \/ (s.current.side \in Sides /\ s.current.bar \in 1..b /\ s.current.entry \in Nat)

LEMMA PineTypedStep ==
    ASSUME NEW b \in Nat, b >= 1, NEW s, PineTyped(s, b - 1), NEW e, e.price \in Nat
    PROVE  PineTyped(PineBar(s, b, e), b)
<1> DEFINE long == IF e.signal = "BUY" THEN Started("BUY", b, e) ELSE s.current
           endsLong == e.endLong /\ long.side = "BUY"
           held == IF endsLong THEN Flat ELSE long
           short == IF e.signal = "SELL" THEN Started("SELL", b, e) ELSE held
           endsShort == e.endShort /\ short.side = "SELL"
           current == IF endsShort THEN Flat ELSE short
           X == IF endsLong THEN {ScoredTrade(long, b, e)} ELSE {}
           Y == IF endsShort THEN {ScoredTrade(short, b, e)} ELSE {}
           t == PineBar(s, b, e)
           InMarket(c) == c = Flat \/ (c.side \in Sides /\ c.bar \in 1..b /\ c.entry \in Nat)
<1>1. t.current = current /\ t.scored = s.scored \cup X \cup Y
  BY DEF PineBar
<1>2. \A side \in Sides : InMarket(Started(side, b, e))
  BY DEF Started
<1>3. "BUY" \in Sides /\ "SELL" \in Sides /\ Flat.side = "none" /\ "none" # "BUY" /\ "none" # "SELL"
  BY DEF Sides, Flat
<1>4. \A k \in 1..(b - 1) : k \in 1..b
  OBVIOUS
<1>5. InMarket(s.current)
  BY <1>4 DEF PineTyped
<1>6. \A c : InMarket(c) /\ c.side # "none" =>
                 /\ ScoredTrade(c, b, e) \in Score /\ ScoredTrade(c, b, e).bar \in 1..b
  <2>1. ASSUME NEW c, InMarket(c), c.side # "none"
        PROVE  ScoredTrade(c, b, e) \in Score /\ ScoredTrade(c, b, e).bar \in 1..b
    <3>1. c.side \in Sides /\ c.bar \in 1..b /\ c.bar \in Nat /\ c.entry \in Nat
      BY <1>3, <2>1
    <3> QED BY <3>1 DEF ScoredTrade, Score
  <2> QED BY <2>1
<1>7. InMarket(long)
  BY <1>2, <1>3, <1>5
<1>8. InMarket(Flat)
  OBVIOUS
<1> HIDE DEF InMarket
<1>9. InMarket(held)
  BY <1>7, <1>8
<1>10. InMarket(short)
  BY <1>2, <1>3, <1>9
<1>11. InMarket(current)
  BY <1>8, <1>10
<1>12. IsFiniteSet(X) /\ \A x \in X : x \in Score /\ x.bar \in 1..b
  <2>1. CASE endsLong
    <3>1. long.side # "none" /\ X = {ScoredTrade(long, b, e)}
      BY <1>3, <2>1
    <3>2. IsFiniteSet({ScoredTrade(long, b, e)})
      BY FS_Singleton
    <3> HIDE DEF long
    <3> QED BY <1>6, <1>7, <3>1, <3>2
  <2>2. CASE ~endsLong
    BY <2>2, FS_EmptySet
  <2> QED BY <2>1, <2>2
<1>13. IsFiniteSet(Y) /\ \A x \in Y : x \in Score /\ x.bar \in 1..b
  <2>1. CASE endsShort
    <3>1. short.side # "none" /\ Y = {ScoredTrade(short, b, e)}
      BY <1>3, <2>1
    <3>2. IsFiniteSet({ScoredTrade(short, b, e)})
      BY FS_Singleton
    <3> HIDE DEF short
    <3> QED BY <1>6, <1>10, <3>1, <3>2
  <2>2. CASE ~endsShort
    BY <2>2, FS_EmptySet
  <2> QED BY <2>1, <2>2
<1>14. IsFiniteSet(s.scored) /\ \A x \in s.scored : x \in Score /\ x.bar \in 1..b
  BY <1>4 DEF PineTyped
<1> HIDE DEF long, endsLong, held, short, endsShort, current, X, Y, t
<1>15. IsFiniteSet(t.scored) /\ \A x \in t.scored : x \in Score /\ x.bar \in 1..b
  <2>1. IsFiniteSet(s.scored \cup X)
    BY <1>12, <1>14, FS_Union
  <2>2. IsFiniteSet((s.scored \cup X) \cup Y)
    BY <1>13, <2>1, FS_Union
  <2> QED BY <1>1, <1>12, <1>13, <1>14, <2>2
<1>16. InMarket(t.current)
  BY <1>1, <1>11
<1>17. PineTyped(t, b)
  BY <1>15, <1>16 DEF PineTyped, InMarket
<1> QED BY <1>17 DEF t

LEMMA ReplayTyped ==
    ASSUME NEW evs, Len(evs) \in Nat, \A n \in 1..Len(evs) : evs[n].price \in Nat
    PROVE  \A n \in 0..Len(evs) : PineTyped(Pine(evs)[n], n)
<1> DEFINE Good == {n \in 0..Len(evs) : PineTyped(Pine(evs)[n], n)}
<1>1. /\ Pine(evs)[0] = NothingReplayed
      /\ \A n \in 1..Len(evs) : Pine(evs)[n] = PineBar(Pine(evs)[n - 1], n, evs[n])
  BY PineIs
<1>2. 0 \in Good
  <2>1. PineTyped(NothingReplayed, 0)
    BY FS_EmptySet DEF PineTyped, NothingReplayed
  <2> QED BY <1>1, <2>1
<1>3. ASSUME NEW i \in 0..Len(evs), i # 0, i - 1 \in Good PROVE i \in Good
  <2>1. i \in 1..Len(evs) /\ i \in Nat /\ i >= 1 /\ PineTyped(Pine(evs)[i - 1], i - 1)
    BY <1>3
  <2>2. PineTyped(PineBar(Pine(evs)[i - 1], i, evs[i]), i)
    BY <2>1, PineTypedStep
  <2> QED BY <1>1, <2>1, <2>2
<1> HIDE DEF Good
<1>4. \A i \in 0..Len(evs) : i \in Good
  BY <1>2, <1>3, NumberInduction
<1> QED BY <1>4 DEF Good

(* The stored table stands where the replay ends.                          *)
LEMMA StoredAgree ==
    ASSUME NEW evs, NEW n \in Nat, Len(evs) = n, n >= 1, \A i \in 1..n : evs[i].price \in Nat
    PROVE  /\ RowsIn(StoredTrades(evs), n)
           /\ Agrees(StoredTrades(evs), ReplayPineBacktest(evs))
<1> DEFINE s == ReplayPineBacktest(evs)
           S == {StoredRow(x) : x \in s.scored}
           closed == SetToSeq(S)
           stored == StoredTrades(evs)
<1>1. PineTyped(s, n)
  <2>1. n \in 0..n /\ s = Pine(evs)[n]
    BY PineIs
  <2> QED BY <2>1, ReplayTyped
<1>2. stored = IF s.current.side = "none" THEN closed
               ELSE OpenTrade(closed, s.current.side, s.current.bar, s.current.entry)
  BY DEF StoredTrades
<1> HIDE DEF s, stored
<1>3. /\ IsFiniteSet(s.scored) /\ \A x \in s.scored : x \in Score /\ x.bar \in 1..n
      /\ s.current = Flat \/ (s.current.side \in Sides /\ s.current.bar \in 1..n /\ s.current.entry \in Nat)
  BY <1>1 DEF PineTyped
<1>4. IsFiniteSet(S)
  <2> DEFINE f == [x \in s.scored |-> StoredRow(x)]
  <2>1. f \in [s.scored -> S] /\ \A y \in S : \E x \in s.scored : f[x] = y
    OBVIOUS
  <2> HIDE DEF f, S
  <2>2. f \in Surjection(s.scored, S)
    BY <2>1 DEF Surjection
  <2> QED BY <1>3, <2>2, FS_Surjection
<1>5. \A x \in s.scored : /\ StoredRow(x) \in TradeRow /\ StoredRow(x).bar \in 1..n
                          /\ StoredRow(x).status = "closed" /\ ScoreOf(StoredRow(x)) = x
  BY <1>3 DEF StoredRow, TradeRow, Score, ScoreOf
<1>6. closed \in Seq(S) /\ \A y \in S : \E i \in DOMAIN closed : closed[i] = y
  <2> HIDE DEF S
  <2> QED BY <1>4, Listed
<1>7. \A y \in S : y \in TradeRow /\ y.bar \in 1..n /\ y.status = "closed"
  BY <1>5
<1> HIDE DEF closed
<1>8. /\ closed \in Seq(TradeRow)
      /\ \A i \in DOMAIN closed : closed[i] \in S /\ closed[i].bar \in 1..n /\ closed[i].status = "closed"
  <2>1. \A i \in DOMAIN closed : closed[i] \in S
    <3> HIDE DEF S
    <3> QED BY <1>6, Rows
  <2>2. S \subseteq TradeRow
    BY <1>7
  <2>3. closed \in Seq(TradeRow)
    <3> HIDE DEF S
    <3> QED BY <1>6, <2>2, SeqMonotonic
  <2> QED BY <1>7, <2>1, <2>3
<1>9. RowsIn(closed, n)
  BY <1>8 DEF RowsIn
<1>10. ClosedTrades(closed) = s.scored
  <2>1. ASSUME NEW x PROVE x \in ClosedTrades(closed) <=> x \in s.scored
    <3>1. x \in ClosedTrades(closed) <=>
              \E i \in DOMAIN closed : closed[i].status = "closed" /\ x = ScoreOf(closed[i])
      BY ClosedIs
    <3>2. ASSUME x \in s.scored PROVE x \in ClosedTrades(closed)
      <4>1. StoredRow(x) \in S
        BY <3>2
      <4>2. PICK i \in DOMAIN closed : closed[i] = StoredRow(x)
        BY <1>6, <4>1
      <4>3. closed[i].status = "closed" /\ x = ScoreOf(closed[i])
        BY <1>5, <3>2, <4>2
      <4> QED BY <3>1, <4>3
    <3>3. ASSUME x \in ClosedTrades(closed) PROVE x \in s.scored
      <4>1. PICK i \in DOMAIN closed : x = ScoreOf(closed[i])
        BY <3>1, <3>3
      <4>2. PICK y \in s.scored : closed[i] = StoredRow(y)
        BY <1>8
      <4> QED BY <1>5, <4>1, <4>2
    <3> QED BY <3>2, <3>3
  <2> QED BY <2>1
<1> HIDE DEF S
<1>11. CASE s.current.side = "none"
  <2>1. stored = closed /\ s.current.side \notin Sides
    BY <1>2, <1>11 DEF Sides
  <2>2. Agrees(closed, s)
    BY <1>10, <2>1 DEF Agrees
  <2> QED BY <1>9, <2>1, <2>2 DEF stored, s
<1>12. CASE s.current.side # "none"
  <2> DEFINE side == s.current.side
             bar == s.current.bar
             entry == s.current.entry
  <2>1. side \in Sides /\ bar \in 1..n /\ entry \in Nat
    BY <1>3, <1>12 DEF Flat
  <2>2. stored = Append(closed, [side |-> side, bar |-> bar, entry |-> entry, status |-> "open",
                                 exitBar |-> 0, exit |-> 0])
    BY <1>2, <1>12 DEF OpenTrade
  <2> DEFINE x == [side |-> side, bar |-> bar, entry |-> entry, status |-> "open",
                   exitBar |-> 0, exit |-> 0]
             last == Len(stored)
  <2>3. x \in TradeRow /\ x.side = side /\ x.bar = bar /\ x.entry = entry /\ x.status = "open"
    BY <2>1 DEF TradeRow
  <2>4. stored = Append(closed, x)
    BY <2>2
  <2> HIDE DEF x
  <2>5. /\ stored \in Seq(TradeRow) /\ DOMAIN stored = DOMAIN closed \cup {last}
        /\ \A i \in DOMAIN closed : stored[i] = closed[i]
        /\ last \notin DOMAIN closed /\ stored[last] = x /\ last \in Nat /\ last # 0
    <3>1. /\ stored \in Seq(TradeRow) /\ Len(closed) \in Nat /\ last = Len(closed) + 1
          /\ DOMAIN stored = DOMAIN closed \cup {last} /\ last \notin DOMAIN closed
          /\ \A i \in DOMAIN closed : stored[i] = closed[i]
          /\ stored[last] = x
      BY <1>8, <2>3, <2>4, Appended
    <3> QED BY <3>1
  <2>6. RowsIn(stored, n)
    BY <1>8, <2>1, <2>3, <2>5 DEF RowsIn
  <2>7. \A i \in DOMAIN stored : stored[i].status = "open" <=> i = last
    BY <1>8, <2>3, <2>5
  <2>8. ClosedTrades(stored) = ClosedTrades(closed)
    <3>1. ASSUME NEW y PROVE y \in ClosedTrades(stored) <=> y \in ClosedTrades(closed)
      <4>1. /\ y \in ClosedTrades(stored) <=>
                  \E i \in DOMAIN stored : stored[i].status = "closed" /\ y = ScoreOf(stored[i])
            /\ y \in ClosedTrades(closed) <=>
                  \E i \in DOMAIN closed : closed[i].status = "closed" /\ y = ScoreOf(closed[i])
        BY ClosedIs
      <4> QED BY <2>3, <2>5, <4>1
    <3> QED BY <3>1
  <2>9. NewestOpen(stored, side) = last
    <3>1. OpenOf(stored, side) = {last}
      BY <2>3, <2>5, <2>7 DEF OpenOf
    <3> QED BY <2>5, <3>1, NewestIs
  <2>10. OpenOf(stored, Opposite(side)) = {}
    <3>1. Opposite(side) # side
      BY OppositeIs, <2>1
    <3> QED BY <2>3, <2>5, <2>7, <3>1 DEF OpenOf
  <2> HIDE DEF last
  <2>11. Agrees(stored, s)
    BY <1>10, <2>3, <2>5, <2>8, <2>9, <2>10 DEF Agrees
  <2> QED BY <2>6, <2>11 DEF stored, s
<1> QED BY <1>11, <1>12

-------------------------------------------------------------------------------
(* The events a run and the backtest go by.                                *)

LEMMA ClosePriced ==
    ASSUME NEW h \in Seq(Shapes), NEW b \in 0..LastBar(h)
    PROVE  At(h, b).close \in Nat
<1>1. b + 1 \in 1..Len(h)
  BY LenProperties DEF LastBar
<1>2. h[b + 1] \in Shapes
  BY <1>1, ElementOfSeq
<1>3. h[b + 1].close \in Nat
  BY <1>2, RunsAssumption
<1> QED BY <1>3 DEF At

(* A run's last event is the newest bar's.                                 *)
LEMMA NewestPriced ==
    ASSUME NEW h \in Seq(Shapes), Len(h) > 0, NEW run, EndsWithNewest(h, run)
    PROVE  Last(run.results).price \in Nat
<1>1. PICK before : RunOK(h, LastBar(h) - 1, before) /\ run = Further(h, LastBar(h), before)
  BY DEF EndsWithNewest
<1> DEFINE b == LastBar(h)
           e == Evaluated(h, b, before.state)
<1>2. b \in 0..LastBar(h)
  BY LenProperties DEF LastBar
<1>3. EvaluateLatestBar(Prefix(h, b), before.state) = e
  BY <1>2, EvaluatePrefix
<1>4. PICK rs, qs : rs = run.results /\ qs = before.results
  OBVIOUS
<1>5. Appends(rs, qs, e.result)
  BY <1>1, <1>3, <1>4 DEF Further, Appends
<1>6. Sequential(qs)
  BY <1>1, <1>4 DEF RunOK
<1>7. e.result.price = At(h, b).close
  BY DEF Evaluated, Step
<1>8. At(h, b).close \in Nat
  BY <1>2, ClosePriced
<1> HIDE DEF e
<1>9. rs[Len(rs)] = e.result
  BY ONLY <1>5, <1>6, AppendedResult
<1> QED BY <1>4, <1>7, <1>8, <1>9 DEF Last

LEMMA EventsPriced ==
    ASSUME NEW h \in Seq(Shapes)
    PROVE  /\ Len(HistoricalEvents(h)) = Len(h)
           /\ \A n \in 1..Len(h) : HistoricalEvents(h)[n].price \in Nat
<1>1. Len(HistoricalEvents(h)) = Len(h)
  BY EventsLength DEF HistoricalEvents
<1>2. ASSUME NEW n \in 1..Len(h) PROVE HistoricalEvents(h)[n].price \in Nat
  <2>1. HistoricalEvents(h)[n].price = At(h, n - 1).close
    BY DEF HistoricalEvents, EventsWith
  <2>2. n - 1 \in 0..LastBar(h)
    BY LenProperties DEF LastBar
  <2> QED BY <2>1, <2>2, ClosePriced
<1> QED BY <1>1, <1>2

(* Later candles change no bar's event.                                    *)
LEMMA PrefixEvents ==
    ASSUME NEW h \in Seq(Shapes), Len(h) <= MaxBarsBack + 1, NEW b \in 0..LastBar(h),
           NEW g, g = Prefix(h, b), NEW n \in 1..(b + 1)
    PROVE  HistoricalEvents(g)[n] = HistoricalEvents(h)[n]
<1>1. /\ g \in Seq(Shapes) /\ Len(g) = b + 1 /\ LastBar(g) = b /\ Agree(g, h, b)
      /\ Len(h) \in Nat /\ b + 1 <= Len(h)
  <2>1. b \in -1..LastBar(h)
    BY LenProperties DEF LastBar
  <2> QED BY <2>1, PrefixIs
<1>2. /\ b \in Nat /\ Len(g) \in Nat /\ Len(g) <= MaxBarsBack + 1 /\ n \in 1..Len(g) /\ n \in 1..Len(h)
      /\ n - 1 \in Nat /\ n - 1 <= b /\ n - 1 < Len(g) /\ n - 1 < Len(h) /\ n - 2 \in -1..b
  BY <1>1, EngineAssumption
<1>3. Agree(g, h, n - 1)
  BY <1>1, <1>2, AgreeBefore
<1>4. StateAt(g, n - 2) = StateAt(h, n - 2)
  BY <1>2, PrefixKnows
<1>5. Evaluated(g, n - 1, StateAt(h, n - 2)) = Evaluated(h, n - 1, StateAt(h, n - 2))
  BY ONLY <1>1, <1>2, <1>3, EvaluatedSame
<1>6. Outcome(g, n) = Outcome(h, n)
  BY <1>4, <1>5 DEF Outcome
<1>7. Outcome(g, n) = HistoricalEvents(g)[n]
  BY <1>1, <1>2, OutcomeIs
<1>8. Outcome(h, n) = HistoricalEvents(h)[n]
  BY <1>2, OutcomeIs
<1> QED BY <1>6, <1>7, <1>8

LEMMA WholePrefix ==
    ASSUME NEW h \in Seq(Shapes)
    PROVE  Prefix(h, LastBar(h)) = h
<1> DEFINE g == Prefix(h, LastBar(h))
           b == LastBar(h)
<1>1. Len(h) \in Nat /\ b = Len(h) - 1 /\ b \in -1..LastBar(h)
  BY LenProperties DEF LastBar
<1>2. g \in Seq(Shapes) /\ Len(g) = Len(h) /\ Agree(g, h, b)
  BY <1>1, PrefixIs
<1> HIDE DEF g
<1>3. ASSUME NEW k \in 1..Len(h) PROVE g[k] = h[k]
  <2>1. k - 1 \in 0..b /\ (k - 1) + 1 = k
    BY <1>1
  <2> QED BY <1>2, <2>1 DEF Agree, At
<1>4. g = h
  BY <1>2, <1>3, SeqEqual
<1> QED BY <1>4 DEF g

LEMMA PineSame ==
    ASSUME NEW evs, NEW fvs, Len(evs) \in Nat, Len(fvs) \in Nat,
           NEW m \in Nat, m <= Len(evs), m <= Len(fvs), \A n \in 1..m : evs[n] = fvs[n]
    PROVE  Pine(evs)[m] = Pine(fvs)[m]
<1> DEFINE Good == {n \in 0..m : Pine(evs)[n] = Pine(fvs)[n]}
<1>1. /\ Pine(evs)[0] = NothingReplayed
      /\ \A n \in 1..Len(evs) : Pine(evs)[n] = PineBar(Pine(evs)[n - 1], n, evs[n])
  BY PineIs
<1>2. /\ Pine(fvs)[0] = NothingReplayed
      /\ \A n \in 1..Len(fvs) : Pine(fvs)[n] = PineBar(Pine(fvs)[n - 1], n, fvs[n])
  BY PineIs
<1>3. 0 \in Good
  BY <1>1, <1>2
<1>4. ASSUME NEW i \in 0..m, i # 0, i - 1 \in Good PROVE i \in Good
  <2>1. i \in 1..m /\ i \in 1..Len(evs) /\ i \in 1..Len(fvs) /\ Pine(evs)[i - 1] = Pine(fvs)[i - 1]
    BY <1>4
  <2> QED BY <1>1, <1>2, <2>1
<1> HIDE DEF Good
<1>5. \A n \in 0..m : n \in Good
  BY <1>3, <1>4, NumberInduction
<1> QED BY <1>5 DEF Good

(* The replay of a longer history is that of the bars before, and one more.*)
LEMMA ReplayGrows ==
    ASSUME NEW h \in Seq(Shapes), Len(h) <= MaxBarsBack + 1, Len(h) > 0,
           NEW g, g = Prefix(h, LastBar(h) - 1)
    PROVE  /\ ReplayPineBacktest(HistoricalEvents(g)) = Pine(HistoricalEvents(h))[Len(h) - 1]
           /\ ReplayPineBacktest(HistoricalEvents(h)) =
                  PineBar(ReplayPineBacktest(HistoricalEvents(g)), Len(h), HistoricalEvents(h)[Len(h)])
<1> DEFINE n == Len(h)
           evs == HistoricalEvents(h)
           fvs == HistoricalEvents(g)
<1>1. n \in Nat /\ n >= 1 /\ LastBar(h) = n - 1 /\ n - 1 \in Nat /\ n \in 1..n
  BY LenProperties DEF LastBar
<1>2. g \in Seq(Shapes) /\ Len(g) = n - 1
  <2>1. LastBar(h) - 1 \in -1..LastBar(h) /\ (LastBar(h) - 1) + 1 = n - 1
    BY <1>1
  <2> QED BY <2>1, PrefixIs
<1>3. Len(evs) = n /\ Len(fvs) = n - 1
  BY <1>2, EventsPriced
<1>4. ASSUME NEW k \in 1..(n - 1) PROVE fvs[k] = evs[k]
  <2>1. LastBar(h) - 1 \in 0..LastBar(h) /\ k \in 1..((LastBar(h) - 1) + 1)
    BY <1>1
  <2> QED BY <2>1, PrefixEvents
<1> HIDE DEF n, evs, fvs
<1>5. Pine(fvs)[n - 1] = Pine(evs)[n - 1]
  <2> DEFINE m == n - 1
  <2>1. /\ m \in Nat /\ Len(fvs) \in Nat /\ Len(evs) \in Nat /\ m <= Len(fvs) /\ m <= Len(evs)
        /\ \A k \in 1..m : fvs[k] = evs[k]
    BY <1>1, <1>3, <1>4
  <2> HIDE DEF m
  <2>2. Pine(fvs)[m] = Pine(evs)[m]
    BY ONLY <2>1, PineSame
  <2> QED BY <2>2 DEF m
<1>6. ReplayPineBacktest(fvs) = Pine(fvs)[n - 1]
  BY <1>1, <1>3, PineIs
<1>7. ReplayPineBacktest(evs) = Pine(evs)[n] /\ Pine(evs)[n] = PineBar(Pine(evs)[n - 1], n, evs[n])
  BY <1>1, <1>3, PineIs
<1> QED BY <1>5, <1>6, <1>7 DEF n, evs, fvs

-------------------------------------------------------------------------------
(* What every state is made of: the inductive type invariant.              *)
TypesInv ==
    /\ EngineInv /\ Len(history) <= MaxBars
    /\ saved = NoState \/ saved \in SavedStates
    /\ saved = NoState => results = <<>>
    /\ RowsIn(trades, Len(history)) /\ drifted \in BOOLEAN

LEMMA RowsLater ==
    ASSUME NEW q, NEW n \in Nat, NEW m \in Nat, n <= m, RowsIn(q, n)
    PROVE  RowsIn(q, m)
BY DEF RowsIn

LEMMA TypesStart == Init => TypesInv
<1> SUFFICES ASSUME Init PROVE TypesInv
  OBVIOUS
<1>1. history = <<>> /\ Len(history) = 0 /\ trades = <<>> /\ saved = NoState /\ results = <<>> /\ drifted = TRUE
  BY DEF Init
<1>2. RowsIn(trades, Len(history))
  BY <1>1 DEF RowsIn
<1> QED BY <1>1, <1>2, EngineStart, RunsAssumption DEF TypesInv

LEMMA TypesCandle ==
    ASSUME TypesInv, CandleCloses
    PROVE  TypesInv'
<1>1. EngineInv'
  BY EngineCandle DEF TypesInv
<1>2. /\ Len(history) \in Nat /\ Len(history') = Len(history) + 1 /\ Len(history') <= MaxBars
      /\ UNCHANGED <<saved, results, trades, drifted>>
  <2>1. history \in Seq(Shapes) /\ Len(history) \in Nat
    BY LenProperties DEF TypesInv, EngineInv, RunsInv
  <2>2. PICK bar \in Shapes : history' = Append(history, bar)
    BY DEF CandleCloses, PossibleBars
  <2>3. Len(history') = Len(history) + 1
    BY <2>1, <2>2, AppendProperties
  <2> QED BY <2>1, <2>3, RunsAssumption DEF CandleCloses
<1>3. RowsIn(trades, Len(history'))
  BY <1>2, RowsLater DEF TypesInv
<1> QED BY <1>1, <1>2, <1>3 DEF TypesInv

LEMMA TypesEvaluate ==
    ASSUME TypesInv, Evaluate
    PROVE  TypesInv'
<1> DEFINE run == IF saved = NoState THEN FirstResults ELSE FurtherResults
           n == Len(history)
<1>1. EngineInv' /\ saved' \in SavedStates /\ saved' # NoState
  BY EngineEvaluates, RunsAssumption DEF TypesInv
<1>2. /\ history \in Seq(Shapes) /\ n \in Nat /\ Len(results) \in Nat
      /\ RunsInv /\ RowsIn(trades, n) /\ drifted \in BOOLEAN
  BY LenProperties DEF TypesInv, EngineInv, RunsInv, Sequential
<1>3. n > Len(results) /\ n >= 1 /\ n > 0
  BY <1>2 DEF Evaluate, Backlog
<1>4. Last(run.results).price \in Nat
  BY <1>2, <1>3, NewestRun, NewestPriced
<1>5. /\ history' = history
      /\ trades' = trades \/ trades' = Processed(trades, n, Last(run.results))
  BY DEF Evaluate
<1>6. drifted' \in BOOLEAN
  BY <1>2 DEF Evaluate
<1> HIDE DEF run, n
<1>7. RowsIn(Processed(trades, n, Last(run.results)), n)
  BY <1>2, <1>3, <1>4, ProcessedTyped
<1>8. RowsIn(trades', n)
  BY <1>2, <1>5, <1>7
<1> QED BY <1>1, <1>5, <1>6, <1>8 DEF TypesInv, n

LEMMA TypesBackfill ==
    ASSUME TypesInv, Backfill
    PROVE  TypesInv'
<1> DEFINE n == Len(history)
           evs == HistoricalEvents(history)
<1>1. EngineInv'
  BY EngineKept DEF TypesInv, Next
<1>2. history \in Seq(Shapes) /\ n \in Nat
  BY LenProperties DEF TypesInv, EngineInv, RunsInv
<1>3. /\ UNCHANGED <<history, saved, results>> /\ history # <<>> /\ drifted' \in BOOLEAN
      /\ trades' = <<>> \/ trades' = StoredTrades(evs)
  BY DEF Backfill
<1>4. n >= 1
  BY <1>2, <1>3, EmptySeq
<1>5. RowsIn(StoredTrades(evs), n)
  <2>1. Len(evs) = n /\ \A i \in 1..n : evs[i].price \in Nat
    BY <1>2, EventsPriced
  <2> HIDE DEF n, evs
  <2> QED BY <1>2, <1>4, <2>1, StoredAgree
<1>6. RowsIn(<<>>, n)
  BY DEF RowsIn
<1>7. RowsIn(trades', n)
  BY <1>3, <1>5, <1>6
<1> QED BY <1>1, <1>3, <1>7 DEF TypesInv

LEMMA TypesKept == TypesInv /\ [Next]_vars => TypesInv'
<1>1. TypesInv /\ UNCHANGED vars => TypesInv'
  <2> SUFFICES ASSUME TypesInv, UNCHANGED vars PROVE TypesInv'
    OBVIOUS
  <2>1. EngineInv'
    BY EngineKept DEF TypesInv
  <2> QED BY <2>1 DEF TypesInv, vars
<1> QED BY <1>1, TypesCandle, TypesEvaluate, TypesBackfill DEF Next

LEMMA TypesAlways == Spec => []TypesInv
BY TypesStart, TypesKept, PTL DEF Spec

(* Every state has the shape the tables give it: the state kept in         *)
(* engine_state (fast_predict.py, QueueState) is never ahead of the        *)
(* candles, its queue never holds more votes than neighbors_count, its     *)
(* counters never run ahead of the bars evaluated, and a trades row is of  *)
(* a side and of a stored bar, whatever max_bars_back covers.              *)
THEOREM TypesHold == Spec => []TypeOK
<1>1. TypesInv => TypeOK
  <2> SUFFICES ASSUME TypesInv PROVE TypeOK
    OBVIOUS
  <2>1. /\ Len(history) \in Nat /\ Len(results) \in Nat /\ Len(results) <= Len(history)
        /\ Len(history) <= MaxBars /\ MaxBars \in Nat
        /\ saved # NoState => saved.upTo = Len(results) - 1
    BY LenProperties, RunsAssumption DEF TypesInv, EngineInv, RunsInv, Sequential
  <2>2. saved # NoState => saved \in SavedStates /\ StateTyped(saved.state, saved.upTo)
    BY DEF TypesInv, EngineInv
  <2>3. saved = NoState <=> results = <<>>
    <3>1. ASSUME saved # NoState PROVE results # <<>>
      <4>1. saved.upTo \in Nat
        BY <2>2, <3>1 DEF SavedStates
      <4> QED BY <2>1, <3>1, <4>1
    <3> QED BY <3>1 DEF TypesInv
  <2>4. saved # NoState =>
            /\ Len(saved.state.queue) <= NeighborsCount
            /\ {saved.state.exits.sinceRedEntry, saved.state.exits.sinceGreenEntry} \subseteq -1..MaxBars
    BY <2>1, <2>2 DEF StateTyped
  <2>5. \A row \in Range(trades) : row.side \in Sides /\ row.bar \in 1..Len(history)
    <3>1. trades \in Seq(TradeRow) /\ \A i \in DOMAIN trades : trades[i].bar \in 1..Len(history)
      BY DEF TypesInv, RowsIn
    <3>2. \A i \in DOMAIN trades : trades[i].side \in Sides
      <4>1. \A i \in DOMAIN trades : trades[i] \in TradeRow
        BY <3>1, Rows
      <4> QED BY <4>1 DEF TradeRow
    <3> QED BY <3>1, <3>2 DEF Range
  <2> QED BY <2>1, <2>2, <2>3, <2>4, <2>5 DEF TypeOK, TypesInv
<1> QED BY <1>1, TypesAlways, PTL

-------------------------------------------------------------------------------
(* The table and the backtest of the bars evaluated: as long as no event   *)
(* was missed, the live runs have kept the one where the other stands.     *)
TradesInv ==
    /\ TypesInv
    /\ ~drifted => results # <<>>
    /\ ~drifted /\ Len(history) <= MaxBarsBack + 1 =>
           Agrees(trades, ReplayPineBacktest(HistoricalEvents(Prefix(history, LastBar(results)))))

LEMMA TradesCandle ==
    ASSUME TradesInv, CandleCloses
    PROVE  TradesInv'
<1>1. TypesInv'
  BY TypesCandle DEF TradesInv
<1>2. UNCHANGED <<results, trades, drifted>>
  BY DEF CandleCloses
<1>3. /\ history \in Seq(Shapes) /\ Len(history) \in Nat /\ Len(results) \in Nat
      /\ Len(results) <= Len(history)
  BY LenProperties DEF TradesInv, TypesInv, EngineInv, RunsInv, Sequential
<1>4. PICK bar \in Shapes : history' = Append(history, bar)
  BY DEF CandleCloses, PossibleBars
<1>5. PICK g : g = history'
  OBVIOUS
<1>6. /\ Len(g) = Len(history) + 1
      /\ \A b \in -1..LastBar(history) : Prefix(g, b) = Prefix(history, b)
  BY <1>3, <1>4, <1>5, CandleAppended
<1>7. LastBar(results) \in -1..LastBar(history)
  BY <1>3 DEF LastBar
<1>8. Prefix(g, LastBar(results)) = Prefix(history, LastBar(results))
  BY <1>6, <1>7
<1>9. MaxBarsBack \in Nat
  BY EngineAssumption
<1>10. Len(g) <= MaxBarsBack + 1 => Len(history) <= MaxBarsBack + 1
  BY <1>3, <1>6, <1>9
<1>11. ~drifted /\ Len(g) <= MaxBarsBack + 1 =>
           Agrees(trades, ReplayPineBacktest(HistoricalEvents(Prefix(g, LastBar(results)))))
  BY <1>8, <1>10 DEF TradesInv
<1>12. ~drifted => results # <<>>
  BY DEF TradesInv
<1> QED BY <1>1, <1>2, <1>5, <1>11, <1>12 DEF TradesInv

(* One bar evaluated at a time is one bar of the replay.                   *)
LEMMA TradesEvaluate ==
    ASSUME TradesInv, Evaluate
    PROVE  TradesInv'
<1> DEFINE run == IF saved = NoState THEN FirstResults ELSE FurtherResults
           n == Len(history)
           b == LastBar(history)
           evs == HistoricalEvents(history)
<1>1. /\ TypesInv' /\ TypesInv /\ EngineInv /\ RunsInv /\ RatesOK(history) /\ RowsIn(trades, n)
      /\ history \in Seq(Shapes) /\ n \in Nat /\ Len(results) \in Nat /\ b = n - 1
      /\ drifted \in BOOLEAN
  BY TypesEvaluate, LenProperties DEF TradesInv, TypesInv, EngineInv, RunsInv, Sequential, LastBar
<1>2. /\ Backlog > 0 /\ history' = history /\ results' = run.results
      /\ \/ /\ trades' = Processed(trades, n, Last(run.results))
            /\ drifted' = (drifted \/ Backlog > 1)
         \/ drifted' = TRUE
  BY DEF Evaluate
<1>3. n > Len(results) /\ n >= 1 /\ b \in 0..b /\ b \in Nat
  BY <1>1, <1>2 DEF Backlog
<1>4. Len(results') = n /\ LastBar(results') = b
  <2>1. RunOK(history, b, run)
    BY <1>1, <1>3, NewestRun, NewestOK
  <2> HIDE DEF run
  <2>2. Len(results') = b + 1
    BY <1>2, <2>1 DEF RunOK
  <2> QED BY <1>1, <2>2 DEF LastBar
<1>5. results' # <<>>
  BY <1>3, <1>4
<1>6. ASSUME ~drifted', n <= MaxBarsBack + 1
      PROVE  Agrees(trades', ReplayPineBacktest(evs))
  <2>1. /\ trades' = Processed(trades, n, Last(run.results)) /\ ~drifted /\ ~(Backlog > 1)
    BY <1>1, <1>2, <1>6
  <2>2. results # <<>> /\ saved # NoState
    BY <1>1, <2>1 DEF TradesInv, TypesInv
  <2>3. /\ n = Len(results) + 1 /\ LastBar(results) = b - 1 /\ saved.upTo = b - 1
        /\ saved.upTo >= 0 /\ StateOK(history, saved.upTo, saved.state)
    <3>1. n = Len(results) + 1
      BY <1>1, <1>2, <2>1 DEF Backlog
    <3>2. saved \in SavedStates /\ saved.upTo = Len(results) - 1
          /\ StateOK(history, saved.upTo, saved.state)
      BY <1>1, <2>2 DEF TypesInv, RunsInv
    <3>3. saved.upTo >= 0
      BY <3>2 DEF SavedStates
    <3> QED BY <1>1, <3>1, <3>2, <3>3 DEF LastBar
  <2>4. run = FurtherResults
    BY <2>2
  <2>5. Last(run.results) = Evaluated(history, b, saved.state).result
    <3>1. b = saved.upTo + 1
      BY <1>1, <2>3
    <3> QED BY <1>1, <2>2, <2>3, <2>4, <3>1, NewestBar
  <2>6. saved.state = StateAt(history, n - 2)
    <3>1. saved.upTo <= MaxBarsBack /\ saved.upTo = n - 2
      BY <1>1, <1>6, <2>3, EngineAssumption
    <3> QED BY <2>3, <3>1 DEF StateOK
  <2>7. Last(run.results) = evs[n]
    <3>1. Outcome(history, n) = Evaluated(history, n - 1, StateAt(history, n - 2)).result
      BY DEF Outcome
    <3>2. n \in 1..n
      BY <1>1, <1>3
    <3>3. Outcome(history, n) = evs[n]
      BY <1>1, <1>6, <3>2, OutcomeIs
    <3> QED BY <1>1, <2>5, <2>6, <3>1, <3>3
  <2> DEFINE g == Prefix(history, b - 1)
             s == ReplayPineBacktest(HistoricalEvents(g))
             t == ReplayPineBacktest(evs)
  <2>8. s = Pine(evs)[n - 1] /\ t = PineBar(s, n, evs[n])
    BY <1>1, <1>3, <1>6, ReplayGrows
  <2>9. ExitsFit(Pine(evs)[n - 1], evs[n])
    <3>1. n \in 1..n
      BY <1>1, <1>3
    <3> QED BY <1>1, <1>6, <3>1, EventsFit
  <2>10. Agrees(trades, s)
    BY <1>6, <2>1, <2>3 DEF TradesInv
  <2>11. trades' = Processed(trades, n, evs[n])
    BY <2>1, <2>7
  <2> HIDE DEF n, evs, s, t, run
  <2>12. Agrees(trades', t)
    <3>1. PICK rows, e, r : rows = trades /\ e = evs[n] /\ r = trades'
      OBVIOUS
    <3>2. /\ n \in Nat /\ n >= 1 /\ RowsIn(rows, n) /\ Agrees(rows, s) /\ ExitsFit(s, e)
          /\ t = PineBar(s, n, e) /\ r = Processed(rows, n, e)
      BY <1>1, <1>3, <2>8, <2>9, <2>10, <2>11, <3>1
    <3>3. Agrees(r, t)
      BY ONLY <3>2, BarAgrees
    <3> QED BY <3>1, <3>3
  <2> QED BY <2>12 DEF t
<1>7. Prefix(history, b) = history
  BY <1>1, WholePrefix
<1> HIDE DEF run, n, b
<1>8. ~drifted' /\ n <= MaxBarsBack + 1 =>
          Agrees(trades', ReplayPineBacktest(HistoricalEvents(Prefix(history', LastBar(results')))))
  BY <1>2, <1>4, <1>6, <1>7
<1> QED BY <1>1, <1>2, <1>5, <1>8 DEF TradesInv, n

LEMMA TradesBackfill ==
    ASSUME TradesInv, Backfill, ~BackfillAlongside
    PROVE  TradesInv'
<1> DEFINE n == Len(history)
           evs == HistoricalEvents(history)
<1>1. /\ TypesInv' /\ history \in Seq(Shapes) /\ n \in Nat /\ Len(results) \in Nat
  BY TypesBackfill, LenProperties DEF TradesInv, TypesInv, EngineInv, RunsInv, Sequential
<1>2. /\ UNCHANGED <<history, saved, results>> /\ history # <<>> /\ Backlog = 0
      /\ drifted' = (n < BacktestMinimum)
      /\ trades' = IF n < BacktestMinimum THEN <<>> ELSE StoredTrades(evs)
  BY DEF Backfill
<1>3. n >= 1 /\ Len(results) = n
  BY <1>1, <1>2, EmptySeq DEF Backlog
<1>4. Agrees(StoredTrades(evs), ReplayPineBacktest(evs))
  <2>1. Len(evs) = n /\ \A i \in 1..n : evs[i].price \in Nat
    BY <1>1, EventsPriced
  <2> HIDE DEF n, evs
  <2> QED BY <1>1, <1>3, <2>1, StoredAgree
<1>5. Prefix(history, LastBar(results)) = history
  <2>1. LastBar(results) = LastBar(history)
    BY <1>3 DEF LastBar
  <2> QED BY <1>1, <2>1, WholePrefix
<1>6. results # <<>>
  BY <1>3
<1>7. ~drifted' => Agrees(trades', ReplayPineBacktest(HistoricalEvents(Prefix(history, LastBar(results)))))
  BY <1>2, <1>4, <1>5
<1> QED BY <1>1, <1>2, <1>6, <1>7 DEF TradesInv

LEMMA TradesKept == ~BackfillAlongside /\ TradesInv /\ [Next]_vars => TradesInv'
<1>1. TradesInv /\ UNCHANGED vars => TradesInv'
  <2> SUFFICES ASSUME TradesInv, UNCHANGED vars PROVE TradesInv'
    OBVIOUS
  <2>1. TypesInv'
    BY TypesKept DEF TradesInv
  <2> QED BY <2>1 DEF TradesInv, vars
<1> QED BY <1>1, TradesCandle, TradesEvaluate, TradesBackfill DEF Next

LEMMA TradesStart == Init => TradesInv
<1> SUFFICES ASSUME Init PROVE TradesInv
  OBVIOUS
<1>1. TypesInv /\ drifted = TRUE
  BY TypesStart DEF Init
<1> QED BY <1>1 DEF TradesInv

(* A table that stands where Pine does has its trade as the newest open    *)
(* row, and no other side open.                                            *)
LEMMA AgreesShows ==
    ASSUME NEW q, NEW n, RowsIn(q, n), NEW s, Agrees(q, s), s.current.side \in Sides,
           NEW newest, newest = LatestOpen(q, Sides)
    PROVE  /\ \A i \in OpenRows(q) : q[i].side = s.current.side
           /\ newest # 0 /\ q[newest].bar = s.current.bar /\ q[newest].entry = s.current.entry
<1> DEFINE side == s.current.side
<1>1. q \in Seq(TradeRow) /\ \A i \in DOMAIN q : q[i] \in TradeRow
  BY Rows DEF RowsIn
<1>2. \A i \in DOMAIN q : q[i].side \in Sides
  BY <1>1 DEF TradeRow
<1>3. \A i \in OpenRows(q) : q[i].side = side
  <2>1. OpenOf(q, Opposite(side)) = {}
    BY DEF Agrees
  <2>2. \A x \in Sides : x = side \/ x = Opposite(side)
    BY DEF Sides, Opposite
  <2> HIDE DEF side
  <2> QED BY <1>2, <2>1, <2>2 DEF OpenOf, OpenRows
<1>4. newest = NewestOpen(q, side)
  <2>1. {i \in DOMAIN q : q[i].status = "open" /\ q[i].side \in Sides}
            = {i \in DOMAIN q : q[i].status = "open" /\ q[i].side \in {side}}
    BY <1>2, <1>3 DEF OpenRows
  <2> QED BY <2>1 DEF LatestOpen, NewestOpen
<1> QED BY <1>3, <1>4 DEF Agrees

(* Once the backtest has rebuilt the trades table (backtest.py, "safe to   *)
(* re-run"), the live runs go on from it as the backtest of the longer     *)
(* history would: they close the same trades at the same bars and prices   *)
(* and have Pine's open trade as their newest, for any bars and however    *)
(* many runs, as long as no run is missed or dies, max_bars_back covers    *)
(* the history and the backtest runs with no candle waiting for its run.   *)
THEOREM BacktestRebuilds ==
    ASSUME ~BackfillAlongside
    PROVE  Spec => []TradesRegenerated
<1>1. TradesInv => TradesRegenerated
  <2> SUFFICES ASSUME TradesInv, ~drifted, results # <<>>, Len(history) <= MaxBarsBack + 1
               PROVE  LET replay == ReplayPineBacktest(HistoricalEvents(Prefix(history, LastBar(results))))
                          pine == replay.current
                          newest == LatestOpen(trades, Sides)
                      IN  /\ ClosedTrades(trades) = replay.scored
                          /\ pine.side \in Sides =>
                                /\ \A i \in OpenRows(trades) : trades[i].side = pine.side
                                /\ newest # 0 /\ trades[newest].bar = pine.bar
                                /\ trades[newest].entry = pine.entry
    BY DEF TradesRegenerated
  <2>1. PICK s : s = ReplayPineBacktest(HistoricalEvents(Prefix(history, LastBar(results))))
    OBVIOUS
  <2>2. Agrees(trades, s) /\ RowsIn(trades, Len(history))
    BY <2>1 DEF TradesInv, TypesInv
  <2>3. ClosedTrades(trades) = s.scored
    BY <2>2 DEF Agrees
  <2> QED BY <2>1, <2>2, <2>3, AgreesShows
<1> QED BY <1>1, TradesStart, TradesKept, PTL DEF Spec
===============================================================================
