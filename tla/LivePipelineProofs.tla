-------------------------- MODULE LivePipelineProofs --------------------------
(***************************************************************************)
(* What the live pipeline promises about the bars it evaluates and acts    *)
(* on, for every set of symbols and every mixture of live and downloaded   *)
(* runs, outages, failing symbols and crashes.                             *)
(***************************************************************************)
EXTENDS LivePipeline, SumFacts

Sorted(seq) == \A i, j \in 1..Len(seq) : i < j => seq[i] < seq[j]

(* What the engine carries from run to run, against the bars on record.    *)
EngineOK(bars, e) ==
    /\ e \in [last : Nat \cup {NoBar}, queue : Seq(Nat)]
    /\ Sorted(e.queue)
    /\ e.queue = <<>> => e.last = NoBar
    /\ e.queue # <<>> => e.last = Last(e.queue) /\ e.last \in bars

(* What a bar to replay is to what was replayed before it.                 *)
JumpOK(bars, before, next) ==
    LET between == {b \in bars : before < b /\ b < next}
    IN  between = {} \/ Cardinality(between) >= MaxCatchUpBars

TodoOK(bars, e, t) ==
    /\ t.todo # <<>> /\ Sorted(t.todo) /\ Sorted(t.queue)
    /\ \A i \in 1..Len(t.todo) : t.todo[i] \in bars
    /\ \A b \in bars : b >= Head(t.todo) => \E i \in 1..Len(t.todo) : t.todo[i] = b
    /\ t.queue # <<>> => Last(t.queue) < Head(t.todo)
    /\ e.last # NoBar => e.last < Head(t.todo) /\ JumpOK(bars, e.last, Head(t.todo))

(* How far an evaluation is.                                               *)
TaskOK(bars, e, t) ==
    /\ t \in [at : {"none", "store", "plan", "replay", "done"},
              todo : Seq(Nat), queue : Seq(Nat), done : Seq(Nat)]
    /\ IF t.at = "replay" THEN TodoOK(bars, e, t) ELSE t.todo = <<>>
    /\ t.done # <<>> => Last(t.done) = e.last /\ e.last # NoBar
    /\ t.at = "done" /\ t.done # <<>> => e.last = Newest(bars)

(* What was acted on was evaluated before.                                 *)
ActedOK(e, t, a) ==
    /\ a \in Seq(Nat)
    /\ e.last = NoBar => a = <<>>
    /\ \A i \in 1..Len(a) : a[i] <= e.last
    /\ t.done # <<>> => \A i \in 1..Len(a) : a[i] < e.last

SymbolOK(bars, e, t, a) ==
    EngineOK(bars, e) /\ TaskOK(bars, e, t) /\ ActedOK(e, t, a)

Flags == valid \in BOOLEAN /\ alerted \in BOOLEAN /\ stale \in BOOLEAN

Counters ==
    /\ hour \in 0..MaxHour /\ login \in 0..MaxLogins /\ using \in 0..login
    /\ phase \in {"down", "waiting", "session", "hung"} /\ leaked \in 0..Workers
    /\ phase = "session" => leaked < Workers
    /\ ticker \in {"off", "connecting", "live", "dead"}
    /\ run \in {"none", "live", "manual"} /\ faults \in 0..MaxFaults
    /\ run = "live" => phase = "session" /\ current # NoBar

PipelineType == Flags /\ Counters

(* A candle is of an hour that has begun, and its ticks are of that hour   *)
(* or a later one.                                                         *)
CandlesOK ==
    /\ current \in Bars \cup {NoBar} /\ (current # NoBar => current <= hour)
    /\ agg \in [Symbols -> SUBSET (0..hour)]
    /\ BarsStartAfresh

TablesOK ==
    /\ stored \in [Symbols -> SUBSET Bars]
    /\ DOMAIN engine = Symbols /\ DOMAIN task = Symbols /\ DOMAIN acted = Symbols
    /\ engine = [s \in Symbols |-> engine[s]] /\ task = [s \in Symbols |-> task[s]]
    /\ acted = [s \in Symbols |-> acted[s]]
    /\ \A s \in Symbols : SymbolOK(stored[s], engine[s], task[s], acted[s])

PipelineInv == PipelineType /\ CandlesOK /\ TablesOK

-------------------------------------------------------------------------------
(* Facts about bars in order.                                              *)

(* How many bars there are up to a bar.                                    *)
UpTo(bars, b) == {c \in bars : c <= b}

LEMMA Ranks ==
    ASSUME NEW n \in Nat, NEW bars \in SUBSET (0..n)
    PROVE  /\ Cardinality(bars) \in Nat
           /\ \A b \in bars : Cardinality(UpTo(bars, b)) \in 1..Cardinality(bars)
           /\ \A b, c \in bars : b < c => Cardinality(UpTo(bars, b)) < Cardinality(UpTo(bars, c))
           /\ \A i \in 1..Cardinality(bars) : \E b \in bars : Cardinality(UpTo(bars, b)) = i
<1>1. IsFiniteSet(bars) /\ Cardinality(bars) \in Nat
  <2>1. IsFiniteSet(0..n)
    BY FS_Interval
  <2> QED BY <2>1, FS_Subset, FS_CardinalityType
<1>0. n \in Int /\ \A b \in bars : b \in Int /\ 0 <= b /\ b <= n
  OBVIOUS
<1>2. ASSUME NEW T \in SUBSET bars
      PROVE  /\ IsFiniteSet(T) /\ Cardinality(T) \in Nat
             /\ Cardinality(T) <= Cardinality(bars)
             /\ T # {} => Cardinality(T) # 0
  BY <1>1, FS_Subset, FS_CardinalityType, FS_EmptySet
<1>3. ASSUME NEW b \in bars PROVE Cardinality(UpTo(bars, b)) \in 1..Cardinality(bars)
  <2>1. UpTo(bars, b) \in SUBSET bars /\ b \in UpTo(bars, b)
    BY <1>0 DEF UpTo
  <2> QED BY <1>1, <1>2, <2>1
<1>4. ASSUME NEW b \in bars, NEW c \in bars, b < c
      PROVE  Cardinality(UpTo(bars, b)) < Cardinality(UpTo(bars, c))
  <2>0. c <= c /\ ~(c <= b) /\ \A d \in bars : d <= b => d <= c
    BY <1>0, <1>4
  <2>1. UpTo(bars, b) \subseteq UpTo(bars, c) /\ c \in UpTo(bars, c) /\ c \notin UpTo(bars, b)
    BY <2>0 DEF UpTo
  <2>2. UpTo(bars, b) \in SUBSET bars /\ UpTo(bars, c) \in SUBSET bars
    BY DEF UpTo
  <2>3. /\ Cardinality(UpTo(bars, b)) <= Cardinality(UpTo(bars, c))
        /\ Cardinality(UpTo(bars, b)) # Cardinality(UpTo(bars, c))
    BY <1>2, <2>1, <2>2, FS_Subset
  <2> QED BY <1>2, <2>2, <2>3
<1> DEFINE before(k) == {c \in bars : c <= k}
           Good == {k \in 0..n : \A i \in 1..Cardinality(before(k)) :
                                    \E b \in bars : Cardinality(UpTo(bars, b)) = i}
<1>5. 0 \in Good
  <2>1. CASE 0 \in bars
    <3>0. \A c \in bars : c <= 0 <=> c = 0
      BY <1>0
    <3>1. before(0) = {0} /\ UpTo(bars, 0) = {0}
      BY <2>1, <3>0 DEF UpTo
    <3>2. Cardinality({0}) = 1
      BY FS_Singleton
    <3> QED BY <2>1, <3>1, <3>2
  <2>2. CASE 0 \notin bars
    <3>0. \A c \in bars : ~(c <= 0)
      BY <1>0, <2>2
    <3>1. before(0) = {}
      BY <3>0
    <3>2. Cardinality({}) = 0
      BY FS_EmptySet
    <3>3. Cardinality(before(0)) = 0
      BY <3>1, <3>2
    <3> HIDE DEF before
    <3> QED BY <3>3
  <2> QED BY <2>1, <2>2
<1>6. ASSUME NEW k \in 0..n, k # 0, k - 1 \in Good PROVE k \in Good
  <2>1. CASE k \in bars
    <3>0. k \in Int /\ ~(k <= k - 1) /\ \A c \in bars : c <= k <=> (c <= k - 1 \/ c = k)
      BY <1>0
    <3>1. before(k) = before(k - 1) \cup {k} /\ k \notin before(k - 1)
      BY <2>1, <3>0
    <3>2. before(k - 1) \in SUBSET bars /\ UpTo(bars, k) = before(k)
      BY DEF UpTo
    <3> DEFINE m == Cardinality(before(k - 1))
    <3>3. Cardinality(before(k)) = m + 1 /\ m \in Nat
      <4> HIDE DEF before
      <4> QED BY <1>2, <3>1, <3>2, FS_AddElement
    <3>4. ASSUME NEW i \in 1..(m + 1) PROVE \E b \in bars : Cardinality(UpTo(bars, b)) = i
      <4>1. CASE i = m + 1
        BY <2>1, <3>2, <3>3, <4>1
      <4>2. CASE i # m + 1
        <5>1. i \in 1..m
          BY <3>3, <4>2
        <5> QED BY <1>6, <5>1
      <4> QED BY <4>1, <4>2
    <3> QED BY <3>3, <3>4
  <2>2. CASE k \notin bars
    <3>0. \A c \in bars : c <= k <=> c <= k - 1
      BY <1>0, <2>2
    <3>1. before(k) = before(k - 1)
      BY <3>0
    <3> QED BY <1>6, <3>1
  <2> QED BY <2>1, <2>2
<1>7. \A i \in 1..Cardinality(bars) : \E b \in bars : Cardinality(UpTo(bars, b)) = i
  <2>1. n \in Good
    <3> HIDE DEF Good
    <3>1. \A k \in 0..n : k \in Good
      BY <1>5, <1>6, NumberInduction
    <3> QED BY <3>1
  <2>2. before(n) = bars
    BY <1>0
  <2> QED BY <2>1, <2>2
<1> QED BY <1>1, <1>3, <1>4, <1>7

LEMMA InOrderIs ==
    ASSUME NEW n \in Nat, NEW bars \in SUBSET (0..n)
    PROVE  LET seq == InOrder(bars)
           IN  /\ seq \in Seq(Nat) /\ Len(seq) = Cardinality(bars) /\ Len(seq) \in Nat
               /\ \A i \in 1..Len(seq) : seq[i] \in bars
               /\ \A b \in bars : \E i \in 1..Len(seq) : seq[i] = b
               /\ Sorted(seq)
<1> DEFINE m == Cardinality(bars)
           rank(b) == Cardinality(UpTo(bars, b))
           seq == InOrder(bars)
<1>1. /\ m \in Nat
      /\ \A b \in bars : rank(b) \in 1..m
      /\ \A b, c \in bars : b < c => rank(b) < rank(c)
      /\ \A i \in 1..m : \E b \in bars : rank(b) = i
  BY Ranks
<1>2. seq = [i \in 1..m |-> CHOOSE b \in bars : rank(b) = i]
  BY DEF InOrder, UpTo
<1>0. \A b \in bars : b \in Nat
  OBVIOUS
<1> HIDE DEF seq, rank
<1>3. \A i \in 1..m : seq[i] \in bars /\ rank(seq[i]) = i
  BY <1>1, <1>2
<1> HIDE DEF m
<1>4. seq \in [1..m -> Nat]
  <2>1. \A i \in 1..m : seq[i] \in Nat
    BY <1>0, <1>3
  <2> QED BY <1>2, <2>1
<1>5. seq \in Seq(Nat) /\ Len(seq) = m /\ DOMAIN seq = 1..m
  BY <1>1, <1>4
<1>6. \A b, c \in bars : rank(b) = rank(c) => b = c
  <2>1. ASSUME NEW b \in bars, NEW c \in bars, rank(b) = rank(c) PROVE b = c
    <3>1. b \in Int /\ c \in Int /\ rank(b) \in Int
      BY <1>1
    <3>2. ~(b < c) /\ ~(c < b)
      BY <1>1, <2>1, <3>1
    <3> QED BY <3>1, <3>2
  <2> QED BY <2>1
<1>7. \A b \in bars : \E i \in 1..m : seq[i] = b
  BY <1>1, <1>3, <1>6
<1>8. Sorted(seq)
  <2>1. ASSUME NEW i \in 1..m, NEW j \in 1..m, i < j PROVE seq[i] < seq[j]
    <3>1. seq[i] \in bars /\ seq[j] \in bars /\ rank(seq[i]) = i /\ rank(seq[j]) = j
      BY <1>3
    <3>2. /\ seq[i] \in Int /\ seq[j] \in Int
          /\ i \in Int /\ j \in Int
      <4>1. seq[i] \in Nat /\ seq[j] \in Nat
        BY <1>0, <3>1
      <4>2. m \in Int
        BY <1>1
      <4> HIDE DEF seq
      <4> QED BY <4>1, <4>2
    <3>3. ~(seq[j] < seq[i]) /\ seq[i] # seq[j]
      BY <1>1, <2>1, <3>1, <3>2
    <3> QED BY <3>2, <3>3
  <2> QED BY <1>5, <2>1 DEF Sorted
<1> QED BY <1>1, <1>3, <1>5, <1>7, <1>8 DEF m, seq

-------------------------------------------------------------------------------
(* Facts about sequences of bars.                                          *)

LEMMA AppendFacts ==
    ASSUME NEW q \in Seq(Nat), NEW x \in Nat
    PROVE  LET r == Append(q, x)
           IN  /\ r \in Seq(Nat) /\ r # <<>> /\ Len(q) \in Nat /\ Len(r) = Len(q) + 1
               /\ \A i \in 1..Len(q) : r[i] = q[i] /\ q[i] \in Nat
               /\ r[Len(r)] = x /\ Last(r) = x
<1>1. /\ Append(q, x) \in Seq(Nat) /\ Append(q, x) # <<>>
      /\ Len(q) \in Nat /\ Len(Append(q, x)) = Len(q) + 1
      /\ \A i \in 1..Len(q) : Append(q, x)[i] = q[i] /\ q[i] \in Nat
      /\ Append(q, x)[Len(q) + 1] = x
  BY AppendProperties
<1> QED BY <1>1 DEF Last

LEMMA HeadFacts ==
    ASSUME NEW q \in Seq(Nat), q # <<>>
    PROVE  /\ Head(q) = q[1] /\ Head(q) \in Nat /\ Len(q) \in Nat /\ Len(q) >= 1
           /\ \A i \in 1..Len(q) : q[i] \in Nat
           /\ Tail(q) \in Seq(Nat) /\ Len(Tail(q)) = Len(q) - 1
           /\ \A i \in 1..(Len(q) - 1) : Tail(q)[i] = q[i + 1]
           /\ Len(q) = 1 <=> Tail(q) = <<>>
           /\ Last(q) = q[Len(q)] /\ Last(q) \in Nat
<1>1. Len(q) \in Nat /\ Len(q) >= 1 /\ \A i \in 1..Len(q) : q[i] \in Nat
  OBVIOUS
<1>2. /\ Head(q) = q[1]
      /\ Tail(q) \in Seq(Nat) /\ Len(Tail(q)) = Len(q) - 1
      /\ \A i \in 1..(Len(q) - 1) : Tail(q)[i] = q[i + 1]
  OBVIOUS
<1>3. Len(q) = 1 <=> Tail(q) = <<>>
  <2>1. Tail(q) = <<>> <=> Len(Tail(q)) = 0
    BY <1>2, EmptySeq
  <2> QED BY <1>1, <1>2, <2>1
<1> QED BY <1>1, <1>2, <1>3 DEF Last

LEMMA SortedAppend ==
    ASSUME NEW q \in Seq(Nat), Sorted(q), NEW x \in Nat, q # <<>> => Last(q) < x
    PROVE  Sorted(Append(q, x))
<1> DEFINE r == Append(q, x)
<1>1. /\ Len(q) \in Nat /\ Len(r) = Len(q) + 1 /\ r[Len(r)] = x
      /\ \A i \in 1..Len(q) : r[i] = q[i] /\ q[i] \in Nat
  BY AppendFacts
<1> HIDE DEF r
<1>2. \A i \in 1..Len(q) : q[i] < x
  <2>1. ASSUME NEW i \in 1..Len(q) PROVE q[i] < x
    <3>1. q # <<>> /\ Last(q) = q[Len(q)] /\ Len(q) \in 1..Len(q)
      BY <1>1 DEF Last
    <3>2. i = Len(q) \/ i < Len(q)
      BY <1>1
    <3>3. i = Len(q) \/ q[i] < q[Len(q)]
      BY <3>1, <3>2 DEF Sorted
    <3>4. q[i] \in Nat /\ q[Len(q)] \in Nat /\ q[Len(q)] < x
      BY <1>1, <3>1
    <3> QED BY <3>3, <3>4
  <2> QED BY <2>1
<1>3. ASSUME NEW i \in 1..Len(r), NEW j \in 1..Len(r), i < j PROVE r[i] < r[j]
  <2>1. i \in 1..Len(q) /\ (j \in 1..Len(q) \/ j = Len(r))
    BY <1>1, <1>3
  <2>2. CASE j \in 1..Len(q)
    BY <1>1, <1>3, <2>1, <2>2 DEF Sorted
  <2>3. CASE j = Len(r)
    BY <1>1, <1>2, <2>1, <2>3
  <2> QED BY <2>1, <2>2, <2>3
<1>4. Sorted(r)
  BY <1>3 DEF Sorted
<1> QED BY <1>4 DEF r

LEMMA SortedTail ==
    ASSUME NEW q \in Seq(Nat), Sorted(q), q # <<>>
    PROVE  /\ Sorted(Tail(q))
           /\ \A i \in 1..Len(Tail(q)) : Head(q) < Tail(q)[i]
<1>1. /\ Head(q) = q[1] /\ Len(q) \in Nat /\ Len(q) >= 1 /\ Len(Tail(q)) = Len(q) - 1
      /\ \A i \in 1..(Len(q) - 1) : Tail(q)[i] = q[i + 1]
  BY HeadFacts
<1> DEFINE r == Tail(q)
<1> HIDE DEF r
<1>2. ASSUME NEW i \in 1..Len(r) PROVE Head(q) < r[i]
  <2>1. i + 1 \in 1..Len(q) /\ 1 \in 1..Len(q) /\ 1 < i + 1 /\ r[i] = q[i + 1]
    BY <1>1 DEF r
  <2>2. q[1] < q[i + 1]
    BY <2>1 DEF Sorted
  <2> QED BY <1>1, <2>1, <2>2
<1>3. ASSUME NEW i \in 1..Len(r), NEW j \in 1..Len(r), i < j PROVE r[i] < r[j]
  <2>1. /\ i + 1 \in 1..Len(q) /\ j + 1 \in 1..Len(q) /\ i + 1 < j + 1
        /\ r[i] = q[i + 1] /\ r[j] = q[j + 1]
    BY <1>1, <1>3 DEF r
  <2>2. q[i + 1] < q[j + 1]
    BY <2>1 DEF Sorted
  <2> QED BY <2>1, <2>2
<1>4. Sorted(r)
  BY <1>3 DEF Sorted
<1> QED BY <1>2, <1>4 DEF r

-------------------------------------------------------------------------------
(* One symbol's way through an evaluation.                                 *)

LEMMA Tasks ==
    /\ NoTask.at = "none" /\ NoTask.todo = <<>> /\ NoTask.queue = <<>> /\ NoTask.done = <<>>
    /\ Waiting.at = "store" /\ Waiting.todo = <<>> /\ Waiting.queue = <<>> /\ Waiting.done = <<>>
    /\ {NoTask, Waiting, [NoTask EXCEPT !.at = "done"]} \subseteq
           [at : {"none", "store", "plan", "replay", "done"},
            todo : Seq(Nat), queue : Seq(Nat), done : Seq(Nat)]
<1> DEFINE Tasked == [at : {"none", "store", "plan", "replay", "done"},
                      todo : Seq(Nat), queue : Seq(Nat), done : Seq(Nat)]
<1>1. /\ NoTask.at = "none" /\ NoTask.todo = <<>> /\ NoTask.queue = <<>> /\ NoTask.done = <<>>
      /\ NoTask \in Tasked
  BY EmptySeq DEF NoTask
<1> HIDE DEF Tasked
<1>2. /\ Waiting.at = "store" /\ Waiting.todo = <<>>
      /\ Waiting.queue = <<>> /\ Waiting.done = <<>>
  BY <1>1 DEF Waiting, NoTask
<1>3. Waiting \in Tasked /\ [NoTask EXCEPT !.at = "done"] \in Tasked
  BY <1>1 DEF Waiting, Tasked
<1> QED BY <1>1, <1>2, <1>3 DEF Tasked

(* A symbol can be left out, or asked for, at any moment.                  *)
LEMMA Dropped ==
    ASSUME NEW bars, NEW e, NEW t, NEW a, SymbolOK(bars, e, t, a)
    PROVE  SymbolOK(bars, e, NoTask, a) /\ SymbolOK(bars, e, Waiting, a)
BY Tasks DEF SymbolOK, TaskOK, ActedOK

LEMMA StoreKeeps ==
    ASSUME NEW bars, NEW more, bars \subseteq more, NEW e, NEW t, NEW a,
           SymbolOK(bars, e, t, a), t.at = "store"
    PROVE  SymbolOK(more, e, Stored(t), a)
<1>1. EngineOK(more, e)
  BY DEF SymbolOK, EngineOK
<1>2. /\ Stored(t) \in [at : {"none", "store", "plan", "replay", "done"},
                         todo : Seq(Nat), queue : Seq(Nat), done : Seq(Nat)]
      /\ Stored(t).at = "plan" /\ Stored(t).todo = t.todo /\ Stored(t).done = t.done
  BY DEF SymbolOK, TaskOK, Stored
<1>3. TaskOK(more, e, Stored(t)) /\ ActedOK(e, Stored(t), a)
  BY <1>2 DEF SymbolOK, TaskOK, ActedOK
<1> QED BY <1>1, <1>3 DEF SymbolOK

(* The bars to replay, where there are new ones: they begin with the first *)
(* after the last evaluated, or the gap was too wide.                      *)
LEMMA ToReplay ==
    ASSUME NEW bars \in SUBSET (0..MaxHour), bars # {}, NEW e, EngineOK(bars, e),
           ~NothingNew(bars, e),
           NEW t, t.todo = BarsToReplay(bars, e), t.queue = StartingQueue(bars, e)
    PROVE  t.todo \in Seq(Nat) /\ t.queue \in Seq(Nat) /\ TodoOK(bars, e, t)
<1> DEFINE top == Newest(bars)
           later == {b \in bars : b > e.last}
<1>0. MaxHour \in Nat /\ NoBar \notin Nat /\ MaxCatchUpBars \in Nat
  BY PipelineAssumption, ReplayAssumption
<1>1. /\ top \in bars /\ top \in Nat /\ \A b \in bars : b \in Nat /\ b <= top
  <2>1. top \in bars /\ \A b \in bars : b <= top
    BY <1>0, Extremum DEF Newest
  <2>2. \A b \in bars : b \in Nat
    BY <1>0
  <2> QED BY <2>1, <2>2
<1> HIDE DEF top
<1>2. /\ <<top>> \in Seq(Nat) /\ <<top>> # <<>> /\ Len(<<top>>) = 1 /\ <<top>>[1] = top
      /\ Head(<<top>>) = top /\ Sorted(<<top>>)
      /\ \A i \in 1..Len(<<top>>) : <<top>>[i] \in bars
      /\ \A b \in bars : b >= top => \E i \in 1..Len(<<top>>) : <<top>>[i] = b
  <2>1. /\ <<top>> \in Seq(Nat) /\ <<top>> # <<>> /\ Len(<<top>>) = 1 /\ <<top>>[1] = top
        /\ Head(<<top>>) = top
    BY <1>1
  <2>2. Sorted(<<top>>)
    BY <2>1 DEF Sorted
  <2>3. \A b \in bars : b >= top => b = top
    BY <1>1
  <2> QED BY <1>1, <2>1, <2>2, <2>3
<1>3. CASE e.queue = <<>>
  <2> DEFINE rest == bars \ {top}
             q == InOrder(rest)
  <2>1. e.last = NoBar /\ t.todo = <<top>> /\ t.queue = q
    BY <1>3 DEF EngineOK, BarsToReplay, StartingQueue, top
  <2>2. /\ q \in Seq(Nat) /\ Len(q) \in Nat /\ Sorted(q) /\ \A i \in 1..Len(q) : q[i] \in rest
    BY <1>0, InOrderIs
  <2> HIDE DEF q
  <2>3. ASSUME q # <<>> PROVE Last(q) < top
    <3>1. Len(q) \in 1..Len(q) /\ Last(q) = q[Len(q)]
      BY <2>2, <2>3, HeadFacts
    <3>2. Last(q) \in bars /\ Last(q) # top
      BY <2>2, <3>1
    <3>3. \A b \in bars : b # top => b < top
      BY <1>1
    <3> QED BY <3>2, <3>3
  <2> QED BY <1>2, <2>1, <2>2, <2>3 DEF TodoOK
<1>4. CASE e.queue # <<>>
  <2>1. /\ e.last \in bars /\ e.last # NoBar /\ e.last \in Nat /\ e.last = Last(e.queue)
        /\ e.queue \in Seq(Nat) /\ Sorted(e.queue) /\ t.queue = e.queue
    BY <1>0, <1>1, <1>4 DEF EngineOK, StartingQueue
  <2>2. e.last < top /\ top \in later /\ later # {}
    <3>1. e.last # top
      BY DEF NothingNew, top
    <3> QED BY <1>1, <2>1, <3>1
  <2>3. /\ later \in SUBSET (0..MaxHour) /\ later \subseteq bars
        /\ \A b \in bars : b \in later <=> e.last < b
    BY <1>1, <2>1
  <2> HIDE DEF later
  <2> DEFINE q == InOrder(later)
  <2>4. /\ q \in Seq(Nat) /\ Len(q) \in Nat /\ Len(q) = Cardinality(later) /\ Sorted(q)
        /\ \A i \in 1..Len(q) : q[i] \in later
        /\ \A b \in later : \E i \in 1..Len(q) : q[i] = b
    BY <1>0, <2>3, InOrderIs
  <2>5. NewBars(bars, e.last) = q
    BY <2>1, <2>2 DEF NewBars, later
  <2> HIDE DEF q
  <2>6. CASE Len(q) > MaxCatchUpBars
    <3>1. t.todo = <<top>>
      BY <2>5, <2>6 DEF BarsToReplay, top
    <3> DEFINE between == {b \in bars : e.last < b /\ b < top}
    <3>2. later = between \cup {top} /\ top \notin between
      <4>1. \A b \in bars : b < top <=> b # top
        BY <1>1
      <4>2. ~(top < top)
        BY <1>1
      <4> QED BY <1>1, <2>2, <2>3, <4>1, <4>2
    <3>3. IsFiniteSet(between)
      <4>1. IsFiniteSet(0..MaxHour)
        BY <1>0, FS_Interval
      <4> QED BY <2>3, <3>2, <4>1, FS_Subset
    <3> HIDE DEF between
    <3>4. Cardinality(between) \in Nat /\ Cardinality(later) = Cardinality(between) + 1
      BY <3>2, <3>3, FS_CardinalityType, FS_AddElement
    <3>5. Cardinality(between) >= MaxCatchUpBars
      BY <1>0, <2>4, <2>6, <3>4
    <3>6. JumpOK(bars, e.last, top)
      BY <3>5 DEF JumpOK, between
    <3> QED BY <1>2, <2>1, <2>2, <3>1, <3>6 DEF TodoOK
  <2>7. CASE ~(Len(q) > MaxCatchUpBars)
    <3>1. t.todo = q
      BY <1>4, <2>5, <2>7 DEF BarsToReplay
    <3>2. q # <<>>
      <4>1. \E i \in 1..Len(q) : q[i] = top
        BY <2>2, <2>4
      <4>2. Len(q) # 0
        BY <2>4, <4>1
      <4> QED BY <4>2, EmptySeq
    <3>3. Head(q) = q[1] /\ 1 \in 1..Len(q) /\ Head(q) \in later
      BY <2>4, <3>2, HeadFacts
    <3>4. Head(q) \in Nat /\ e.last < Head(q)
      BY <1>1, <2>3, <3>3
    <3>5. ASSUME NEW b \in later PROVE Head(q) <= b
      <4>1. PICK i \in 1..Len(q) : q[i] = b
        BY <2>4
      <4>2. i = 1 \/ 1 < i
        BY <2>4
      <4>3. i = 1 \/ q[1] < b
        BY <3>3, <4>1, <4>2, <2>4 DEF Sorted
      <4>4. b \in Nat /\ q[1] \in Nat
        BY <1>1, <2>3, <3>3, <3>4
      <4> QED BY <3>3, <4>1, <4>3, <4>4
    <3>6. {b \in bars : e.last < b /\ b < Head(q)} = {}
      <4>1. \A b \in bars : e.last < b => ~(b < Head(q))
        BY <1>1, <2>3, <3>4, <3>5
      <4> QED BY <4>1
    <3>7. \A b \in bars : b >= Head(q) => b \in later
      BY <1>1, <2>1, <2>3, <3>4
    <3>8. JumpOK(bars, e.last, Head(q))
      BY <3>6 DEF JumpOK
    <3> QED BY <2>1, <2>3, <2>4, <3>1, <3>2, <3>4, <3>7, <3>8 DEF TodoOK
  <2> QED BY <2>6, <2>7
<1> QED BY <1>3, <1>4

LEMMA PlanKeeps ==
    ASSUME NEW bars \in SUBSET (0..MaxHour), NEW e, NEW t, NEW a, SymbolOK(bars, e, t, a)
    PROVE  SymbolOK(bars, e, Planned(bars, e), a)
<1> DEFINE p == Planned(bars, e)
           Tasked == [at : {"none", "store", "plan", "replay", "done"},
                      todo : Seq(Nat), queue : Seq(Nat), done : Seq(Nat)]
<1>1. CASE WarmingUp(bars) \/ NothingNew(bars, e)
  <2>1. p \in Tasked /\ p.at = "done" /\ p.todo = <<>> /\ p.done = <<>>
    BY <1>1, Tasks DEF Planned
  <2> QED BY <2>1 DEF SymbolOK, TaskOK, ActedOK
<1>2. CASE ~(WarmingUp(bars) \/ NothingNew(bars, e))
  <2>1. p = [NoTask EXCEPT !.at = "replay", !.todo = BarsToReplay(bars, e),
                           !.queue = StartingQueue(bars, e)]
    BY <1>2 DEF Planned
  <2>2. /\ p.at = "replay" /\ p.todo = BarsToReplay(bars, e)
        /\ p.queue = StartingQueue(bars, e) /\ p.done = <<>>
        /\ DOMAIN p = {"at", "todo", "queue", "done"}
        /\ p = [at |-> "replay", todo |-> p.todo, queue |-> p.queue, done |-> <<>>]
    BY <2>1 DEF NoTask
  <2>3. bars # {}
    BY <1>2, ReplayAssumption, FS_EmptySet DEF WarmingUp
  <2> HIDE DEF p
  <2>4. p.todo \in Seq(Nat) /\ p.queue \in Seq(Nat) /\ TodoOK(bars, e, p)
    BY <1>2, <2>2, <2>3, ToReplay DEF SymbolOK
  <2>5. p \in Tasked
    <3>1. <<>> \in Seq(Nat)
      BY EmptySeq
    <3> QED BY <2>2, <2>4, <3>1
  <2> QED BY <2>2, <2>4, <2>5 DEF SymbolOK, TaskOK, ActedOK, p
<1> QED BY <1>1, <1>2

(* One bar replayed and saved: a row of its own in between a crash keeps.  *)
LEMMA ReplayKeeps ==
    ASSUME NEW bars \in SUBSET (0..MaxHour), NEW e, NEW t, NEW a,
           SymbolOK(bars, e, t, a), t.at = "replay"
    PROVE  /\ SymbolOK(bars, Saved(t), Advanced(t), a)
           /\ e.last # NoBar => JumpOK(bars, e.last, Saved(t).last)
<1> DEFINE x == Head(t.todo)
           rest == Tail(t.todo)
           s == Saved(t)
           n == Advanced(t)
           Tasked == [at : {"none", "store", "plan", "replay", "done"},
                      todo : Seq(Nat), queue : Seq(Nat), done : Seq(Nat)]
<1>0. MaxHour \in Nat /\ NoBar \notin Nat /\ \A b \in bars : b \in Nat
  <2>1. MaxHour \in Nat /\ NoBar \notin Nat
    BY PipelineAssumption, ReplayAssumption
  <2> QED BY <2>1
<1>1. /\ t \in Tasked /\ TodoOK(bars, e, t)
      /\ t.todo \in Seq(Nat) /\ t.queue \in Seq(Nat) /\ t.done \in Seq(Nat)
  BY DEF SymbolOK, TaskOK
<1>2. /\ t.todo # <<>> /\ Sorted(t.todo) /\ Sorted(t.queue)
      /\ \A i \in 1..Len(t.todo) : t.todo[i] \in bars
      /\ \A b \in bars : b >= x => \E i \in 1..Len(t.todo) : t.todo[i] = b
      /\ t.queue # <<>> => Last(t.queue) < x
      /\ e.last # NoBar => e.last < x /\ JumpOK(bars, e.last, x)
  BY <1>1 DEF TodoOK
<1>3. /\ x = t.todo[1] /\ x \in Nat /\ Len(t.todo) \in Nat /\ Len(t.todo) >= 1
      /\ rest \in Seq(Nat) /\ Len(rest) = Len(t.todo) - 1
      /\ \A i \in 1..(Len(t.todo) - 1) : rest[i] = t.todo[i + 1]
      /\ Len(t.todo) = 1 <=> rest = <<>>
      /\ x \in bars
  <2>1. 1 \in 1..Len(t.todo)
    BY <1>1, <1>2, HeadFacts
  <2> QED BY <1>1, <1>2, <2>1, HeadFacts
<1>4. /\ Sorted(rest) /\ \A i \in 1..Len(rest) : x < rest[i]
  BY <1>1, <1>2, SortedTail
<1> HIDE DEF x, rest
<1>5. /\ s = [last |-> x, queue |-> Append(t.queue, x)] /\ s.last = x
      /\ s.queue = Append(t.queue, x)
  BY DEF Saved, x
<1>6. /\ DOMAIN n = {"at", "todo", "queue", "done"}
      /\ n = [at |-> n.at, todo |-> n.todo, queue |-> n.queue, done |-> n.done]
      /\ n.at = (IF Len(t.todo) = 1 THEN "done" ELSE "replay") /\ n.todo = rest
      /\ n.queue = Append(t.queue, x) /\ n.done = Append(t.done, x)
  <2>1. n = [t EXCEPT !.at = IF Len(t.todo) = 1 THEN "done" ELSE "replay", !.todo = rest,
                      !.queue = Append(t.queue, x), !.done = Append(t.done, x)]
    BY DEF Advanced, x, rest
  <2>2. DOMAIN t = {"at", "todo", "queue", "done"}
    BY <1>1
  <2> HIDE DEF n, Tasked
  <2>3. DOMAIN n = DOMAIN t
    BY <2>1
  <2>4. /\ n.at = (IF Len(t.todo) = 1 THEN "done" ELSE "replay") /\ n.todo = rest
        /\ n.queue = Append(t.queue, x) /\ n.done = Append(t.done, x)
    BY <2>1, <2>2
  <2>5. n = [at |-> n.at, todo |-> n.todo, queue |-> n.queue, done |-> n.done]
    BY <2>1, <2>2, <2>3
  <2> QED BY <2>2, <2>3, <2>4, <2>5
<1>7. /\ s.queue \in Seq(Nat) /\ s.queue # <<>> /\ Last(s.queue) = x
      /\ n.done \in Seq(Nat) /\ n.done # <<>> /\ Last(n.done) = x
  <2>1. t.queue \in Seq(Nat) /\ t.done \in Seq(Nat) /\ x \in Nat
    BY <1>1, <1>3
  <2>2. s.queue = Append(t.queue, x) /\ n.done = Append(t.done, x)
    BY <1>5, <1>6
  <2> HIDE DEF s, n, Tasked
  <2>3. /\ Append(t.queue, x) \in Seq(Nat) /\ Append(t.queue, x) # <<>>
        /\ Last(Append(t.queue, x)) = x
    BY <2>1, AppendFacts
  <2>4. /\ Append(t.done, x) \in Seq(Nat) /\ Append(t.done, x) # <<>>
        /\ Last(Append(t.done, x)) = x
    BY <2>1, AppendFacts
  <2> QED BY <2>2, <2>3, <2>4
<1>8. Sorted(s.queue)
  BY <1>1, <1>2, <1>3, <1>5, SortedAppend
<1>9. n.queue = s.queue
  BY <1>5, <1>6
<1> HIDE DEF s, n
<1>10. EngineOK(bars, s)
  <2>1. s \in [last : Nat \cup {NoBar}, queue : Seq(Nat)]
    BY <1>3, <1>5, <1>7
  <2> QED BY <1>3, <1>5, <1>7, <1>8, <2>1 DEF EngineOK
<1>11. /\ \A i \in 1..Len(rest) : rest[i] \in bars
       /\ \A b \in bars : b > x => \E i \in 1..Len(rest) : rest[i] = b
  <2>1. ASSUME NEW i \in 1..Len(rest) PROVE rest[i] \in bars
    <3>1. i \in 1..(Len(t.todo) - 1) /\ i + 1 \in 1..Len(t.todo)
      BY <1>3
    <3> QED BY <1>2, <1>3, <3>1
  <2>2. ASSUME NEW b \in bars, b > x PROVE \E i \in 1..Len(rest) : rest[i] = b
    <3>1. b >= x
      BY <1>0, <1>3, <2>2
    <3>2. PICK i \in 1..Len(t.todo) : t.todo[i] = b
      BY <1>2, <3>1
    <3>3. i # 1
      BY <1>0, <1>3, <2>2, <3>2
    <3>4. i - 1 \in 1..(Len(t.todo) - 1) /\ i - 1 \in 1..Len(rest) /\ (i - 1) + 1 = i
      BY <1>3, <3>3
    <3>5. rest[i - 1] = b
      BY <1>3, <3>2, <3>4
    <3> QED BY <3>4, <3>5
  <2> QED BY <2>1, <2>2
<1>12. ASSUME rest = <<>> PROVE TaskOK(bars, s, n)
  <2>1. n.at = "done" /\ n.todo = <<>> /\ n \in Tasked
    BY <1>1, <1>3, <1>6, <1>7, <1>9, <1>12
  <2>2. x = Newest(bars)
    <3>1. Newest(bars) \in bars /\ \A b \in bars : b <= Newest(bars)
      BY <1>0, <1>3, Extremum DEF Newest
    <3>2. ~(Newest(bars) > x)
      <4>1. Len(rest) = 0
        BY <1>12, EmptySeq
      <4>2. \A i \in 1..Len(rest) : FALSE
        BY <4>1
      <4> QED BY <1>11, <3>1, <4>2
    <3>3. Newest(bars) \in Nat /\ x \in Nat /\ x <= Newest(bars)
      BY <1>0, <1>3, <3>1
    <3> QED BY <3>2, <3>3
  <2> QED BY <1>0, <1>3, <1>5, <1>7, <2>1, <2>2 DEF TaskOK
<1>13. ASSUME rest # <<>> PROVE TaskOK(bars, s, n)
  <2>1. n.at = "replay" /\ n \in Tasked
    BY <1>1, <1>3, <1>6, <1>7, <1>9, <1>13
  <2>2. Head(rest) = rest[1] /\ Head(rest) \in Nat /\ 1 \in 1..Len(rest) /\ Len(rest) \in Nat
    BY <1>3, <1>13, HeadFacts
  <2>3. x < Head(rest) /\ \A i \in 1..Len(rest) : rest[i] \in Nat
    BY <1>0, <1>4, <1>11, <2>2
  <2>4. \A b \in bars : b >= Head(rest) => \E i \in 1..Len(rest) : rest[i] = b
    <3>1. \A b \in bars : b >= Head(rest) => b > x
      <4>1. Head(rest) \in Nat /\ x \in Nat /\ x < Head(rest)
        BY <1>3, <2>2, <2>3
      <4>2. \A b \in bars : b \in Nat
        BY <1>0
      <4> QED BY <4>1, <4>2
    <3> QED BY <1>11, <3>1
  <2>5. {b \in bars : x < b /\ b < Head(rest)} = {}
    <3>1. ASSUME NEW b \in bars, x < b, b < Head(rest) PROVE FALSE
      <4>1. PICK i \in 1..Len(rest) : rest[i] = b
        BY <1>0, <1>3, <1>11, <3>1
      <4>2. i = 1 \/ 1 < i
        BY <2>2
      <4>3. i = 1 \/ Head(rest) < b
        BY <1>4, <2>2, <4>1, <4>2 DEF Sorted
      <4> QED BY <1>0, <2>2, <3>1, <4>1, <4>3
    <3> QED BY <3>1
  <2>6. JumpOK(bars, x, Head(rest))
    BY <2>5 DEF JumpOK
  <2>7. TodoOK(bars, s, n)
    BY <1>4, <1>5, <1>6, <1>7, <1>8, <1>9, <1>11, <1>13, <2>3, <2>4, <2>6 DEF TodoOK
  <2> QED BY <1>0, <1>3, <1>5, <1>7, <2>1, <2>7 DEF TaskOK
<1>14. ActedOK(s, n, a)
  <2>1. /\ a \in Seq(Nat) /\ (e.last = NoBar => a = <<>>)
        /\ \A i \in 1..Len(a) : a[i] <= e.last
        /\ e.last \in Nat \cup {NoBar}
    BY DEF SymbolOK, ActedOK, EngineOK
  <2>2. \A i \in 1..Len(a) : a[i] \in Nat
    BY <2>1
  <2>3. \A i \in 1..Len(a) : a[i] < x
    <3>1. CASE e.last = NoBar
      <4>1. Len(a) = 0
        BY <2>1, <3>1, EmptySeq
      <4> QED BY <4>1
    <3>2. CASE e.last # NoBar
      <4>1. e.last \in Nat /\ e.last < x /\ x \in Nat
        BY <1>2, <1>3, <2>1, <3>2
      <4>2. \A i \in 1..Len(a) : a[i] \in Nat /\ a[i] <= e.last
        BY <2>1, <2>2
      <4> QED BY <4>1, <4>2
    <3> QED BY <3>1, <3>2
  <2>4. \A i \in 1..Len(a) : a[i] <= x
    BY <1>3, <2>2, <2>3
  <2> QED BY <1>0, <1>3, <1>5, <2>1, <2>3, <2>4 DEF ActedOK
<1>15. e.last # NoBar => JumpOK(bars, e.last, s.last)
  BY <1>2, <1>5
<1> QED BY <1>10, <1>12, <1>13, <1>14, <1>15 DEF SymbolOK, s, n

(* What acting on a symbol's evaluation adds to what was acted on.         *)
ActsFreshly(bars, a, b) ==
    b # a => /\ Last(b) = Newest(bars)
             /\ \A i \in DOMAIN a : a[i] < Last(b)

LEMMA ActKeeps ==
    ASSUME NEW bars, NEW e, NEW t, NEW a, SymbolOK(bars, e, t, a), t.at = "done",
           NEW b, b = (IF t.done = <<>> THEN a ELSE Append(a, Current(t)))
    PROVE  SymbolOK(bars, e, NoTask, b) /\ ActsFreshly(bars, a, b)
<1>1. CASE t.done = <<>>
  BY <1>1, Dropped DEF ActsFreshly
<1>2. CASE t.done # <<>>
  <2> DEFINE x == Current(t)
  <2>1. /\ e.last = x /\ e.last # NoBar /\ e.last = Newest(bars) /\ x \in Nat
        /\ a \in Seq(Nat) /\ \A i \in 1..Len(a) : a[i] < x
    BY <1>2 DEF SymbolOK, TaskOK, EngineOK, ActedOK, Current
  <2> HIDE DEF x
  <2>2. /\ b \in Seq(Nat) /\ b # <<>> /\ Len(a) \in Nat /\ Len(b) = Len(a) + 1
        /\ \A i \in 1..Len(a) : b[i] = a[i] /\ a[i] \in Nat
        /\ b[Len(b)] = x /\ Last(b) = x /\ DOMAIN a = 1..Len(a)
    BY <1>2, <2>1, AppendFacts DEF x
  <2>3. ASSUME NEW i \in 1..Len(b) PROVE b[i] <= x
    <3>1. i \in 1..Len(a) \/ i = Len(b)
      <4>1. Len(a) \in Nat /\ Len(b) = Len(a) + 1
        BY <2>2
      <4> QED BY <4>1
    <3>2. CASE i = Len(b)
      <4>1. b[i] = x /\ x \in Nat
        BY <2>1, <2>2, <3>2
      <4> QED BY <4>1
    <3>3. CASE i \in 1..Len(a)
      <4>1. b[i] = a[i] /\ a[i] \in Nat /\ a[i] < x /\ x \in Nat
        BY <2>1, <2>2, <3>3
      <4> QED BY <4>1
    <3> QED BY <3>1, <3>2, <3>3
  <2>4. ActedOK(e, NoTask, b)
    BY <2>1, <2>2, <2>3, Tasks DEF ActedOK
  <2>5. EngineOK(bars, e) /\ TaskOK(bars, e, NoTask)
    BY Dropped DEF SymbolOK
  <2> QED BY <2>1, <2>2, <2>4, <2>5 DEF SymbolOK, ActsFreshly
<1> QED BY <1>1, <1>2

-------------------------------------------------------------------------------
(* The steps, one kind at a time.                                          *)

LEMMA Buckets ==
    ASSUME NEW h \in 0..MaxHour
    PROVE  BucketStart(h) \in Bars /\ BucketStart(h) <= h /\ BucketStart(h) # NoBar
<1>1. BarsPerDay \in Nat \ {0} /\ MaxHour \in Nat /\ NoBar \notin Nat /\ h \in Nat /\ h <= MaxHour
  BY BarsAssumption, PipelineAssumption, ReplayAssumption
<1>2. CASE IsMarketHours(h)
  BY <1>1, <1>2 DEF BucketStart, Bars
<1>3. CASE ~IsMarketHours(h)
  <2>1. h % (BarsPerDay + 1) = BarsPerDay
    BY <1>3 DEF IsMarketHours
  <2>2. h >= 1 /\ (h - 1) % (BarsPerDay + 1) # BarsPerDay
    BY <1>1, <2>1
  <2>3. IsMarketHours(h - 1) /\ h - 1 \in 0..MaxHour
    BY <1>1, <2>2 DEF IsMarketHours
  <2> QED BY <1>1, <1>3, <2>3 DEF BucketStart, Bars
<1> QED BY <1>2, <1>3

LEMMA FlagsKept == PipelineInv /\ [Next]_vars => Flags'
<1> SUFFICES ASSUME Flags, [Next]_vars PROVE Flags'
  BY DEF PipelineInv, PipelineType
<1> USE DEF Flags
<1>1. CASE TokenReset \/ Login \/ HourPasses
  BY <1>1 DEF TokenReset, Login, HourPasses, kiteVars, sessionVars
<1>2. CASE Supervise
  BY <1>2 DEF Supervise, Restart, ExecutorExhausted, TokenRejected, StartSession, KillHungProcess,
              kiteVars, sessionVars
<1>3. CASE MarketClosed \/ Watchdog \/ SessionCrashes \/ ProcessDies
  BY <1>3 DEF MarketClosed, Watchdog, SessionCrashes, ProcessDies, EndSession, kiteVars
<1>4. CASE TickerDies \/ ManualRunDies \/ Connects \/ Silence \/ HotSwap
  BY <1>4 DEF TickerDies, ManualRunDies, Connects, Silence, HotSwap, kiteVars, sessionVars
<1>5. ASSUME NEW s \in Symbols, Tick(s) PROVE Flags'
  BY <1>5 DEF Tick, kiteVars
<1>6. CASE Boundary \/ StartManualRun \/ ManualRunRefused
  BY <1>6 DEF Boundary, StartBucket, QuietBucket, CloseBucket, StartManualRun, ManualRunRefused,
              kiteVars, sessionVars
<1>7. ASSUME NEW s \in Symbols, Store(s) \/ Plan(s) \/ Replay(s) \/ Act(s) \/ SymbolFails(s)
      PROVE  Flags'
  BY <1>7 DEF Store, Plan, Replay, Act, SymbolFails, kiteVars, sessionVars
<1>8. CASE EndLiveRun \/ EndManualRun \/ UNCHANGED vars
  BY <1>8 DEF EndLiveRun, EndManualRun, vars, kiteVars, sessionVars
<1> QED BY <1>1, <1>2, <1>3, <1>4, <1>5, <1>6, <1>7, <1>8 DEF Next, Evaluate

LEMMA CountersKept == PipelineInv /\ [Next]_vars => Counters'
<1> SUFFICES ASSUME PipelineInv, [Next]_vars PROVE Counters'
  OBVIOUS
<1> USE DEF PipelineInv, PipelineType, Counters
<1>1. /\ Workers \in Nat \ {0} /\ MaxHour \in Nat /\ MaxLogins \in Nat /\ MaxFaults \in Nat
      /\ BucketStart(hour) # NoBar
  BY PipelineAssumption, Buckets
<1>2. CASE TokenReset \/ Login \/ HourPasses
  BY <1>1, <1>2 DEF TokenReset, Login, SetToken, HourPasses, kiteVars, sessionVars, barVars, runVars
<1>3. CASE Supervise
  <2>1. CASE Restart \/ ExecutorExhausted \/ TokenRejected
    BY <1>1, <2>1 DEF Restart, ExecutorExhausted, TokenRejected, Asking, kiteVars, sessionVars,
                      barVars, runVars
  <2>2. CASE StartSession
    BY <1>1, <2>2 DEF StartSession, Asking, kiteVars, runVars
  <2>3. CASE KillHungProcess
    BY <1>1, <2>3 DEF KillHungProcess, kiteVars, barVars, runVars
  <2> QED BY <1>3, <2>1, <2>2, <2>3 DEF Supervise
<1>4. CASE MarketClosed \/ Watchdog \/ SessionCrashes
  <2>1. EndSession /\ UNCHANGED <<hour, login, valid, current>>
    BY <1>4 DEF MarketClosed, Watchdog, SessionCrashes, kiteVars, barVars
  <2>2. faults' \in 0..MaxFaults
    BY <1>1, <1>4 DEF MarketClosed, Watchdog, SessionCrashes, Fault, kiteVars
  <2> QED BY <1>1, <2>1, <2>2 DEF EndSession
<1>5. CASE ProcessDies \/ TickerDies \/ ManualRunDies
  BY <1>1, <1>5 DEF ProcessDies, TickerDies, ManualRunDies, Fault, kiteVars, sessionVars, barVars,
                    runVars
<1>6. CASE Connects \/ Silence \/ HotSwap
  BY <1>1, <1>6 DEF Connects, Silence, HotSwap, kiteVars, barVars, runVars
<1>7. ASSUME NEW s \in Symbols, Tick(s) PROVE Counters'
  BY <1>1, <1>7 DEF Tick, kiteVars, runVars
<1>8. CASE Boundary
  <2>1. CASE StartBucket \/ QuietBucket
    BY <1>1, <2>1 DEF StartBucket, QuietBucket, kiteVars, sessionVars, runVars
  <2>2. CASE CloseBucket
    BY <1>1, <2>2 DEF CloseBucket, kiteVars, sessionVars, barVars
  <2> QED BY <1>8, <2>1, <2>2 DEF Boundary
<1>9. CASE StartManualRun \/ ManualRunRefused
  BY <1>1, <1>9 DEF StartManualRun, ManualRunRefused, kiteVars, sessionVars, barVars, runVars
<1>10. ASSUME NEW s \in Symbols, Store(s) \/ Plan(s) \/ Replay(s) \/ Act(s) PROVE Counters'
  <2>1. UNCHANGED <<hour, kiteVars, sessionVars, barVars, run, faults>>
    BY <1>10 DEF Store, Plan, Replay, Act
  <2> QED BY <2>1 DEF kiteVars, sessionVars, barVars
<1>11. CASE EndLiveRun \/ EndManualRun
  BY <1>1, <1>11 DEF EndLiveRun, EndManualRun, kiteVars, sessionVars, barVars
<1>12. ASSUME NEW s \in Symbols, SymbolFails(s) PROVE Counters'
  BY <1>1, <1>12 DEF SymbolFails, Fault, kiteVars, sessionVars, barVars
<1>13. CASE UNCHANGED vars
  BY <1>13 DEF vars, kiteVars, sessionVars, barVars, runVars
<1> QED BY <1>2, <1>3, <1>4, <1>5, <1>6, <1>7, <1>8, <1>9, <1>10, <1>11, <1>12, <1>13
        DEF Next, Evaluate

LEMMA TypeKept == PipelineInv /\ [Next]_vars => PipelineType'
BY FlagsKept, CountersKept DEF PipelineType

(* What a step may do to the candle being formed.                          *)
LEMMA CandleSteps ==
    ASSUME PipelineInv, [Next]_vars
    PROVE  \/ UNCHANGED <<current, agg>> /\ hour' \in {hour, hour + 1}
           \/ hour' = hour /\ current' \in {NoBar, BucketStart(hour)} /\ agg' = FreshAggregators
           \/ \E s \in Symbols : Tick(s)
<1>1. CASE HourPasses
  BY <1>1 DEF HourPasses, barVars
<1>2. CASE TokenReset \/ Login \/ Restart \/ ExecutorExhausted \/ TokenRejected \/ KillHungProcess
  BY <1>2 DEF TokenReset, Login, Restart, ExecutorExhausted, TokenRejected, KillHungProcess, barVars
<1>3. CASE MarketClosed \/ Watchdog \/ SessionCrashes \/ ProcessDies \/ TickerDies \/ ManualRunDies
  BY <1>3 DEF MarketClosed, Watchdog, SessionCrashes, ProcessDies, TickerDies, ManualRunDies, barVars
<1>4. CASE Connects \/ Silence \/ HotSwap \/ CloseBucket \/ StartManualRun \/ ManualRunRefused
  BY <1>4 DEF Connects, Silence, HotSwap, CloseBucket, StartManualRun, ManualRunRefused, barVars
<1>5. ASSUME NEW s \in Symbols, Store(s) \/ Plan(s) \/ Replay(s) \/ Act(s) \/ SymbolFails(s)
      PROVE  UNCHANGED <<hour, current, agg>>
  BY <1>5 DEF Store, Plan, Replay, Act, SymbolFails, barVars
<1>6. CASE EndManualRun \/ UNCHANGED vars
  BY <1>6 DEF EndManualRun, vars, barVars
<1>7. CASE StartSession \/ StartBucket \/ QuietBucket \/ EndLiveRun
  BY <1>7 DEF StartSession, StartBucket, QuietBucket, EndLiveRun
<1> QED BY <1>1, <1>2, <1>3, <1>4, <1>5, <1>6, <1>7 DEF Next, Supervise, Boundary, Evaluate

LEMMA CandlesKept == PipelineInv /\ [Next]_vars => CandlesOK'
<1> SUFFICES ASSUME PipelineInv, [Next]_vars PROVE CandlesOK'
  OBVIOUS
<1>1. hour' \in 0..MaxHour
  BY TypeKept DEF PipelineType, Counters
<1>2. /\ hour \in 0..MaxHour /\ MaxHour \in Nat /\ NoBar \notin Nat
      /\ current \in Bars \cup {NoBar} /\ (current # NoBar => current <= hour)
      /\ agg \in [Symbols -> SUBSET (0..hour)]
      /\ current # NoBar => \A s \in Symbols : \A h \in agg[s] : h >= current
  BY PipelineAssumption, ReplayAssumption
     DEF PipelineInv, PipelineType, Counters, CandlesOK, BarsStartAfresh
<1>3. \A b \in Bars : b \in Nat
  BY DEF Bars
<1>4. CASE UNCHANGED <<current, agg>> /\ hour' \in {hour, hour + 1}
  <2>1. 0..hour \subseteq 0..hour' /\ (current # NoBar => current <= hour')
    BY <1>2, <1>3, <1>4
  <2>2. agg' \in [Symbols -> SUBSET (0..hour')]
    BY <1>2, <1>4, <2>1
  <2> QED BY <1>2, <1>4, <2>1, <2>2 DEF CandlesOK, BarsStartAfresh
<1>5. CASE hour' = hour /\ current' \in {NoBar, BucketStart(hour)} /\ agg' = FreshAggregators
  BY <1>2, <1>5, Buckets DEF CandlesOK, BarsStartAfresh, FreshAggregators, EmptyBar
<1>6. ASSUME NEW s \in Symbols, Tick(s) PROVE CandlesOK'
  <2>1. /\ agg' = [agg EXCEPT ![s] = agg[s] \union {hour}]
        /\ UNCHANGED <<hour, current>>
    BY <1>6 DEF Tick, AddTick
  <2>2. agg' \in [Symbols -> SUBSET (0..hour)]
    BY <1>2, <2>1
  <2>3. ASSUME current # NoBar, NEW r \in Symbols, NEW h \in agg'[r] PROVE h >= current
    <3>1. h \in agg[r] \/ h = hour
      BY <1>2, <2>1, <2>3
    <3>2. current \in Nat /\ current <= hour /\ hour \in Nat
      BY <1>2, <1>3, <2>3
    <3> QED BY <1>2, <2>3, <3>1, <3>2
  <2> QED BY <1>2, <2>1, <2>2, <2>3 DEF CandlesOK, BarsStartAfresh
<1> QED BY <1>4, <1>5, <1>6, CandleSteps

(* What a step may do to the tables and the evaluation.                    *)
TasksLeft == UNCHANGED <<stored, engine, acted>> /\ task' = [r \in Symbols |-> task'[r]]

LEMMA TableSteps ==
    ASSUME TablesOK, [Next]_vars
    PROVE  \/ TasksLeft /\ \A r \in Symbols : task'[r] \in {task[r], NoTask, Waiting}
           \/ \E s \in Symbols : Store(s) \/ Plan(s) \/ Replay(s) \/ Act(s)
<1> DEFINE Left == TasksLeft /\ \A r \in Symbols : task'[r] \in {task[r], NoTask, Waiting}
<1> SUFFICES Left \/ \E s \in Symbols : Store(s) \/ Plan(s) \/ Replay(s) \/ Act(s)
  OBVIOUS
<1>1. DOMAIN task = Symbols /\ task = [r \in Symbols |-> task[r]]
  BY DEF TablesOK
<1>2. ASSUME UNCHANGED <<stored, engine, acted>>, task' \in {task, NoTasks} PROVE Left
  BY <1>1, <1>2 DEF TasksLeft, NoTasks
<1>3. CASE TokenReset \/ Login \/ HourPasses
  BY <1>2, <1>3 DEF TokenReset, Login, HourPasses, tableVars, runVars
<1>4. CASE Supervise
  BY <1>2, <1>4 DEF Supervise, Restart, ExecutorExhausted, TokenRejected, StartSession,
                    KillHungProcess, tableVars, runVars
<1>5. CASE MarketClosed \/ Watchdog \/ SessionCrashes \/ ProcessDies \/ ManualRunDies
  BY <1>2, <1>5 DEF MarketClosed, Watchdog, SessionCrashes, ProcessDies, ManualRunDies, EndSession,
                    tableVars
<1>6. CASE TickerDies \/ Connects \/ Silence \/ HotSwap \/ \E s \in Symbols : Tick(s)
  BY <1>2, <1>6 DEF TickerDies, Connects, Silence, HotSwap, Tick, tableVars, runVars
<1>7. CASE StartBucket \/ QuietBucket \/ ManualRunRefused
  BY <1>2, <1>7 DEF StartBucket, QuietBucket, ManualRunRefused, tableVars, runVars
<1>8. CASE EndLiveRun \/ EndManualRun \/ UNCHANGED vars
  BY <1>2, <1>8 DEF EndLiveRun, EndManualRun, vars, tableVars, runVars
<1>9. CASE CloseBucket
  <2>1. /\ task' = [s \in Symbols |-> IF HasTicks(agg[s]) THEN Waiting ELSE NoTask]
        /\ UNCHANGED <<stored, engine, acted>>
    BY <1>9 DEF CloseBucket, tableVars
  <2> QED BY <2>1 DEF TasksLeft
<1>10. CASE StartManualRun
  <2>1. task' = [s \in Symbols |-> Waiting] /\ UNCHANGED <<stored, engine, acted>>
    BY <1>10 DEF StartManualRun, tableVars
  <2> QED BY <2>1 DEF TasksLeft
<1>11. ASSUME NEW s \in Symbols, SymbolFails(s) PROVE Left
  <2>1. task' = [task EXCEPT ![s] = NoTask] /\ UNCHANGED <<stored, engine, acted>>
    BY <1>11 DEF SymbolFails, tableVars
  <2> QED BY <1>1, <2>1 DEF TasksLeft
<1> HIDE DEF Left
<1> QED BY <1>3, <1>4, <1>5, <1>6, <1>7, <1>8, <1>9, <1>10, <1>11 DEF Next, Boundary, Evaluate

(* What a step does to one symbol: it keeps what holds of it, acts on      *)
(* nothing but the freshest bar and jumps none on record.                  *)
SymbolKept(s) ==
    /\ stored'[s] \in SUBSET Bars /\ SymbolOK(stored'[s], engine'[s], task'[s], acted'[s])
    /\ ActsFreshly(stored[s], acted[s], acted'[s])
    /\ engine'[s] # engine[s] /\ engine[s].last # NoBar
           => JumpOK(stored[s], engine[s].last, engine'[s].last)

TablesShaped ==
    /\ stored = [s \in Symbols |-> stored[s]] /\ engine = [s \in Symbols |-> engine[s]]
    /\ task = [s \in Symbols |-> task[s]] /\ acted = [s \in Symbols |-> acted[s]]

(* A step that touches the rows of one symbol only.                        *)
LEMMA OneSymbol ==
    ASSUME TablesOK, NEW s \in Symbols, NEW bars, NEW e, NEW t, NEW a,
           stored' = [stored EXCEPT ![s] = bars], engine' = [engine EXCEPT ![s] = e],
           task' = [task EXCEPT ![s] = t], acted' = [acted EXCEPT ![s] = a],
           bars \in SUBSET Bars, SymbolOK(bars, e, t, a),
           ActsFreshly(stored[s], acted[s], a),
           e # engine[s] /\ engine[s].last # NoBar => JumpOK(stored[s], engine[s].last, e.last)
    PROVE  TablesShaped' /\ \A r \in Symbols : SymbolKept(r)
<1>1. /\ DOMAIN stored = Symbols /\ DOMAIN engine = Symbols /\ DOMAIN task = Symbols
      /\ DOMAIN acted = Symbols
      /\ \A r \in Symbols : /\ stored[r] \in SUBSET Bars
                            /\ SymbolOK(stored[r], engine[r], task[r], acted[r])
  BY DEF TablesOK
<1>2. TablesShaped'
  BY <1>1 DEF TablesShaped
<1>3. SymbolKept(s)
  <2>1. stored'[s] = bars /\ engine'[s] = e /\ task'[s] = t /\ acted'[s] = a
    BY <1>1
  <2> QED BY <2>1 DEF SymbolKept
<1>4. ASSUME NEW r \in Symbols, r # s PROVE SymbolKept(r)
  <2>1. /\ stored'[r] = stored[r] /\ engine'[r] = engine[r] /\ task'[r] = task[r]
        /\ acted'[r] = acted[r]
    BY <1>1, <1>4
  <2> QED BY <1>1, <2>1 DEF SymbolKept, ActsFreshly
<1> QED BY <1>2, <1>3, <1>4

LEMMA SymbolsKept ==
    ASSUME PipelineInv, [Next]_vars
    PROVE  TablesShaped' /\ \A r \in Symbols : SymbolKept(r)
<1>1. /\ TablesOK /\ MaxHour \in Nat /\ hour \in 0..MaxHour
      /\ current \in Bars \cup {NoBar} /\ (run = "live" => current # NoBar)
      /\ run \in {"none", "live", "manual"}
  BY PipelineAssumption DEF PipelineInv, PipelineType, Counters, CandlesOK
<1>2. /\ DOMAIN stored = Symbols /\ DOMAIN engine = Symbols /\ DOMAIN task = Symbols
      /\ DOMAIN acted = Symbols
      /\ stored = [r \in Symbols |-> stored[r]] /\ engine = [r \in Symbols |-> engine[r]]
      /\ task = [r \in Symbols |-> task[r]] /\ acted = [r \in Symbols |-> acted[r]]
  BY <1>1 DEF TablesOK
<1>3. \A r \in Symbols : /\ stored[r] \in SUBSET Bars /\ stored[r] \in SUBSET (0..MaxHour)
                         /\ SymbolOK(stored[r], engine[r], task[r], acted[r])
  BY <1>1 DEF TablesOK, Bars
<1>4. \A r \in Symbols : /\ stored = [stored EXCEPT ![r] = stored[r]]
                         /\ engine = [engine EXCEPT ![r] = engine[r]]
                         /\ task = [task EXCEPT ![r] = task[r]]
                         /\ acted = [acted EXCEPT ![r] = acted[r]]
  BY <1>2
<1>5. \A r \in Symbols : ActsFreshly(stored[r], acted[r], acted[r])
  BY DEF ActsFreshly
<1>6. CASE TasksLeft /\ \A r \in Symbols : task'[r] \in {task[r], NoTask, Waiting}
  <2>1. TablesShaped'
    BY <1>2, <1>6 DEF TablesShaped, TasksLeft
  <2>2. ASSUME NEW r \in Symbols PROVE SymbolKept(r)
    <3>1. SymbolOK(stored[r], engine[r], task'[r], acted[r])
      BY <1>3, <1>6, Dropped
    <3>2. stored'[r] = stored[r] /\ engine'[r] = engine[r] /\ acted'[r] = acted[r]
      BY <1>6 DEF TasksLeft
    <3> QED BY <1>3, <3>1, <3>2 DEF SymbolKept, ActsFreshly
  <2> QED BY <2>1, <2>2
<1>7. ASSUME NEW s \in Symbols, Store(s) PROVE TablesShaped' /\ \A r \in Symbols : SymbolKept(r)
  <2>1. PICK new : /\ new \in SUBSET Bars
                   /\ stored' = [stored EXCEPT ![s] = stored[s] \cup new]
    <3>1. CASE run = "live"
      BY <1>1, <1>7, <3>1 DEF Store
    <3>2. CASE run # "live"
      <4>1. PICK until \in (DayStart..hour) \cup {h \in {hour + 1} : FormingBars} :
                     stored' = [stored EXCEPT ![s] = stored[s] \cup ClosedBars(until)]
        BY <1>7, <3>2 DEF Store
      <4>2. until \in Int /\ until <= hour + 1
        BY <1>1, <4>1
      <4>3. \A b \in 0..(until - 1) : b \in 0..MaxHour
        <5>1. until - 1 <= MaxHour /\ until - 1 \in Int
          BY <1>1, <4>2
        <5> QED BY <1>1, <5>1
      <4>4. ClosedBars(until) \in SUBSET Bars
        BY <4>3 DEF ClosedBars, Bars
      <4> QED BY <4>1, <4>4
    <3> QED BY <3>1, <3>2
  <2>2. /\ engine' = engine /\ acted' = acted /\ task[s].at = "store"
        /\ task' = [task EXCEPT ![s] = Stored(task[s])]
    BY <1>7 DEF Store
  <2>3. SymbolOK(stored[s] \cup new, engine[s], Stored(task[s]), acted[s])
    BY <1>3, <2>2, StoreKeeps
  <2>4. stored[s] \cup new \in SUBSET Bars
    BY <1>3, <2>1
  <2> DEFINE bars == stored[s] \cup new
             t == Stored(task[s])
  <2>5. /\ stored' = [stored EXCEPT ![s] = bars] /\ engine' = [engine EXCEPT ![s] = engine[s]]
        /\ task' = [task EXCEPT ![s] = t] /\ acted' = [acted EXCEPT ![s] = acted[s]]
    BY <1>4, <2>1, <2>2
  <2>6. bars \in SUBSET Bars /\ SymbolOK(bars, engine[s], t, acted[s])
    BY <2>3, <2>4
  <2> HIDE DEF bars, t
  <2> QED BY <1>1, <1>5, <2>5, <2>6, OneSymbol
<1>8. ASSUME NEW s \in Symbols, Plan(s) PROVE TablesShaped' /\ \A r \in Symbols : SymbolKept(r)
  <2>1. /\ UNCHANGED <<stored, engine, acted>>
        /\ task' = [task EXCEPT ![s] = Planned(stored[s], engine[s])]
    BY <1>8 DEF Plan, tableVars
  <2>2. SymbolOK(stored[s], engine[s], Planned(stored[s], engine[s]), acted[s])
    BY <1>3, PlanKeeps
  <2> DEFINE t == Planned(stored[s], engine[s])
  <2>3. /\ stored' = [stored EXCEPT ![s] = stored[s]] /\ engine' = [engine EXCEPT ![s] = engine[s]]
        /\ task' = [task EXCEPT ![s] = t] /\ acted' = [acted EXCEPT ![s] = acted[s]]
    BY <1>4, <2>1
  <2>4. SymbolOK(stored[s], engine[s], t, acted[s])
    BY <2>2
  <2> HIDE DEF t
  <2> QED BY <1>1, <1>3, <1>5, <2>3, <2>4, OneSymbol
<1>9. ASSUME NEW s \in Symbols, Replay(s) PROVE TablesShaped' /\ \A r \in Symbols : SymbolKept(r)
  <2>1. /\ UNCHANGED <<stored, acted>> /\ task[s].at = "replay"
        /\ engine' = [engine EXCEPT ![s] = Saved(task[s])]
        /\ task' = [task EXCEPT ![s] = Advanced(task[s])]
    BY <1>9 DEF Replay
  <2>2. /\ SymbolOK(stored[s], Saved(task[s]), Advanced(task[s]), acted[s])
        /\ engine[s].last # NoBar => JumpOK(stored[s], engine[s].last, Saved(task[s]).last)
    BY <1>3, <2>1, ReplayKeeps
  <2> QED BY <1>1, <1>3, <1>4, <1>5, <2>1, <2>2, OneSymbol
<1>10. ASSUME NEW s \in Symbols, Act(s) PROVE TablesShaped' /\ \A r \in Symbols : SymbolKept(r)
  <2> DEFINE b == IF task[s].done = <<>> THEN acted[s]
                  ELSE Append(acted[s], Current(task[s]))
  <2>1. /\ UNCHANGED <<stored, engine>> /\ task[s].at = "done"
        /\ task' = [task EXCEPT ![s] = NoTask]
    BY <1>10 DEF Act, tableVars
  <2>2. acted' = [acted EXCEPT ![s] = b]
    BY <1>4, <1>10 DEF Act
  <2>3. SymbolOK(stored[s], engine[s], NoTask, b) /\ ActsFreshly(stored[s], acted[s], b)
    BY <1>3, <2>1, ActKeeps
  <2> HIDE DEF b
  <2> QED BY <1>1, <1>3, <1>4, <2>1, <2>2, <2>3, OneSymbol
<1> QED BY <1>1, <1>6, <1>7, <1>8, <1>9, <1>10, TableSteps

-------------------------------------------------------------------------------
(* The invariant and what follows from it.                                 *)

LEMMA InitHolds == Init => PipelineInv
<1> SUFFICES ASSUME Init PROVE PipelineInv
  OBVIOUS
<1>1. /\ Workers \in Nat \ {0} /\ MaxHour \in Nat /\ MaxLogins \in Nat /\ MaxFaults \in Nat
  BY PipelineAssumption
<1>2. Flags
  BY DEF Init, Flags
<1>3. Counters
  BY <1>1 DEF Init, Counters
<1>4. CandlesOK
  BY <1>1 DEF Init, CandlesOK, BarsStartAfresh, FreshAggregators, EmptyBar
<1>5. SymbolOK({}, FreshEngine, NoTask, <<>>)
  <2>1. <<>> \in Seq(Nat) /\ Len(<<>>) = 0
    BY EmptySeq
  <2>2. EngineOK({}, FreshEngine)
    BY <2>1 DEF EngineOK, FreshEngine, Sorted
  <2> QED BY <2>1, <2>2, Tasks DEF SymbolOK, TaskOK, ActedOK, FreshEngine
<1>6. TablesOK
  BY <1>5 DEF Init, TablesOK, NoTasks
<1> QED BY <1>2, <1>3, <1>4, <1>6 DEF PipelineInv, PipelineType

LEMMA StepKeeps == PipelineInv /\ [Next]_vars => PipelineInv'
<1> SUFFICES ASSUME PipelineInv, [Next]_vars PROVE PipelineInv'
  OBVIOUS
<1>1. TablesOK'
  <2>1. TablesShaped' /\ \A r \in Symbols : SymbolKept(r)
    BY SymbolsKept
  <2>2. \A r \in Symbols : /\ stored'[r] \in SUBSET Bars
                           /\ SymbolOK(stored'[r], engine'[r], task'[r], acted'[r])
    BY <2>1 DEF SymbolKept
  <2>3. /\ stored' \in [Symbols -> SUBSET Bars]
        /\ DOMAIN engine' = Symbols /\ DOMAIN task' = Symbols /\ DOMAIN acted' = Symbols
    BY <2>1, <2>2 DEF TablesShaped
  <2> QED BY <2>1, <2>2, <2>3 DEF TablesOK, TablesShaped
<1> QED BY <1>1, TypeKept, CandlesKept DEF PipelineInv

LEMMA PipelineHolds == Spec => []PipelineInv
BY InitHolds, StepKeeps, PTL DEF Spec

(* Every variable stays in its type: the clock, the logins and the faults  *)
(* within their bounds, no more executor threads left behind than there    *)
(* are, an evaluated bar on record, and bars to replay exactly where an    *)
(* evaluation is replaying.                                                *)
THEOREM TypesHold == Spec => []TypeOK
<1>1. PipelineInv => TypeOK
  <2> SUFFICES ASSUME PipelineInv PROVE TypeOK
    OBVIOUS
  <2>1. \A s \in Symbols : agg[s] \subseteq 0..hour
    BY DEF PipelineInv, CandlesOK
  <2>2. ASSUME NEW s \in Symbols
        PROVE  /\ stored[s] \subseteq Bars /\ engine[s].last \in stored[s] \cup {NoBar}
               /\ (task[s].at = "replay") <=> (task[s].todo # <<>>)
    <3>1. stored[s] \subseteq Bars /\ EngineOK(stored[s], engine[s])
          /\ TaskOK(stored[s], engine[s], task[s])
      BY DEF PipelineInv, TablesOK, SymbolOK
    <3> QED BY <3>1 DEF EngineOK, TaskOK, TodoOK
  <2> QED BY <2>1, <2>2 DEF PipelineInv, PipelineType, Flags, Counters, CandlesOK, TypeOK
<1> QED BY <1>1, PipelineHolds, PTL

(* A bar goes into the persisted neighbour queue once and in order, and    *)
(* the last in it is the last evaluated.                                   *)
THEOREM BarsCountedOnce == Spec => []EachBarCountedOnce
<1>1. PipelineInv => EachBarCountedOnce
  <2> SUFFICES ASSUME PipelineInv, NEW s \in Symbols
               PROVE  /\ Increasing(engine[s].queue)
                      /\ engine[s].queue # <<>> => Last(engine[s].queue) = engine[s].last
    BY DEF EachBarCountedOnce
  <2>1. EngineOK(stored[s], engine[s])
    BY DEF PipelineInv, TablesOK, SymbolOK
  <2>2. engine[s].queue \in Seq(Nat) /\ Len(engine[s].queue) \in Nat /\ Sorted(engine[s].queue)
    BY <2>1, LenProperties DEF EngineOK
  <2>3. \A i \in 1..(Len(engine[s].queue) - 1) :
            i \in 1..Len(engine[s].queue) /\ i + 1 \in 1..Len(engine[s].queue) /\ i < i + 1
    BY <2>2
  <2> QED BY <2>1, <2>2, <2>3 DEF EngineOK, Sorted, Increasing
<1> QED BY <1>1, PipelineHolds, PTL

(* A candle of a bucket holds no tick from before the bucket.              *)
THEOREM CandlesStartAfresh == Spec => []BarsStartAfresh
<1>1. PipelineInv => BarsStartAfresh
  BY DEF PipelineInv, CandlesOK
<1> QED BY <1>1, PipelineHolds, PTL

(* Signals are acted on for the freshest bar on record only, never twice   *)
(* for one bar, whatever an outage left behind.                            *)
THEOREM FreshestActedOn == Spec => ActsOnFreshest
<1> DEFINE Fresh == \A s \in Symbols : acted'[s] # acted[s] =>
                        /\ Last(acted'[s]) = Newest(stored[s])
                        /\ \A i \in DOMAIN acted[s] : acted[s][i] < Last(acted'[s])
<1>1. PipelineInv /\ [Next]_vars => Fresh
  BY SymbolsKept DEF SymbolKept, ActsFreshly
<1>2. PipelineInv /\ [Next]_vars => [Fresh]_vars
  BY <1>1
<1>3. ActsOnFreshest <=> [][Fresh]_vars
  BY PTL DEF ActsOnFreshest
<1> HIDE DEF Fresh
<1> QED BY <1>2, <1>3, PipelineHolds, PTL DEF Spec

(* The engine never moves past a bar on record, unless the gap is wider    *)
(* than it replays.                                                        *)
THEOREM NoBarJumped == Spec => NoStoredBarJumped
<1> DEFINE Careful ==
              \A s \in Symbols :
                  LET before == engine[s].last
                      between == {b \in stored[s] : before < b /\ b < engine'[s].last}
                  IN  (engine'[s] # engine[s] /\ before # NoBar)
                          => between = {} \/ Cardinality(between) >= MaxCatchUpBars
<1>1. PipelineInv /\ [Next]_vars => Careful
  BY SymbolsKept DEF SymbolKept, JumpOK
<1>2. PipelineInv /\ [Next]_vars => [Careful]_vars
  BY <1>1
<1>3. NoStoredBarJumped <=> [][Careful]_vars
  BY PTL DEF NoStoredBarJumped
<1> HIDE DEF Careful
<1> QED BY <1>2, <1>3, PipelineHolds, PTL DEF Spec
==============================================================================
