------------------------------ MODULE AlphaEngine ------------------------------
(***************************************************************************)
(* The batch engine: every bar of a history classified by its neighbours,  *)
(* with the entries and exits of production's settings                     *)
(* (include_full_history, use_dynamic_exits, no EMA, SMA or ADX filter, no *)
(* kernel smoothing), and the strict exits of the default ones.  A bar     *)
(* carries what the indicators make of it: its place in feature space,     *)
(* whether the filters pass, and which way the kernel estimate moves       *)
(* ("none" before there is one).  As in the code, a history's first bar is *)
(* bar 0.                                                                  *)
(***************************************************************************)
EXTENDS Strategy, Integers, SequencesExt

CONSTANTS
    NeighborsCount, \* how many votes the queue holds
    MaxBarsBack,
    Stride,         \* every Stride-th bar is left out as a neighbour
    LabelSpan,      \* bars over which a label compares closes
    HoldSpan,       \* bars a strict exit waits
    WarmUp          \* bars before the features are finite

(* A label compares closes four bars apart; two are the fewest with which  *)
(* the signal cannot change on bar 1, where the batch engine has no early  *)
(* flips yet and the incremental one already remembers changes.            *)
ASSUME EngineAssumption ==
    /\ {NeighborsCount, MaxBarsBack, Stride, HoldSpan} \subseteq Nat \ {0} /\ WarmUp \in Nat
    /\ LabelSpan \in Nat \ {0, 1}

Bars(history) == 0..Len(history) - 1
At(history, b) == history[b + 1]
LastBar(history) == Len(history) - 1
Prefix(history, b) == SubSeq(history, 1, b + 1)

(* What the indicators make of a bar: _calculate_features,                 *)
(* _calculate_filters and _kernel_regression look at it and the bars       *)
(* before it only.                                                         *)
Feature(history, b) == At(history, b).feature
Passes(history, b) == At(history, b).passes
Rate(history, b) == IF b < 0 THEN "none" ELSE At(history, b).rate

(* Mutant: a label looks ahead, at what the close will be.                 *)
LabelAhead(history, b) ==
    IF b + LabelSpan > LastBar(history) THEN 0
    ELSE LET now == At(history, b).close
             later == At(history, b + LabelSpan).close
         IN  CASE now < later -> -1 [] now > later -> 1 [] OTHER -> 0

Label(history, b) ==
    IF b < LabelSpan THEN 0
    ELSE LET before == At(history, b - LabelSpan).close
             now == At(history, b).close
         IN  CASE before < now -> -1 [] before > now -> 1 [] OTHER -> 0

(* The Lorentzian distance grows with the difference of the features; only *)
(* its order matters.                                                      *)
Distance(history, b, i) ==
    LET x == Feature(history, b)
        y == Feature(history, i)
    IN  IF x > y THEN x - y ELSE y - x

FiniteDistance(b, i) == b >= WarmUp /\ i >= WarmUp

(* round(neighbors_count * 3 / 4), half to even for the sizes in use.      *)
ThresholdIndex == (3 * NeighborsCount + 2) \div 4

EmptyQueue == <<>>

(* Mutant: the oldest vote is not dropped.                                 *)
AdmittedForEver(queue, distance, label) ==
    LET longer == Append(queue, [distance |-> distance, label |-> label])
    IN  [queue |-> longer,
         last |-> IF Len(longer) > NeighborsCount THEN longer[ThresholdIndex + 1].distance ELSE distance]

(* A queue holds the neighbours' distances and labels, oldest first.       *)
Admitted(queue, distance, label) ==
    LET longer == Append(queue, [distance |-> distance, label |-> label])
    IN  IF Len(longer) > NeighborsCount
        THEN [queue |-> Tail(longer), last |-> longer[ThresholdIndex + 1].distance]
        ELSE [queue |-> longer, last |-> distance]

(* One bar's scan of the candidates, from the oldest stored bar on.  The   *)
(* queue is carried from bar to bar, the last distance starts over.        *)
Scanned(history, b, queue) ==
    LET size == IF b < MaxBarsBack - 1 THEN b ELSE MaxBarsBack - 1
        after[i \in -1..size] ==
            IF i = -1 THEN [queue |-> queue, last |-> -1]
            ELSE LET before == after[i - 1]
                     distance == Distance(history, b, i)
                 IN  IF FiniteDistance(b, i) /\ distance >= before.last /\ i % Stride # 0
                     THEN Admitted(before.queue, distance, Label(history, i))
                     ELSE before
    IN  after[size].queue

Votes(queue) ==
    LET sum[n \in 0..Len(queue)] == IF n = 0 THEN 0 ELSE sum[n - 1] + queue[n].label
    IN  sum[Len(queue)]

SignalAfter(previous, prediction, passes) ==
    CASE prediction > 0 /\ passes -> 1
      [] prediction < 0 /\ passes -> -1
      [] OTHER -> previous

MaxBarsBackIndex(length) == IF length - 1 >= MaxBarsBack THEN length - 1 - MaxBarsBack ELSE 0

(* The kernel has turned when it moves against the way it moved a bar ago. *)
BullishChange(history, b) == Rate(history, b) = "rising" /\ Rate(history, b - 1) = "falling"
BearishChange(history, b) == Rate(history, b) = "falling" /\ Rate(history, b - 1) = "rising"

(* _bars_since: the bars since the newest at or before b; -1 stands for    *)
(* NaN, which compares as false.                                           *)
BarsSince(bars, b) ==
    LET past == {k \in bars : k <= b} IN IF past = {} THEN -1 ELSE b - Max(past)

Outlasts(sinceExit, sinceEntry) == sinceExit >= 0 /\ sinceEntry >= 0 /\ sinceExit > sinceEntry

-------------------------------------------------------------------------------
(* _predict: the queue, the votes and the signal after every bar.          *)
Unclassified == [queue |-> EmptyQueue, prediction |-> 0, signal |-> 0]

Classified(history) ==
    LET first == MaxBarsBackIndex(Len(history))
        after[b \in -1..LastBar(history)] ==
            IF b = -1 THEN <<Unclassified>>
            ELSE LET done == after[b - 1]
                     before == Last(done)
                     queue == IF b >= first THEN Scanned(history, b, before.queue) ELSE before.queue
                     prediction == IF b >= first THEN Votes(queue) ELSE 0
                 IN  Append(done, [queue |-> queue, prediction |-> prediction,
                                   signal |-> SignalAfter(before.signal, prediction, Passes(history, b))])
    IN  Tail(after[LastBar(history)])

Changed(classified) ==
    {b \in 1..Len(classified) - 1 : classified[b + 1].signal # classified[b].signal}

EarlyFlips(changed) == {b \in changed : b >= 3 /\ changed \cap b - 3..b - 1 # {}}

Entries(history, classified) ==
    LET changed == Changed(classified)
    IN  [long |-> {b \in changed : classified[b + 1].signal = 1 /\ Rate(history, b) = "rising"},
         short |-> {b \in changed : classified[b + 1].signal = -1 /\ Rate(history, b) = "falling"}]

(* A dynamic exit goes by what the bar before had counted.                 *)
DynamicExits(history, entries) ==
    LET bearish == {b \in Bars(history) : BearishChange(history, b)}
        bullish == {b \in Bars(history) : BullishChange(history, b)}
    IN  [long |-> {b \in bearish : Outlasts(BarsSince(bearish, b - 1), BarsSince(entries.long, b - 1))},
         short |-> {b \in bullish : Outlasts(BarsSince(bullish, b - 1), BarsSince(entries.short, b - 1))}]

BarsHeld(changed, b) ==
    LET past == {k \in changed : k <= b} IN IF past = {} THEN b + 1 ELSE b - Max(past)

(* A strict exit ends the trade entered HoldSpan bars ago.                 *)
StrictExits(history, classified, entries) ==
    LET changed == Changed(classified)
        ends(side, started) ==
            {b \in Bars(history) :
                /\ b - HoldSpan \in started /\ classified[b - HoldSpan + 1].signal = side
                /\ \/ BarsHeld(changed, b) = HoldSpan
                   \/ /\ BarsHeld(changed, b) \in 1..HoldSpan - 1
                      /\ b \in changed /\ classified[b + 1].signal = -side}
    IN  [long |-> ends(1, entries.long), short |-> ends(-1, entries.short)]

(* The events of every bar of a history, in one pass.                      *)
EventsWith(history, useDynamicExits) ==
    LET classified == Classified(history)
        entries == Entries(history, classified)
        exits == IF useDynamicExits THEN DynamicExits(history, entries)
                 ELSE StrictExits(history, classified, entries)
        early == EarlyFlips(Changed(classified))
    IN  [n \in 1..Len(history) |->
            LET b == n - 1
            IN  [signal |-> CASE b \in entries.long -> "BUY" [] b \in entries.short -> "SELL"
                              [] OTHER -> "NEUTRAL",
                 price |-> At(history, b).close,
                 prediction |-> classified[n].prediction,
                 endLong |-> b \in exits.long, endShort |-> b \in exits.short,
                 earlyFlip |-> b \in early]]

(* compute_historical_events, with production's settings.                  *)
HistoricalEvents(history) == EventsWith(history, TRUE)

(* analyze: the newest bar's event.  The validation CSV evaluates every    *)
(* bar on the history up to it, with the engine's default settings.        *)
Analyze(history, useDynamicExits) == Last(EventsWith(history, useDynamicExits))

ValidationHistory(history) ==
    [n \in 1..Len(history) |-> Analyze(Prefix(history, n - 1), FALSE)]
===============================================================================
