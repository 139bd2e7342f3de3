------------------------------ MODULE FastPredict ------------------------------
(***************************************************************************)
(* The incremental engine: one bar at a time, from a state kept between    *)
(* runs in place of the batch engine's pass over the whole history.        *)
(***************************************************************************)
EXTENDS AlphaEngine

(* bars_since_* is -1 where the code has None.  The window remembers the   *)
(* three bars before.                                                      *)
ExitState == [sinceRedEntry |-> -1, sinceGreenEntry |-> -1, changedWindow |-> <<FALSE, FALSE, FALSE>>]

EngineStates ==
    [signal : -1..1, queue : Seq([distance : Int, label : -1..1]),
     exits : [sinceRedEntry : Int, sinceGreenEntry : Int, changedWindow : [1..3 -> BOOLEAN]]]

QueueState == [signal |-> 0, queue |-> EmptyQueue, exits |-> ExitState]

NextCount(starts, count) == CASE starts -> 0 [] ~starts /\ count >= 0 -> count + 1 [] OTHER -> -1

(* The exits go by the bar before: its count of bars since the kernel's    *)
(* turn, and the counts since the entries as they were kept.               *)
Exits(history, b, exits, startLong, startShort) ==
    LET bearish == {k \in Bars(history) : BearishChange(history, k)}
        bullish == {k \in Bars(history) : BullishChange(history, k)}
    IN  [long |-> b \in bearish /\ Outlasts(BarsSince(bearish, b - 1), exits.sinceGreenEntry),
         short |-> b \in bullish /\ Outlasts(BarsSince(bullish, b - 1), exits.sinceRedEntry)]

(* Mutant: the count since the last long entry stands still.               *)
AdvancedExitStateStill(exits, startLong, startShort, changed) ==
    [sinceRedEntry |-> NextCount(startShort, exits.sinceRedEntry),
     sinceGreenEntry |-> IF startLong THEN 0 ELSE exits.sinceGreenEntry,
     changedWindow |-> Append(Tail(exits.changedWindow), changed)]

AdvancedExitState(exits, startLong, startShort, changed) ==
    [sinceRedEntry |-> NextCount(startShort, exits.sinceRedEntry),
     sinceGreenEntry |-> NextCount(startLong, exits.sinceGreenEntry),
     changedWindow |-> Append(Tail(exits.changedWindow), changed)]

(* One bar, its queue advanced: what evaluate_latest_bar and the bootstrap *)
(* do alike.                                                               *)
Step(history, b, state, queue, prediction) ==
    LET signal == SignalAfter(state.signal, prediction, Passes(history, b))
        changed == signal # state.signal
        startLong == signal = 1 /\ changed /\ Rate(history, b) = "rising"
        startShort == signal = -1 /\ changed /\ Rate(history, b) = "falling"
        ends == Exits(history, b, state.exits, startLong, startShort)
    IN  [result |-> [signal |-> CASE startLong -> "BUY" [] startShort -> "SELL" [] OTHER -> "NEUTRAL",
                     price |-> At(history, b).close, prediction |-> prediction,
                     endLong |-> ends.long, endShort |-> ends.short,
                     earlyFlip |-> changed /\ \E n \in 1..3 : state.exits.changedWindow[n]],
         state |-> [signal |-> signal, queue |-> queue,
                    exits |-> AdvancedExitState(state.exits, startLong, startShort, changed)]]

(* Mutant: the queue starts afresh with every evaluation.                  *)
QueueStartedAfresh(history, state) ==
    LET b == LastBar(history)
        queue == Scanned(history, b, EmptyQueue)
    IN  Step(history, b, state, queue, Votes(queue))

EvaluateLatestBar(history, state) ==
    LET b == LastBar(history)
        queue == Scanned(history, b, state.queue)
    IN  Step(history, b, state, queue, Votes(queue))

(* Mutant: the bootstrap takes the signal for neutral.                     *)
BootstrapNeutral(history) ==
    LET first == MaxBarsBackIndex(Len(history))
        after[b \in first - 1..LastBar(history)] ==
            IF b = first - 1 THEN QueueState
            ELSE LET before == after[b - 1]
                     queue == Scanned(history, b, before.queue)
                 IN  Step(history, b, before, queue, Votes(queue)).state
    IN  [after[LastBar(history)] EXCEPT !.signal = 0]

Bootstrap(history) ==
    LET first == MaxBarsBackIndex(Len(history))
        after[b \in first - 1..LastBar(history)] ==
            IF b = first - 1 THEN QueueState
            ELSE LET before == after[b - 1]
                     queue == Scanned(history, b, before.queue)
                 IN  Step(history, b, before, queue, Votes(queue)).state
    IN  after[LastBar(history)]
===============================================================================
