------------------------------ MODULE BarReplay ------------------------------
(***************************************************************************)
(* evaluation.py and the two tables it lives on.  A symbol has the set of  *)
(* its stored bars (candles) and the engine's carried state                *)
(* (engine_state): the last bar evaluated and the neighbour queue, kept    *)
(* here as the sequence of bars that went into it.                         *)
(***************************************************************************)
EXTENDS Naturals, Sequences, SequencesExt, FiniteSets, FiniteSetsExt

CONSTANTS
    MinimumCandles,  \* _MINIMUM_CANDLES, the warm-up
    MaxCatchUpBars,  \* _MAX_CATCH_UP_BARS, the widest gap replayed
    NoBar            \* last_bar_timestamp of a symbol never evaluated

ASSUME ReplayAssumption ==
    /\ MinimumCandles \in Nat \ {0} /\ MaxCatchUpBars \in Nat \ {0}
    /\ NoBar \notin Nat

FreshEngine == [last |-> NoBar, queue |-> <<>>]

(* The bars, oldest first: the i-th is the one with i bars up to it.       *)
InOrder(bars) ==
    [i \in 1..Cardinality(bars) |-> CHOOSE b \in bars : Cardinality({c \in bars : c <= b}) = i]

Newest(stored) == Max(stored)

WarmingUp(stored) == Cardinality(stored) < MinimumCandles

NothingNew(stored, engine) == Newest(stored) = engine.last

(* _find_new_bar_indices; a timestamp that is not stored yields the newest.*)
NewBars(stored, last) ==
    LET later == {b \in stored : b > last}
    IN  IF last = NoBar \/ last \notin stored \/ later = {} THEN <<Newest(stored)>>
        ELSE InOrder(later)

(* The bars one evaluation replays.  A symbol without a queue bootstraps   *)
(* it from all bars before the newest; a gap too wide is jumped.           *)
(* Mutant: only the newest bar, however many closed since.                 *)
NewestOnly(stored, engine) == <<Newest(stored)>>

BarsToReplay(stored, engine) ==
    IF engine.queue = <<>> \/ Len(NewBars(stored, engine.last)) > MaxCatchUpBars
    THEN <<Newest(stored)>>
    ELSE NewBars(stored, engine.last)

(* The queue the first replayed bar is added to.                           *)
StartingQueue(stored, engine) ==
    IF engine.queue = <<>> THEN InOrder(stored \ {Newest(stored)}) ELSE engine.queue

(* An evaluation underway: the bars still to replay, the queue carried     *)
(* from one to the next, and the bars done.                                *)
NoTask == [at |-> "none", todo |-> <<>>, queue |-> <<>>, done |-> <<>>]

Waiting == [NoTask EXCEPT !.at = "store"]

Stored(task) == [task EXCEPT !.at = "plan"]

(* Mutant: the check for a bar already evaluated is missing.               *)
PlannedAlways(stored, engine) ==
    IF WarmingUp(stored) THEN [NoTask EXCEPT !.at = "done"]
    ELSE [NoTask EXCEPT !.at = "replay", !.todo = BarsToReplay(stored, engine),
                        !.queue = StartingQueue(stored, engine)]

Planned(stored, engine) ==
    IF WarmingUp(stored) \/ NothingNew(stored, engine) THEN [NoTask EXCEPT !.at = "done"]
    ELSE [NoTask EXCEPT !.at = "replay", !.todo = BarsToReplay(stored, engine),
                        !.queue = StartingQueue(stored, engine)]

(* One bar evaluated: set_state, then the state is carried on.             *)
Saved(task) == [last |-> Head(task.todo), queue |-> Append(task.queue, Head(task.todo))]

(* Mutant: one bar is taken for the whole backlog.                         *)
AdvancedOnce(task) ==
    [task EXCEPT !.at = "done",
                 !.todo = Tail(@), !.queue = Append(@, Head(task.todo)),
                 !.done = Append(@, Head(task.todo))]

Advanced(task) ==
    [task EXCEPT !.at = IF Len(task.todo) = 1 THEN "done" ELSE "replay",
                 !.todo = Tail(@), !.queue = Append(@, Head(task.todo)),
                 !.done = Append(@, Head(task.todo))]

(* evaluations[-1] alone is acted on; those before it are only reported.   *)
Current(task) == Last(task.done)
==============================================================================
