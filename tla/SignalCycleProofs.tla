------------------------- MODULE SignalCycleProofs --------------------------
(***************************************************************************)
(* What one symbol's scan cycles promise about money and about the         *)
(* strategy's positions, for every value of the constants: whatever the    *)
(* order of the cycle, the ticks and the refreshes, and whichever calls    *)
(* fail.                                                                   *)
(***************************************************************************)
EXTENDS SignalCycle, SumFacts

Phases == {"paper", "futures", "buy", "endLong", "paperExit", "paperWrite", "longExits", "sell",
           "endShort"}

(* What the tables hold.                                                   *)
EventType == [signal : Sides \cup {"NEUTRAL"}, price : Prices, endLong : BOOLEAN, endShort : BOOLEAN]

TradeRow == [side : Sides, bar : Nat, entry : Prices, status : {"open", "closed", "abandoned"},
             exitBar : Nat, exit : Nat]

PaperRow == [side : {"BUY"}, bar : Nat, entry : Prices, quantity : Nat, peak : Prices,
             status : {"open", "closed"}, exit : Nat]

LegRow(sides) ==
    [side : sides, bar : Nat, entry : Prices, status : {"open", "closed"}, exit : Nat]

OptionSides == {"PE", "CE"}

(* A table of such rows, of bars up to the newest.                         *)
RowsIn(rows, type, newest) ==
    rows \in Seq(type) /\ \A i \in DOMAIN rows : rows[i].bar \in 1..newest

CycleType ==
    /\ strategy \in StrategyState /\ events \in Seq(EventType) /\ bar <= MaxBars
    /\ phase \in Phases \cup {"idle"} /\ lost \subseteq 1..bar
    /\ phase # "idle" => bar >= 1
    /\ faults \in 0..MaxFaults

TablesType ==
    /\ RowsIn(trades, TradeRow, bar) /\ RowsIn(paper, PaperRow, bar)
    /\ RowsIn(combos, LegRow(FuturesSides), bar)
    /\ RowsIn(futureLegs, LegRow(FuturesSides), bar)
    /\ RowsIn(optionLegs, LegRow(OptionSides), bar)
    /\ cash \in Nat /\ futuresCash \in Int

TickType ==
    /\ price \in Prices /\ tick \in Prices \cup {0}
    /\ cache \in {NoPosition} \cup [entry : Prices, peak : Prices]
    /\ snapshot \in {NotReading, NoPosition} \cup [entry : Prices, peak : Prices]

(* The account's lock: who has read a row to close holds it, and the row   *)
(* stays open until it is written.                                         *)
LockOK ==
    /\ lock \in Tasks \cup {"free"} /\ closing \in [Tasks -> {NotReading} \cup Nat]
    /\ \A who \in Tasks : closing[who] # NotReading =>
           lock = who /\ closing[who] \in OpenRows(paper) \cup {0}
    /\ phase = "paperWrite" => closing["cycle"] # NotReading
    /\ closing["tick"] # NotReading => tick # 0

(* What the newest bar gave, at the step that acts on it.                  *)
PhaseOK ==
    /\ phase = "buy" => event.signal = "BUY"
    /\ phase = "sell" => event.signal = "SELL"
    /\ phase \in {"endLong", "paperExit", "paperWrite", "longExits"} => event.endLong
    /\ phase = "endShort" => event.endShort

(* The strategy's two flags say which position Pine has open, and what a   *)
(* bar gave agrees with them while it is processed.                        *)
StrategyOK ==
    /\ strategy.longLive => strategy.bullish
    /\ strategy.shortLive => ~strategy.bullish
    /\ phase # "idle" =>
           /\ event.signal = "BUY" => strategy.longLive
           /\ event.signal = "SELL" => strategy.shortLive
           /\ event.endLong => ~strategy.bullish
           /\ event.endShort => strategy.bullish

(* Pine's replay, bar by bar.                                              *)
NothingReplayed == [current |-> Flat, scored |-> {}]

Replays(f, evs) ==
    f = [n \in 0..Len(evs) |-> IF n = 0 THEN NothingReplayed ELSE PineBar(f[n - 1], n, evs[n])]

Pine(evs) == CHOOSE f : Replays(f, evs)

PineOK ==
    LET side == Pine(events)[bar].current.side
        before == Pine(events)[bar - 1].current.side
    IN  /\ (side = "BUY") <=> strategy.longLive
        /\ (side = "SELL") <=> strategy.shortLive
        /\ phase # "idle" => /\ event.endLong => before = "BUY"
                             /\ event.endShort => before = "SELL"

(* How far Pine's replay of the newest bar corresponds to what the cycle   *)
(* has done about it.                                                      *)
PineSoFar(state, b, e, stage) ==
    LET long == IF e.signal = "BUY" THEN Started("BUY", b, e) ELSE state.current
        endsLong == e.endLong /\ long.side = "BUY"
        held == IF endsLong THEN Flat ELSE long
        short == IF e.signal = "SELL" THEN Started("SELL", b, e) ELSE held
        sold == state.scored \cup (IF endsLong THEN {ScoredTrade(long, b, e)} ELSE {})
    IN  CASE stage = "entered" -> [current |-> long, scored |-> state.scored]
          [] stage = "exited" -> [current |-> held, scored |-> sold]
          [] stage = "reversed" -> [current |-> short, scored |-> sold]
          [] OTHER -> [current |-> state.current, scored |-> state.scored]

Stage(p) ==
    CASE p \in {"paper", "futures", "buy"} -> "before"
      [] p = "endLong" -> "entered"
      [] p \in {"paperExit", "paperWrite", "longExits", "sell"} -> "exited"
      [] p = "endShort" -> "reversed"

Opposite(side) == IF side = "BUY" THEN "SELL" ELSE "BUY"

OpenOf(rows, side) == {i \in DOMAIN rows : rows[i].status = "open" /\ rows[i].side = side}

NewestOpen(rows, side) == LatestOpen(rows, {side})

(* A trades table stands where Pine does.                                  *)
Agrees(rows, state) ==
    /\ ClosedTrades(rows) = state.scored
    /\ state.current.side \in Sides =>
           LET last == NewestOpen(rows, state.current.side)
           IN  /\ last # 0 /\ rows[last].bar = state.current.bar
               /\ rows[last].entry = state.current.entry
               /\ OpenOf(rows, Opposite(state.current.side)) = {}

TradesOK ==
    lost = {} =>
        IF phase = "idle" THEN Agrees(trades, Pine(events)[bar])
        ELSE Agrees(trades, PineSoFar(Pine(events)[bar - 1], bar, event, Stage(phase)))

BeforeLongExits == {"paper", "futures", "buy", "endLong", "paperExit", "paperWrite", "longExits"}
BeforeBuy == {"paper", "futures", "buy"}

(* Which side of the strategy a leg still answers to.                      *)
LongHeld == strategy.longLive \/ (phase \in BeforeLongExits /\ event.endLong)
ShortHeld == strategy.shortLive \/ (phase # "idle" /\ event.endShort)

CombosOK ==
    faults = 0 =>
        /\ lost = {}
        /\ \A i, j \in OpenRows(combos) : i = j
        /\ \A i \in OpenRows(combos) :
              IF combos[i].side = "long" THEN LongHeld ELSE ShortHeld

(* The option a side must have, once its entry has been processed.         *)
PutDue == LongHeld /\ ~(phase \in BeforeBuy /\ event.signal = "BUY")
CallDue == ShortHeld /\ ~(phase # "idle" /\ phase # "endShort" /\ event.signal = "SELL")

LegsOK ==
    faults = 0 =>
        /\ Cardinality(OpenRows(futureLegs)) = Cardinality(OpenRows(optionLegs))
        /\ PutDue => OpenOf(optionLegs, "PE") # {}
        /\ CallDue => OpenOf(optionLegs, "CE") # {}

(* The balance of an account: what is in it and what its open rows hold is *)
(* what it began with and what its closed rows gained.                     *)

PaperBalances(balance, rows) ==
    balance + Committed(rows) =
        InitialCapital + MapThenSumSet(LAMBDA i : PaperPnl(rows[i]), DOMAIN rows \ OpenRows(rows))

ComboBalances(balance, rows) ==
    balance + Margin * Cardinality(OpenRows(rows)) =
        FuturesCapital + MapThenSumSet(LAMBDA i : LegPnl(rows[i]), DOMAIN rows \ OpenRows(rows))

Balanced == PaperBalances(cash, paper) /\ ComboBalances(futuresCash, combos)

AccountInv == CycleType /\ TablesType /\ TickType /\ LockOK /\ Balanced

CycleInv ==
    AccountInv /\ PhaseOK /\ StrategyOK /\ PineOK /\ TradesOK /\ CombosOK /\ LegsOK

-------------------------------------------------------------------------------
(* Facts about tables.                                                     *)

LEMMA Appended ==
    ASSUME NEW S, NEW q \in Seq(S), NEW x \in S, NEW r, r = Append(q, x)
    PROVE  /\ r \in Seq(S) /\ r # <<>> /\ Len(q) \in Nat /\ Len(r) = Len(q) + 1
           /\ DOMAIN q = 1..Len(q) /\ DOMAIN r = DOMAIN q \cup {Len(r)} /\ Len(r) \notin DOMAIN q
           /\ \A i \in DOMAIN q : r[i] = q[i] /\ q[i] \in S
           /\ r[Len(r)] = x
<1>1. /\ r \in Seq(S) /\ r # <<>> /\ Len(r) = Len(q) + 1
      /\ \A i \in 1..Len(q) : r[i] = q[i]
      /\ r[Len(q) + 1] = x
  BY AppendProperties
<1>2. Len(q) \in Nat /\ DOMAIN q = 1..Len(q) /\ \A i \in 1..Len(q) : q[i] \in S
  BY LenProperties, ElementOfSeq
<1>3. DOMAIN r = 1..(Len(q) + 1)
  BY <1>1, LenProperties
<1>4. 1..(Len(q) + 1) = (1..Len(q)) \cup {Len(q) + 1} /\ Len(q) + 1 \notin 1..Len(q)
  BY <1>2
<1> QED BY <1>1, <1>2, <1>3, <1>4

LEMMA Updated ==
    ASSUME NEW S, NEW q \in Seq(S), NEW k \in DOMAIN q, NEW x \in S, NEW r,
           r = [q EXCEPT ![k] = x]
    PROVE  /\ r \in Seq(S) /\ Len(r) = Len(q) /\ DOMAIN r = DOMAIN q
           /\ r[k] = x /\ \A i \in DOMAIN q : i # k => r[i] = q[i]
           /\ \A i \in DOMAIN q : q[i] \in S
<1>1. Len(q) \in Nat /\ DOMAIN q = 1..Len(q) /\ \A i \in 1..Len(q) : q[i] \in S
  BY LenProperties, ElementOfSeq
<1>2. r \in Seq(S) /\ Len(r) = Len(q)
  BY <1>1, ExceptSeq
<1> QED BY <1>1, <1>2

LEMMA Rows ==
    ASSUME NEW S, NEW q \in Seq(S)
    PROVE  /\ Len(q) \in Nat /\ DOMAIN q = 1..Len(q) /\ \A i \in DOMAIN q : q[i] \in S
           /\ OpenRows(q) \subseteq DOMAIN q /\ IsFiniteSet(DOMAIN q) /\ IsFiniteSet(OpenRows(q))
           /\ Cardinality(OpenRows(q)) \in Nat
           /\ \A i \in OpenRows(q) : i \in Nat \ {0}
<1>1. Len(q) \in Nat /\ DOMAIN q = 1..Len(q) /\ \A i \in 1..Len(q) : q[i] \in S
  BY LenProperties, ElementOfSeq
<1>2. IsFiniteSet(DOMAIN q)
  BY <1>1, FS_Interval
<1>3. OpenRows(q) \subseteq DOMAIN q
  BY DEF OpenRows
<1>4. IsFiniteSet(OpenRows(q)) /\ Cardinality(OpenRows(q)) \in Nat
  BY <1>2, <1>3, FS_Subset, FS_CardinalityType
<1>5. \A i \in OpenRows(q) : i \in Nat \ {0}
  BY <1>1, <1>3
<1> QED BY <1>1, <1>2, <1>3, <1>4, <1>5

(* The newest open row is one of the open rows asked for, if there is one. *)
LEMMA LatestOpenIs ==
    ASSUME NEW S, NEW q \in Seq(S), NEW sides
    PROVE  LET asked == {i \in DOMAIN q : q[i].status = "open" /\ q[i].side \in sides}
               last == LatestOpen(q, sides)
           IN  /\ asked \subseteq OpenRows(q) /\ last \in Nat
               /\ (last = 0 <=> asked = {})
               /\ (last # 0 => last \in asked /\ \A i \in asked : i <= last)
<1> DEFINE asked == {i \in DOMAIN q : q[i].status = "open" /\ q[i].side \in sides}
           last == LatestOpen(q, sides)
<1>1. asked \subseteq OpenRows(q)
  BY DEF OpenRows
<1>2. Len(q) \in Nat /\ asked \in SUBSET (0..Len(q)) /\ \A i \in asked : i \in Nat \ {0}
  BY <1>1, Rows
<1>3. last = IF asked = {} THEN 0 ELSE Max(asked)
  BY DEF LatestOpen
<1> HIDE DEF asked, last
<1>4. CASE asked = {}
  BY <1>1, <1>3, <1>4 DEF asked, last
<1>5. CASE asked # {}
  <2>1. Max(asked) \in asked /\ \A i \in asked : i <= Max(asked)
    BY <1>2, <1>5, Extremum
  <2>2. last # 0 /\ last \in Nat /\ last \in asked /\ \A i \in asked : i <= last
    BY <1>2, <1>3, <1>5, <2>1
  <2> QED BY <1>1, <1>5, <2>2 DEF asked, last
<1> QED BY <1>4, <1>5

LEMMA LatestOpenRow ==
    ASSUME NEW S, NEW q \in Seq(S), NEW sides
    PROVE  LatestOpen(q, sides) \in OpenRows(q) \cup {0}
BY LatestOpenIs

-------------------------------------------------------------------------------
(* Sums over the rows of an account.                                       *)

Allocations(rows) == [i \in DOMAIN rows |-> Allocated(rows[i])]
Gains(rows) == [i \in DOMAIN rows |-> PaperPnl(rows[i])]
LegGains(rows) == [i \in DOMAIN rows |-> LegPnl(rows[i])]

LEMMA CommittedIs ==
    ASSUME NEW rows, NEW I \in SUBSET DOMAIN rows, IsFiniteSet(I)
    PROVE  MapThenSumSet(LAMBDA i : Allocated(rows[i]), I) = Total(Allocations(rows), I)
<1> DEFINE f == Allocations(rows)
           it == CHOOSE it : it = [s \in SUBSET I |->
                     IF s = {} THEN 0
                     ELSE LET x == CHOOSE x \in s : TRUE IN Allocated(rows[x]) + it[s \ {x}]]
<1>1. MapThenSumSet(LAMBDA i : Allocated(rows[i]), I) = it[I]
  BY DEF MapThenSumSet, MapThenFoldSet
<1>2. \A g : SumsUp(g, f, I) <=>
                g = [s \in SUBSET I |-> IF s = {} THEN 0
                     ELSE LET x == CHOOSE x \in s : TRUE IN Allocated(rows[x]) + g[s \ {x}]]
  <2>1. ASSUME NEW g, NEW s \in SUBSET I
        PROVE  (IF s = {} THEN 0 ELSE f[Pick(s)] + g[s \ {Pick(s)}])
                 = (IF s = {} THEN 0
                    ELSE LET x == CHOOSE x \in s : TRUE IN Allocated(rows[x]) + g[s \ {x}])
    BY Picked DEF Allocations, Pick
  <2> QED BY <2>1 DEF SumsUp
<1> HIDE DEF f
<1>3. SumsUp(it, f, I)
  <2>1. PICK g : SumsUp(g, f, I)
    BY SumsUpExists
  <2>2. g = [s \in SUBSET I |-> IF s = {} THEN 0
                     ELSE LET x == CHOOSE x \in s : TRUE IN Allocated(rows[x]) + g[s \ {x}]]
    BY <1>2, <2>1
  <2>3. it = [s \in SUBSET I |-> IF s = {} THEN 0
                     ELSE LET x == CHOOSE x \in s : TRUE IN Allocated(rows[x]) + it[s \ {x}]]
    BY <2>2
  <2> QED BY <1>2, <2>3
<1> HIDE DEF it
<1> QED BY <1>1, <1>3, TotalOf DEF f

LEMMA GainsAre ==
    ASSUME NEW rows, NEW I \in SUBSET DOMAIN rows, IsFiniteSet(I)
    PROVE  MapThenSumSet(LAMBDA i : PaperPnl(rows[i]), I) = Total(Gains(rows), I)
<1> DEFINE f == Gains(rows)
           it == CHOOSE it : it = [s \in SUBSET I |->
                     IF s = {} THEN 0
                     ELSE LET x == CHOOSE x \in s : TRUE IN PaperPnl(rows[x]) + it[s \ {x}]]
<1>1. MapThenSumSet(LAMBDA i : PaperPnl(rows[i]), I) = it[I]
  BY DEF MapThenSumSet, MapThenFoldSet
<1>2. \A g : SumsUp(g, f, I) <=>
                g = [s \in SUBSET I |-> IF s = {} THEN 0
                     ELSE LET x == CHOOSE x \in s : TRUE IN PaperPnl(rows[x]) + g[s \ {x}]]
  <2>1. ASSUME NEW g, NEW s \in SUBSET I
        PROVE  (IF s = {} THEN 0 ELSE f[Pick(s)] + g[s \ {Pick(s)}])
                 = (IF s = {} THEN 0
                    ELSE LET x == CHOOSE x \in s : TRUE IN PaperPnl(rows[x]) + g[s \ {x}])
    BY Picked DEF Gains, Pick
  <2> QED BY <2>1 DEF SumsUp
<1> HIDE DEF f
<1>3. SumsUp(it, f, I)
  <2>1. PICK g : SumsUp(g, f, I)
    BY SumsUpExists
  <2>2. g = [s \in SUBSET I |-> IF s = {} THEN 0
                     ELSE LET x == CHOOSE x \in s : TRUE IN PaperPnl(rows[x]) + g[s \ {x}]]
    BY <1>2, <2>1
  <2>3. it = [s \in SUBSET I |-> IF s = {} THEN 0
                     ELSE LET x == CHOOSE x \in s : TRUE IN PaperPnl(rows[x]) + it[s \ {x}]]
    BY <2>2
  <2> QED BY <1>2, <2>3
<1> HIDE DEF it
<1> QED BY <1>1, <1>3, TotalOf DEF f

LEMMA LegGainsAre ==
    ASSUME NEW rows, NEW I \in SUBSET DOMAIN rows, IsFiniteSet(I)
    PROVE  MapThenSumSet(LAMBDA i : LegPnl(rows[i]), I) = Total(LegGains(rows), I)
<1> DEFINE f == LegGains(rows)
           it == CHOOSE it : it = [s \in SUBSET I |->
                     IF s = {} THEN 0
                     ELSE LET x == CHOOSE x \in s : TRUE IN LegPnl(rows[x]) + it[s \ {x}]]
<1>1. MapThenSumSet(LAMBDA i : LegPnl(rows[i]), I) = it[I]
  BY DEF MapThenSumSet, MapThenFoldSet
<1>2. \A g : SumsUp(g, f, I) <=>
                g = [s \in SUBSET I |-> IF s = {} THEN 0
                     ELSE LET x == CHOOSE x \in s : TRUE IN LegPnl(rows[x]) + g[s \ {x}]]
  <2>1. ASSUME NEW g, NEW s \in SUBSET I
        PROVE  (IF s = {} THEN 0 ELSE f[Pick(s)] + g[s \ {Pick(s)}])
                 = (IF s = {} THEN 0
                    ELSE LET x == CHOOSE x \in s : TRUE IN LegPnl(rows[x]) + g[s \ {x}])
    BY Picked DEF LegGains, Pick
  <2> QED BY <2>1 DEF SumsUp
<1> HIDE DEF f
<1>3. SumsUp(it, f, I)
  <2>1. PICK g : SumsUp(g, f, I)
    BY SumsUpExists
  <2>2. g = [s \in SUBSET I |-> IF s = {} THEN 0
                     ELSE LET x == CHOOSE x \in s : TRUE IN LegPnl(rows[x]) + g[s \ {x}]]
    BY <1>2, <2>1
  <2>3. it = [s \in SUBSET I |-> IF s = {} THEN 0
                     ELSE LET x == CHOOSE x \in s : TRUE IN LegPnl(rows[x]) + it[s \ {x}]]
    BY <2>2
  <2> QED BY <1>2, <2>3
<1> HIDE DEF it
<1> QED BY <1>1, <1>3, TotalOf DEF f

-------------------------------------------------------------------------------
LEMMA Constants ==
    /\ InitialCapital \in Nat /\ FuturesCapital \in Nat /\ Margin \in Nat
    /\ MinPositionSize \in Nat /\ TargetSlots \in Nat /\ TargetSlots >= 1
    /\ MaxBars \in Nat /\ MaxFaults \in Nat
    /\ \A p \in Prices : p \in Nat /\ p >= 1
<1>1. /\ {InitialCapital, MinPositionSize, FuturesCapital, Margin} \subseteq Nat
      /\ TargetSlots \in Nat \ {0}
  BY BooksAssumption
<1>2. Prices \subseteq Nat \ {0} /\ {MaxBars, MaxFaults} \subseteq Nat
  BY CycleAssumption
<1> QED BY <1>1, <1>2

LEMMA PaperAmounts ==
    ASSUME NEW row \in PaperRow
    PROVE  Allocated(row) \in Nat /\ PaperPnl(row) \in Int
<1>1. row.quantity \in Nat /\ row.entry \in Nat /\ row.exit \in Nat
  BY Constants DEF PaperRow
<1> QED BY <1>1 DEF Allocated, PaperPnl

LEMMA PaperSums ==
    ASSUME NEW q \in Seq(PaperRow)
    PROVE  LET closed == DOMAIN q \ OpenRows(q)
           IN  /\ Committed(q) = Total(Allocations(q), OpenRows(q)) /\ Committed(q) \in Nat
               /\ MapThenSumSet(LAMBDA i : PaperPnl(q[i]), closed) = Total(Gains(q), closed)
               /\ Total(Gains(q), closed) \in Int
<1> DEFINE closed == DOMAIN q \ OpenRows(q)
<1>1. /\ OpenRows(q) \in SUBSET DOMAIN q /\ IsFiniteSet(OpenRows(q))
      /\ closed \in SUBSET DOMAIN q /\ IsFiniteSet(closed)
      /\ \A i \in DOMAIN q : q[i] \in PaperRow
  BY Rows, FS_Subset
<1>2. /\ \A i \in OpenRows(q) : Allocations(q)[i] \in Nat
      /\ \A i \in closed : Gains(q)[i] \in Int
  BY <1>1, PaperAmounts DEF Allocations, Gains
<1>3. Committed(q) = Total(Allocations(q), OpenRows(q))
  BY <1>1, CommittedIs DEF Committed
<1> HIDE DEF closed
<1>4. MapThenSumSet(LAMBDA i : PaperPnl(q[i]), closed) = Total(Gains(q), closed)
  BY <1>1, GainsAre
<1>5. Total(Allocations(q), OpenRows(q)) \in Nat /\ Total(Gains(q), closed) \in Int
  BY <1>1, <1>2, TotalIsNat, TotalIsInt
<1> QED BY <1>3, <1>4, <1>5 DEF closed

(* A sum over one row more than another's.                                 *)
LEMMA OneMore ==
    ASSUME NEW S, IsFiniteSet(S), NEW k, k \notin S, NEW f, NEW g,
           \A i \in S : f[i] = g[i] /\ f[i] \in Int, f[k] \in Int
    PROVE  Total(f, S \cup {k}) = Total(g, S) + f[k]
<1>1. Total(f, S \cup {k}) = Total(f, S) + f[k]
  BY TotalWith
<1>2. Total(f, S) = Total(g, S)
  BY TotalSame
<1> QED BY <1>1, <1>2

(* Two tables with the same open rows and the same amounts balance alike.  *)
LEMMA PaperUnchanged ==
    ASSUME NEW q \in Seq(PaperRow), NEW r \in Seq(PaperRow), DOMAIN r = DOMAIN q,
           OpenRows(r) = OpenRows(q),
           \A i \in DOMAIN q : /\ Allocated(r[i]) = Allocated(q[i])
                               /\ PaperPnl(r[i]) = PaperPnl(q[i]),
           NEW c \in Int, PaperBalances(c, q)
    PROVE  PaperBalances(c, r)
<1> DEFINE closed == DOMAIN q \ OpenRows(q)
<1>1. /\ IsFiniteSet(OpenRows(q)) /\ IsFiniteSet(closed) /\ OpenRows(q) \subseteq DOMAIN q
  BY Rows, FS_Subset
<1>2. /\ \A i \in OpenRows(q) : Allocations(r)[i] = Allocations(q)[i]
      /\ \A i \in closed : Gains(r)[i] = Gains(q)[i]
  BY <1>1 DEF Allocations, Gains
<1>3. Total(Allocations(r), OpenRows(q)) = Total(Allocations(q), OpenRows(q))
  BY <1>1, <1>2, TotalSame
<1>4. Total(Gains(r), closed) = Total(Gains(q), closed)
  <2> HIDE DEF closed
  <2> QED BY <1>1, <1>2, TotalSame
<1>5. /\ Committed(r) = Committed(q)
      /\ MapThenSumSet(LAMBDA i : PaperPnl(r[i]), DOMAIN r \ OpenRows(r))
             = MapThenSumSet(LAMBDA i : PaperPnl(q[i]), DOMAIN q \ OpenRows(q))
  <2>1. /\ Committed(r) = Total(Allocations(r), OpenRows(q))
        /\ MapThenSumSet(LAMBDA i : PaperPnl(r[i]), DOMAIN r \ OpenRows(r)) = Total(Gains(r), closed)
    BY PaperSums
  <2>2. /\ Committed(q) = Total(Allocations(q), OpenRows(q))
        /\ MapThenSumSet(LAMBDA i : PaperPnl(q[i]), DOMAIN q \ OpenRows(q)) = Total(Gains(q), closed)
    BY PaperSums
  <2> QED BY <1>3, <1>4, <2>1, <2>2
<1> QED BY <1>5 DEF PaperBalances

LEMMA PaperOpened ==
    ASSUME NEW q \in Seq(PaperRow), NEW x \in PaperRow, x.status = "open",
           NEW c \in Int, PaperBalances(c, q)
    PROVE  PaperBalances(c - Allocated(x), Append(q, x))
<1> DEFINE r == Append(q, x)
           k == Len(r)
           closed == DOMAIN q \ OpenRows(q)
<1>1. /\ r \in Seq(PaperRow) /\ DOMAIN r = DOMAIN q \cup {k} /\ k \notin DOMAIN q
      /\ \A i \in DOMAIN q : r[i] = q[i]
      /\ r[k] = x
  BY Appended
<1>2. /\ IsFiniteSet(OpenRows(q)) /\ OpenRows(q) \subseteq DOMAIN q /\ IsFiniteSet(closed)
      /\ \A i \in DOMAIN q : q[i] \in PaperRow
  BY Rows, FS_Subset
<1> HIDE DEF r, k
<1>3. OpenRows(r) = OpenRows(q) \cup {k} /\ k \notin OpenRows(q)
  BY <1>1, <1>2 DEF OpenRows
<1>4. DOMAIN r \ OpenRows(r) = closed
  BY <1>1, <1>2, <1>3
<1>5. /\ \A i \in OpenRows(q) : Allocations(r)[i] = Allocations(q)[i] /\ Allocations(q)[i] \in Int
      /\ Allocations(r)[k] = Allocated(x) /\ Allocated(x) \in Nat
      /\ \A i \in closed : Gains(r)[i] = Gains(q)[i]
  BY <1>1, <1>2, PaperAmounts DEF Allocations, Gains
<1> HIDE DEF closed
<1>6. Total(Allocations(r), OpenRows(r)) = Total(Allocations(q), OpenRows(q)) + Allocated(x)
  <2>1. Total(Allocations(r), OpenRows(q) \cup {k})
            = Total(Allocations(q), OpenRows(q)) + Allocations(r)[k]
    <3>1. Allocations(r)[k] \in Int
      BY <1>5
    <3> QED BY <1>2, <1>3, <1>5, <3>1, OneMore
  <2> QED BY <1>3, <1>5, <2>1
<1>7. Total(Gains(r), closed) = Total(Gains(q), closed)
  BY <1>2, <1>5, TotalSame
<1>8. /\ Committed(r) = Total(Allocations(r), OpenRows(r))
      /\ MapThenSumSet(LAMBDA i : PaperPnl(r[i]), DOMAIN r \ OpenRows(r)) = Total(Gains(r), closed)
  BY <1>1, <1>4, PaperSums
<1>9. /\ Committed(q) = Total(Allocations(q), OpenRows(q)) /\ Committed(q) \in Nat
      /\ MapThenSumSet(LAMBDA i : PaperPnl(q[i]), DOMAIN q \ OpenRows(q)) = Total(Gains(q), closed)
  BY PaperSums DEF closed
<1>10. c + Committed(q) = InitialCapital + Total(Gains(q), closed)
  BY <1>9 DEF PaperBalances
<1>11. (c - Allocated(x)) + Committed(r) = InitialCapital + Total(Gains(r), closed)
  <2>1. Committed(r) = Committed(q) + Allocated(x)
    BY <1>6, <1>8, <1>9
  <2> QED BY <1>5, <1>7, <1>9, <1>10, <2>1
<1>12. PaperBalances(c - Allocated(x), r)
  BY <1>8, <1>11 DEF PaperBalances
<1> QED BY <1>12 DEF r

LEMMA PaperClosed ==
    ASSUME NEW q \in Seq(PaperRow), NEW k \in OpenRows(q), NEW y \in PaperRow,
           y.status = "closed", NEW c \in Int, PaperBalances(c, q)
    PROVE  PaperBalances(c + Allocated(q[k]) + PaperPnl(y), [q EXCEPT ![k] = y])
<1> DEFINE r == [q EXCEPT ![k] = y]
           closed == DOMAIN q \ OpenRows(q)
           rest == OpenRows(q) \ {k}
<1>1. /\ IsFiniteSet(OpenRows(q)) /\ OpenRows(q) \subseteq DOMAIN q /\ IsFiniteSet(closed)
      /\ IsFiniteSet(rest) /\ k \in DOMAIN q
      /\ \A i \in DOMAIN q : q[i] \in PaperRow
  BY Rows, FS_Subset
<1>2. /\ r \in Seq(PaperRow) /\ DOMAIN r = DOMAIN q /\ r[k] = y
      /\ \A i \in DOMAIN q : i # k => r[i] = q[i]
  BY <1>1, Updated
<1> HIDE DEF r
<1>3. OpenRows(r) = rest /\ OpenRows(q) = rest \cup {k} /\ k \notin rest /\ k \notin closed
  BY <1>1, <1>2 DEF OpenRows
<1>4. DOMAIN r \ OpenRows(r) = closed \cup {k}
  BY <1>1, <1>2, <1>3
<1>5. /\ \A i \in rest : Allocations(r)[i] = Allocations(q)[i] /\ Allocations(q)[i] \in Int
      /\ Allocations(q)[k] = Allocated(q[k]) /\ Allocated(q[k]) \in Nat
      /\ \A i \in closed : Gains(r)[i] = Gains(q)[i] /\ Gains(q)[i] \in Int
      /\ Gains(r)[k] = PaperPnl(y) /\ PaperPnl(y) \in Int
  BY <1>1, <1>2, <1>3, PaperAmounts DEF Allocations, Gains
<1> HIDE DEF closed, rest
<1>6. Total(Allocations(q), OpenRows(q)) = Total(Allocations(r), rest) + Allocated(q[k])
  <2>1. /\ \A i \in rest : Allocations(q)[i] = Allocations(r)[i] /\ Allocations(q)[i] \in Int
        /\ Allocations(q)[k] \in Int /\ IsFiniteSet(rest) /\ k \notin rest
    BY <1>1, <1>3, <1>5
  <2>2. Total(Allocations(q), rest \cup {k}) = Total(Allocations(r), rest) + Allocations(q)[k]
    BY <2>1, OneMore
  <2> QED BY <1>3, <1>5, <2>2
<1>7. Total(Gains(r), closed \cup {k}) = Total(Gains(q), closed) + PaperPnl(y)
  <2>1. /\ \A i \in closed : Gains(r)[i] = Gains(q)[i] /\ Gains(r)[i] \in Int
        /\ Gains(r)[k] \in Int /\ IsFiniteSet(closed) /\ k \notin closed
    BY <1>1, <1>3, <1>5
  <2>2. Total(Gains(r), closed \cup {k}) = Total(Gains(q), closed) + Gains(r)[k]
    BY <2>1, OneMore
  <2> QED BY <1>5, <2>2
<1>8. /\ Committed(r) = Total(Allocations(r), rest) /\ Committed(r) \in Nat
      /\ MapThenSumSet(LAMBDA i : PaperPnl(r[i]), DOMAIN r \ OpenRows(r))
             = Total(Gains(r), closed \cup {k})
  BY <1>2, <1>3, <1>4, PaperSums
<1>9. /\ Committed(q) = Total(Allocations(q), OpenRows(q)) /\ Committed(q) \in Nat
      /\ MapThenSumSet(LAMBDA i : PaperPnl(q[i]), DOMAIN q \ OpenRows(q)) = Total(Gains(q), closed)
      /\ Total(Gains(q), closed) \in Int
  BY PaperSums DEF closed
<1>10. c + Committed(q) = InitialCapital + Total(Gains(q), closed)
  BY <1>9 DEF PaperBalances
<1>11. c + Allocated(q[k]) + PaperPnl(y) + Committed(r)
           = InitialCapital + Total(Gains(r), closed \cup {k})
  <2> DEFINE freed == Allocated(q[k])
             gain == PaperPnl(y)
             before == Committed(q)
             after == Committed(r)
             gained == Total(Gains(q), closed)
  <2>1. before = after + freed /\ c + before = InitialCapital + gained
    BY <1>6, <1>8, <1>9, <1>10
  <2>2. freed \in Int /\ gain \in Int /\ before \in Int /\ after \in Int /\ gained \in Int
        /\ InitialCapital \in Int
    BY <1>5, <1>8, <1>9, Constants
  <2>3. Total(Gains(r), closed \cup {k}) = gained + gain
    BY <1>7
  <2> HIDE DEF freed, gain, before, after, gained
  <2>4. c + freed + gain + after = InitialCapital + (gained + gain)
    BY <2>1, <2>2
  <2> QED BY <2>3, <2>4 DEF freed, gain, after
<1>12. PaperBalances(c + Allocated(q[k]) + PaperPnl(y), r)
  BY <1>8, <1>11 DEF PaperBalances
<1> QED BY <1>12 DEF r

LEMMA LegAmounts ==
    ASSUME NEW sides, NEW row \in LegRow(sides)
    PROVE  LegPnl(row) \in Int
<1>1. row.entry \in Nat /\ row.exit \in Nat
  BY Constants DEF LegRow
<1> QED BY <1>1 DEF LegPnl

LEMMA OneMoreHeld ==
    ASSUME NEW a \in Nat, NEW n \in Nat
    PROVE  a * n \in Nat /\ a * (n + 1) = a * n + a
OBVIOUS

LEMMA ComboSums ==
    ASSUME NEW sides, NEW q \in Seq(LegRow(sides))
    PROVE  LET closed == DOMAIN q \ OpenRows(q)
           IN  /\ MapThenSumSet(LAMBDA i : LegPnl(q[i]), closed) = Total(LegGains(q), closed)
               /\ Total(LegGains(q), closed) \in Int
               /\ Margin * Cardinality(OpenRows(q)) \in Nat
<1> DEFINE closed == DOMAIN q \ OpenRows(q)
<1>1. /\ Cardinality(OpenRows(q)) \in Nat
      /\ closed \in SUBSET DOMAIN q /\ IsFiniteSet(closed)
      /\ \A i \in DOMAIN q : q[i] \in LegRow(sides)
  BY Rows, FS_Subset
<1>2. \A i \in closed : LegGains(q)[i] \in Int
  BY <1>1, LegAmounts DEF LegGains
<1>3. Margin * Cardinality(OpenRows(q)) \in Nat
  BY <1>1, Constants, OneMoreHeld
<1> HIDE DEF closed
<1>4. MapThenSumSet(LAMBDA i : LegPnl(q[i]), closed) = Total(LegGains(q), closed)
  BY <1>1, LegGainsAre
<1>5. Total(LegGains(q), closed) \in Int
  BY <1>1, <1>2, TotalIsInt
<1> QED BY <1>3, <1>4, <1>5 DEF closed

LEMMA ComboOpened ==
    ASSUME NEW sides, NEW q \in Seq(LegRow(sides)), NEW x \in LegRow(sides), x.status = "open",
           NEW c \in Int, ComboBalances(c, q)
    PROVE  ComboBalances(c - Margin, Append(q, x))
<1> DEFINE r == Append(q, x)
           k == Len(r)
           closed == DOMAIN q \ OpenRows(q)
<1>1. /\ r \in Seq(LegRow(sides)) /\ DOMAIN r = DOMAIN q \cup {k} /\ k \notin DOMAIN q
      /\ \A i \in DOMAIN q : r[i] = q[i]
      /\ r[k] = x
  BY Appended
<1>2. /\ IsFiniteSet(OpenRows(q)) /\ OpenRows(q) \subseteq DOMAIN q /\ IsFiniteSet(closed)
      /\ Cardinality(OpenRows(q)) \in Nat
  BY Rows, FS_Subset
<1> HIDE DEF r, k
<1>3. OpenRows(r) = OpenRows(q) \cup {k} /\ k \notin OpenRows(q)
  BY <1>1, <1>2 DEF OpenRows
<1>4. DOMAIN r \ OpenRows(r) = closed
  BY <1>1, <1>2, <1>3
<1>5. \A i \in closed : LegGains(r)[i] = LegGains(q)[i]
  BY <1>1, <1>2 DEF LegGains
<1> HIDE DEF closed
<1>6. Total(LegGains(r), closed) = Total(LegGains(q), closed)
  BY <1>2, <1>5, TotalSame
<1>7. Cardinality(OpenRows(r)) = Cardinality(OpenRows(q)) + 1
  BY <1>2, <1>3, FS_AddElement
<1>8. MapThenSumSet(LAMBDA i : LegPnl(r[i]), DOMAIN r \ OpenRows(r)) = Total(LegGains(r), closed)
  BY <1>1, <1>4, ComboSums
<1>9. /\ MapThenSumSet(LAMBDA i : LegPnl(q[i]), DOMAIN q \ OpenRows(q)) = Total(LegGains(q), closed)
      /\ Total(LegGains(q), closed) \in Int
      /\ Margin * Cardinality(OpenRows(q)) \in Nat
  BY ComboSums DEF closed
<1>10. c - Margin + Margin * Cardinality(OpenRows(r)) = FuturesCapital + Total(LegGains(r), closed)
  <2> DEFINE held == Margin * Cardinality(OpenRows(q))
             gained == Total(LegGains(q), closed)
  <2>1. c + held = FuturesCapital + gained
    BY <1>9 DEF ComboBalances
  <2>2. Margin * Cardinality(OpenRows(r)) = held + Margin
    BY <1>2, <1>7, Constants, OneMoreHeld
  <2>3. held \in Int /\ gained \in Int /\ Margin \in Int /\ FuturesCapital \in Int
    BY <1>9, Constants
  <2>4. Total(LegGains(r), closed) = gained
    BY <1>6
  <2> HIDE DEF held, gained
  <2>5. c - Margin + (held + Margin) = FuturesCapital + gained
    BY <2>1, <2>3
  <2> QED BY <2>2, <2>4, <2>5
<1>11. ComboBalances(c - Margin, r)
  BY <1>8, <1>10 DEF ComboBalances
<1> QED BY <1>11 DEF r

LEMMA ComboClosed ==
    ASSUME NEW sides, NEW q \in Seq(LegRow(sides)), NEW k \in OpenRows(q),
           NEW y \in LegRow(sides), y.status = "closed", NEW c \in Int, ComboBalances(c, q)
    PROVE  ComboBalances(c + Margin + LegPnl(y), [q EXCEPT ![k] = y])
<1> DEFINE r == [q EXCEPT ![k] = y]
           closed == DOMAIN q \ OpenRows(q)
           rest == OpenRows(q) \ {k}
<1>1. /\ IsFiniteSet(OpenRows(q)) /\ OpenRows(q) \subseteq DOMAIN q /\ IsFiniteSet(closed)
      /\ IsFiniteSet(rest) /\ k \in DOMAIN q
      /\ \A i \in DOMAIN q : q[i] \in LegRow(sides)
  BY Rows, FS_Subset
<1>2. /\ r \in Seq(LegRow(sides)) /\ DOMAIN r = DOMAIN q /\ r[k] = y
      /\ \A i \in DOMAIN q : i # k => r[i] = q[i]
  BY <1>1, Updated
<1> HIDE DEF r
<1>3. OpenRows(r) = rest /\ OpenRows(q) = rest \cup {k} /\ k \notin rest /\ k \notin closed
  BY <1>1, <1>2 DEF OpenRows
<1>4. DOMAIN r \ OpenRows(r) = closed \cup {k}
  BY <1>1, <1>2, <1>3
<1>5. /\ \A i \in closed : LegGains(r)[i] = LegGains(q)[i] /\ LegGains(q)[i] \in Int
      /\ LegGains(r)[k] = LegPnl(y) /\ LegPnl(y) \in Int
  BY <1>1, <1>2, <1>3, LegAmounts DEF LegGains
<1> HIDE DEF closed, rest
<1>6. Cardinality(OpenRows(q)) = Cardinality(OpenRows(r)) + 1 /\ Cardinality(OpenRows(r)) \in Nat
  BY <1>1, <1>3, FS_AddElement, FS_CardinalityType
<1>7. Total(LegGains(r), closed \cup {k}) = Total(LegGains(q), closed) + LegPnl(y)
  <2>1. /\ \A i \in closed : LegGains(r)[i] = LegGains(q)[i] /\ LegGains(r)[i] \in Int
        /\ LegGains(r)[k] \in Int /\ IsFiniteSet(closed) /\ k \notin closed
    BY <1>1, <1>3, <1>5
  <2>2. Total(LegGains(r), closed \cup {k}) = Total(LegGains(q), closed) + LegGains(r)[k]
    BY <2>1, OneMore
  <2> QED BY <1>5, <2>2
<1>8. /\ MapThenSumSet(LAMBDA i : LegPnl(r[i]), DOMAIN r \ OpenRows(r))
             = Total(LegGains(r), closed \cup {k})
      /\ Margin * Cardinality(OpenRows(r)) \in Nat
  BY <1>2, <1>4, ComboSums
<1>9. /\ MapThenSumSet(LAMBDA i : LegPnl(q[i]), DOMAIN q \ OpenRows(q)) = Total(LegGains(q), closed)
      /\ Total(LegGains(q), closed) \in Int
  BY ComboSums DEF closed
<1>10. c + Margin + LegPnl(y) + Margin * Cardinality(OpenRows(r))
           = FuturesCapital + Total(LegGains(r), closed \cup {k})
  <2> DEFINE held == Margin * Cardinality(OpenRows(r))
             gained == Total(LegGains(q), closed)
             gain == LegPnl(y)
  <2>1. c + Margin * Cardinality(OpenRows(q)) = FuturesCapital + gained
    BY <1>9 DEF ComboBalances
  <2>2. Margin * Cardinality(OpenRows(q)) = held + Margin
    BY <1>6, Constants, OneMoreHeld
  <2>3. /\ held \in Int /\ gained \in Int /\ gain \in Int /\ Margin \in Int
        /\ FuturesCapital \in Int
    BY <1>5, <1>8, <1>9, Constants
  <2>4. Total(LegGains(r), closed \cup {k}) = gained + gain
    BY <1>7
  <2>5. c + (held + Margin) = FuturesCapital + gained
    BY <2>1, <2>2
  <2> HIDE DEF held, gained, gain
  <2>6. c + Margin + gain + held = FuturesCapital + (gained + gain)
    BY <2>3, <2>5
  <2> QED BY <2>4, <2>6 DEF held, gain
<1>11. ComboBalances(c + Margin + LegPnl(y), r)
  BY <1>8, <1>10 DEF ComboBalances
<1> QED BY <1>11 DEF r

-------------------------------------------------------------------------------
(* What an operation does to a table.                                      *)

LEMMA LegOpened ==
    ASSUME NEW sides, NEW b \in Nat, b >= 1, NEW q, RowsIn(q, LegRow(sides), b),
           NEW side \in sides, NEW close \in Prices, NEW r, r = OpenLeg(q, side, b, close)
    PROVE  /\ RowsIn(r, LegRow(sides), b)
           /\ \A i : i \in DOMAIN r <=> i \in DOMAIN q \/ i = Len(r)
           /\ Len(r) \notin DOMAIN q /\ \A i \in DOMAIN q : r[i] = q[i]
           /\ OpenRows(r) = OpenRows(q) \cup {Len(r)} /\ r[Len(r)].side = side
<1> DEFINE x == [side |-> side, bar |-> b, entry |-> close, status |-> "open", exit |-> 0]
<1>1. x \in LegRow(sides) /\ x.status = "open" /\ x.side = side /\ x.bar = b
  BY DEF LegRow
<1>2. q \in Seq(LegRow(sides)) /\ \A i \in DOMAIN q : q[i].bar \in 1..b
  BY DEF RowsIn
<1>3. r = Append(q, x)
  BY DEF OpenLeg
<1> HIDE DEF x
<1>4. /\ r \in Seq(LegRow(sides)) /\ DOMAIN r = DOMAIN q \cup {Len(r)} /\ Len(r) \notin DOMAIN q
      /\ \A i \in DOMAIN q : r[i] = q[i]
      /\ r[Len(r)] = x
  BY <1>1, <1>2, <1>3, Appended
<1>5. OpenRows(r) = OpenRows(q) \cup {Len(r)}
  BY <1>1, <1>4 DEF OpenRows
<1>6. \A i \in DOMAIN r : r[i].bar \in 1..b
  <2>1. b \in 1..b
    OBVIOUS
  <2> QED BY <1>1, <1>2, <1>4, <2>1
<1> QED BY <1>1, <1>4, <1>5, <1>6 DEF RowsIn

LEMMA LegPaid ==
    ASSUME NEW sides, NEW b \in Nat, NEW q, RowsIn(q, LegRow(sides), b), NEW side \in sides,
           NEW close \in Prices, NEW c \in Int, ComboBalances(c, q)
    PROVE  ComboBalances(c - Margin, OpenLeg(q, side, b, close))
<1> DEFINE x == [side |-> side, bar |-> b, entry |-> close, status |-> "open", exit |-> 0]
<1>1. x \in LegRow(sides) /\ x.status = "open" /\ q \in Seq(LegRow(sides))
  BY DEF LegRow, RowsIn
<1>2. OpenLeg(q, side, b, close) = Append(q, x)
  BY DEF OpenLeg
<1> HIDE DEF x
<1> QED BY <1>1, <1>2, ComboOpened

LEMMA LegClosed ==
    ASSUME NEW sides, NEW b \in Nat, NEW q, RowsIn(q, LegRow(sides), b), NEW among,
           NEW close \in Prices, NEW c \in Int, NEW r, r = CloseLeg(q, among, close),
           NEW last, last = LatestOpen(q, among)
    PROVE  /\ RowsIn(r, LegRow(sides), b) /\ DOMAIN r = DOMAIN q
           /\ last = 0 => r = q /\ \A i \in OpenRows(q) : q[i].side \notin among
           /\ last # 0 => /\ last \in OpenRows(q) /\ q[last].side \in among
                          /\ OpenRows(r) = OpenRows(q) \ {last}
                          /\ ComboBalances(c, q)
                                 => ComboBalances(c + Margin + LegPnl(r[last]), r)
           /\ \A i \in DOMAIN q : r[i].side = q[i].side
<1>1. q \in Seq(LegRow(sides)) /\ \A i \in DOMAIN q : q[i].bar \in 1..b
  BY DEF RowsIn
<1>2. r = IF last = 0 THEN q ELSE [q EXCEPT ![last].status = "closed", ![last].exit = close]
  BY DEF CloseLeg
<1>3. CASE last = 0
  <2>1. {i \in DOMAIN q : q[i].status = "open" /\ q[i].side \in among} = {}
    BY <1>1, <1>3, LatestOpenIs
  <2>2. \A i \in OpenRows(q) : q[i].side \notin among
    BY <2>1 DEF OpenRows
  <2> QED BY <1>2, <1>3, <2>2
<1>4. CASE last # 0
  <2> DEFINE y == [q[last] EXCEPT !.status = "closed", !.exit = close]
  <2>1. last \in OpenRows(q) /\ last \in DOMAIN q /\ q[last].side \in among
        /\ q[last] \in LegRow(sides)
    BY <1>1, <1>4, LatestOpenIs, Rows DEF OpenRows
  <2>2. /\ y \in LegRow(sides) /\ y.status = "closed" /\ y.side = q[last].side
        /\ y.bar = q[last].bar
    BY <2>1, Constants DEF LegRow
  <2>3. r = [q EXCEPT ![last] = y]
    BY <1>2, <1>4, <2>1
  <2> HIDE DEF y
  <2>4. /\ r \in Seq(LegRow(sides)) /\ DOMAIN r = DOMAIN q /\ r[last] = y
        /\ \A i \in DOMAIN q : i # last => r[i] = q[i]
    BY <1>1, <2>1, <2>2, <2>3, Updated
  <2>5. OpenRows(r) = OpenRows(q) \ {last}
    BY <2>1, <2>2, <2>4 DEF OpenRows
  <2>6. \A i \in DOMAIN q : r[i].side = q[i].side /\ r[i].bar \in 1..b
    BY <1>1, <2>1, <2>2, <2>4
  <2>7. ComboBalances(c, q) => ComboBalances(c + Margin + LegPnl(r[last]), r)
    <3>1. ComboBalances(c, q) => ComboBalances(c + Margin + LegPnl(y), [q EXCEPT ![last] = y])
      BY <1>1, <2>1, <2>2, ComboClosed
    <3> QED BY <2>3, <2>4, <3>1
  <2> QED BY <1>4, <2>1, <2>4, <2>5, <2>6, <2>7 DEF RowsIn
<1> QED BY <1>3, <1>4

LEMMA PositionOpened ==
    ASSUME NEW b \in Nat, b >= 1, NEW q, RowsIn(q, PaperRow, b), NEW n \in Nat,
           NEW close \in Prices, NEW c \in Int, PaperBalances(c, q),
           NEW r, r = OpenPosition(q, b, n, close)
    PROVE  /\ RowsIn(r, PaperRow, b) /\ OpenRows(q) \subseteq OpenRows(r)
           /\ PaperBalances(c - n * close, r)
<1> DEFINE x == [side |-> "BUY", bar |-> b, entry |-> close, quantity |-> n,
                 peak |-> close, status |-> "open", exit |-> 0]
<1>1. x \in PaperRow /\ x.status = "open" /\ x.bar = b /\ Allocated(x) = n * close
  BY DEF PaperRow, Allocated
<1>2. q \in Seq(PaperRow) /\ \A i \in DOMAIN q : q[i].bar \in 1..b
  BY DEF RowsIn
<1>3. r = Append(q, x)
  BY DEF OpenPosition
<1> HIDE DEF x
<1>4. /\ r \in Seq(PaperRow) /\ DOMAIN r = DOMAIN q \cup {Len(r)} /\ Len(r) \notin DOMAIN q
      /\ \A i \in DOMAIN q : r[i] = q[i]
      /\ r[Len(r)] = x
  BY <1>1, <1>2, <1>3, Appended
<1>5. OpenRows(q) \subseteq OpenRows(r)
  BY <1>4 DEF OpenRows
<1>6. \A i \in DOMAIN r : r[i].bar \in 1..b
  <2>1. b \in 1..b
    OBVIOUS
  <2> QED BY <1>1, <1>2, <1>4, <2>1
<1>7. PaperBalances(c - n * close, r)
  BY <1>1, <1>2, <1>3, PaperOpened
<1> QED BY <1>4, <1>5, <1>6, <1>7 DEF RowsIn

(* What a closed position credits is its shares at the closing price.      *)
LEMMA PositionClosed ==
    ASSUME NEW b \in Nat, NEW q, RowsIn(q, PaperRow, b), NEW k \in OpenRows(q),
           NEW close \in Prices, NEW c \in Nat, PaperBalances(c, q),
           NEW r, r = ClosePosition(q, k, close)
    PROVE  /\ RowsIn(r, PaperRow, b) /\ OpenRows(r) = OpenRows(q) \ {k}
           /\ c + Allocated(q[k]) + PaperPnl(r[k]) \in Nat
           /\ PaperBalances(c + Allocated(q[k]) + PaperPnl(r[k]), r)
<1> DEFINE y == [q[k] EXCEPT !.status = "closed", !.exit = close]
<1>1. q \in Seq(PaperRow) /\ \A i \in DOMAIN q : q[i].bar \in 1..b
  BY DEF RowsIn
<1>2. k \in DOMAIN q /\ q[k] \in PaperRow
  BY <1>1, Rows
<1>3. close \in Nat /\ q[k].entry \in Nat /\ q[k].quantity \in Nat
  BY <1>2, Constants DEF PaperRow
<1>4. /\ y \in PaperRow /\ y.status = "closed" /\ y.bar = q[k].bar /\ y.entry = q[k].entry
      /\ y.quantity = q[k].quantity /\ y.exit = close
  BY <1>2, <1>3 DEF PaperRow
<1>5. r = [q EXCEPT ![k] = y]
  BY <1>2 DEF ClosePosition
<1> HIDE DEF y
<1>6. /\ r \in Seq(PaperRow) /\ DOMAIN r = DOMAIN q /\ r[k] = y
      /\ \A i \in DOMAIN q : i # k => r[i] = q[i]
  BY <1>1, <1>2, <1>4, <1>5, Updated
<1>7. OpenRows(r) = OpenRows(q) \ {k}
  BY <1>2, <1>4, <1>6 DEF OpenRows
<1>8. \A i \in DOMAIN q : r[i].bar \in 1..b
  BY <1>1, <1>2, <1>4, <1>6
<1>9. c + Allocated(q[k]) + PaperPnl(y) \in Nat
  <2>1. Allocated(q[k]) = q[k].quantity * q[k].entry
        /\ PaperPnl(y) = q[k].quantity * (close - q[k].entry)
    BY <1>4 DEF Allocated, PaperPnl
  <2>2. \A n, e, x \in Nat : n * e + n * (x - e) = n * x /\ n * x \in Nat /\ n * e \in Nat
                             /\ n * (x - e) \in Int
    OBVIOUS
  <2>3. /\ Allocated(q[k]) + PaperPnl(y) \in Nat
        /\ Allocated(q[k]) \in Nat /\ PaperPnl(y) \in Int
    BY <1>3, <2>1, <2>2
  <2> QED BY <2>3
<1>10. PaperBalances(c + Allocated(q[k]) + PaperPnl(y), r)
  <2>1. c \in Int
    OBVIOUS
  <2>2. PaperBalances(c + Allocated(q[k]) + PaperPnl(y), [q EXCEPT ![k] = y])
    BY <1>1, <1>4, <2>1, PaperClosed
  <2> QED BY <1>5, <2>2
<1> QED BY <1>6, <1>7, <1>8, <1>9, <1>10 DEF RowsIn

LEMMA PeakUpdated ==
    ASSUME NEW b \in Nat, NEW q, RowsIn(q, PaperRow, b), NEW close \in Prices,
           NEW c \in Int, PaperBalances(c, q), NEW r, r = UpdatePeakPrice(q, close)
    PROVE  RowsIn(r, PaperRow, b) /\ OpenRows(r) = OpenRows(q) /\ PaperBalances(c, r)
<1>1. q \in Seq(PaperRow) /\ \A i \in DOMAIN q : q[i].bar \in 1..b
  BY DEF RowsIn
<1>2. Len(q) \in Nat /\ DOMAIN q = 1..Len(q) /\ \A i \in DOMAIN q : q[i] \in PaperRow
  BY <1>1, Rows
<1>3. /\ DOMAIN r = DOMAIN q
      /\ \A i \in DOMAIN q : r[i] = IF q[i].status = "open" THEN [q[i] EXCEPT !.peak = close]
                                                             ELSE q[i]
  BY DEF UpdatePeakPrice
<1>4. \A i \in DOMAIN q : /\ r[i] \in PaperRow /\ r[i].status = q[i].status /\ r[i].bar = q[i].bar
                          /\ r[i].quantity = q[i].quantity /\ r[i].entry = q[i].entry
                          /\ r[i].exit = q[i].exit
  BY <1>2, <1>3 DEF PaperRow
<1>5. r \in Seq(PaperRow)
  <2>1. r = [i \in 1..Len(q) |->
                 IF q[i].status = "open" THEN [q[i] EXCEPT !.peak = close] ELSE q[i]]
    BY <1>2 DEF UpdatePeakPrice
  <2>2. r \in [1..Len(q) -> PaperRow]
    BY <1>2, <1>3, <1>4, <2>1
  <2> QED BY <1>2, <2>2, SeqDef
<1>6. OpenRows(r) = OpenRows(q)
  BY <1>3, <1>4 DEF OpenRows
<1>7. \A i \in DOMAIN q : Allocated(r[i]) = Allocated(q[i]) /\ PaperPnl(r[i]) = PaperPnl(q[i])
  BY <1>4 DEF Allocated, PaperPnl
<1>8. PaperBalances(c, r)
  BY <1>1, <1>3, <1>5, <1>6, <1>7, PaperUnchanged
<1> QED BY <1>1, <1>3, <1>4, <1>5, <1>6, <1>8 DEF RowsIn

-------------------------------------------------------------------------------
(* The bounds, the calls that may fail, and the money an entry takes.      *)

LEMMA Divided ==
    ASSUME NEW a \in Nat, NEW d \in Nat, d >= 1
    PROVE  a \div d \in Nat /\ (a \div d) * d <= a
OBVIOUS

LEMMA MaxOfTwo ==
    ASSUME NEW a \in Nat, NEW b \in Nat
    PROVE  Max({a, b}) \in Nat /\ Max({a, b}) >= a /\ Max({a, b}) >= b
<1>1. \E x \in {a, b} : \A y \in {a, b} : x >= y
  OBVIOUS
<1>2. Max({a, b}) \in {a, b} /\ \A y \in {a, b} : Max({a, b}) >= y
  BY <1>1 DEF Max
<1> QED BY <1>2

LEMMA AffordableIs ==
    ASSUME NEW c \in Nat, NEW equity \in Nat, NEW close \in Prices
    PROVE  /\ Affordable(c, equity, close) \in Nat
           /\ c - Affordable(c, equity, close) * close \in Nat
<1> DEFINE slot == SlotTimesSlots(equity)
           n == slot \div (TargetSlots * close)
<1>1. TargetSlots \in Nat /\ TargetSlots >= 1 /\ close \in Nat /\ close >= 1 /\ MinPositionSize \in Nat
  BY Constants
<1>2. TargetSlots * MinPositionSize \in Nat /\ TargetSlots * close \in Nat /\ TargetSlots * close >= 1
  <2>1. \A a, b \in Nat : a * b \in Nat /\ (a >= 1 /\ b >= 1 => a * b >= 1)
    OBVIOUS
  <2> QED BY <1>1, <2>1
<1>3. slot \in Nat
  BY <1>2, MaxOfTwo DEF SlotTimesSlots
<1>4. Affordable(c, equity, close) = IF c * TargetSlots < slot THEN 0 ELSE n
  BY DEF Affordable
<1> HIDE DEF slot
<1>5. n \in Nat /\ n * (TargetSlots * close) <= slot
  BY <1>2, <1>3, Divided
<1> HIDE DEF n
<1>6. CASE c * TargetSlots < slot
  BY <1>1, <1>4, <1>6
<1>7. CASE ~(c * TargetSlots < slot)
  <2>1. c * TargetSlots \in Nat /\ c * TargetSlots >= slot
    BY <1>1, <1>3, <1>7
  <2>2. n * (TargetSlots * close) <= c * TargetSlots /\ n * (TargetSlots * close) \in Nat
    BY <1>2, <1>3, <1>5, <2>1
  <2>3. n * close <= c
    <3>1. n * close \in Nat /\ n * (TargetSlots * close) = (n * close) * TargetSlots
      BY <1>1, <1>5
    <3>2. ASSUME NEW a \in Nat, NEW b \in Nat, NEW t \in Nat, t >= 1, a * t <= b * t
          PROVE  a <= b
      BY <3>2
    <3> QED BY <1>1, <2>2, <3>1, <3>2
  <2> QED BY <1>1, <1>4, <1>5, <1>7, <2>3
<1> QED BY <1>6, <1>7

LEMMA BestEffortIs ==
    ASSUME NEW calls \in Seq(BOOLEAN), faults \in 0..MaxFaults, BestEffort(calls)
    PROVE  /\ faults' \in 0..MaxFaults
           /\ faults' = 0 => faults = 0 /\ \A n \in DOMAIN calls : calls[n]
<1> DEFINE failed == {n \in DOMAIN calls : ~calls[n]}
<1>1. IsFiniteSet(DOMAIN calls)
  BY LenProperties, FS_Interval
<1>2. IsFiniteSet(failed) /\ Cardinality(failed) \in Nat /\ (Cardinality(failed) = 0 => failed = {})
  BY <1>1, FS_Subset, FS_CardinalityType, FS_EmptySet
<1>3. faults' = faults + Cardinality(failed) /\ faults' <= MaxFaults
  BY DEF BestEffort
<1> HIDE DEF failed
<1>4. faults' \in 0..MaxFaults /\ (faults' = 0 => faults = 0 /\ failed = {})
  BY <1>2, <1>3, Constants
<1> QED BY <1>4 DEF failed

LEMMA TwoCalls ==
    ASSUME NEW a \in BOOLEAN, NEW b \in BOOLEAN, faults \in 0..MaxFaults, BestEffort(<<a, b>>)
    PROVE  faults' \in 0..MaxFaults /\ (faults' = 0 => faults = 0 /\ a /\ b)
<1> DEFINE calls == <<a, b>>
<1>1. calls \in Seq(BOOLEAN) /\ 1 \in DOMAIN calls /\ 2 \in DOMAIN calls /\ calls[1] = a /\ calls[2] = b
  OBVIOUS
<1> HIDE DEF calls
<1>2. BestEffort(calls)
  BY DEF calls
<1> QED BY <1>1, <1>2, BestEffortIs

LEMMA ThreeCalls ==
    ASSUME NEW a \in BOOLEAN, NEW b \in BOOLEAN, NEW c \in BOOLEAN, faults \in 0..MaxFaults,
           BestEffort(<<a, b, c>>)
    PROVE  faults' \in 0..MaxFaults /\ (faults' = 0 => faults = 0 /\ a /\ b /\ c)
<1> DEFINE calls == <<a, b, c>>
<1>1. /\ calls \in Seq(BOOLEAN) /\ 1 \in DOMAIN calls /\ 2 \in DOMAIN calls /\ 3 \in DOMAIN calls
      /\ calls[1] = a /\ calls[2] = b /\ calls[3] = c
  OBVIOUS
<1> HIDE DEF calls
<1>2. BestEffort(calls)
  BY DEF calls
<1> QED BY <1>1, <1>2, BestEffortIs

-------------------------------------------------------------------------------
(* The trades table.                                                       *)

LEMMA TradeOpened ==
    ASSUME NEW b \in Nat, b >= 1, NEW q, RowsIn(q, TradeRow, b), NEW side \in Sides,
           NEW close \in Prices, NEW r, r = OpenTrade(q, side, b, close)
    PROVE  /\ RowsIn(r, TradeRow, b)
           /\ \A i : i \in DOMAIN r <=> i \in DOMAIN q \/ i = Len(r)
           /\ Len(r) \notin DOMAIN q /\ \A i \in DOMAIN q : r[i] = q[i] /\ i <= Len(r)
           /\ r[Len(r)].side = side /\ r[Len(r)].status = "open" /\ r[Len(r)].bar = b
           /\ r[Len(r)].entry = close
<1> DEFINE x == [side |-> side, bar |-> b, entry |-> close, status |-> "open",
                 exitBar |-> 0, exit |-> 0]
<1>1. x \in TradeRow /\ x.status = "open" /\ x.side = side /\ x.bar = b /\ x.entry = close
  BY DEF TradeRow
<1>2. q \in Seq(TradeRow) /\ \A i \in DOMAIN q : q[i].bar \in 1..b
  BY DEF RowsIn
<1>3. r = Append(q, x)
  BY DEF OpenTrade
<1> HIDE DEF x
<1>4. /\ r \in Seq(TradeRow) /\ DOMAIN r = DOMAIN q \cup {Len(r)} /\ Len(r) \notin DOMAIN q
      /\ \A i \in DOMAIN q : r[i] = q[i]
      /\ r[Len(r)] = x /\ Len(q) \in Nat /\ Len(r) = Len(q) + 1 /\ DOMAIN q = 1..Len(q)
  BY <1>1, <1>2, <1>3, Appended
<1>5. \A i \in DOMAIN r : r[i].bar \in 1..b
  <2>1. b \in 1..b
    OBVIOUS
  <2> QED BY <1>1, <1>2, <1>4, <2>1
<1>6. \A i \in DOMAIN q : i <= Len(r)
  BY <1>4
<1> QED BY <1>1, <1>4, <1>5, <1>6 DEF RowsIn

LEMMA TradesAbandoned ==
    ASSUME NEW b \in Nat, NEW q, RowsIn(q, TradeRow, b), NEW side,
           NEW r, r = AbandonOpenTrade(q, side)
    PROVE  /\ RowsIn(r, TradeRow, b) /\ DOMAIN r = DOMAIN q
           /\ \A i \in DOMAIN q :
                 /\ r[i].side = q[i].side /\ r[i].bar = q[i].bar /\ r[i].entry = q[i].entry
                 /\ r[i].exitBar = q[i].exitBar /\ r[i].exit = q[i].exit
                 /\ r[i].status = IF q[i].status = "open" /\ q[i].side = side
                                  THEN "abandoned" ELSE q[i].status
<1>1. q \in Seq(TradeRow) /\ \A i \in DOMAIN q : q[i].bar \in 1..b
  BY DEF RowsIn
<1>2. Len(q) \in Nat /\ DOMAIN q = 1..Len(q) /\ \A i \in DOMAIN q : q[i] \in TradeRow
  BY <1>1, Rows
<1>3. /\ DOMAIN r = DOMAIN q
      /\ \A i \in DOMAIN q :
            r[i] = IF q[i].status = "open" /\ q[i].side = side
                   THEN [q[i] EXCEPT !.status = "abandoned"] ELSE q[i]
  BY DEF AbandonOpenTrade
<1>4. ASSUME NEW i \in DOMAIN q
      PROVE  /\ r[i] \in TradeRow
             /\ r[i].side = q[i].side /\ r[i].bar = q[i].bar /\ r[i].entry = q[i].entry
             /\ r[i].exitBar = q[i].exitBar /\ r[i].exit = q[i].exit
             /\ r[i].status = IF q[i].status = "open" /\ q[i].side = side
                              THEN "abandoned" ELSE q[i].status
  BY <1>2, <1>3 DEF TradeRow
<1>5. r \in Seq(TradeRow)
  <2>1. r = [i \in 1..Len(q) |->
                 IF q[i].status = "open" /\ q[i].side = side
                 THEN [q[i] EXCEPT !.status = "abandoned"] ELSE q[i]]
    BY <1>2 DEF AbandonOpenTrade
  <2>2. r \in [1..Len(q) -> TradeRow]
    BY <1>2, <1>3, <1>4, <2>1
  <2> QED BY <1>2, <2>2, SeqDef
<1> QED BY <1>1, <1>3, <1>4, <1>5 DEF RowsIn

LEMMA NewestIs ==
    ASSUME NEW S, NEW q \in Seq(S), NEW side, NEW last, last = NewestOpen(q, side)
    PROVE  /\ last = 0 => OpenOf(q, side) = {}
           /\ last # 0 => last \in OpenOf(q, side) /\ \A i \in OpenOf(q, side) : i <= last
<1>1. OpenOf(q, side) = {i \in DOMAIN q : q[i].status = "open" /\ q[i].side \in {side}}
  BY DEF OpenOf
<1>2. last = LatestOpen(q, {side})
  BY DEF NewestOpen
<1> QED BY <1>1, <1>2, LatestOpenIs

LEMMA TradeClosed ==
    ASSUME NEW b \in Nat, NEW q, RowsIn(q, TradeRow, b), NEW side, NEW close \in Prices,
           NEW r, r = CloseOpenTrade(q, side, b, close),
           NEW last, last = NewestOpen(q, side)
    PROVE  /\ RowsIn(r, TradeRow, b) /\ DOMAIN r = DOMAIN q
           /\ last = 0 => r = q /\ OpenOf(q, side) = {}
           /\ last # 0 => /\ last \in OpenOf(q, side)
                          /\ r[last].side = side /\ r[last].bar = q[last].bar
                          /\ r[last].entry = q[last].entry /\ r[last].status = "closed"
                          /\ r[last].exitBar = b /\ r[last].exit = close
                          /\ \A i \in DOMAIN q : i # last => r[i] = q[i]
<1>1. q \in Seq(TradeRow) /\ \A i \in DOMAIN q : q[i].bar \in 1..b
  BY DEF RowsIn
<1>2. r = IF last = 0 THEN q
          ELSE [q EXCEPT ![last].status = "closed", ![last].exitBar = b, ![last].exit = close]
  BY DEF CloseOpenTrade, NewestOpen
<1>3. CASE last = 0
  BY <1>1, <1>2, <1>3, NewestIs
<1>4. CASE last # 0
  <2> DEFINE y == [q[last] EXCEPT !.status = "closed", !.exitBar = b, !.exit = close]
  <2>1. last \in OpenOf(q, side) /\ last \in DOMAIN q /\ q[last].side = side
        /\ q[last] \in TradeRow
    BY <1>1, <1>4, NewestIs, Rows DEF OpenOf
  <2>2. /\ y \in TradeRow /\ y.status = "closed" /\ y.side = side /\ y.bar = q[last].bar
        /\ y.entry = q[last].entry /\ y.exitBar = b /\ y.exit = close
    BY <2>1, Constants DEF TradeRow
  <2>3. r = [q EXCEPT ![last] = y]
    BY <1>2, <1>4, <2>1
  <2> HIDE DEF y
  <2>4. /\ r \in Seq(TradeRow) /\ DOMAIN r = DOMAIN q /\ r[last] = y
        /\ \A i \in DOMAIN q : i # last => r[i] = q[i]
    BY <1>1, <2>1, <2>2, <2>3, Updated
  <2>5. \A i \in DOMAIN q : r[i].bar \in 1..b
    BY <1>1, <2>1, <2>2, <2>4
  <2> QED BY <1>4, <2>1, <2>2, <2>4, <2>5 DEF RowsIn
<1> QED BY <1>3, <1>4

-------------------------------------------------------------------------------
(* The steps of the cycle, the ticks and the refreshes, and the accounts.  *)

LEMMA EvaluationTyped ==
    ASSUME NEW state \in StrategyState, NEW direction \in Directions, NEW bullish \in BOOLEAN,
           NEW close \in Prices
    PROVE  /\ Evaluation(state, direction, bullish, close) \in EventType
           /\ AdvancedExits(state, direction, bullish) \in StrategyState
<1>1. state.direction \in Directions /\ state.bullish \in BOOLEAN /\ state.longLive \in BOOLEAN
      /\ state.shortLive \in BOOLEAN
  BY DEF StrategyState
<1>2. EntrySignal(state, direction, bullish) \in Sides \cup {"NEUTRAL"}
  BY <1>1 DEF EntrySignal, Sides
<1>3. EndsLong(state, bullish) \in BOOLEAN /\ EndsShort(state, bullish) \in BOOLEAN
  BY <1>1 DEF EndsLong, EndsShort, TurnsBearish, TurnsBullish
<1>4. Evaluation(state, direction, bullish, close) \in EventType
  BY <1>2, <1>3 DEF Evaluation, EventType
<1>5. AdvancedExits(state, direction, bullish) \in StrategyState
  BY <1>1 DEF AdvancedExits, StrategyState, TurnsBearish, TurnsBullish
<1> QED BY <1>4, <1>5

LEMMA AfterIs ==
    /\ AfterRanking \in {"buy", "endLong", "sell", "endShort", "idle"}
    /\ AfterBuy \in {"endLong", "sell", "endShort", "idle"}
    /\ AfterLong \in {"sell", "endShort", "idle"} /\ AfterSell \in {"endShort", "idle"}
BY DEF AfterRanking, AfterBuy, AfterLong, AfterSell

(* Only the evaluation of a bar adds an event; the bars are otherwise the  *)
(* same.                                                                   *)
LEMMA BarIs ==
    ASSUME CycleType, [Next]_vars
    PROVE  /\ EvaluateBar \/ UNCHANGED <<strategy, events>>
           /\ UNCHANGED events => bar' = bar /\ event' = event
           /\ bar \in Nat /\ bar' \in Nat /\ bar' >= bar
           /\ EvaluateBar => bar' = bar + 1
<1>1. EvaluateBar \/ UNCHANGED <<strategy, events>>
  BY DEF Next, CycleStep, RankEntries, ProcessSymbol, RankPaper, RankFutures, RecordBuy, RecordSell,
         Enter, EndLong, PaperExit, PaperWrite, CloseLong, EndShort, CycleFails, Tick, TickExit,
         TickWrite, RefreshRead, RefreshAssign, SessionRestarts, vars, cycleVars
<1>2. UNCHANGED events => bar' = bar /\ event' = event
  BY DEF bar, event
<1>3. bar \in Nat
  BY LenProperties DEF CycleType, bar
<1>4. ASSUME EvaluateBar PROVE bar' = bar + 1
  <2>1. PICK direction \in Directions, bullish \in BOOLEAN :
            /\ events' = Append(events, Evaluation(strategy, direction, bullish, price))
            /\ strategy' = AdvancedExits(strategy, direction, bullish)
    BY <1>4 DEF EvaluateBar
  <2>2. events \in Seq(EventType \cup {Evaluation(strategy, direction, bullish, price)})
    <3>1. events \in Seq(EventType)
      BY DEF CycleType
    <3> QED BY <3>1, SeqDef
  <2> QED BY <2>1, <2>2, AppendProperties DEF bar
<1> QED BY <1>1, <1>2, <1>3, <1>4

LEMMA CycleTyped ==
    ASSUME AccountInv, [Next]_vars
    PROVE  CycleType'
<1>1. /\ strategy \in StrategyState /\ events \in Seq(EventType) /\ bar <= MaxBars
      /\ phase \in Phases \cup {"idle"} /\ lost \subseteq 1..bar
      /\ phase # "idle" => bar >= 1
      /\ faults \in 0..MaxFaults /\ MaxFaults \in Nat /\ price \in Prices
  BY Constants DEF AccountInv, CycleType, TickType
<1>2. /\ EvaluateBar \/ UNCHANGED <<strategy, events>>
      /\ UNCHANGED events => bar' = bar
      /\ bar \in Nat /\ (EvaluateBar => bar' = bar + 1)
  BY BarIs DEF AccountInv
<1>3. ASSUME UNCHANGED <<strategy, events>>, lost' \subseteq 1..bar,
             phase' \in Phases \cup {"idle"}, phase' # "idle" => phase # "idle",
             faults' \in 0..MaxFaults
      PROVE  CycleType'
  BY <1>1, <1>2, <1>3 DEF CycleType
<1>4. /\ AfterRanking \in Phases \cup {"idle"} /\ AfterBuy \in Phases \cup {"idle"}
      /\ AfterLong \in Phases \cup {"idle"} /\ AfterSell \in Phases \cup {"idle"}
      /\ {"paperExit", "paperWrite", "longExits", "futures"} \subseteq Phases
  BY AfterIs DEF Phases
<1>5. CASE EvaluateBar
  <2>1. PICK direction \in Directions, bullish \in BOOLEAN :
            /\ events' = Append(events, Evaluation(strategy, direction, bullish, price))
            /\ strategy' = AdvancedExits(strategy, direction, bullish)
    BY <1>5 DEF EvaluateBar
  <2>2. strategy' \in StrategyState /\ events' \in Seq(EventType)
    BY <1>1, <2>1, EvaluationTyped, AppendProperties
  <2>3. bar < MaxBars /\ phase' = "paper" /\ lost' = lost /\ faults' = faults
    BY <1>5 DEF EvaluateBar
  <2>4. bar' <= MaxBars /\ bar' >= 1 /\ lost' \subseteq 1..bar'
    BY <1>1, <1>2, <1>5, <2>3, Constants
  <2> QED BY <1>1, <2>2, <2>3, <2>4 DEF CycleType, Phases
<1>6. CASE RankPaper
  BY <1>1, <1>3, <1>4, <1>6 DEF RankPaper
<1>7. CASE RankFutures
  <2>1. faults' \in 0..MaxFaults
    BY <1>1, <1>7, TwoCalls DEF RankFutures, Quoted, MarginKnown
  <2> QED BY <1>1, <1>3, <1>4, <1>7, <2>1 DEF RankFutures
<1>8. ASSUME NEW side, NEW opposite, Enter(side, opposite)
      PROVE  faults' \in 0..MaxFaults
  BY <1>1, <1>8, TwoCalls DEF Enter, Quoted
<1>9. CASE RecordBuy
  BY <1>1, <1>3, <1>4, <1>8, <1>9 DEF RecordBuy, Enter
<1>10. CASE RecordSell
  BY <1>1, <1>3, <1>4, <1>8, <1>10 DEF RecordSell, Enter
<1>11. CASE EndLong
  BY <1>1, <1>3, <1>4, <1>11 DEF EndLong
<1>12. CASE PaperExit
  BY <1>1, <1>3, <1>4, <1>12 DEF PaperExit
<1>13. CASE PaperWrite
  BY <1>1, <1>3, <1>4, <1>13 DEF PaperWrite
<1>14. ASSUME NEW hedge, CloseDerivatives(hedge)
       PROVE  faults' \in 0..MaxFaults
  BY <1>1, <1>14, ThreeCalls DEF CloseDerivatives, Quoted
<1>15. CASE CloseLong
  BY <1>1, <1>3, <1>4, <1>14, <1>15 DEF CloseLong
<1>16. CASE EndShort
  BY <1>1, <1>3, <1>4, <1>14, <1>16 DEF EndShort
<1>17. CASE CycleFails
  <2>1. lost' \subseteq 1..bar /\ faults' \in 0..MaxFaults
    BY <1>1, <1>2, <1>17 DEF CycleFails
  <2> QED BY <1>1, <1>3, <1>4, <1>17, <2>1 DEF CycleFails
<1>18. CASE SessionRestarts
  <2>1. lost' \subseteq 1..bar /\ faults' \in 0..MaxFaults
    BY <1>1, <1>2, <1>18 DEF SessionRestarts
  <2> QED BY <1>1, <1>3, <1>4, <1>18, <2>1 DEF SessionRestarts
<1>19. CASE UNCHANGED <<cycleVars, faults>>
  BY <1>1, <1>3, <1>19 DEF cycleVars
<1>20. ASSUME (\E close \in Prices : Tick(close)) \/ TickExit \/ TickWrite \/ RefreshRead
              \/ RefreshAssign \/ UNCHANGED vars
       PROVE  UNCHANGED <<cycleVars, faults>>
  BY <1>20 DEF Tick, TickExit, TickWrite, RefreshRead, RefreshAssign, vars
<1> QED BY <1>5, <1>6, <1>7, <1>9, <1>10, <1>11, <1>12, <1>13, <1>15, <1>16, <1>17, <1>18, <1>19,
           <1>20 DEF Next, CycleStep, RankEntries, ProcessSymbol

LEMMA WatchedIs ==
    ASSUME NEW b, NEW rows, RowsIn(rows, PaperRow, b)
    PROVE  Watched(rows) \in {NoPosition} \cup [entry : Prices, peak : Prices]
<1> DEFINE last == LatestOpen(rows, {"BUY"})
<1>1. rows \in Seq(PaperRow)
  BY DEF RowsIn
<1>2. last = 0 \/ rows[last] \in PaperRow
  BY <1>1, LatestOpenRow, Rows
<1>3. Watched(rows) = IF last = 0 THEN NoPosition
                      ELSE [entry |-> rows[last].entry, peak |-> rows[last].peak]
  BY DEF Watched
<1> HIDE DEF last
<1> QED BY <1>2, <1>3 DEF PaperRow

LEMMA TickTyped ==
    ASSUME AccountInv, [Next]_vars
    PROVE  TickType'
<1>1. /\ price \in Prices /\ tick \in Prices \cup {0}
      /\ cache \in {NoPosition} \cup [entry : Prices, peak : Prices]
      /\ snapshot \in {NotReading, NoPosition} \cup [entry : Prices, peak : Prices]
      /\ Watched(paper) \in {NoPosition} \cup [entry : Prices, peak : Prices]
  BY WatchedIs DEF AccountInv, TickType, TablesType
<1>2. CASE UNCHANGED tickVars
  BY <1>1, <1>2 DEF tickVars, TickType
<1>3. ASSUME EvaluateBar \/ CycleStep \/ CycleFails \/ TickExit \/ UNCHANGED vars
      PROVE  UNCHANGED tickVars
  BY <1>3 DEF EvaluateBar, CycleStep, RankEntries, ProcessSymbol, RankPaper, RankFutures, RecordBuy,
         RecordSell, Enter, EndLong, PaperExit, PaperWrite, CloseLong, EndShort, CycleFails,
         TickExit, vars
<1>4. ASSUME NEW close \in Prices, Tick(close)
      PROVE  TickType'
  <2>1. price' = close /\ snapshot' = snapshot /\ CheckStopLoss(close)
    BY <1>4 DEF Tick
  <2>2. CASE UNCHANGED <<cache, tick>>
    BY <1>1, <2>1, <2>2 DEF TickType
  <2>3. CASE ForceClose(close)
    BY <1>1, <2>1, <2>3 DEF TickType, ForceClose
  <2>4. CASE cache # NoPosition /\ cache' = [cache EXCEPT !.peak = close] /\ tick' = tick
    BY <1>1, <2>1, <2>4 DEF TickType
  <2> QED BY <2>1, <2>2, <2>3, <2>4 DEF CheckStopLoss
<1>5. CASE TickWrite
  BY <1>1, <1>5 DEF TickWrite, TickType
<1>6. CASE RefreshRead
  BY <1>1, <1>6 DEF RefreshRead, TickType
<1>7. CASE RefreshAssign
  BY <1>1, <1>7 DEF RefreshAssign, TickType
<1>8. CASE SessionRestarts
  BY <1>1, <1>8 DEF SessionRestarts, TickType
<1> QED BY <1>2, <1>3, <1>4, <1>5, <1>6, <1>7, <1>8 DEF Next

(* What closing a row that was read does.                                  *)
LEMMA CreditedOnce ==
    ASSUME AccountInv, NEW who \in Tasks, closing[who] # NotReading, NEW close \in Prices,
           CloseRow(who, close)
    PROVE  /\ RowsIn(paper', PaperRow, bar) /\ cash' \in Nat
           /\ OpenRows(paper') = OpenRows(paper) \ {closing[who]}
           /\ PaperBalances(cash', paper')
<1> DEFINE row == closing[who]
<1>1. /\ RowsIn(paper, PaperRow, bar) /\ cash \in Nat /\ bar \in Nat
      /\ PaperBalances(cash, paper) /\ row \in OpenRows(paper) \cup {0}
  BY LenProperties DEF AccountInv, CycleType, TablesType, LockOK, Balanced, bar
<1>2. 0 \notin OpenRows(paper)
  BY <1>1, Rows DEF RowsIn
<1>3. /\ paper' = IF row = 0 THEN paper ELSE ClosePosition(paper, row, close)
      /\ cash' = IF row = 0 THEN cash ELSE cash + Allocated(paper[row]) + PaperPnl(paper'[row])
  BY DEF CloseRow, ClosedAndCredited
<1> HIDE DEF row
<1>4. CASE row = 0
  BY <1>1, <1>2, <1>3, <1>4 DEF row
<1>5. CASE row # 0
  <2>1. row \in OpenRows(paper) /\ paper' = ClosePosition(paper, row, close)
    BY <1>1, <1>3, <1>5
  <2>2. PICK r : r = ClosePosition(paper, row, close)
    OBVIOUS
  <2>3. /\ RowsIn(r, PaperRow, bar) /\ OpenRows(r) = OpenRows(paper) \ {row}
        /\ cash + Allocated(paper[row]) + PaperPnl(r[row]) \in Nat
        /\ PaperBalances(cash + Allocated(paper[row]) + PaperPnl(r[row]), r)
    BY <1>1, <2>1, <2>2, PositionClosed
  <2>4. paper' = r /\ cash' = cash + Allocated(paper[row]) + PaperPnl(r[row])
    BY <1>3, <1>5, <2>1, <2>2
  <2>5. /\ RowsIn(paper', PaperRow, bar) /\ OpenRows(paper') = OpenRows(paper) \ {row}
        /\ cash' \in Nat
    BY <2>3, <2>4
  <2>6. PaperBalances(cash', paper')
    BY <2>3, <2>4
  <2> QED BY <2>5, <2>6 DEF row
<1> QED BY <1>4, <1>5

LEMMA EventTyped ==
    ASSUME CycleType, phase # "idle"
    PROVE  /\ bar \in Nat /\ bar >= 1 /\ event \in EventType /\ event.price \in Prices
           /\ event.signal \in Sides \cup {"NEUTRAL"}
<1>1. bar \in Nat /\ bar >= 1 /\ events \in Seq(EventType)
  BY LenProperties DEF CycleType, bar
<1>2. bar \in 1..Len(events)
  BY <1>1 DEF bar
<1>3. event \in EventType
  BY <1>1, <1>2, ElementOfSeq DEF event
<1> QED BY <1>1, <1>3 DEF EventType

(* The paper account after a step.                                         *)
LEMMA PaperKept ==
    ASSUME AccountInv, [Next]_vars
    PROVE  /\ RowsIn(paper', PaperRow, bar') /\ cash' \in Nat
           /\ PaperBalances(cash', paper')
           /\ \/ OpenRows(paper) \subseteq OpenRows(paper')
              \/ PaperWrite \/ TickWrite
<1>1. /\ RowsIn(paper, PaperRow, bar) /\ cash \in Nat /\ bar \in Nat /\ bar' \in Nat
      /\ bar' >= bar /\ PaperBalances(cash, paper) /\ cash \in Int
  BY BarIs DEF AccountInv, TablesType, Balanced
<1>2. ASSUME NEW rows, RowsIn(rows, PaperRow, bar)
      PROVE  RowsIn(rows, PaperRow, bar')
  <2>1. \A n \in 1..bar : n \in 1..bar'
    BY <1>1
  <2> QED BY <1>2, <2>1 DEF RowsIn
<1>3. CASE UNCHANGED <<cash, paper>>
  <2>1. PaperBalances(cash', paper')
    BY <1>1, <1>3
  <2> QED BY <1>1, <1>2, <1>3, <2>1
<1>4. CASE RankPaper
  <2>1. CASE CompetesOnPaper /\ Affords > 0
    <3> DEFINE n == Affords
    <3>1. phase = "paper" /\ paper' = OpenPosition(paper, bar, n, event.price)
          /\ cash' = cash - n * event.price
      BY <1>4, <2>1 DEF RankPaper
    <3>2. bar >= 1 /\ event.price \in Prices
      BY <3>1, EventTyped DEF AccountInv
    <3>3. Committed(paper) \in Nat
      BY <1>1, PaperSums DEF RowsIn
    <3>4. n \in Nat /\ cash - n * event.price \in Nat
      <4>1. cash + Committed(paper) \in Nat
        BY <1>1, <3>3
      <4> QED BY <1>1, <3>2, <4>1, AffordableIs DEF Affords
    <3> HIDE DEF n
    <3>5. PICK r : r = OpenPosition(paper, bar, n, event.price)
      OBVIOUS
    <3>6. /\ RowsIn(r, PaperRow, bar) /\ OpenRows(paper) \subseteq OpenRows(r)
          /\ PaperBalances(cash - n * event.price, r)
      BY <1>1, <3>2, <3>4, <3>5, PositionOpened
    <3>7. paper' = r
      BY <3>1, <3>5
    <3>8. PaperBalances(cash', paper')
      BY <3>1, <3>6, <3>7
    <3> QED BY <1>2, <3>1, <3>4, <3>6, <3>7, <3>8
  <2>2. CASE ~(CompetesOnPaper /\ Affords > 0)
    BY <1>3, <1>4, <2>2 DEF RankPaper
  <2> QED BY <2>1, <2>2
<1>5. CASE PaperWrite
  <2>1. phase = "paperWrite" /\ CloseRow("cycle", event.price)
    BY <1>5 DEF PaperWrite
  <2>4. event.price \in Prices
    BY <2>1, EventTyped DEF AccountInv
  <2>5. closing["cycle"] # NotReading /\ "cycle" \in Tasks
    BY <2>1 DEF AccountInv, LockOK, Tasks
  <2>6. RowsIn(paper', PaperRow, bar) /\ cash' \in Nat /\ PaperBalances(cash', paper')
    BY <2>1, <2>4, <2>5, CreditedOnce
  <2> QED BY <1>2, <1>5, <2>6
<1>6. CASE TickWrite
  <2>1. closing["tick"] # NotReading /\ CloseRow("tick", tick)
    BY <1>6 DEF TickWrite
  <2>2. tick \in Prices /\ "tick" \in Tasks
    BY <2>1 DEF AccountInv, LockOK, TickType, Tasks
  <2>3. RowsIn(paper', PaperRow, bar) /\ cash' \in Nat /\ PaperBalances(cash', paper')
    BY <2>1, <2>2, CreditedOnce
  <2> QED BY <1>2, <1>6, <2>3
<1>7. ASSUME NEW close \in Prices, Tick(close)
      PROVE  /\ RowsIn(paper', PaperRow, bar') /\ cash' \in Nat
             /\ PaperBalances(cash', paper') /\ OpenRows(paper) \subseteq OpenRows(paper')
  <2>1. cash' = cash
    BY <1>7 DEF Tick
  <2>2. paper' = paper \/ paper' = UpdatePeakPrice(paper, close)
    BY <1>7 DEF Tick, CheckStopLoss, ForceClose
  <2>3. CASE paper' = UpdatePeakPrice(paper, close)
    <3>1. PICK r : r = UpdatePeakPrice(paper, close)
      OBVIOUS
    <3>2. RowsIn(r, PaperRow, bar) /\ OpenRows(r) = OpenRows(paper) /\ PaperBalances(cash, r)
      BY <1>1, <3>1, PeakUpdated
    <3>3. paper' = r
      BY <2>3, <3>1
    <3>4. PaperBalances(cash', paper')
      BY <2>1, <3>2, <3>3
    <3> QED BY <1>1, <1>2, <2>1, <3>2, <3>3, <3>4
  <2>4. CASE paper' = paper
    BY <1>1, <1>3, <2>1, <2>4, <1>2
  <2> QED BY <2>2, <2>3, <2>4
<1>8. ASSUME EvaluateBar \/ RankFutures \/ RecordBuy \/ RecordSell \/ EndLong \/ PaperExit
             \/ CloseLong \/ EndShort \/ CycleFails \/ TickExit \/ RefreshRead \/ RefreshAssign
             \/ SessionRestarts \/ UNCHANGED vars
      PROVE  UNCHANGED <<cash, paper>>
  BY <1>8 DEF EvaluateBar, RankFutures, RecordBuy, RecordSell, Enter, EndLong, PaperExit, CloseLong,
         EndShort, CycleFails, TickExit, RefreshRead, RefreshAssign, SessionRestarts, vars, paperVars
<1> QED BY <1>3, <1>4, <1>5, <1>6, <1>7, <1>8 DEF Next, CycleStep, RankEntries, ProcessSymbol

LEMMA RowsStay ==
    ASSUME NEW b \in Nat, NEW d \in Nat, d >= b, NEW type, NEW rows, RowsIn(rows, type, b)
    PROVE  RowsIn(rows, type, d)
<1>1. \A n \in 1..b : n \in 1..d
  OBVIOUS
<1> QED BY <1>1 DEF RowsIn

LEMMA SidesAre ==
    ASSUME NEW signal
    PROVE  SideOf(signal) \in FuturesSides /\ HedgeOf(signal) \in OptionSides
BY DEF SideOf, HedgeOf, FuturesSides, OptionSides

LEMMA OpenLegs ==
    ASSUME NEW b, NEW sides, NEW rows, RowsIn(rows, LegRow(sides), b)
    PROVE  \A i \in OpenRows(rows) : i \in DOMAIN rows /\ rows[i].side \in sides
<1>1. rows \in Seq(LegRow(sides))
  BY DEF RowsIn
<1>2. \A i \in DOMAIN rows : rows[i] \in LegRow(sides)
  BY <1>1, Rows
<1> QED BY <1>2 DEF LegRow, OpenRows

(* What the ranking does to the futures account.                           *)
LEMMA ComboRanked ==
    ASSUME AccountInv, RankFutures
    PROVE  /\ RowsIn(combos', LegRow(FuturesSides), bar) /\ futuresCash' \in Int
           /\ ComboBalances(futuresCash', combos')
           /\ \/ UNCHANGED futuresVars
              \/ /\ OpenRows(combos) = {} /\ event.signal \in Sides
                 /\ \E k : OpenRows(combos') = {k} /\ combos'[k].side = SideOf(event.signal)
<1>1. /\ RowsIn(combos, LegRow(FuturesSides), bar) /\ futuresCash \in Int
      /\ ComboBalances(futuresCash, combos) /\ phase = "futures"
  BY DEF AccountInv, TablesType, Balanced, RankFutures
<1>2. bar \in Nat /\ bar >= 1 /\ event.price \in Prices
  BY <1>1, EventTyped DEF AccountInv
<1>3. CASE UNCHANGED futuresVars
  <2>1. futuresCash' = futuresCash /\ combos' = combos
    BY <1>3 DEF futuresVars
  <2>2. ComboBalances(futuresCash', combos')
    BY <1>1, <2>1
  <2> QED BY <1>1, <1>3, <2>1, <2>2
<1>4. ASSUME ~UNCHANGED futuresVars
      PROVE  /\ event.signal \in Sides /\ OpenRows(combos) = {}
             /\ combos' = OpenLeg(combos, SideOf(event.signal), bar, event.price)
             /\ futuresCash' = futuresCash - Margin
  <2>1. CompetesForFutures /\ \E quoted \in Quoted, margin \in MarginKnown : OpenCombo(quoted /\ margin)
    BY <1>4 DEF RankFutures, futuresVars
  <2>2. PICK found \in BOOLEAN : OpenCombo(found)
    BY <2>1 DEF Quoted, MarginKnown
  <2>3. /\ ComboAllowed(futuresCash, combos)
        /\ combos' = OpenLeg(combos, SideOf(event.signal), bar, event.price)
        /\ futuresCash' = futuresCash - Margin
    BY <1>4, <2>2 DEF OpenCombo
  <2> QED BY <2>1, <2>3 DEF CompetesForFutures, ComboAllowed
<1>5. CASE ~UNCHANGED futuresVars
  <2>1. PICK r : r = OpenLeg(combos, SideOf(event.signal), bar, event.price)
    OBVIOUS
  <2>2. SideOf(event.signal) \in FuturesSides
    BY <1>4, <1>5, SidesAre
  <2> DEFINE side == SideOf(event.signal)
             close == event.price
  <2> HIDE DEF side, close
  <2>3. /\ RowsIn(r, LegRow(FuturesSides), bar)
        /\ OpenRows(r) = OpenRows(combos) \cup {Len(r)} /\ r[Len(r)].side = SideOf(event.signal)
        /\ ComboBalances(futuresCash - Margin, r)
    <3>1. side \in FuturesSides /\ close \in Prices /\ r = OpenLeg(combos, side, bar, close)
      BY <1>2, <2>1, <2>2 DEF side, close
    <3>2. /\ RowsIn(r, LegRow(FuturesSides), bar)
          /\ OpenRows(r) = OpenRows(combos) \cup {Len(r)} /\ r[Len(r)].side = side
      BY <1>1, <1>2, <3>1, LegOpened
    <3>3. ComboBalances(futuresCash - Margin, r)
      BY <1>1, <1>2, <3>1, LegPaid
    <3> QED BY <3>2, <3>3 DEF side
  <2>4. combos' = r /\ futuresCash' = futuresCash - Margin
    BY <1>4, <1>5, <2>1
  <2>5. ComboBalances(futuresCash', combos')
    BY <2>3, <2>4
  <2>6. futuresCash' \in Int
    BY <1>1, <2>4, Constants
  <2>7. OpenRows(combos') = {Len(r)} /\ combos'[Len(r)].side = SideOf(event.signal)
    BY <1>4, <1>5, <2>3, <2>4
  <2> QED BY <1>4, <1>5, <2>3, <2>4, <2>5, <2>6, <2>7
<1> QED BY <1>3, <1>5

(* What an exit's derivative legs come to.                                 *)
LEMMA DerivativesClosed ==
    ASSUME AccountInv, phase # "idle", NEW hedge, CloseDerivatives(hedge)
    PROVE  /\ RowsIn(combos', LegRow(FuturesSides), bar) /\ futuresCash' \in Int
           /\ ComboBalances(futuresCash', combos')
           /\ RowsIn(futureLegs', LegRow(FuturesSides), bar)
           /\ RowsIn(optionLegs', LegRow(OptionSides), bar)
           /\ faults' = 0 =>
                 /\ faults = 0
                 /\ OpenRows(combos) # {} =>
                        \E k \in OpenRows(combos) : OpenRows(combos') = OpenRows(combos) \ {k}
                 /\ OpenRows(combos) = {} => OpenRows(combos') = {}
                 /\ OpenRows(futureLegs) # {} =>
                        \E k \in OpenRows(futureLegs) : OpenRows(futureLegs') = OpenRows(futureLegs) \ {k}
                 /\ OpenOf(optionLegs, hedge) # {} =>
                        \E k \in OpenOf(optionLegs, hedge) :
                            OpenRows(optionLegs') = OpenRows(optionLegs) \ {k}
                 /\ \A i \in DOMAIN optionLegs : optionLegs'[i].side = optionLegs[i].side
<1> DEFINE lastCombo == LatestOpen(combos, FuturesSides)
           lastFuture == LatestOpen(futureLegs, FuturesSides)
           lastOption == LatestOpen(optionLegs, {hedge})
<1>1. /\ RowsIn(combos, LegRow(FuturesSides), bar) /\ futuresCash \in Int
      /\ RowsIn(futureLegs, LegRow(FuturesSides), bar)
      /\ RowsIn(optionLegs, LegRow(OptionSides), bar)
      /\ ComboBalances(futuresCash, combos) /\ faults \in 0..MaxFaults
  BY DEF AccountInv, TablesType, Balanced, CycleType
<1>2. bar \in Nat /\ bar >= 1 /\ event.price \in Prices
  BY EventTyped DEF AccountInv
<1>3. PICK works \in BOOLEAN, hedgeQuoted \in BOOLEAN, comboQuoted \in BOOLEAN :
          /\ BestEffort(<<works, hedgeQuoted, comboQuoted>>)
          /\ CloseShadowFuture(works) /\ CloseShadowHedge(hedge, hedgeQuoted)
          /\ CloseCombo(comboQuoted)
  BY DEF CloseDerivatives, Quoted
<1>4. faults' = 0 => faults = 0 /\ works /\ hedgeQuoted /\ comboQuoted
  BY <1>1, <1>3, ThreeCalls
<1>5. /\ \A i \in OpenRows(combos) : combos[i].side \in FuturesSides
      /\ \A i \in OpenRows(futureLegs) : futureLegs[i].side \in FuturesSides
  BY <1>1, OpenLegs
<1>6. /\ RowsIn(futureLegs', LegRow(FuturesSides), bar)
      /\ works /\ OpenRows(futureLegs) # {} =>
             \E k \in OpenRows(futureLegs) : OpenRows(futureLegs') = OpenRows(futureLegs) \ {k}
  <2>1. CASE ~works
    BY <1>1, <1>3, <2>1 DEF CloseShadowFuture
  <2>2. CASE works
    <3>1. PICK r : r = CloseLeg(futureLegs, FuturesSides, event.price)
      OBVIOUS
    <3>2. /\ RowsIn(r, LegRow(FuturesSides), bar)
          /\ lastFuture = 0 => \A i \in OpenRows(futureLegs) : futureLegs[i].side \notin FuturesSides
          /\ lastFuture # 0 => lastFuture \in OpenRows(futureLegs)
                               /\ OpenRows(r) = OpenRows(futureLegs) \ {lastFuture}
      BY <1>1, <1>2, <3>1, LegClosed, 0 \in Int
    <3>3. futureLegs' = r
      BY <1>3, <2>2, <3>1 DEF CloseShadowFuture
    <3> QED BY <1>1, <1>5, <3>2, <3>3
  <2> QED BY <2>1, <2>2
<1>7. /\ RowsIn(optionLegs', LegRow(OptionSides), bar)
      /\ hedgeQuoted /\ OpenOf(optionLegs, hedge) # {} =>
             \E k \in OpenOf(optionLegs, hedge) : OpenRows(optionLegs') = OpenRows(optionLegs) \ {k}
      /\ \A i \in DOMAIN optionLegs : optionLegs'[i].side = optionLegs[i].side
  <2>1. CASE ~hedgeQuoted
    BY <1>1, <1>3, <2>1 DEF CloseShadowHedge
  <2>2. CASE hedgeQuoted
    <3>1. PICK r : r = CloseLeg(optionLegs, {hedge}, event.price)
      OBVIOUS
    <3>2. /\ RowsIn(r, LegRow(OptionSides), bar)
          /\ lastOption = 0 => \A i \in OpenRows(optionLegs) : optionLegs[i].side \notin {hedge}
          /\ lastOption # 0 => lastOption \in OpenRows(optionLegs)
                               /\ optionLegs[lastOption].side \in {hedge}
                               /\ OpenRows(r) = OpenRows(optionLegs) \ {lastOption}
          /\ \A i \in DOMAIN optionLegs : r[i].side = optionLegs[i].side
      BY <1>1, <1>2, <3>1, LegClosed, 0 \in Int
    <3>3. optionLegs' = r
      BY <1>3, <2>2, <3>1 DEF CloseShadowHedge
    <3>4. \A i : i \in OpenOf(optionLegs, hedge) <=>
                     i \in OpenRows(optionLegs) /\ optionLegs[i].side = hedge
      BY DEF OpenOf, OpenRows
    <3> HIDE DEF lastOption
    <3> QED BY <3>2, <3>3, <3>4
  <2> QED BY <2>1, <2>2
<1>8. /\ RowsIn(combos', LegRow(FuturesSides), bar) /\ futuresCash' \in Int
      /\ ComboBalances(futuresCash', combos')
      /\ comboQuoted /\ OpenRows(combos) # {} =>
             \E k \in OpenRows(combos) : OpenRows(combos') = OpenRows(combos) \ {k}
      /\ OpenRows(combos) = {} => OpenRows(combos') = {}
  <2>1. PICK r : r = CloseLeg(combos, FuturesSides, event.price)
    OBVIOUS
  <2>2. /\ RowsIn(r, LegRow(FuturesSides), bar) /\ DOMAIN r = DOMAIN combos
        /\ lastCombo = 0 => \A i \in OpenRows(combos) : combos[i].side \notin FuturesSides
        /\ lastCombo # 0 => /\ lastCombo \in OpenRows(combos)
                            /\ OpenRows(r) = OpenRows(combos) \ {lastCombo}
                            /\ ComboBalances(futuresCash + Margin + LegPnl(r[lastCombo]), r)
    BY <1>1, <1>2, <2>1, LegClosed
  <2>3. CASE lastCombo = 0 \/ ~comboQuoted
    <3>1. combos' = combos /\ futuresCash' = futuresCash
      BY <1>3, <2>3 DEF CloseCombo, futuresVars
    <3>2. ComboBalances(futuresCash', combos')
      BY <1>1, <3>1
    <3>3. lastCombo = 0 => OpenRows(combos) = {}
      BY <1>1, <1>5, <2>2
    <3> HIDE DEF lastCombo
    <3> QED BY <1>1, <2>3, <3>1, <3>2, <3>3
  <2>4. CASE ~(lastCombo = 0 \/ ~comboQuoted)
    <3>1. combos' = r /\ futuresCash' = futuresCash + Margin + LegPnl(combos'[lastCombo])
      BY <1>3, <2>1, <2>4 DEF CloseCombo
    <3>2. futuresCash' = futuresCash + Margin + LegPnl(r[lastCombo])
      BY <3>1
    <3>3. ComboBalances(futuresCash', combos')
      BY <2>2, <2>4, <3>1, <3>2
    <3>4. r[lastCombo] \in LegRow(FuturesSides)
      <4>1. lastCombo \in DOMAIN r /\ r \in Seq(LegRow(FuturesSides))
        BY <2>2, <2>4 DEF OpenRows, RowsIn
      <4> QED BY <4>1, Rows
    <3>5. LegPnl(r[lastCombo]) \in Int
      BY <3>4, LegAmounts
    <3>6. futuresCash' \in Int
      BY <1>1, <3>2, <3>5, Constants
    <3> HIDE DEF lastCombo
    <3> QED BY <2>2, <2>4, <3>1, <3>3, <3>6
  <2> QED BY <2>3, <2>4
<1> QED BY <1>4, <1>6, <1>7, <1>8

LEMMA OppositeIs ==
    ASSUME NEW side \in Sides
    PROVE  Opposite(side) \in Sides /\ Opposite(side) # side
BY DEF Opposite, Sides

(* What an entry does to the shadow legs and the trades.                   *)
LEMMA Entered ==
    ASSUME AccountInv, phase # "idle", NEW side \in Sides, NEW opposite,
           Enter(side, opposite)
    PROVE  /\ RowsIn(trades', TradeRow, bar)
           /\ RowsIn(futureLegs', LegRow(FuturesSides), bar)
           /\ RowsIn(optionLegs', LegRow(OptionSides), bar)
           /\ faults' = 0 =>
                 /\ faults = 0
                 /\ \E k : k \notin OpenRows(futureLegs)
                           /\ OpenRows(futureLegs') = OpenRows(futureLegs) \cup {k}
                 /\ \E k : /\ k \notin OpenRows(optionLegs)
                           /\ OpenRows(optionLegs') = OpenRows(optionLegs) \cup {k}
                           /\ optionLegs'[k].side = HedgeOf(event.signal)
                 /\ \A i \in OpenRows(optionLegs) : optionLegs'[i].side = optionLegs[i].side
<1>1. /\ RowsIn(trades, TradeRow, bar) /\ RowsIn(futureLegs, LegRow(FuturesSides), bar)
      /\ RowsIn(optionLegs, LegRow(OptionSides), bar) /\ faults \in 0..MaxFaults
  BY DEF AccountInv, TablesType, CycleType
<1>2. bar \in Nat /\ bar >= 1 /\ event.price \in Prices
  BY EventTyped DEF AccountInv
<1>3. PICK found \in BOOLEAN, quoted \in BOOLEAN :
          BestEffort(<<found, quoted>>) /\ ShadowFuture(found) /\ ShadowHedge(quoted)
  BY DEF Enter, Quoted
<1>4. faults' = 0 => faults = 0 /\ found /\ quoted
  BY <1>1, <1>3, TwoCalls
<1>5. SideOf(event.signal) \in FuturesSides /\ HedgeOf(event.signal) \in OptionSides
  BY SidesAre
<1>6. RowsIn(trades', TradeRow, bar)
  <2>1. PICK q : q = AbandonOpenTrade(trades, opposite)
    OBVIOUS
  <2>2. RowsIn(q, TradeRow, bar)
    BY <1>1, <1>2, <2>1, TradesAbandoned
  <2>3. PICK r : r = OpenTrade(q, side, bar, event.price)
    OBVIOUS
  <2>4. RowsIn(r, TradeRow, bar)
    BY <1>2, <2>2, <2>3, TradeOpened
  <2> QED BY <2>1, <2>3, <2>4 DEF Enter
<1>7. PICK f : f = OpenLeg(futureLegs, SideOf(event.signal), bar, event.price)
  OBVIOUS
<1>8. RowsIn(f, LegRow(FuturesSides), bar) /\ Len(f) \notin DOMAIN futureLegs
      /\ OpenRows(f) = OpenRows(futureLegs) \cup {Len(f)}
  BY <1>1, <1>2, <1>5, <1>7, LegOpened
<1>9. futureLegs' = IF found THEN f ELSE futureLegs
  BY <1>3, <1>7 DEF ShadowFuture
<1>10. PICK o : o = OpenLeg(optionLegs, HedgeOf(event.signal), bar, event.price)
  OBVIOUS
<1>11. /\ RowsIn(o, LegRow(OptionSides), bar) /\ Len(o) \notin DOMAIN optionLegs
       /\ OpenRows(o) = OpenRows(optionLegs) \cup {Len(o)} /\ o[Len(o)].side = HedgeOf(event.signal)
       /\ \A i \in DOMAIN optionLegs : o[i] = optionLegs[i]
  BY <1>1, <1>2, <1>5, <1>10, LegOpened
<1>12. optionLegs' = IF quoted THEN o ELSE optionLegs
  BY <1>3, <1>10 DEF ShadowHedge
<1>13. Len(f) \notin OpenRows(futureLegs) /\ Len(o) \notin OpenRows(optionLegs)
  BY <1>8, <1>11 DEF OpenRows
<1>14. \A i \in OpenRows(optionLegs) : i \in DOMAIN optionLegs
  BY DEF OpenRows
<1>15. RowsIn(futureLegs', LegRow(FuturesSides), bar) /\ RowsIn(optionLegs', LegRow(OptionSides), bar)
  BY <1>1, <1>8, <1>9, <1>11, <1>12
<1>16. ASSUME faults' = 0
       PROVE  futureLegs' = f /\ optionLegs' = o /\ faults = 0
  BY <1>4, <1>9, <1>12, <1>16
<1> QED BY <1>6, <1>8, <1>11, <1>13, <1>14, <1>15, <1>16

(* The strategy's and the derivatives' tables after a step.                *)
LEMMA TablesKept ==
    ASSUME AccountInv, [Next]_vars
    PROVE  /\ RowsIn(trades', TradeRow, bar') /\ RowsIn(combos', LegRow(FuturesSides), bar')
           /\ RowsIn(futureLegs', LegRow(FuturesSides), bar')
           /\ RowsIn(optionLegs', LegRow(OptionSides), bar')
           /\ futuresCash' \in Int /\ ComboBalances(futuresCash', combos')
<1> DEFINE Typed(t, c, f, o) ==
               /\ RowsIn(t, TradeRow, bar) /\ RowsIn(c, LegRow(FuturesSides), bar)
               /\ RowsIn(f, LegRow(FuturesSides), bar) /\ RowsIn(o, LegRow(OptionSides), bar)
<1>1. /\ Typed(trades, combos, futureLegs, optionLegs) /\ futuresCash \in Int
      /\ ComboBalances(futuresCash, combos) /\ bar \in Nat /\ bar' \in Nat /\ bar' >= bar
      /\ phase \in Phases \cup {"idle"}
  BY BarIs DEF AccountInv, TablesType, Balanced, CycleType
<1>12. RowsIn(trades, TradeRow, bar) /\ bar \in Nat
  BY <1>1
<1>2. SUFFICES /\ Typed(trades', combos', futureLegs', optionLegs') /\ futuresCash' \in Int
               /\ ComboBalances(futuresCash', combos')
  BY <1>1, <1>2, RowsStay
<1>3. ASSUME UNCHANGED futuresVars
      PROVE  futuresCash' \in Int /\ ComboBalances(futuresCash', combos') /\ combos' = combos
  <2>1. futuresCash' = futuresCash /\ combos' = combos
    BY <1>3 DEF futuresVars
  <2>2. ComboBalances(futuresCash', combos')
    BY <1>1, <2>1
  <2> QED BY <1>1, <2>1, <2>2
<1>4. CASE RankFutures
  <2>1. UNCHANGED <<trades, futureLegs, optionLegs>>
    BY <1>4 DEF RankFutures, shadowVars
  <2> QED BY <1>1, <1>4, <2>1, ComboRanked
<1>5. ASSUME NEW side \in Sides, NEW opposite, phase # "idle", Enter(side, opposite)
      PROVE  /\ Typed(trades', combos', futureLegs', optionLegs') /\ futuresCash' \in Int
             /\ ComboBalances(futuresCash', combos')
  <2>1. UNCHANGED futuresVars
    BY <1>5 DEF Enter
  <2> QED BY <1>1, <1>3, <1>5, <2>1, Entered
<1>6. CASE RecordBuy \/ RecordSell
  BY <1>5, <1>6 DEF RecordBuy, RecordSell, Sides
<1>7. CASE EndLong
  <2>1. UNCHANGED futuresVars /\ UNCHANGED <<futureLegs, optionLegs>> /\ phase # "idle"
        /\ trades' = CloseOpenTrade(trades, "BUY", bar, event.price)
    BY <1>7 DEF EndLong, shadowVars
  <2>2. event.price \in Prices
    BY <2>1, EventTyped DEF AccountInv
  <2>3. RowsIn(trades', TradeRow, bar)
    <3>1. PICK r : r = CloseOpenTrade(trades, "BUY", bar, event.price)
      OBVIOUS
    <3>2. PICK last : last = NewestOpen(trades, "BUY")
      OBVIOUS
    <3>3. RowsIn(r, TradeRow, bar)
      BY <1>12, <2>2, <3>1, <3>2, TradeClosed
    <3> QED BY <2>1, <3>1, <3>3
  <2> QED BY <1>1, <1>3, <2>1, <2>3
<1>8. CASE CloseLong
  <2>1. UNCHANGED trades /\ phase # "idle" /\ CloseDerivatives("PE")
    BY <1>8 DEF CloseLong
  <2> QED BY <1>1, <2>1, DerivativesClosed
<1>9. CASE EndShort
  <2>1. /\ phase # "idle" /\ CloseDerivatives("CE")
        /\ trades' = CloseOpenTrade(trades, "SELL", bar, event.price)
    BY <1>9 DEF EndShort
  <2>2. event.price \in Prices
    BY <2>1, EventTyped DEF AccountInv
  <2>3. RowsIn(trades', TradeRow, bar)
    <3>1. PICK r : r = CloseOpenTrade(trades, "SELL", bar, event.price)
      OBVIOUS
    <3>2. PICK last : last = NewestOpen(trades, "SELL")
      OBVIOUS
    <3>3. RowsIn(r, TradeRow, bar)
      BY <1>12, <2>2, <3>1, <3>2, TradeClosed
    <3> QED BY <2>1, <3>1, <3>3
  <2> QED BY <1>1, <2>1, <2>3, DerivativesClosed
<1>10. CASE UNCHANGED <<trades, futuresVars, shadowVars>>
  BY <1>1, <1>3, <1>10 DEF shadowVars
<1>11. ASSUME EvaluateBar \/ RankPaper \/ PaperExit \/ PaperWrite \/ CycleFails
              \/ (\E close \in Prices : Tick(close)) \/ TickExit \/ TickWrite \/ RefreshRead
              \/ RefreshAssign \/ SessionRestarts \/ UNCHANGED vars
       PROVE  UNCHANGED <<trades, futuresVars, shadowVars>>
  BY <1>11 DEF EvaluateBar, RankPaper, PaperExit, PaperWrite, CycleFails, Tick, TickExit, TickWrite,
         RefreshRead, RefreshAssign, SessionRestarts, vars, cycleVars
<1> QED BY <1>4, <1>6, <1>7, <1>8, <1>9, <1>10, <1>11 DEF Next, CycleStep, RankEntries, ProcessSymbol

(* The account's lock after a step.                                        *)
LEMMA LockKept ==
    ASSUME AccountInv, [Next]_vars
    PROVE  LockOK'
<1>1. /\ lock \in Tasks \cup {"free"} /\ closing \in [Tasks -> {NotReading} \cup Nat]
      /\ \A who \in Tasks : closing[who] # NotReading =>
             lock = who /\ closing[who] \in OpenRows(paper) \cup {0}
      /\ phase = "paperWrite" => closing["cycle"] # NotReading
      /\ closing["tick"] # NotReading => tick # 0
      /\ tick \in Prices \cup {0} /\ paper \in Seq(PaperRow)
  BY DEF AccountInv, LockOK, TickType, TablesType, RowsIn
<1>2. /\ "tick" \in Tasks /\ "cycle" \in Tasks /\ "free" \notin Tasks
      /\ \A who \in Tasks : who = "tick" \/ who = "cycle"
      /\ NotReading \notin Nat
  BY CycleAssumption DEF Tasks
<1>3. \/ OpenRows(paper) \subseteq OpenRows(paper')
      \/ PaperWrite \/ TickWrite
  BY PaperKept
<1>4. ASSUME NEW who \in Tasks, SelectRow(who)
      PROVE  /\ lock' = who /\ closing' \in [Tasks -> {NotReading} \cup Nat]
             /\ closing'[who] # NotReading /\ closing'[who] \in OpenRows(paper) \cup {0}
             /\ \A other \in Tasks : other # who => closing'[other] = NotReading
  <2>1. lock = "free" /\ lock' = who
        /\ closing' = [closing EXCEPT ![who] = LatestOpen(paper, {"BUY"})]
    BY <1>4 DEF SelectRow
  <2>2. LatestOpen(paper, {"BUY"}) \in Nat /\ LatestOpen(paper, {"BUY"}) \in OpenRows(paper) \cup {0}
    BY <1>1, LatestOpenIs, LatestOpenRow
  <2>3. \A other \in Tasks : closing[other] = NotReading
    BY <1>1, <1>2, <2>1
  <2> QED BY <1>1, <1>2, <1>4, <2>1, <2>2, <2>3
<1>5. ASSUME NEW who \in Tasks, closing[who] # NotReading, NEW close \in Prices,
             CloseRow(who, close)
      PROVE  /\ lock' = "free" /\ closing' \in [Tasks -> {NotReading} \cup Nat]
             /\ \A other \in Tasks : closing'[other] = NotReading
  <2>1. lock' = "free" /\ closing' = [closing EXCEPT ![who] = NotReading]
    BY <1>5 DEF CloseRow
  <2>2. \A other \in Tasks : other # who => closing[other] = NotReading
    BY <1>1, <1>5
  <2> QED BY <1>1, <1>5, <2>1, <2>2
<1>6. CASE PaperExit
  <2>1. /\ SelectRow("cycle") /\ phase' = "paperWrite" /\ UNCHANGED paper
    BY <1>6 DEF PaperExit
  <2>2. /\ lock' = "cycle" /\ closing' \in [Tasks -> {NotReading} \cup Nat]
        /\ closing'["cycle"] # NotReading /\ closing'["cycle"] \in OpenRows(paper) \cup {0}
        /\ \A other \in Tasks : other # "cycle" => closing'[other] = NotReading
    BY <1>2, <1>4, <2>1
  <2> QED BY <1>2, <2>1, <2>2 DEF LockOK
<1>7. CASE TickExit
  <2>1. SelectRow("tick") /\ UNCHANGED <<paper, phase, tick>> /\ tick # 0
    BY <1>7 DEF TickExit, tickVars, cycleVars
  <2>2. /\ lock' = "tick" /\ closing' \in [Tasks -> {NotReading} \cup Nat]
        /\ closing'["tick"] # NotReading /\ closing'["tick"] \in OpenRows(paper) \cup {0}
        /\ \A other \in Tasks : other # "tick" => closing'[other] = NotReading
    BY <1>2, <1>4, <2>1
  <2>3. phase # "paperWrite"
    BY <1>1, <1>2, <2>1 DEF SelectRow
  <2> QED BY <1>2, <2>1, <2>2, <2>3 DEF LockOK
<1>8. CASE PaperWrite
  <2>1. phase = "paperWrite" /\ CloseRow("cycle", event.price) /\ phase' = "longExits"
    BY <1>8 DEF PaperWrite
  <2>2. event.price \in Prices
    BY <2>1, EventTyped DEF AccountInv
  <2>3. /\ lock' = "free" /\ closing' \in [Tasks -> {NotReading} \cup Nat]
        /\ \A other \in Tasks : closing'[other] = NotReading
    BY <1>1, <1>2, <1>5, <2>1, <2>2
  <2> QED BY <1>2, <2>1, <2>3 DEF LockOK
<1>9. CASE TickWrite
  <2>1. closing["tick"] # NotReading /\ CloseRow("tick", tick) /\ phase' = phase
    BY <1>9 DEF TickWrite, cycleVars
  <2>2. tick \in Prices
    BY <1>1, <2>1
  <2>3. /\ lock' = "free" /\ closing' \in [Tasks -> {NotReading} \cup Nat]
        /\ \A other \in Tasks : closing'[other] = NotReading
    BY <1>2, <1>5, <2>1, <2>2
  <2>4. phase # "paperWrite"
    BY <1>1, <1>2, <2>1
  <2> QED BY <1>2, <2>1, <2>3, <2>4 DEF LockOK
<1>10. CASE CycleFails
  <2>1. /\ phase' = "idle" /\ UNCHANGED <<paper, tick>>
        /\ closing' = [closing EXCEPT !["cycle"] = NotReading]
        /\ lock' = IF lock = "cycle" THEN "free" ELSE lock
    BY <1>10 DEF CycleFails, tickVars
  <2>2. /\ closing' \in [Tasks -> {NotReading} \cup Nat] /\ closing'["cycle"] = NotReading
        /\ closing'["tick"] = closing["tick"] /\ lock' \in Tasks \cup {"free"}
    BY <1>1, <1>2, <2>1
  <2> QED BY <1>1, <1>2, <2>1, <2>2 DEF LockOK
<1>11. CASE SessionRestarts
  <2>1. phase' = "idle" /\ lock' = "free" /\ closing' = [who \in Tasks |-> NotReading]
    BY <1>11 DEF SessionRestarts
  <2>2. closing' \in [Tasks -> {NotReading} \cup Nat] /\ \A who \in Tasks : closing'[who] = NotReading
    BY <2>1
  <2> QED BY <1>2, <2>1, <2>2 DEF LockOK
<1>12. ASSUME UNCHANGED <<lock, closing>>, ~PaperWrite, ~TickWrite,
              phase' # "paperWrite" \/ phase = "paperWrite",
              closing["tick"] # NotReading => tick' # 0
       PROVE  LockOK'
  <2>1. OpenRows(paper) \subseteq OpenRows(paper')
    BY <1>3, <1>12
  <2>2. \A who \in Tasks : closing'[who] # NotReading =>
            lock' = who /\ closing'[who] \in OpenRows(paper') \cup {0}
    BY <1>1, <1>12, <2>1
  <2>3. \A who \in Tasks : closing[who] # NotReading =>
            lock = who /\ closing[who] \in OpenRows(paper') \cup {0}
    BY <1>12, <2>2
  <2> QED BY <1>1, <1>12, <2>2 DEF LockOK
<1>13. ASSUME NEW close \in Prices, Tick(close)
       PROVE  LockOK'
  <2>1. /\ tick = 0 /\ UNCHANGED <<lock, closing, phase>>
    BY <1>13 DEF Tick, cycleVars
  <2>2. OpenRows(paper) \subseteq OpenRows(paper')
    <3>1. paper' = paper \/ paper' = UpdatePeakPrice(paper, close)
      BY <1>13 DEF Tick, CheckStopLoss, ForceClose
    <3>2. OpenRows(paper) \subseteq OpenRows(UpdatePeakPrice(paper, close))
      BY DEF OpenRows, UpdatePeakPrice
    <3> QED BY <3>1, <3>2
  <2>3. \A who \in Tasks : closing'[who] # NotReading =>
            lock' = who /\ closing'[who] \in OpenRows(paper') \cup {0}
    BY <1>1, <2>1, <2>2
  <2> QED BY <1>1, <1>2, <2>1, <2>3 DEF LockOK
<1>14. ASSUME EvaluateBar \/ RankPaper \/ RankFutures \/ RecordBuy \/ RecordSell \/ EndLong
              \/ CloseLong \/ EndShort
       PROVE  LockOK'
  <2>1. /\ UNCHANGED <<lock, closing, tick>> /\ phase' # "paperWrite"
    <3>1. /\ AfterRanking # "paperWrite" /\ AfterBuy # "paperWrite" /\ AfterLong # "paperWrite"
          /\ AfterSell # "paperWrite"
      BY AfterIs
    <3> QED BY <1>14, <3>1 DEF EvaluateBar, RankPaper, RankFutures, RecordBuy, RecordSell, Enter,
               EndLong, CloseLong, EndShort, paperVars, tickVars
  <2>2. ~PaperWrite /\ ~TickWrite
    <3>1. ~PaperWrite
      BY <1>14 DEF PaperWrite, EvaluateBar, RankPaper, RankFutures, RecordBuy, RecordSell, EndLong,
                   CloseLong, EndShort
    <3>2. ~TickWrite
      BY <1>1, <2>1 DEF TickWrite
    <3> QED BY <3>1, <3>2
  <2> QED BY <1>1, <1>12, <2>1, <2>2
<1>15. ASSUME RefreshRead \/ RefreshAssign \/ UNCHANGED vars
       PROVE  LockOK'
  <2>1. UNCHANGED <<lock, closing, tick, phase, paper>>
    BY <1>15 DEF RefreshRead, RefreshAssign, vars, cycleVars, paperVars, tickVars
  <2> QED BY <1>1, <2>1 DEF LockOK
<1> QED BY <1>6, <1>7, <1>8, <1>9, <1>10, <1>11, <1>13, <1>14, <1>15 DEF Next, CycleStep, RankEntries,
           ProcessSymbol

LEMMA AccountKept ==
    ASSUME AccountInv, [Next]_vars
    PROVE  AccountInv'
<1>1. CycleType' /\ TickType' /\ LockOK'
  BY CycleTyped, TickTyped, LockKept
<1>2. TablesType'
  BY PaperKept, TablesKept DEF TablesType
<1>3. Balanced'
  BY PaperKept, TablesKept DEF Balanced
<1> QED BY <1>1, <1>2, <1>3 DEF AccountInv

LEMMA AccountInit ==
    ASSUME Init
    PROVE  AccountInv
<1>1. events = <<>> /\ trades = <<>> /\ paper = <<>> /\ combos = <<>> /\ futureLegs = <<>>
      /\ optionLegs = <<>> /\ cash = InitialCapital /\ futuresCash = FuturesCapital
  BY DEF Init
<1>2. bar = 0 /\ bar <= MaxBars
  BY <1>1, Constants DEF bar
<1>3. CycleType
  <2>1. strategy \in StrategyState /\ events \in Seq(EventType) /\ faults \in 0..MaxFaults
    BY <1>1, Constants DEF Init, FreshStrategy, StrategyState, Directions
  <2> QED BY <1>2, <2>1 DEF CycleType, Init
<1>4. \A type : RowsIn(<<>>, type, bar)
  BY DEF RowsIn
<1>5. TablesType
  BY <1>1, <1>4, Constants DEF TablesType
<1>6. TickType
  BY DEF TickType, Init
<1>7. LockOK
  <2>1. lock = "free" /\ closing \in [Tasks -> {NotReading} \cup Nat] /\ phase = "idle"
        /\ \A who \in Tasks : closing[who] = NotReading
    BY DEF Init
  <2> QED BY <2>1 DEF LockOK, Tasks
<1>8. \A type : OpenRows(<<>>) = {} /\ <<>> \in Seq(type)
  BY DEF OpenRows
<1>9. PaperBalances(cash, paper)
  <2>1. paper \in Seq(PaperRow) /\ OpenRows(paper) = {} /\ DOMAIN paper \ OpenRows(paper) = {}
    BY <1>1, <1>8
  <2>2. /\ Committed(paper) = Total(Allocations(paper), {})
        /\ MapThenSumSet(LAMBDA i : PaperPnl(paper[i]), DOMAIN paper \ OpenRows(paper))
               = Total(Gains(paper), {})
    BY <2>1, PaperSums
  <2>3. Total(Allocations(paper), {}) = 0 /\ Total(Gains(paper), {}) = 0
    BY TotalSplits, FS_EmptySet
  <2> QED BY <1>1, <2>2, <2>3, Constants DEF PaperBalances
<1>10. ComboBalances(futuresCash, combos)
  <2>1. /\ combos \in Seq(LegRow(FuturesSides)) /\ OpenRows(combos) = {}
        /\ DOMAIN combos \ OpenRows(combos) = {} /\ Cardinality(OpenRows(combos)) = 0
    BY <1>1, <1>8, FS_EmptySet
  <2>2. MapThenSumSet(LAMBDA i : LegPnl(combos[i]), DOMAIN combos \ OpenRows(combos))
            = Total(LegGains(combos), {})
    BY <2>1, ComboSums
  <2>3. Total(LegGains(combos), {}) = 0
    BY TotalSplits, FS_EmptySet
  <2>4. Margin * Cardinality(OpenRows(combos)) = 0
    BY <2>1, Constants
  <2> QED BY <1>1, <2>2, <2>3, <2>4, Constants DEF ComboBalances
<1> QED BY <1>3, <1>5, <1>6, <1>7, <1>9, <1>10 DEF AccountInv, Balanced

LEMMA AccountHolds == Spec => []AccountInv
<1>1. Init => AccountInv
  BY AccountInit
<1>2. AccountInv /\ [Next]_vars => AccountInv'
  BY AccountKept
<1> QED BY <1>1, <1>2, PTL DEF Spec

(* Every table holds rows of its own kind, of bars that were evaluated, at *)
(* prices the symbol traded at; a row that is about to be closed is one of *)
(* the account's; and the paper account never spends what it has not got.  *)
THEOREM TypesHold == Spec => []TypeOK
<1>1. ASSUME AccountInv PROVE TypeOK
  <2>1. CycleType /\ TablesType /\ TickType /\ LockOK
    BY <1>1 DEF AccountInv
  <2>2. bar \in Nat /\ bar <= MaxBars /\ MaxBars \in Nat
    BY <2>1, LenProperties, Constants DEF CycleType, bar
  <2>3. /\ RowsOf(trades, Sides) /\ RowsOf(paper, {"BUY"})
        /\ RowsOf(combos, FuturesSides) /\ RowsOf(futureLegs, FuturesSides)
        /\ RowsOf(optionLegs, {"PE", "CE"})
    <3>1. RowsOf(trades, Sides)
      <4>1. \A i \in DOMAIN trades : trades[i] \in TradeRow /\ trades[i].bar \in 1..bar
        BY <2>1, Rows DEF TablesType, RowsIn
      <4> QED BY <4>1 DEF RowsOf, Range, TradeRow
    <3>2. RowsOf(paper, {"BUY"})
      <4>1. \A i \in DOMAIN paper : paper[i] \in PaperRow /\ paper[i].bar \in 1..bar
        BY <2>1, Rows DEF TablesType, RowsIn
      <4> QED BY <4>1 DEF RowsOf, Range, PaperRow
    <3>3. ASSUME NEW sides, NEW rows, RowsIn(rows, LegRow(sides), bar)
          PROVE  RowsOf(rows, sides)
      <4>1. \A i \in DOMAIN rows : rows[i] \in LegRow(sides) /\ rows[i].bar \in 1..bar
        BY <3>3, Rows DEF RowsIn
      <4> QED BY <4>1 DEF RowsOf, Range, LegRow
    <3>4. RowsOf(optionLegs, OptionSides)
      BY <2>1, <3>3 DEF TablesType
    <3> QED BY <2>1, <3>1, <3>2, <3>3, <3>4 DEF TablesType, OptionSides
  <2>4. closing \in [Tasks -> {NotReading} \cup 0..Len(paper)]
    <3>1. /\ closing \in [Tasks -> {NotReading} \cup Nat]
          /\ \A who \in Tasks : closing[who] # NotReading => closing[who] \in OpenRows(paper) \cup {0}
          /\ paper \in Seq(PaperRow)
      BY <2>1 DEF LockOK, TablesType, RowsIn
    <3>2. \A i \in OpenRows(paper) \cup {0} : i \in 0..Len(paper)
      BY <3>1, Rows
    <3> QED BY <3>1, <3>2
  <2>5. /\ price \in Prices /\ strategy \in StrategyState /\ bar \in 0..MaxBars /\ lost \subseteq 1..bar
        /\ faults \in 0..MaxFaults /\ cash \in Nat /\ futuresCash \in Int
        /\ lock \in Tasks \cup {"free"} /\ tick \in Prices \cup {0}
    BY <2>1, <2>2 DEF CycleType, TablesType, TickType, LockOK
  <2>6. /\ cache \in {NoPosition} \cup [entry : Prices, peak : Prices]
        /\ snapshot \in {NotReading, NoPosition} \cup [entry : Prices, peak : Prices]
    BY <2>1 DEF TickType
  <2>7. phase \in {"idle", "paper", "futures", "buy", "endLong", "paperExit", "paperWrite",
                   "longExits", "sell", "endShort"}
    BY <2>1 DEF CycleType, Phases
  <2> QED BY <2>3, <2>4, <2>5, <2>6, <2>7 DEF TypeOK
<1> QED BY <1>1, AccountHolds, PTL

(* The paper accounts lose and invent no money, however the tick task, the *)
(* strategy's exit and the ranked entries interleave and whichever calls   *)
(* fail: what a close credits is the row it read under the account's lock, *)
(* which no other step can close before it is written                      *)
(* (paper_account.py open_position, close_position), and a combo's margin  *)
(* is taken and given back with its row (futures_paper.py).                *)
THEOREM MoneyHolds == Spec => []MoneyConserved
<1>1. AccountInv => MoneyConserved
  BY DEF AccountInv, Balanced, MoneyConserved, PaperBalances, ComboBalances
<1> QED BY <1>1, AccountHolds, PTL

-------------------------------------------------------------------------------
(* Pine's replay of the bars so far.                                       *)

LEMMA ReplayExists ==
    ASSUME NEW evs, Len(evs) \in Nat
    PROVE  \E f : Replays(f, evs)
<1> DEFINE Z == NothingReplayed
           Upto(f, k) ==
               f = [n \in 0..k |-> IF n = 0 THEN Z ELSE PineBar(f[n - 1], n, evs[n])]
           Good == {k \in 0..Len(evs) : \E f : Upto(f, k)}
<1>1. 0 \in Good
  <2>1. PICK f : f = [n \in 0..0 |-> Z]
    OBVIOUS
  <2>2. f = [n \in 0..0 |-> IF n = 0 THEN Z ELSE PineBar(f[n - 1], n, evs[n])]
    BY <2>1
  <2> QED BY <2>2
<1>2. ASSUME NEW i \in 0..Len(evs), i # 0, i - 1 \in Good PROVE i \in Good
  <2>1. PICK f : Upto(f, i - 1)
    BY <1>2
  <2>2. PICK g : g = [n \in 0..i |-> IF n = i THEN PineBar(f[i - 1], i, evs[i]) ELSE f[n]]
    OBVIOUS
  <2>3. i \in Nat /\ i >= 1 /\ i - 1 \in Nat
    BY <1>2
  <2>4. ASSUME NEW n \in 0..i
        PROVE  g[n] = IF n = 0 THEN Z ELSE PineBar(g[n - 1], n, evs[n])
    <3>1. CASE n = i
      <4>1. i - 1 \in 0..i /\ i - 1 # i
        BY <2>3
      <4>2. g[i - 1] = f[i - 1] /\ g[i] = PineBar(f[i - 1], i, evs[i])
        BY <2>2, <2>3, <4>1
      <4> QED BY <2>3, <3>1, <4>2
    <3>2. CASE n # i
      <4>1. n \in 0..(i - 1) /\ (n # 0 => n - 1 \in 0..i /\ n - 1 # i)
        BY <2>3, <3>2
      <4>2. f[n] = IF n = 0 THEN Z ELSE PineBar(f[n - 1], n, evs[n])
        BY <2>1, <4>1
      <4>3. g[n] = f[n] /\ (n # 0 => g[n - 1] = f[n - 1])
        BY <2>2, <3>2, <4>1
      <4> QED BY <4>2, <4>3
    <3> QED BY <3>1, <3>2
  <2>5. Upto(g, i)
    BY <2>2, <2>4
  <2> QED BY <2>5
<1> HIDE DEF Good
<1>3. \A i \in 0..Len(evs) : i \in Good
  BY <1>1, <1>2, NumberInduction
<1>4. Len(evs) \in Good
  BY <1>3
<1> QED BY <1>4 DEF Good, Replays

LEMMA ReplayUnique ==
    ASSUME NEW evs, Len(evs) \in Nat, NEW f, NEW g, Replays(f, evs), Replays(g, evs)
    PROVE  \A n \in 0..Len(evs) : f[n] = g[n]
<1> DEFINE Good == {k \in 0..Len(evs) : f[k] = g[k]}
<1>1. ASSUME NEW n \in 0..Len(evs)
      PROVE  /\ f[n] = IF n = 0 THEN NothingReplayed ELSE PineBar(f[n - 1], n, evs[n])
             /\ g[n] = IF n = 0 THEN NothingReplayed ELSE PineBar(g[n - 1], n, evs[n])
  BY DEF Replays
<1>2. 0 \in Good
  BY <1>1
<1>3. ASSUME NEW i \in 0..Len(evs), i # 0, i - 1 \in Good PROVE i \in Good
  BY <1>1, <1>3
<1> HIDE DEF Good
<1>4. \A i \in 0..Len(evs) : i \in Good
  BY <1>2, <1>3, NumberInduction
<1> QED BY <1>4 DEF Good

LEMMA PineIs ==
    ASSUME NEW evs, Len(evs) \in Nat
    PROVE  /\ Replays(Pine(evs), evs)
           /\ Pine(evs)[0] = NothingReplayed
           /\ \A n \in 1..Len(evs) : Pine(evs)[n] = PineBar(Pine(evs)[n - 1], n, evs[n])
           /\ ReplayPineBacktest(evs) = Pine(evs)[Len(evs)]
<1> DEFINE f == Pine(evs)
<1>1. Replays(f, evs)
  BY ReplayExists DEF Pine
<1>2. ReplayPineBacktest(evs) = f[Len(evs)]
  BY DEF ReplayPineBacktest, Pine, Replays, NothingReplayed
<1> HIDE DEF f
<1>3. \A n \in 0..Len(evs) :
          f[n] = IF n = 0 THEN NothingReplayed ELSE PineBar(f[n - 1], n, evs[n])
  BY <1>1 DEF Replays
<1>4. f[0] = NothingReplayed
  BY <1>3
<1>5. \A n \in 1..Len(evs) : f[n] = PineBar(f[n - 1], n, evs[n])
  BY <1>3
<1> QED BY <1>1, <1>2, <1>4, <1>5 DEF f

(* A bar more does not change what the bars before it came to.             *)
LEMMA PineAppended ==
    ASSUME NEW S, NEW evs \in Seq(S), NEW e \in S, NEW more, more = Append(evs, e)
    PROVE  /\ \A n \in 0..Len(evs) : Pine(more)[n] = Pine(evs)[n]
           /\ Pine(more)[Len(more)] = PineBar(Pine(evs)[Len(evs)], Len(more), e)
<1>1. /\ Len(evs) \in Nat /\ Len(more) = Len(evs) + 1
      /\ \A i \in 1..Len(evs) : more[i] = evs[i]
      /\ more[Len(more)] = e
  BY Appended
<1> DEFINE f == Pine(more)
<1>2. /\ f[0] = NothingReplayed
      /\ \A n \in 1..Len(more) : f[n] = PineBar(f[n - 1], n, more[n])
  <2>1. Len(more) \in Nat
    BY <1>1
  <2> QED BY ONLY <2>1, PineIs
<1> HIDE DEF f
<1>3. PICK g : g = [n \in 0..Len(evs) |-> f[n]]
  OBVIOUS
<1>4. ASSUME NEW n \in 0..Len(evs)
      PROVE  g[n] = IF n = 0 THEN NothingReplayed ELSE PineBar(g[n - 1], n, evs[n])
  <2>1. CASE n = 0
    BY <1>2, <1>3, <2>1
  <2>2. CASE n # 0
    <3>1. n \in 1..Len(evs) /\ n \in 1..Len(more) /\ n - 1 \in 0..Len(evs)
      BY <1>1, <2>2
    <3> QED BY <1>1, <1>2, <1>3, <2>2, <3>1
  <2> QED BY <2>1, <2>2
<1>5. Replays(g, evs)
  BY <1>3, <1>4 DEF Replays
<1>6. \A n \in 0..Len(evs) : g[n] = Pine(evs)[n]
  BY <1>1, <1>5, PineIs, ReplayUnique
<1>7. \A n \in 0..Len(evs) : f[n] = Pine(evs)[n]
  BY <1>3, <1>6
<1>8. f[Len(more)] = PineBar(Pine(evs)[Len(evs)], Len(more), e)
  <2>1. Len(more) \in 1..Len(more) /\ Len(more) - 1 = Len(evs) /\ Len(evs) \in 0..Len(evs)
    BY <1>1
  <2> QED BY <1>1, <1>2, <1>7, <2>1
<1> QED BY <1>7, <1>8 DEF f

-------------------------------------------------------------------------------
(* The strategy's flags and Pine's position.                               *)

LEMMA Evaluated ==
    ASSUME NEW s \in StrategyState, s.longLive => s.bullish, s.shortLive => ~s.bullish,
           NEW direction \in Directions, NEW bullish \in BOOLEAN, NEW close,
           NEW e, e = Evaluation(s, direction, bullish, close),
           NEW t, t = AdvancedExits(s, direction, bullish)
    PROVE  /\ t.longLive => t.bullish
           /\ t.shortLive => ~t.bullish
           /\ e.signal = "BUY" => t.longLive
           /\ e.signal = "SELL" => t.shortLive
           /\ e.endLong => ~t.bullish
           /\ e.endShort => t.bullish
           /\ e.endLong => s.longLive
           /\ e.endShort => s.shortLive
           /\ t.longLive <=> (e.signal = "BUY" \/ (s.longLive /\ ~e.endLong))
           /\ t.shortLive <=> (e.signal = "SELL" \/ (s.shortLive /\ ~e.endShort))
<1> DEFINE signal == EntrySignal(s, direction, bullish)
<1>1. /\ e.signal = signal /\ e.endLong = (s.bullish /\ ~bullish /\ s.longLive)
      /\ e.endShort = (~s.bullish /\ bullish /\ s.shortLive)
  BY DEF Evaluation, EndsLong, EndsShort, TurnsBearish, TurnsBullish
<1>2. /\ t.bullish = bullish
      /\ t.longLive = (signal = "BUY" \/ (s.longLive /\ ~(s.bullish /\ ~bullish)))
      /\ t.shortLive = (signal = "SELL" \/ (s.shortLive /\ ~(~s.bullish /\ bullish)))
  BY DEF AdvancedExits, TurnsBearish, TurnsBullish
<1>3. (signal = "BUY" => bullish) /\ (signal = "SELL" => ~bullish)
  BY DEF EntrySignal
<1>4. s.bullish \in BOOLEAN /\ s.longLive \in BOOLEAN /\ s.shortLive \in BOOLEAN
  BY DEF StrategyState
<1> HIDE DEF signal
<1> QED BY <1>1, <1>2, <1>3, <1>4

(* What a bar makes of Pine's state, stage by stage.                       *)
LEMMA Stages ==
    ASSUME NEW p, NEW b, NEW e \in EventType,
           NEW entered, entered = PineSoFar(p, b, e, "entered"),
           NEW exited, exited = PineSoFar(p, b, e, "exited"),
           NEW reversed, reversed = PineSoFar(p, b, e, "reversed"),
           NEW after, after = PineBar(p, b, e)
    PROVE  /\ entered.scored = p.scored
           /\ e.signal = "BUY" => entered.current = Started("BUY", b, e)
           /\ e.signal # "BUY" => entered.current = p.current
           /\ IF e.endLong /\ entered.current.side = "BUY"
              THEN /\ exited.current = Flat
                   /\ exited.scored = entered.scored \cup {ScoredTrade(entered.current, b, e)}
              ELSE exited.current = entered.current /\ exited.scored = entered.scored
           /\ reversed.scored = exited.scored
           /\ e.signal = "SELL" => reversed.current = Started("SELL", b, e)
           /\ e.signal # "SELL" => reversed.current = exited.current
           /\ IF e.endShort /\ reversed.current.side = "SELL"
              THEN /\ after.current = Flat
                   /\ after.scored = reversed.scored \cup {ScoredTrade(reversed.current, b, e)}
              ELSE after.current = reversed.current /\ after.scored = reversed.scored
<1> DEFINE long == IF e.signal = "BUY" THEN Started("BUY", b, e) ELSE p.current
           endsLong == e.endLong /\ long.side = "BUY"
           held == IF endsLong THEN Flat ELSE long
           short == IF e.signal = "SELL" THEN Started("SELL", b, e) ELSE held
           endsShort == e.endShort /\ short.side = "SELL"
           sold == p.scored \cup (IF endsLong THEN {ScoredTrade(long, b, e)} ELSE {})
<1>1. entered = [current |-> long, scored |-> p.scored]
  BY DEF PineSoFar
<1>2. exited = [current |-> held, scored |-> sold]
  BY DEF PineSoFar
<1>3. reversed = [current |-> short, scored |-> sold]
  BY DEF PineSoFar
<1>4. after = [current |-> IF endsShort THEN Flat ELSE short,
               scored |-> sold \cup (IF endsShort THEN {ScoredTrade(short, b, e)} ELSE {})]
  BY DEF PineBar
<1>5. sold = IF endsLong THEN p.scored \cup {ScoredTrade(long, b, e)} ELSE p.scored
  OBVIOUS
<1> HIDE DEF short, sold
<1>6. after.scored = IF endsShort THEN sold \cup {ScoredTrade(short, b, e)} ELSE sold
  BY <1>4
<1> HIDE DEF held
<1>7. /\ entered.current = long /\ entered.scored = p.scored
      /\ exited.current = held /\ exited.scored = sold
      /\ reversed.current = short /\ reversed.scored = sold
      /\ after.current = IF endsShort THEN Flat ELSE short
  BY <1>1, <1>2, <1>3, <1>4
<1>8. /\ e.signal = "SELL" => short = Started("SELL", b, e)
      /\ e.signal # "SELL" => short = held
      /\ held = IF endsLong THEN Flat ELSE long
      /\ e.signal = "BUY" => long = Started("BUY", b, e)
      /\ e.signal # "BUY" => long = p.current
  BY DEF short, held
<1> HIDE DEF long
<1> QED BY <1>5, <1>6, <1>7, <1>8

(* The position Pine has after a bar is the one the strategy's flags name. *)
LEMMA PinePosition ==
    ASSUME NEW p, NEW b, NEW e \in EventType, NEW s \in StrategyState, NEW t \in StrategyState,
           (p.current.side = "BUY") <=> s.longLive, (p.current.side = "SELL") <=> s.shortLive,
           t.longLive => t.bullish, t.shortLive => ~t.bullish,
           e.signal = "BUY" => t.longLive, e.signal = "SELL" => t.shortLive,
           e.endLong => ~t.bullish, e.endShort => t.bullish,
           t.longLive <=> (e.signal = "BUY" \/ (s.longLive /\ ~e.endLong)),
           t.shortLive <=> (e.signal = "SELL" \/ (s.shortLive /\ ~e.endShort))
    PROVE  LET side == PineBar(p, b, e).current.side
           IN  ((side = "BUY") <=> t.longLive) /\ ((side = "SELL") <=> t.shortLive)
<1>1. PICK entered : entered = PineSoFar(p, b, e, "entered")
  OBVIOUS
<1>2. PICK exited : exited = PineSoFar(p, b, e, "exited")
  OBVIOUS
<1>3. PICK reversed : reversed = PineSoFar(p, b, e, "reversed")
  OBVIOUS
<1>4. PICK after : after = PineBar(p, b, e)
  OBVIOUS
<1>5. /\ e.signal = "BUY" => entered.current = Started("BUY", b, e)
      /\ e.signal # "BUY" => entered.current = p.current
      /\ exited.current = IF e.endLong /\ entered.current.side = "BUY" THEN Flat ELSE entered.current
      /\ e.signal = "SELL" => reversed.current = Started("SELL", b, e)
      /\ e.signal # "SELL" => reversed.current = exited.current
      /\ after.current = IF e.endShort /\ reversed.current.side = "SELL" THEN Flat
                         ELSE reversed.current
  BY <1>1, <1>2, <1>3, <1>4, Stages
<1>6. /\ Started("BUY", b, e).side = "BUY" /\ Started("SELL", b, e).side = "SELL"
      /\ Flat.side = "none"
  BY DEF Started, Flat
<1>7. /\ s.longLive \in BOOLEAN /\ s.shortLive \in BOOLEAN /\ t.longLive \in BOOLEAN
      /\ t.shortLive \in BOOLEAN /\ t.bullish \in BOOLEAN /\ e.endLong \in BOOLEAN
      /\ e.endShort \in BOOLEAN
  BY DEF StrategyState, EventType
<1>8. (after.current.side = "BUY") <=> t.longLive
  <2>1. CASE e.signal = "BUY"
    BY <1>5, <1>6, <1>7, <2>1
  <2>2. CASE e.signal = "SELL"
    BY <1>5, <1>6, <1>7, <2>2
  <2>3. CASE e.signal # "BUY" /\ e.signal # "SELL"
    BY <1>5, <1>6, <1>7, <2>3
  <2> QED BY <2>1, <2>2, <2>3
<1>9. (after.current.side = "SELL") <=> t.shortLive
  <2>1. CASE e.signal = "BUY"
    BY <1>5, <1>6, <1>7, <2>1
  <2>2. CASE e.signal = "SELL"
    BY <1>5, <1>6, <1>7, <2>2
  <2>3. CASE e.signal # "BUY" /\ e.signal # "SELL"
    BY <1>5, <1>6, <1>7, <2>3
  <2> QED BY <2>1, <2>2, <2>3
<1> QED BY <1>4, <1>8, <1>9

-------------------------------------------------------------------------------
(* The trades table against Pine's replay.                                 *)

ScoreOf(row) == [side |-> row.side, bar |-> row.bar, entry |-> row.entry,
                 exitBar |-> row.exitBar, exit |-> row.exit]

LEMMA ClosedIs ==
    ASSUME NEW rows, NEW x
    PROVE  x \in ClosedTrades(rows) <=>
               \E i \in DOMAIN rows : rows[i].status = "closed" /\ x = ScoreOf(rows[i])
BY DEF ClosedTrades, ScoreOf, Range

(* An entry abandons the other side's trade and opens its own.             *)
LEMMA EntryAgrees ==
    ASSUME NEW b \in Nat, b >= 1, NEW q, RowsIn(q, TradeRow, b), NEW side \in Sides,
           NEW e, e.price \in Prices, NEW before, NEW after, Agrees(q, before),
           after.current = Started(side, b, e), after.scored = before.scored,
           NEW r, r = OpenTrade(AbandonOpenTrade(q, Opposite(side)), side, b, e.price)
    PROVE  Agrees(r, after)
<1> DEFINE other == Opposite(side)
<1>1. PICK m : m = AbandonOpenTrade(q, other)
  OBVIOUS
<1>2. /\ RowsIn(m, TradeRow, b) /\ DOMAIN m = DOMAIN q
      /\ \A i \in DOMAIN q :
            /\ m[i].side = q[i].side /\ m[i].bar = q[i].bar /\ m[i].entry = q[i].entry
            /\ m[i].exitBar = q[i].exitBar /\ m[i].exit = q[i].exit
            /\ m[i].status = IF q[i].status = "open" /\ q[i].side = other
                             THEN "abandoned" ELSE q[i].status
  BY <1>1, TradesAbandoned
<1>3. r = OpenTrade(m, side, b, e.price)
  BY <1>1
<1>4. /\ RowsIn(r, TradeRow, b)
      /\ \A i : i \in DOMAIN r <=> i \in DOMAIN m \/ i = Len(r)
      /\ Len(r) \notin DOMAIN m /\ \A i \in DOMAIN m : r[i] = m[i] /\ i <= Len(r)
      /\ r[Len(r)].side = side /\ r[Len(r)].status = "open" /\ r[Len(r)].bar = b
      /\ r[Len(r)].entry = e.price
  BY <1>2, <1>3, TradeOpened
<1>5. other # side
  BY OppositeIs
<1> HIDE DEF other
<1>6. ClosedTrades(r) = ClosedTrades(q)
  <2>1. \A i \in DOMAIN q : m[i].status = "closed" <=> q[i].status = "closed"
    BY <1>2
  <2>2. \A i \in DOMAIN q : ScoreOf(m[i]) = ScoreOf(q[i])
    BY <1>2 DEF ScoreOf
  <2>3. ASSUME NEW x
        PROVE  x \in ClosedTrades(r) <=> x \in ClosedTrades(q)
    <3>1. x \in ClosedTrades(r) <=>
              \E i \in DOMAIN r : r[i].status = "closed" /\ x = ScoreOf(r[i])
      BY ClosedIs
    <3>2. x \in ClosedTrades(q) <=>
              \E i \in DOMAIN q : q[i].status = "closed" /\ x = ScoreOf(q[i])
      BY ClosedIs
    <3> QED BY <1>2, <1>4, <2>1, <2>2, <3>1, <3>2
  <2> QED BY <2>3
<1>7. OpenOf(r, other) = {}
  <2>1. ASSUME NEW i \in DOMAIN r, r[i].status = "open", r[i].side = other
        PROVE  FALSE
    <3>1. i \in DOMAIN q /\ r[i] = m[i]
      BY <1>2, <1>4, <1>5, <2>1
    <3>2. q[i].side = other /\ m[i].status = "open"
      BY <1>2, <2>1, <3>1
    <3> QED BY <1>2, <3>1, <3>2
  <2> QED BY <2>1 DEF OpenOf
<1>8. PICK last : last = NewestOpen(r, side)
  OBVIOUS
<1>9. last = Len(r) /\ last # 0
  <2>1. Len(r) \in OpenOf(r, side)
    BY <1>4 DEF OpenOf
  <2>2. r \in Seq(TradeRow)
    BY <1>4 DEF RowsIn
  <2>3. last # 0 /\ last \in OpenOf(r, side) /\ Len(r) <= last
    BY <1>8, <2>1, <2>2, NewestIs
  <2>4. last \in DOMAIN r /\ last \in Nat /\ Len(r) \in Nat
    BY <2>2, <2>3, Rows DEF OpenOf
  <2>5. last <= Len(r)
    BY <1>4, <2>4
  <2> QED BY <2>3, <2>4, <2>5
<1>10. /\ after.current.side = side /\ after.current.bar = b /\ after.current.entry = e.price
  BY DEF Started
<1>11. ClosedTrades(r) = after.scored
  BY <1>6 DEF Agrees
<1>12. OpenOf(r, Opposite(after.current.side)) = {}
  BY <1>7, <1>10 DEF other
<1>13. /\ NewestOpen(r, after.current.side) # 0
       /\ r[NewestOpen(r, after.current.side)].bar = after.current.bar
       /\ r[NewestOpen(r, after.current.side)].entry = after.current.entry
  BY <1>4, <1>8, <1>9, <1>10
<1> QED BY <1>11, <1>12, <1>13 DEF Agrees

(* An exit closes the trade Pine closes, and no other side's.              *)
LEMMA ExitAgrees ==
    ASSUME NEW b \in Nat, NEW q, RowsIn(q, TradeRow, b), NEW side \in Sides,
           NEW e, e.price \in Prices, NEW before, NEW after, Agrees(q, before),
           before.current.side \in Sides,
           IF before.current.side = side
           THEN /\ after.current = Flat
                /\ after.scored = before.scored \cup {ScoredTrade(before.current, b, e)}
           ELSE after.current = before.current /\ after.scored = before.scored,
           NEW r, r = CloseOpenTrade(q, side, b, e.price)
    PROVE  Agrees(r, after)
<1>1. PICK last : last = NewestOpen(q, side)
  OBVIOUS
<1>2. /\ RowsIn(r, TradeRow, b) /\ DOMAIN r = DOMAIN q
      /\ last = 0 => r = q /\ OpenOf(q, side) = {}
      /\ last # 0 => /\ last \in OpenOf(q, side)
                     /\ r[last].side = side /\ r[last].bar = q[last].bar
                     /\ r[last].entry = q[last].entry /\ r[last].status = "closed"
                     /\ r[last].exitBar = b /\ r[last].exit = e.price
                     /\ \A i \in DOMAIN q : i # last => r[i] = q[i]
  BY <1>1, TradeClosed
<1>3. /\ ClosedTrades(q) = before.scored
      /\ NewestOpen(q, before.current.side) # 0
      /\ q[NewestOpen(q, before.current.side)].bar = before.current.bar
      /\ q[NewestOpen(q, before.current.side)].entry = before.current.entry
      /\ OpenOf(q, Opposite(before.current.side)) = {}
  BY DEF Agrees
<1>4. CASE before.current.side = side
  <2>1. /\ last # 0 /\ q[last].bar = before.current.bar /\ q[last].entry = before.current.entry
        /\ last \in DOMAIN q /\ q[last].status = "open"
    BY <1>1, <1>2, <1>3, <1>4 DEF OpenOf
  <2>2. ScoreOf(r[last]) = ScoredTrade(before.current, b, e)
    BY <1>2, <1>4, <2>1 DEF ScoreOf, ScoredTrade
  <2>3. ASSUME NEW x
        PROVE  x \in ClosedTrades(r) <=>
                   x \in ClosedTrades(q) \/ x = ScoredTrade(before.current, b, e)
    <3>1. x \in ClosedTrades(r) <=>
              \E i \in DOMAIN r : r[i].status = "closed" /\ x = ScoreOf(r[i])
      BY ClosedIs
    <3>2. x \in ClosedTrades(q) <=>
              \E i \in DOMAIN q : q[i].status = "closed" /\ x = ScoreOf(q[i])
      BY ClosedIs
    <3>3. \A i \in DOMAIN q : i # last => r[i] = q[i]
      BY <1>2, <2>1
    <3>4. r[last].status = "closed" /\ last \in DOMAIN r
      BY <1>2, <2>1
    <3> QED BY <1>2, <2>1, <2>2, <3>1, <3>2, <3>3, <3>4
  <2>4. ClosedTrades(r) = after.scored
    BY <1>3, <1>4, <2>3
  <2>5. after.current.side \notin Sides
    BY <1>4 DEF Flat, Sides
  <2> QED BY <2>4, <2>5 DEF Agrees
<1>5. CASE before.current.side # side
  <2>1. OpenOf(q, side) = {}
    <3>1. Opposite(before.current.side) = side
      BY <1>5 DEF Opposite, Sides
    <3> QED BY <1>3, <3>1
  <2>2. r = q
    BY <1>2, <2>1
  <2> QED BY <1>3, <1>5, <2>2 DEF Agrees
<1> QED BY <1>4, <1>5

LEMMA SameAgrees ==
    ASSUME NEW rows, NEW before, NEW after, Agrees(rows, before),
           after.current = before.current, after.scored = before.scored
    PROVE  Agrees(rows, after)
BY DEF Agrees

-------------------------------------------------------------------------------
(* The strategy, the cycle's phase and Pine's replay after a step.         *)

PhaseFits(p, e) ==
    /\ p = "buy" => e.signal = "BUY"
    /\ p = "sell" => e.signal = "SELL"
    /\ p \in {"endLong", "paperExit", "paperWrite", "longExits"} => e.endLong
    /\ p = "endShort" => e.endShort

LEMMA AfterFits ==
    /\ PhaseFits(AfterRanking, event) /\ PhaseFits(AfterBuy, event)
    /\ PhaseFits(AfterLong, event) /\ PhaseFits(AfterSell, event)
<1>1. PhaseFits(AfterSell, event)
  BY DEF AfterSell, PhaseFits
<1>2. PhaseFits(AfterLong, event)
  BY <1>1 DEF AfterLong, PhaseFits
<1>3. PhaseFits(AfterBuy, event)
  BY <1>2 DEF AfterBuy, PhaseFits
<1>4. PhaseFits(AfterRanking, event)
  BY <1>3 DEF AfterRanking, PhaseFits
<1> QED BY <1>1, <1>2, <1>3, <1>4

LEMMA PhaseKept ==
    ASSUME PhaseOK, [Next]_vars, ~EvaluateBar
    PROVE  PhaseFits(phase', event) /\ (phase' # "idle" => phase # "idle")
<1>1. PhaseFits(phase, event) /\ PhaseFits("idle", event) /\ PhaseFits("futures", event)
  BY DEF PhaseOK, PhaseFits
<1>2. phase \in {"endLong", "paperExit", "paperWrite"}
          => PhaseFits("paperExit", event) /\ PhaseFits("paperWrite", event)
             /\ PhaseFits("longExits", event)
  BY DEF PhaseOK, PhaseFits
<1>3. CASE RankPaper \/ RankFutures \/ RecordBuy \/ RecordSell \/ CloseLong \/ EndShort
  <2>1. phase # "idle" /\ phase' \in {"futures", AfterRanking, AfterBuy, AfterSell, AfterLong, "idle"}
    BY <1>3 DEF RankPaper, RankFutures, RecordBuy, RecordSell, CloseLong, EndShort
  <2> QED BY <1>1, <2>1, AfterFits
<1>4. CASE EndLong \/ PaperExit \/ PaperWrite
  <2>1. phase \in {"endLong", "paperExit", "paperWrite"}
        /\ phase' \in {"paperExit", "paperWrite", "longExits"}
    BY <1>4 DEF EndLong, PaperExit, PaperWrite
  <2> QED BY <1>2, <2>1
<1>5. CASE CycleFails \/ SessionRestarts
  BY <1>1, <1>5 DEF CycleFails, SessionRestarts
<1>6. CASE (\E close \in Prices : Tick(close)) \/ TickExit \/ TickWrite \/ RefreshRead
           \/ RefreshAssign \/ UNCHANGED vars
  <2>1. phase' = phase
    BY <1>6 DEF Tick, TickExit, TickWrite, RefreshRead, RefreshAssign, vars, cycleVars
  <2> QED BY <1>1, <2>1
<1> QED BY <1>3, <1>4, <1>5, <1>6 DEF Next, CycleStep, RankEntries, ProcessSymbol

(* The bar that is evaluated.                                              *)
LEMMA BarEvaluated ==
    ASSUME AccountInv, StrategyOK, PineOK, EvaluateBar
    PROVE  /\ phase = "idle" /\ phase' = "paper" /\ bar \in Nat /\ bar' = bar + 1
           /\ strategy \in StrategyState /\ strategy' \in StrategyState /\ event' \in EventType
           /\ strategy'.longLive => strategy'.bullish
           /\ strategy'.shortLive => ~strategy'.bullish
           /\ event'.signal = "BUY" => strategy'.longLive
           /\ event'.signal = "SELL" => strategy'.shortLive
           /\ event'.endLong => ~strategy'.bullish
           /\ event'.endShort => strategy'.bullish
           /\ event'.endLong => strategy.longLive
           /\ event'.endShort => strategy.shortLive
           /\ strategy'.longLive <=> (event'.signal = "BUY" \/ (strategy.longLive /\ ~event'.endLong))
           /\ strategy'.shortLive
                  <=> (event'.signal = "SELL" \/ (strategy.shortLive /\ ~event'.endShort))
           /\ Pine(events')[bar] = Pine(events)[bar]
           /\ Pine(events')[bar'] = PineBar(Pine(events)[bar], bar', event')
<1>1. /\ strategy \in StrategyState /\ events \in Seq(EventType) /\ price \in Prices
      /\ phase = "idle" /\ phase' = "paper" /\ bar \in Nat
      /\ strategy.longLive => strategy.bullish
      /\ strategy.shortLive => ~strategy.bullish
  BY LenProperties DEF AccountInv, CycleType, TickType, StrategyOK, EvaluateBar, bar
<1>2. PICK direction \in Directions, bullish \in BOOLEAN :
          /\ events' = Append(events, Evaluation(strategy, direction, bullish, price))
          /\ strategy' = AdvancedExits(strategy, direction, bullish)
  BY DEF EvaluateBar
<1>3. PICK e : e = Evaluation(strategy, direction, bullish, price)
  OBVIOUS
<1>4. PICK t : t = AdvancedExits(strategy, direction, bullish)
  OBVIOUS
<1>5. e \in EventType /\ t \in StrategyState
  BY <1>1, <1>3, <1>4, EvaluationTyped
<1>6. PICK more : more = Append(events, e)
  OBVIOUS
<1>7. events' = more /\ strategy' = t
  BY <1>2, <1>3, <1>4, <1>6
<1>8. Len(events) \in Nat /\ Len(more) = Len(events) + 1 /\ more[Len(more)] = e
  BY <1>1, <1>5, <1>6, Appended
<1>9. bar' = bar + 1 /\ event' = e
  BY <1>7, <1>8 DEF bar, event
<1>10. /\ t.longLive => t.bullish
       /\ t.shortLive => ~t.bullish
       /\ e.signal = "BUY" => t.longLive
       /\ e.signal = "SELL" => t.shortLive
       /\ e.endLong => ~t.bullish
       /\ e.endShort => t.bullish
       /\ e.endLong => strategy.longLive
       /\ e.endShort => strategy.shortLive
       /\ t.longLive <=> (e.signal = "BUY" \/ (strategy.longLive /\ ~e.endLong))
       /\ t.shortLive <=> (e.signal = "SELL" \/ (strategy.shortLive /\ ~e.endShort))
  BY <1>1, <1>3, <1>4, Evaluated
<1>11. /\ Pine(more)[Len(events)] = Pine(events)[Len(events)]
       /\ Pine(more)[Len(more)] = PineBar(Pine(events)[Len(events)], Len(more), e)
  <2>1. Len(events) \in 0..Len(events)
    BY <1>8
  <2> QED BY <1>1, <1>5, <1>6, <2>1, PineAppended
<1>12. /\ Pine(events')[bar] = Pine(events)[bar]
       /\ Pine(events')[bar'] = PineBar(Pine(events)[bar], bar', event')
  BY <1>7, <1>9, <1>11 DEF bar
<1> QED BY <1>1, <1>5, <1>7, <1>9, <1>10, <1>12

LEMMA StrategyKept ==
    ASSUME AccountInv, PhaseOK, StrategyOK, PineOK, [Next]_vars
    PROVE  PhaseOK' /\ StrategyOK' /\ PineOK'
<1>1. CASE EvaluateBar
  <2>1. PhaseOK'
    BY <1>1 DEF PhaseOK, EvaluateBar
  <2>2. StrategyOK'
    BY <1>1, BarEvaluated DEF StrategyOK
  <2>3. PineOK'
    <3>1. /\ phase = "idle" /\ phase' = "paper" /\ bar \in Nat /\ bar' = bar + 1
          /\ event'.endLong => strategy.longLive
          /\ event'.endShort => strategy.shortLive
          /\ Pine(events')[bar] = Pine(events)[bar]
          /\ Pine(events')[bar'] = PineBar(Pine(events)[bar], bar', event')
      BY <1>1, BarEvaluated
    <3>2. bar' - 1 = bar
      BY <3>1
    <3>3. PICK p : p = Pine(events)[bar]
      OBVIOUS
    <3>4. /\ (p.current.side = "BUY") <=> strategy.longLive
          /\ (p.current.side = "SELL") <=> strategy.shortLive
      BY <3>3 DEF PineOK
    <3>5. PICK n, e, s, t : n = bar' /\ e = event' /\ s = strategy /\ t = strategy'
      OBVIOUS
    <3>6. LET side == PineBar(p, n, e).current.side
          IN  ((side = "BUY") <=> t.longLive) /\ ((side = "SELL") <=> t.shortLive)
      <4>1. /\ s \in StrategyState /\ t \in StrategyState /\ e \in EventType
            /\ (p.current.side = "BUY") <=> s.longLive
            /\ (p.current.side = "SELL") <=> s.shortLive
            /\ t.longLive => t.bullish
            /\ t.shortLive => ~t.bullish
            /\ e.signal = "BUY" => t.longLive
            /\ e.signal = "SELL" => t.shortLive
            /\ e.endLong => ~t.bullish
            /\ e.endShort => t.bullish
            /\ t.longLive <=> (e.signal = "BUY" \/ (s.longLive /\ ~e.endLong))
            /\ t.shortLive <=> (e.signal = "SELL" \/ (s.shortLive /\ ~e.endShort))
        BY <1>1, <3>4, <3>5, BarEvaluated
      <4> QED BY <4>1, PinePosition
    <3>7. Pine(events')[bar'] = PineBar(p, n, e)
      BY <3>1, <3>3, <3>5
    <3>8. /\ (Pine(events')[bar'].current.side = "BUY") <=> strategy'.longLive
          /\ (Pine(events')[bar'].current.side = "SELL") <=> strategy'.shortLive
      BY <3>5, <3>6, <3>7
    <3>9. Pine(events')[bar' - 1] = p
      BY <3>1, <3>2, <3>3
    <3> QED BY <3>1, <3>4, <3>8, <3>9 DEF PineOK
  <2> QED BY <2>1, <2>2, <2>3
<1>2. CASE ~EvaluateBar
  <2>1. /\ strategy' = strategy /\ events' = events /\ bar' = bar /\ event' = event
    BY <1>2, BarIs DEF AccountInv
  <2>2. PhaseFits(phase', event) /\ (phase' # "idle" => phase # "idle")
    BY <1>2, PhaseKept
  <2>3. PhaseOK'
    BY <2>1, <2>2 DEF PhaseOK, PhaseFits
  <2>4. StrategyOK'
    BY <2>1, <2>2 DEF StrategyOK
  <2>5. PineOK'
    BY <2>1, <2>2 DEF PineOK
  <2> QED BY <2>3, <2>4, <2>5
<1> QED BY <1>1, <1>2

-------------------------------------------------------------------------------
(* The trades table after a step.                                          *)

(* Where Pine stands once the cycle is at phase p of the newest bar.       *)
PineAt(p, state) ==
    IF p = "idle" THEN PineBar(state, bar, event) ELSE PineSoFar(state, bar, event, Stage(p))

LEMMA StageIs ==
    /\ Stage("paper") = "before" /\ Stage("futures") = "before" /\ Stage("buy") = "before"
    /\ Stage("endLong") = "entered" /\ Stage("paperExit") = "exited"
    /\ Stage("paperWrite") = "exited" /\ Stage("longExits") = "exited"
    /\ Stage("sell") = "exited" /\ Stage("endShort") = "reversed"
BY DEF Stage

LEMMA BeforeIs ==
    ASSUME NEW state, NEW b, NEW e, NEW before, before = PineSoFar(state, b, e, "before")
    PROVE  before.current = state.current /\ before.scored = state.scored
BY DEF PineSoFar

(* A branch that is skipped changes nothing of what Pine makes of the bar. *)
LEMMA SellSkipped ==
    ASSUME event \in EventType, NEW state, NEW rows,
           Agrees(rows, PineSoFar(state, bar, event, "reversed"))
    PROVE  Agrees(rows, PineAt(AfterSell, state))
<1>1. CASE event.endShort
  <2>1. AfterSell = "endShort"
    BY <1>1 DEF AfterSell
  <2>2. PineAt("endShort", state) = PineSoFar(state, bar, event, "reversed")
    BY StageIs DEF PineAt
  <2> QED BY <2>1, <2>2
<1>2. CASE ~event.endShort
  <2>1. AfterSell = "idle"
    BY <1>2 DEF AfterSell
  <2>2. PICK reversed : reversed = PineSoFar(state, bar, event, "reversed")
    OBVIOUS
  <2>3. PICK after : after = PineBar(state, bar, event)
    OBVIOUS
  <2>4. after.current = reversed.current /\ after.scored = reversed.scored
    BY <1>2, <2>2, <2>3, Stages
  <2>5. Agrees(rows, after)
    BY <2>2, <2>4, SameAgrees
  <2> QED BY <2>1, <2>3, <2>5 DEF PineAt
<1> QED BY <1>1, <1>2

LEMMA LongSkipped ==
    ASSUME event \in EventType, NEW state, NEW rows,
           Agrees(rows, PineSoFar(state, bar, event, "exited"))
    PROVE  Agrees(rows, PineAt(AfterLong, state))
<1>1. CASE event.signal = "SELL"
  <2>1. AfterLong = "sell"
    BY <1>1 DEF AfterLong
  <2>2. PineAt("sell", state) = PineSoFar(state, bar, event, "exited")
    BY StageIs DEF PineAt
  <2> QED BY <2>1, <2>2
<1>2. CASE event.signal # "SELL"
  <2>1. AfterLong = AfterSell
    BY <1>2 DEF AfterLong
  <2>2. PICK exited : exited = PineSoFar(state, bar, event, "exited")
    OBVIOUS
  <2>3. PICK reversed : reversed = PineSoFar(state, bar, event, "reversed")
    OBVIOUS
  <2>4. reversed.current = exited.current /\ reversed.scored = exited.scored
    BY <1>2, <2>2, <2>3, Stages
  <2>5. Agrees(rows, reversed)
    BY <2>2, <2>4, SameAgrees
  <2> QED BY <2>1, <2>3, <2>5, SellSkipped
<1> QED BY <1>1, <1>2

LEMMA BuySkipped ==
    ASSUME event \in EventType, NEW state, NEW rows,
           Agrees(rows, PineSoFar(state, bar, event, "entered"))
    PROVE  Agrees(rows, PineAt(AfterBuy, state))
<1>1. CASE event.endLong
  <2>1. AfterBuy = "endLong"
    BY <1>1 DEF AfterBuy
  <2>2. PineAt("endLong", state) = PineSoFar(state, bar, event, "entered")
    BY StageIs DEF PineAt
  <2> QED BY <2>1, <2>2
<1>2. CASE ~event.endLong
  <2>1. AfterBuy = AfterLong
    BY <1>2 DEF AfterBuy
  <2>2. PICK entered : entered = PineSoFar(state, bar, event, "entered")
    OBVIOUS
  <2>3. PICK exited : exited = PineSoFar(state, bar, event, "exited")
    OBVIOUS
  <2>4. exited.current = entered.current /\ exited.scored = entered.scored
    BY <1>2, <2>2, <2>3, Stages
  <2>5. Agrees(rows, exited)
    BY <2>2, <2>4, SameAgrees
  <2> QED BY <2>1, <2>3, <2>5, LongSkipped
<1> QED BY <1>1, <1>2

LEMMA RankingSkipped ==
    ASSUME event \in EventType, NEW state, NEW rows,
           Agrees(rows, PineSoFar(state, bar, event, "before"))
    PROVE  Agrees(rows, PineAt(AfterRanking, state))
<1>1. CASE event.signal = "BUY"
  <2>1. AfterRanking = "buy"
    BY <1>1 DEF AfterRanking
  <2>2. PineAt("buy", state) = PineSoFar(state, bar, event, "before")
    BY StageIs DEF PineAt
  <2> QED BY <2>1, <2>2
<1>2. CASE event.signal # "BUY"
  <2>1. AfterRanking = AfterBuy
    BY <1>2 DEF AfterRanking
  <2>2. PICK before : before = PineSoFar(state, bar, event, "before")
    OBVIOUS
  <2>3. PICK entered : entered = PineSoFar(state, bar, event, "entered")
    OBVIOUS
  <2>4. entered.current = state.current /\ entered.scored = state.scored
    BY <1>2, <2>3, Stages
  <2>5. Agrees(rows, entered)
    BY <2>2, <2>4, BeforeIs, SameAgrees
  <2> QED BY <2>1, <2>3, <2>5, BuySkipped
<1> QED BY <1>1, <1>2

(* A step of the cycle takes the trades as far as it takes Pine.           *)
LEMMA TradesStep ==
    ASSUME AccountInv, PhaseOK, StrategyOK, PineOK, phase # "idle", CycleStep,
           NEW state, state = Pine(events)[bar - 1], Agrees(trades, PineAt(phase, state))
    PROVE  Agrees(trades', PineAt(phase', state))
<1>1. /\ bar \in Nat /\ bar >= 1 /\ event \in EventType /\ event.price \in Prices
      /\ RowsIn(trades, TradeRow, bar)
      /\ event.signal = "BUY" => strategy.longLive
      /\ event.signal = "SELL" => strategy.shortLive
      /\ event.endLong => ~strategy.bullish
      /\ event.endShort => strategy.bullish
      /\ strategy.longLive => strategy.bullish
      /\ strategy.shortLive => ~strategy.bullish
      /\ event.endLong => state.current.side = "BUY"
      /\ event.endShort => state.current.side = "SELL"
  BY EventTyped DEF AccountInv, TablesType, StrategyOK, PineOK
<1> DEFINE before == PineSoFar(state, bar, event, "before")
           entered == PineSoFar(state, bar, event, "entered")
           exited == PineSoFar(state, bar, event, "exited")
           reversed == PineSoFar(state, bar, event, "reversed")
           after == PineBar(state, bar, event)
<1>2. /\ entered.scored = state.scored
      /\ event.signal = "BUY" => entered.current = Started("BUY", bar, event)
      /\ event.signal # "BUY" => entered.current = state.current
      /\ IF event.endLong /\ entered.current.side = "BUY"
         THEN /\ exited.current = Flat
              /\ exited.scored = entered.scored \cup {ScoredTrade(entered.current, bar, event)}
         ELSE exited.current = entered.current /\ exited.scored = entered.scored
      /\ reversed.scored = exited.scored
      /\ event.signal = "SELL" => reversed.current = Started("SELL", bar, event)
      /\ event.signal # "SELL" => reversed.current = exited.current
      /\ IF event.endShort /\ reversed.current.side = "SELL"
         THEN /\ after.current = Flat
              /\ after.scored = reversed.scored \cup {ScoredTrade(reversed.current, bar, event)}
         ELSE after.current = reversed.current /\ after.scored = reversed.scored
  BY <1>1, Stages
<1>3. before.current = state.current /\ before.scored = state.scored
  BY BeforeIs
<1>4. /\ PineAt("paper", state) = before /\ PineAt("futures", state) = before
      /\ PineAt("buy", state) = before /\ PineAt("endLong", state) = entered
      /\ PineAt("paperExit", state) = exited /\ PineAt("paperWrite", state) = exited
      /\ PineAt("longExits", state) = exited /\ PineAt("sell", state) = exited
      /\ PineAt("endShort", state) = reversed /\ PineAt("idle", state) = after
  BY StageIs DEF PineAt
<1>5. /\ Agrees(trades', before) => Agrees(trades', PineAt(AfterRanking, state))
      /\ Agrees(trades', entered) => Agrees(trades', PineAt(AfterBuy, state))
      /\ Agrees(trades', exited) => Agrees(trades', PineAt(AfterLong, state))
      /\ Agrees(trades', reversed) => Agrees(trades', PineAt(AfterSell, state))
  BY <1>1, RankingSkipped, BuySkipped, LongSkipped, SellSkipped
<1>6. (event.signal = "BUY" => ~event.endLong) /\ (event.signal = "SELL" => ~event.endShort)
      /\ (event.endShort => ~event.endLong)
  BY <1>1
<1> HIDE DEF before, entered, exited, reversed, after
<1>7. CASE RankPaper
  <2>1. trades' = trades /\ phase = "paper" /\ phase' = "futures"
    BY <1>7 DEF RankPaper
  <2> QED BY <1>4, <2>1
<1>8. CASE RankFutures
  <2>1. trades' = trades /\ phase = "futures" /\ phase' = AfterRanking
    BY <1>8 DEF RankFutures
  <2> QED BY <1>4, <1>5, <2>1
<1>9. CASE RecordBuy
  <2>1. /\ phase = "buy" /\ phase' = AfterBuy /\ event.signal = "BUY"
        /\ trades' = OpenTrade(AbandonOpenTrade(trades, "SELL"), "BUY", bar, event.price)
    BY <1>9 DEF RecordBuy, Enter, PhaseOK
  <2>2. Opposite("BUY") = "SELL" /\ "BUY" \in Sides
    BY DEF Opposite, Sides
  <2>3. PICK r : r = OpenTrade(AbandonOpenTrade(trades, Opposite("BUY")), "BUY", bar, event.price)
    OBVIOUS
  <2>4. /\ Agrees(trades, before) /\ entered.current = Started("BUY", bar, event)
        /\ entered.scored = before.scored
    BY <1>2, <1>3, <1>4, <2>1
  <2>5. Agrees(r, entered)
    BY <1>1, <2>2, <2>3, <2>4, EntryAgrees
  <2>6. trades' = r
    BY <2>1, <2>2, <2>3
  <2> QED BY <1>5, <2>1, <2>5, <2>6
<1>10. CASE EndLong
  <2>1. /\ phase = "endLong" /\ phase' = "paperExit" /\ event.endLong
        /\ trades' = CloseOpenTrade(trades, "BUY", bar, event.price)
    BY <1>10 DEF EndLong, PhaseOK
  <2>2. entered.current.side = "BUY" /\ "BUY" \in Sides
    BY <1>1, <1>2, <1>6, <2>1 DEF Sides
  <2>3. /\ Agrees(trades, entered) /\ exited.current = Flat
        /\ exited.scored = entered.scored \cup {ScoredTrade(entered.current, bar, event)}
    BY <1>2, <1>4, <2>1, <2>2
  <2>4. PICK r : r = CloseOpenTrade(trades, "BUY", bar, event.price)
    OBVIOUS
  <2>5. Agrees(r, exited)
    BY <1>1, <2>2, <2>3, <2>4, ExitAgrees
  <2>6. trades' = r
    BY <2>1, <2>4
  <2> QED BY <1>4, <2>1, <2>5, <2>6
<1>11. CASE PaperExit \/ PaperWrite
  <2>1. /\ trades' = trades /\ phase \in {"paperExit", "paperWrite"}
        /\ phase' \in {"paperWrite", "longExits"}
    BY <1>11 DEF PaperExit, PaperWrite
  <2> QED BY <1>4, <2>1
<1>12. CASE CloseLong
  <2>1. trades' = trades /\ phase = "longExits" /\ phase' = AfterLong
    BY <1>12 DEF CloseLong
  <2> QED BY <1>4, <1>5, <2>1
<1>13. CASE RecordSell
  <2>1. /\ phase = "sell" /\ phase' = AfterSell /\ event.signal = "SELL"
        /\ trades' = OpenTrade(AbandonOpenTrade(trades, "BUY"), "SELL", bar, event.price)
    BY <1>13 DEF RecordSell, Enter, PhaseOK
  <2>2. Opposite("SELL") = "BUY" /\ "SELL" \in Sides
    BY DEF Opposite, Sides
  <2>3. PICK r : r = OpenTrade(AbandonOpenTrade(trades, Opposite("SELL")), "SELL", bar, event.price)
    OBVIOUS
  <2>4. /\ Agrees(trades, exited) /\ reversed.current = Started("SELL", bar, event)
        /\ reversed.scored = exited.scored
    BY <1>2, <1>4, <2>1
  <2>5. Agrees(r, reversed)
    BY <1>1, <2>2, <2>3, <2>4, EntryAgrees
  <2>6. trades' = r
    BY <2>1, <2>2, <2>3
  <2> QED BY <1>5, <2>1, <2>5, <2>6
<1>14. CASE EndShort
  <2>1. /\ phase = "endShort" /\ phase' = "idle" /\ event.endShort
        /\ trades' = CloseOpenTrade(trades, "SELL", bar, event.price)
    BY <1>14 DEF EndShort, PhaseOK
  <2>2. reversed.current = entered.current
    BY <1>2, <1>6, <2>1
  <2>3. reversed.current.side \in Sides /\ "SELL" \in Sides
    <3>1. Started("BUY", bar, event).side = "BUY"
      BY DEF Started
    <3> QED BY <1>1, <1>2, <2>1, <2>2, <3>1 DEF Sides
  <2>4. /\ Agrees(trades, reversed)
        /\ IF reversed.current.side = "SELL"
           THEN /\ after.current = Flat
                /\ after.scored = reversed.scored \cup {ScoredTrade(reversed.current, bar, event)}
           ELSE after.current = reversed.current /\ after.scored = reversed.scored
    BY <1>2, <1>4, <2>1
  <2>5. PICK r : r = CloseOpenTrade(trades, "SELL", bar, event.price)
    OBVIOUS
  <2>6. Agrees(r, after)
    BY <1>1, <2>3, <2>4, <2>5, ExitAgrees
  <2>7. trades' = r
    BY <2>1, <2>5
  <2> QED BY <1>4, <2>1, <2>6, <2>7
<1> QED BY <1>7, <1>8, <1>9, <1>10, <1>11, <1>12, <1>13, <1>14 DEF CycleStep, RankEntries, ProcessSymbol

(* Where the trades table must stand is where Pine is at the phase.        *)
LEMMA TradesMean ==
    ASSUME CycleType
    PROVE  /\ phase = "idle" => (TradesOK <=> (lost = {} => Agrees(trades, Pine(events)[bar])))
           /\ phase # "idle" =>
                  (TradesOK <=> (lost = {} => Agrees(trades, PineAt(phase, Pine(events)[bar - 1]))))
           /\ phase # "idle" =>
                  Pine(events)[bar] = PineBar(Pine(events)[bar - 1], bar, event)
<1>1. phase = "idle" => (TradesOK <=> (lost = {} => Agrees(trades, Pine(events)[bar])))
  BY DEF TradesOK
<1>2. phase # "idle" =>
          (TradesOK <=> (lost = {} => Agrees(trades, PineAt(phase, Pine(events)[bar - 1]))))
  BY DEF TradesOK, PineAt
<1>3. ASSUME phase # "idle"
      PROVE  Pine(events)[bar] = PineBar(Pine(events)[bar - 1], bar, event)
  <2>1. Len(events) \in Nat /\ bar = Len(events) /\ bar \in 1..Len(events)
    BY <1>3, EventTyped DEF bar
  <2> QED BY <2>1, PineIs DEF event
<1> QED BY <1>1, <1>2, <1>3

LEMMA TradesKept ==
    ASSUME AccountInv, PhaseOK, StrategyOK, PineOK, TradesOK, [Next]_vars
    PROVE  TradesOK'
<1>1. CycleType /\ CycleType' /\ bar \in Nat /\ bar' \in Nat
  BY AccountKept, BarIs DEF AccountInv
<1>2. CASE EvaluateBar
  <2>1. /\ phase = "idle" /\ phase' = "paper" /\ lost' = lost /\ trades' = trades
        /\ bar' = bar + 1 /\ Pine(events')[bar] = Pine(events)[bar]
    BY <1>2, BarEvaluated DEF EvaluateBar
  <2>2. bar' - 1 = bar
    BY <1>1, <2>1
  <2>3. PICK p : p = Pine(events)[bar]
    OBVIOUS
  <2>4. lost = {} => Agrees(trades, p)
    BY <1>1, <2>1, <2>3, TradesMean
  <2>5. PICK n, e : n = bar' /\ e = event'
    OBVIOUS
  <2>6. PICK before : before = PineSoFar(p, n, e, "before")
    OBVIOUS
  <2>7. lost = {} => Agrees(trades, before)
    BY <2>4, <2>6, BeforeIs, SameAgrees
  <2>8. lost' = {} => Agrees(trades', PineSoFar(p, bar', event', Stage(phase')))
    BY <2>1, <2>5, <2>6, <2>7, StageIs
  <2>9. Pine(events')[bar' - 1] = p
    BY <2>1, <2>2, <2>3
  <2> QED BY <2>1, <2>8, <2>9 DEF TradesOK
<1>3. CASE ~EvaluateBar
  <2>1. events' = events /\ bar' = bar /\ event' = event
    BY <1>1, <1>3, BarIs
  <2>2. (phase' = "idle" => (TradesOK' <=> (lost' = {} => Agrees(trades', Pine(events)[bar]))))
        /\ (phase' # "idle" =>
               (TradesOK' <=> (lost' = {} =>
                    Agrees(trades', PineSoFar(Pine(events)[bar - 1], bar, event, Stage(phase'))))))
    BY <2>1 DEF TradesOK
  <2>3. CASE CycleStep
    <3>1. phase # "idle" /\ lost' = lost
      BY <2>3 DEF CycleStep, RankEntries, ProcessSymbol, RankPaper, RankFutures, RecordBuy, RecordSell,
           Enter, EndLong, PaperExit, PaperWrite, CloseLong, EndShort
    <3>2. PICK state : state = Pine(events)[bar - 1]
      OBVIOUS
    <3>3. lost = {} => Agrees(trades, PineAt(phase, state))
      BY <1>1, <3>1, <3>2, TradesMean
    <3>4. lost' = {} => Agrees(trades', PineAt(phase', state))
      BY <2>3, <3>1, <3>2, <3>3, TradesStep
    <3>5. Pine(events)[bar] = PineBar(state, bar, event)
      BY <1>1, <3>1, <3>2, TradesMean
    <3>6. PineAt(phase', state) = IF phase' = "idle" THEN Pine(events)[bar]
                                  ELSE PineSoFar(state, bar, event, Stage(phase'))
      BY <3>5 DEF PineAt
    <3> QED BY <2>2, <3>2, <3>4, <3>6
  <2>4. CASE CycleFails
    <3>1. lost' # {}
      BY <2>4 DEF CycleFails
    <3> QED BY <2>2, <3>1
  <2>5. CASE SessionRestarts /\ phase # "idle"
    <3>1. lost' # {}
      BY <2>5 DEF SessionRestarts
    <3> QED BY <2>2, <3>1
  <2>6. CASE UNCHANGED <<phase, lost, trades>>
    BY <2>1, <2>6 DEF TradesOK
  <2>7. ASSUME \/ SessionRestarts /\ phase = "idle"
               \/ (\E close \in Prices : Tick(close)) \/ TickExit \/ TickWrite \/ RefreshRead
               \/ RefreshAssign \/ UNCHANGED vars
        PROVE  UNCHANGED <<phase, lost, trades>>
    BY <2>7 DEF SessionRestarts, Tick, TickExit, TickWrite, RefreshRead, RefreshAssign, vars, cycleVars
  <2> QED BY <1>3, <2>3, <2>4, <2>5, <2>6, <2>7 DEF Next
<1> QED BY <1>2, <1>3

-------------------------------------------------------------------------------
(* The futures account and the shadow legs against the strategy.           *)

(* A branch that will be needed is not skipped.                            *)
LEMMA AfterKeeps ==
    /\ event.endLong => AfterRanking \in {"buy", "endLong"} /\ AfterBuy = "endLong"
    /\ event.endShort => /\ AfterRanking # "idle" /\ AfterBuy # "idle" /\ AfterLong # "idle"
                         /\ AfterSell = "endShort"
    /\ event.signal = "BUY" => AfterRanking = "buy"
    /\ event.signal = "SELL" => /\ AfterRanking \notin {"idle", "endShort"}
                                /\ AfterBuy \notin {"idle", "endShort"} /\ AfterLong = "sell"
    /\ AfterLong \notin BeforeLongExits /\ AfterSell \notin BeforeLongExits
BY DEF AfterRanking, AfterBuy, AfterLong, AfterSell, BeforeLongExits

(* Where a step that fails nothing takes the cycle.                        *)
LEMMA Moves ==
    ASSUME [Next]_vars, ~EvaluateBar, ~CycleFails, ~SessionRestarts
    PROVE  \/ phase' = phase /\ ~CloseLong /\ ~EndShort
              /\ UNCHANGED <<combos, futureLegs, optionLegs, faults, lost>>
           \/ RankPaper /\ phase = "paper" /\ phase' = "futures"
              /\ UNCHANGED <<combos, futureLegs, optionLegs, faults, lost>>
           \/ RankFutures /\ phase = "futures" /\ phase' = AfterRanking
              /\ UNCHANGED <<futureLegs, optionLegs, lost>>
           \/ RecordBuy /\ phase = "buy" /\ phase' = AfterBuy /\ UNCHANGED <<combos, lost>>
           \/ phase = "endLong" /\ phase' = "paperExit" /\ ~CloseLong /\ ~EndShort
              /\ UNCHANGED <<combos, futureLegs, optionLegs, faults, lost>>
           \/ phase = "paperExit" /\ phase' = "paperWrite" /\ ~CloseLong /\ ~EndShort
              /\ UNCHANGED <<combos, futureLegs, optionLegs, faults, lost>>
           \/ phase = "paperWrite" /\ phase' = "longExits" /\ ~CloseLong /\ ~EndShort
              /\ UNCHANGED <<combos, futureLegs, optionLegs, faults, lost>>
           \/ CloseLong /\ phase = "longExits" /\ phase' = AfterLong /\ UNCHANGED lost
           \/ RecordSell /\ phase = "sell" /\ phase' = AfterSell /\ UNCHANGED <<combos, lost>>
           \/ EndShort /\ phase = "endShort" /\ phase' = "idle" /\ UNCHANGED lost
<1>1. ASSUME (\E close \in Prices : Tick(close)) \/ TickExit \/ TickWrite \/ RefreshRead
             \/ RefreshAssign \/ UNCHANGED vars
      PROVE  phase' = phase /\ UNCHANGED <<combos, futureLegs, optionLegs, faults, lost>>
  BY <1>1 DEF Tick, TickExit, TickWrite, RefreshRead, RefreshAssign, vars, cycleVars, futuresVars,
              shadowVars
<1>2. phase' = phase => ~CloseLong /\ ~EndShort
  BY AfterIs DEF CloseLong, EndShort
<1>3. /\ RankPaper => phase = "paper" /\ phase' = "futures"
                      /\ UNCHANGED <<combos, futureLegs, optionLegs, faults, lost>>
      /\ RankFutures => phase = "futures" /\ phase' = AfterRanking
                        /\ UNCHANGED <<futureLegs, optionLegs, lost>>
      /\ RecordBuy => phase = "buy" /\ phase' = AfterBuy /\ UNCHANGED <<combos, lost>>
      /\ CloseLong => phase = "longExits" /\ phase' = AfterLong /\ UNCHANGED lost
      /\ RecordSell => phase = "sell" /\ phase' = AfterSell /\ UNCHANGED <<combos, lost>>
      /\ EndShort => phase = "endShort" /\ phase' = "idle" /\ UNCHANGED lost
  BY DEF RankPaper, RankFutures, RecordBuy, RecordSell, Enter, CloseLong, EndShort, futuresVars,
         shadowVars
<1>4. /\ EndLong => phase = "endLong" /\ phase' = "paperExit"
                    /\ UNCHANGED <<combos, futureLegs, optionLegs, faults, lost>>
      /\ PaperExit => phase = "paperExit" /\ phase' = "paperWrite"
                      /\ UNCHANGED <<combos, futureLegs, optionLegs, faults, lost>>
      /\ PaperWrite => phase = "paperWrite" /\ phase' = "longExits"
                       /\ UNCHANGED <<combos, futureLegs, optionLegs, faults, lost>>
  BY DEF EndLong, PaperExit, PaperWrite, futuresVars, shadowVars
<1> QED BY <1>1, <1>2, <1>3, <1>4 DEF Next, CycleStep, RankEntries, ProcessSymbol

(* A side is held until its exit, and a leg is due from its entry to its   *)
(* exit.                                                                   *)
LEMMA HeldKept ==
    ASSUME AccountInv, PhaseOK, StrategyOK, PineOK, [Next]_vars, ~CycleFails, ~SessionRestarts
    PROVE  /\ LongHeld => LongHeld' \/ CloseLong
           /\ ShortHeld => ShortHeld' \/ EndShort
           /\ PutDue' => PutDue \/ RecordBuy
           /\ CallDue' => CallDue \/ RecordSell
           /\ CloseLong => PutDue /\ ~PutDue'
           /\ EndShort => CallDue /\ ~CallDue'
<1>1. CASE EvaluateBar
  <2>1. /\ phase = "idle" /\ phase' = "paper" /\ ~CloseLong /\ ~EndShort
        /\ strategy \in StrategyState /\ strategy' \in StrategyState /\ event' \in EventType
        /\ event'.endLong => strategy.longLive
        /\ event'.endShort => strategy.shortLive
        /\ strategy'.longLive <=> (event'.signal = "BUY" \/ (strategy.longLive /\ ~event'.endLong))
        /\ strategy'.shortLive
               <=> (event'.signal = "SELL" \/ (strategy.shortLive /\ ~event'.endShort))
    BY <1>1, BarEvaluated DEF CloseLong, EndShort
  <2>2. /\ strategy.longLive \in BOOLEAN /\ strategy.shortLive \in BOOLEAN
        /\ strategy'.longLive \in BOOLEAN /\ strategy'.shortLive \in BOOLEAN
        /\ event'.endLong \in BOOLEAN /\ event'.endShort \in BOOLEAN
    BY <2>1 DEF StrategyState, EventType
  <2>3. /\ LongHeld <=> strategy.longLive
        /\ ShortHeld <=> strategy.shortLive
        /\ PutDue <=> strategy.longLive
        /\ CallDue <=> strategy.shortLive
    BY <2>1 DEF LongHeld, ShortHeld, PutDue, CallDue, BeforeLongExits, BeforeBuy
  <2>4. /\ LongHeld' <=> strategy'.longLive \/ event'.endLong
        /\ ShortHeld' <=> strategy'.shortLive \/ event'.endShort
        /\ PutDue' => LongHeld' /\ event'.signal # "BUY"
        /\ CallDue' => ShortHeld' /\ event'.signal # "SELL"
    BY <2>1 DEF LongHeld, ShortHeld, PutDue, CallDue, BeforeLongExits, BeforeBuy
  <2> QED BY <2>1, <2>2, <2>3, <2>4
<1>2. CASE ~EvaluateBar
  <2>1. strategy' = strategy /\ event' = event
    BY <1>2, BarIs DEF AccountInv
  <2>2. /\ LongHeld' <=> strategy.longLive \/ (phase' \in BeforeLongExits /\ event.endLong)
        /\ ShortHeld' <=> strategy.shortLive \/ (phase' # "idle" /\ event.endShort)
        /\ PutDue' <=> LongHeld' /\ ~(phase' \in BeforeBuy /\ event.signal = "BUY")
        /\ CallDue' <=> ShortHeld' /\ ~(phase' # "idle" /\ phase' # "endShort" /\ event.signal = "SELL")
    BY <2>1 DEF LongHeld, ShortHeld, PutDue, CallDue
  <2>3. /\ LongHeld <=> strategy.longLive \/ (phase \in BeforeLongExits /\ event.endLong)
        /\ ShortHeld <=> strategy.shortLive \/ (phase # "idle" /\ event.endShort)
        /\ PutDue <=> LongHeld /\ ~(phase \in BeforeBuy /\ event.signal = "BUY")
        /\ CallDue <=> ShortHeld /\ ~(phase # "idle" /\ phase # "endShort" /\ event.signal = "SELL")
    BY DEF LongHeld, ShortHeld, PutDue, CallDue
  <2>4. /\ phase = "longExits" => event.endLong /\ ~strategy.longLive
        /\ phase = "endShort" => event.endShort /\ ~strategy.shortLive
        /\ phase = "buy" => event.signal = "BUY"
        /\ phase = "sell" => event.signal = "SELL"
    BY DEF PhaseOK, StrategyOK
  <2>5. /\ CloseLong => phase = "longExits" /\ ~EndShort
        /\ EndShort => phase = "endShort" /\ ~CloseLong
        /\ RecordBuy => phase = "buy"
        /\ RecordSell => phase = "sell"
    BY DEF CloseLong, EndShort, RecordBuy, RecordSell
  <2>6. CASE phase' = phase /\ ~CloseLong /\ ~EndShort
    BY <2>2, <2>3, <2>4, <2>5, <2>6 DEF BeforeLongExits, BeforeBuy
  <2>7. CASE RankPaper /\ phase = "paper" /\ phase' = "futures"
    BY <2>2, <2>3, <2>4, <2>5, <2>7 DEF BeforeLongExits, BeforeBuy
  <2>8. CASE RankFutures /\ phase = "futures" /\ phase' = AfterRanking
    BY <2>2, <2>3, <2>4, <2>5, <2>8, AfterKeeps DEF BeforeLongExits, BeforeBuy
  <2>9. CASE RecordBuy /\ phase = "buy" /\ phase' = AfterBuy
    BY <2>2, <2>3, <2>4, <2>5, <2>9, AfterKeeps DEF BeforeLongExits, BeforeBuy
  <2>10. CASE /\ ~CloseLong /\ ~EndShort
              /\ \/ phase = "endLong" /\ phase' = "paperExit"
                 \/ phase = "paperExit" /\ phase' = "paperWrite"
                 \/ phase = "paperWrite" /\ phase' = "longExits"
    BY <2>2, <2>3, <2>4, <2>5, <2>10 DEF BeforeLongExits, BeforeBuy
  <2>11. CASE CloseLong /\ phase = "longExits" /\ phase' = AfterLong
    BY <2>2, <2>3, <2>4, <2>5, <2>11, AfterKeeps DEF BeforeLongExits, BeforeBuy
  <2>12. CASE RecordSell /\ phase = "sell" /\ phase' = AfterSell
    BY <2>2, <2>3, <2>4, <2>5, <2>12, AfterKeeps DEF BeforeLongExits, BeforeBuy
  <2>13. CASE EndShort /\ phase = "endShort" /\ phase' = "idle"
    BY <2>2, <2>3, <2>4, <2>5, <2>13 DEF BeforeLongExits, BeforeBuy
  <2> QED BY <1>2, <2>6, <2>7, <2>8, <2>9, <2>10, <2>11, <2>12, <2>13, Moves
<1> QED BY <1>1, <1>2

(* While nothing has failed, this step did not fail either.                *)
LEMMA Faultless ==
    ASSUME AccountInv, [Next]_vars, faults' = 0
    PROVE  faults = 0 /\ ~CycleFails /\ ~SessionRestarts
<1>1. faults \in 0..MaxFaults /\ faults \in Nat /\ "BUY" \in Sides /\ "SELL" \in Sides
  BY Constants DEF AccountInv, CycleType, Sides
<1>2. ~CycleFails /\ ~SessionRestarts
  BY <1>1 DEF CycleFails, SessionRestarts
<1>3. CASE EvaluateBar
  BY <1>2, <1>3 DEF EvaluateBar
<1>4. CASE RankFutures
  <2>1. CASE CompetesForFutures
    <3>1. PICK quoted \in BOOLEAN, margin \in BOOLEAN : BestEffort(<<quoted, margin>>)
      BY <1>4, <2>1 DEF RankFutures, Quoted, MarginKnown
    <3> QED BY <1>1, <1>2, <3>1, TwoCalls
  <2>2. CASE ~CompetesForFutures
    BY <1>2, <1>4, <2>2 DEF RankFutures
  <2> QED BY <2>1, <2>2
<1>5. CASE RecordBuy
  <2>1. phase # "idle" /\ Enter("BUY", "SELL")
    BY <1>5 DEF RecordBuy
  <2> QED BY <1>1, <1>2, <2>1, Entered
<1>6. CASE RecordSell
  <2>1. phase # "idle" /\ Enter("SELL", "BUY")
    BY <1>6 DEF RecordSell
  <2> QED BY <1>1, <1>2, <2>1, Entered
<1>7. CASE CloseLong
  <2>1. phase # "idle" /\ CloseDerivatives("PE")
    BY <1>7 DEF CloseLong
  <2> QED BY <1>2, <2>1, DerivativesClosed
<1>8. CASE EndShort
  <2>1. phase # "idle" /\ CloseDerivatives("CE")
    BY <1>8 DEF EndShort
  <2> QED BY <1>2, <2>1, DerivativesClosed
<1>9. CASE faults' = faults
  BY <1>2, <1>9
<1> QED BY <1>2, <1>3, <1>4, <1>5, <1>6, <1>7, <1>8, <1>9, Moves

LEMMA CombosKept ==
    ASSUME AccountInv, PhaseOK, StrategyOK, PineOK, CombosOK, [Next]_vars
    PROVE  CombosOK'
<1> SUFFICES ASSUME faults' = 0
             PROVE  /\ lost' = {}
                    /\ \A i, j \in OpenRows(combos') : i = j
                    /\ \A i \in OpenRows(combos') :
                          IF combos'[i].side = "long" THEN LongHeld' ELSE ShortHeld'
  BY DEF CombosOK
<1>1. faults = 0 /\ ~CycleFails /\ ~SessionRestarts
  BY Faultless
<1>2. /\ lost = {}
      /\ \A i, j \in OpenRows(combos) : i = j
      /\ \A i \in OpenRows(combos) :
            IF combos[i].side = "long" THEN LongHeld ELSE ShortHeld
  BY <1>1 DEF CombosOK
<1>3. /\ LongHeld => LongHeld' \/ CloseLong
      /\ ShortHeld => ShortHeld' \/ EndShort
  BY <1>1, HeldKept
<1>4. lost' = lost
  BY <1>1, Moves DEF EvaluateBar
<1>5. CASE CloseLong \/ EndShort
  <2>1. phase # "idle" /\ (CloseDerivatives("PE") \/ CloseDerivatives("CE"))
    BY <1>5 DEF CloseLong, EndShort
  <2>2. /\ OpenRows(combos) # {} =>
              \E k \in OpenRows(combos) : OpenRows(combos') = OpenRows(combos) \ {k}
        /\ OpenRows(combos) = {} => OpenRows(combos') = {}
    BY <2>1, DerivativesClosed
  <2>3. OpenRows(combos') = {}
    BY <1>2, <2>2
  <2> QED BY <1>2, <1>4, <2>3
<1>6. CASE combos' = combos /\ ~CloseLong /\ ~EndShort
  BY <1>2, <1>3, <1>4, <1>6
<1>7. CASE RankFutures
  <2>1. phase = "futures" /\ phase' = AfterRanking /\ ~CloseLong /\ ~EndShort
    BY <1>7 DEF RankFutures, CloseLong, EndShort
  <2>2. CASE UNCHANGED futuresVars
    BY <1>6, <2>1, <2>2 DEF futuresVars
  <2>3. CASE ~UNCHANGED futuresVars
    <3>1. PICK k : OpenRows(combos') = {k} /\ combos'[k].side = SideOf(event.signal)
      BY <1>7, <2>3, ComboRanked
    <3>2. event.signal \in Sides
      BY <1>7, <2>3, ComboRanked
    <3>3. /\ event.signal = "BUY" => SideOf(event.signal) = "long" /\ LongHeld
          /\ event.signal = "SELL" => SideOf(event.signal) # "long" /\ ShortHeld
      BY <2>1 DEF SideOf, StrategyOK, LongHeld, ShortHeld
    <3> QED BY <1>2, <1>3, <1>4, <2>1, <3>1, <3>2, <3>3 DEF Sides
  <2> QED BY <2>2, <2>3
<1>8. CASE EvaluateBar
  <2>1. combos' = combos /\ ~CloseLong /\ ~EndShort
    BY <1>8 DEF EvaluateBar, CloseLong, EndShort, futuresVars
  <2> QED BY <1>6, <2>1
<1>9. RecordBuy \/ RecordSell => ~CloseLong /\ ~EndShort
  BY DEF RecordBuy, RecordSell, CloseLong, EndShort
<1>10. RankPaper => ~CloseLong /\ ~EndShort
  BY DEF RankPaper, CloseLong, EndShort
<1> QED BY <1>1, <1>5, <1>6, <1>7, <1>8, <1>9, <1>10, Moves

(* As many futures as options, and a row more or less of each.             *)
LEMMA OneOfEach ==
    ASSUME NEW A, NEW B, IsFiniteSet(A), IsFiniteSet(B), Cardinality(A) = Cardinality(B)
    PROVE  /\ \A k, n : k \notin A /\ n \notin B
                   => Cardinality(A \cup {k}) = Cardinality(B \cup {n})
           /\ \A k \in A, n \in B : Cardinality(A \ {k}) = Cardinality(B \ {n})
           /\ B # {} => A # {}
<1>1. Cardinality(A) \in Nat /\ Cardinality(B) \in Nat
  BY FS_CardinalityType
<1>2. ASSUME NEW k, NEW n, k \notin A, n \notin B
      PROVE  Cardinality(A \cup {k}) = Cardinality(B \cup {n})
  BY <1>2, FS_AddElement
<1>3. ASSUME NEW k \in A, NEW n \in B
      PROVE  Cardinality(A \ {k}) = Cardinality(B \ {n})
  BY <1>3, FS_RemoveElement
<1>4. B # {} => A # {}
  BY FS_EmptySet
<1> QED BY <1>2, <1>3, <1>4

LEMMA LegsKept ==
    ASSUME AccountInv, PhaseOK, StrategyOK, PineOK, LegsOK, [Next]_vars
    PROVE  LegsOK'
<1> SUFFICES ASSUME faults' = 0
             PROVE  /\ Cardinality(OpenRows(futureLegs')) = Cardinality(OpenRows(optionLegs'))
                    /\ PutDue' => OpenOf(optionLegs', "PE") # {}
                    /\ CallDue' => OpenOf(optionLegs', "CE") # {}
  BY DEF LegsOK
<1>1. faults = 0 /\ ~CycleFails /\ ~SessionRestarts
  BY Faultless
<1>2. /\ Cardinality(OpenRows(futureLegs)) = Cardinality(OpenRows(optionLegs))
      /\ PutDue => OpenOf(optionLegs, "PE") # {}
      /\ CallDue => OpenOf(optionLegs, "CE") # {}
  BY <1>1 DEF LegsOK
<1>3. /\ PutDue' => PutDue \/ RecordBuy
      /\ CallDue' => CallDue \/ RecordSell
      /\ CloseLong => PutDue /\ ~PutDue'
      /\ EndShort => CallDue /\ ~CallDue'
  BY <1>1, HeldKept
<1>4. /\ futureLegs \in Seq(LegRow(FuturesSides)) /\ optionLegs \in Seq(LegRow(OptionSides))
      /\ IsFiniteSet(OpenRows(futureLegs)) /\ IsFiniteSet(OpenRows(optionLegs))
  BY Rows DEF AccountInv, TablesType, RowsIn
<1>5. ASSUME NEW rows, NEW side
      PROVE  \A i : i \in OpenOf(rows, side) <=> i \in OpenRows(rows) /\ rows[i].side = side
  BY DEF OpenOf, OpenRows
<1>6. CASE UNCHANGED <<futureLegs, optionLegs>> /\ ~RecordBuy /\ ~RecordSell
  BY <1>2, <1>3, <1>6
<1>7. ASSUME NEW side \in Sides, NEW opposite, phase # "idle", Enter(side, opposite),
             event.signal = side
      PROVE  /\ Cardinality(OpenRows(futureLegs')) = Cardinality(OpenRows(optionLegs'))
             /\ OpenOf(optionLegs', HedgeOf(side)) # {}
             /\ \A other : OpenOf(optionLegs, other) # {} => OpenOf(optionLegs', other) # {}
  <2>1. /\ \E k : k \notin OpenRows(futureLegs)
                  /\ OpenRows(futureLegs') = OpenRows(futureLegs) \cup {k}
        /\ \E k : /\ k \notin OpenRows(optionLegs)
                  /\ OpenRows(optionLegs') = OpenRows(optionLegs) \cup {k}
                  /\ optionLegs'[k].side = HedgeOf(event.signal)
        /\ \A i \in OpenRows(optionLegs) : optionLegs'[i].side = optionLegs[i].side
    BY <1>7, Entered
  <2>2. PICK f : f \notin OpenRows(futureLegs)
                 /\ OpenRows(futureLegs') = OpenRows(futureLegs) \cup {f}
    BY <2>1
  <2>3. PICK o : /\ o \notin OpenRows(optionLegs)
                 /\ OpenRows(optionLegs') = OpenRows(optionLegs) \cup {o}
                 /\ optionLegs'[o].side = HedgeOf(event.signal)
    BY <2>1
  <2>4. Cardinality(OpenRows(futureLegs')) = Cardinality(OpenRows(optionLegs'))
    BY <1>2, <1>4, <2>2, <2>3, OneOfEach
  <2>5. o \in OpenOf(optionLegs', HedgeOf(side))
    BY <1>5, <1>7, <2>3
  <2>6. \A other : OpenOf(optionLegs, other) \subseteq OpenOf(optionLegs', other)
    BY <1>5, <2>1, <2>3
  <2> QED BY <2>4, <2>5, <2>6
<1>8. CASE RecordBuy
  <2>1. phase # "idle" /\ Enter("BUY", "SELL") /\ event.signal = "BUY" /\ ~RecordSell
    BY <1>8 DEF RecordBuy, RecordSell, PhaseOK
  <2>2. HedgeOf("BUY") = "PE" /\ "BUY" \in Sides
    BY DEF HedgeOf, Sides
  <2> QED BY <1>2, <1>3, <1>7, <2>1, <2>2
<1>9. CASE RecordSell
  <2>1. phase # "idle" /\ Enter("SELL", "BUY") /\ event.signal = "SELL" /\ ~RecordBuy
    BY <1>9 DEF RecordBuy, RecordSell, PhaseOK
  <2>2. HedgeOf("SELL") = "CE" /\ "SELL" \in Sides
    BY DEF HedgeOf, Sides
  <2> QED BY <1>2, <1>3, <1>7, <2>1, <2>2
<1>10. ASSUME NEW hedge, phase # "idle", CloseDerivatives(hedge), OpenOf(optionLegs, hedge) # {}
       PROVE  /\ Cardinality(OpenRows(futureLegs')) = Cardinality(OpenRows(optionLegs'))
              /\ \A other : other # hedge /\ OpenOf(optionLegs, other) # {}
                                => OpenOf(optionLegs', other) # {}
  <2>1. /\ OpenRows(futureLegs) # {} =>
               \E k \in OpenRows(futureLegs) : OpenRows(futureLegs') = OpenRows(futureLegs) \ {k}
        /\ OpenOf(optionLegs, hedge) # {} =>
               \E k \in OpenOf(optionLegs, hedge) : OpenRows(optionLegs') = OpenRows(optionLegs) \ {k}
        /\ \A i \in DOMAIN optionLegs : optionLegs'[i].side = optionLegs[i].side
    BY <1>10, DerivativesClosed
  <2>2. PICK o \in OpenOf(optionLegs, hedge) : OpenRows(optionLegs') = OpenRows(optionLegs) \ {o}
    BY <1>10, <2>1
  <2>3. o \in OpenRows(optionLegs) /\ optionLegs[o].side = hedge
    BY <1>5
  <2>4. OpenRows(futureLegs) # {}
    BY <1>2, <1>4, <2>3, OneOfEach
  <2>5. PICK f \in OpenRows(futureLegs) : OpenRows(futureLegs') = OpenRows(futureLegs) \ {f}
    BY <2>1, <2>4
  <2>6. Cardinality(OpenRows(futureLegs')) = Cardinality(OpenRows(optionLegs'))
    BY <1>2, <1>4, <2>2, <2>3, <2>5, OneOfEach
  <2>7. \A i \in OpenRows(optionLegs) : optionLegs'[i].side = optionLegs[i].side
    BY <2>1 DEF OpenRows
  <2>8. \A other : other # hedge => OpenOf(optionLegs, other) \subseteq OpenOf(optionLegs', other)
    BY <1>5, <2>2, <2>3, <2>7
  <2> QED BY <2>6, <2>8
<1>11. CASE CloseLong
  <2>1. phase # "idle" /\ CloseDerivatives("PE") /\ ~RecordSell
    BY <1>11 DEF CloseLong, RecordSell
  <2> QED BY <1>2, <1>3, <1>10, <1>11, <2>1
<1>12. CASE EndShort
  <2>1. phase # "idle" /\ CloseDerivatives("CE") /\ ~RecordBuy
    BY <1>12 DEF EndShort, RecordBuy
  <2> QED BY <1>2, <1>3, <1>10, <1>12, <2>1
<1>13. EvaluateBar => UNCHANGED <<futureLegs, optionLegs>> /\ ~RecordBuy /\ ~RecordSell
  BY DEF EvaluateBar, RecordBuy, RecordSell, shadowVars
<1> QED BY <1>1, <1>6, <1>8, <1>9, <1>11, <1>12, <1>13, Moves

-------------------------------------------------------------------------------
(* The cycle's invariant, and what follows from it.                        *)

LEMMA CycleInit ==
    ASSUME Init
    PROVE  CycleInv
<1>1. /\ AccountInv /\ phase = "idle" /\ events = <<>> /\ trades = <<>> /\ combos = <<>>
      /\ futureLegs = <<>> /\ optionLegs = <<>> /\ lost = {} /\ strategy = FreshStrategy
  BY AccountInit DEF Init
<1>2. bar = 0 /\ Len(events) = 0
  BY <1>1 DEF bar
<1>3. Pine(events)[bar] = [current |-> Flat, scored |-> {}]
  <2>1. Len(events) \in Nat
    BY <1>2
  <2>2. Pine(events)[0] = NothingReplayed
    BY <2>1, PineIs
  <2> QED BY <1>2, <2>2 DEF NothingReplayed
<1>4. ~strategy.longLive /\ ~strategy.shortLive
  BY <1>1 DEF FreshStrategy
<1>5. PhaseOK /\ StrategyOK
  BY <1>1, <1>4 DEF PhaseOK, StrategyOK
<1>6. PineOK
  BY <1>1, <1>3, <1>4 DEF PineOK, Flat
<1>7. TradesOK
  <2>1. ClosedTrades(trades) = {}
    BY <1>1, ClosedIs
  <2>2. PICK p : p = Pine(events)[bar]
    OBVIOUS
  <2>3. p.scored = {} /\ p.current.side \notin Sides
    BY <1>3, <2>2 DEF Flat, Sides
  <2>4. Agrees(trades, p)
    BY <2>1, <2>3 DEF Agrees
  <2> QED BY <1>1, <2>2, <2>4 DEF TradesOK
<1>8. OpenRows(combos) = {} /\ OpenRows(futureLegs) = {} /\ OpenRows(optionLegs) = {}
  BY <1>1 DEF OpenRows
<1>9. CombosOK
  BY <1>1, <1>8 DEF CombosOK
<1>10. ~PutDue /\ ~CallDue
  BY <1>1, <1>4 DEF PutDue, CallDue, LongHeld, ShortHeld, BeforeLongExits
<1>11. LegsOK
  BY <1>8, <1>10 DEF LegsOK
<1> QED BY <1>1, <1>5, <1>6, <1>7, <1>9, <1>11 DEF CycleInv

LEMMA CycleKept ==
    ASSUME CycleInv, [Next]_vars
    PROVE  CycleInv'
<1>1. AccountInv /\ PhaseOK /\ StrategyOK /\ PineOK /\ TradesOK /\ CombosOK /\ LegsOK
  BY DEF CycleInv
<1>2. AccountInv'
  BY <1>1, AccountKept
<1>3. PhaseOK' /\ StrategyOK' /\ PineOK'
  BY <1>1, StrategyKept
<1>4. TradesOK' /\ CombosOK' /\ LegsOK'
  BY <1>1, TradesKept, CombosKept, LegsKept
<1> QED BY <1>2, <1>3, <1>4 DEF CycleInv

LEMMA CycleHolds == Spec => []CycleInv
<1>1. Init => CycleInv
  BY CycleInit
<1>2. CycleInv /\ [Next]_vars => CycleInv'
  BY CycleKept
<1> QED BY <1>1, <1>2, PTL DEF Spec

(* The trades that count towards a symbol's track record are those Pine's  *)
(* backtest scores on the same bars, whatever the bars and however often   *)
(* an entry reverses a trade that is open, as long as no bar's processing  *)
(* was cut short (_process_symbol against replay_pine_backtest).           *)
THEOREM ScoresMatchPine == Spec => []ScoredAsPine
<1>1. ASSUME CycleInv PROVE ScoredAsPine
  <2>1. Len(events) \in Nat /\ bar = Len(events)
    BY <1>1, LenProperties DEF CycleInv, AccountInv, CycleType, bar
  <2>2. ReplayPineBacktest(events) = Pine(events)[bar]
    BY <2>1, PineIs
  <2>3. phase = "idle" /\ lost = {} => Agrees(trades, Pine(events)[bar])
    BY <1>1 DEF CycleInv, TradesOK
  <2> QED BY <2>2, <2>3 DEF ScoredAsPine, Agrees
<1> QED BY <1>1, CycleHolds, PTL

(* A symbol has at most one combo open once its bar is processed, and it   *)
(* is on the side of the trade Pine has open, as long as nothing failed    *)
(* (_rank_and_open_futures_positions, and _close_futures_paper by symbol). *)
THEOREM CombosFollow == Spec => []CombosFollowStrategy
<1>1. ASSUME CycleInv, phase = "idle", faults = 0
      PROVE  /\ Cardinality(OpenRows(combos)) <= 1
             /\ \A i \in OpenRows(combos) :
                    LET side == ReplayPineBacktest(events).current.side
                    IN  side \in Sides /\ combos[i].side = SideOf(side)
  <2>1. Len(events) \in Nat /\ bar = Len(events)
    BY <1>1, LenProperties DEF CycleInv, AccountInv, CycleType, bar
  <2>2. ReplayPineBacktest(events) = Pine(events)[bar]
    BY <2>1, PineIs
  <2>3. PICK side : side = ReplayPineBacktest(events).current.side
    OBVIOUS
  <2>4. (side = "BUY" <=> strategy.longLive) /\ (side = "SELL" <=> strategy.shortLive)
    BY <1>1, <2>2, <2>3 DEF CycleInv, PineOK
  <2>5. /\ \A i, j \in OpenRows(combos) : i = j
        /\ \A i \in OpenRows(combos) :
              IF combos[i].side = "long" THEN strategy.longLive ELSE strategy.shortLive
    BY <1>1 DEF CycleInv, CombosOK, LongHeld, ShortHeld, BeforeLongExits
  <2>6. \A i \in OpenRows(combos) : combos[i].side \in FuturesSides
    BY <1>1, OpenLegs DEF CycleInv, AccountInv, TablesType
  <2>7. \A i \in OpenRows(combos) : side \in Sides /\ combos[i].side = SideOf(side)
    BY <2>4, <2>5, <2>6 DEF Sides, SideOf, FuturesSides
  <2>8. Cardinality(OpenRows(combos)) <= 1
    <3>1. CASE OpenRows(combos) = {}
      BY <3>1, FS_EmptySet
    <3>2. CASE OpenRows(combos) # {}
      <4>1. PICK i : OpenRows(combos) = {i}
        BY <2>5, <3>2
      <4>2. Cardinality({i}) = 1
        BY FS_Singleton
      <4> QED BY <4>1, <4>2
    <3> QED BY <3>1, <3>2
  <2> QED BY <2>3, <2>7, <2>8
<1>2. CycleInv => CombosFollowStrategy
  BY <1>1 DEF CombosFollowStrategy
<1> QED BY <1>2, CycleHolds, PTL

(* Every shadow future that is open has an option open beside it: an exit  *)
(* finds the option of its own side, which the entry it ends has opened    *)
(* and no other exit has sold, and takes out one future with it, as long   *)
(* as nothing failed (_open_derivatives_shadow, _close_derivatives_shadow).*)
THEOREM LegsPair == Spec => []LegsBalance
<1>1. CycleInv => LegsBalance
  BY DEF CycleInv, LegsOK, LegsBalance
<1> QED BY <1>1, CycleHolds, PTL
==============================================================================
