-------------------------- MODULE CashTradingProofs ---------------------------
(***************************************************************************)
(* Theorems about CashTrading for every value of its constants.            *)
(***************************************************************************)
EXTENDS CashTrading, LedgerFacts, FiniteSetTheorems, SequenceTheorems, TLAPS

(* What some of the theorems assume: signals are evaluated by one process. *)
OnePipeline == \A p, q \in Pipelines : p = q

-------------------------------------------------------------------------------
(* Facts about data.                                                       *)

(* A nonempty set of positions of a sequence has a first and a last one.   *)
LEMMA ExtremaExist ==
    ASSUME NEW n \in Nat, NEW S \in SUBSET (1..n), S # {}
    PROVE  Min(S) \in S /\ Max(S) \in S
<1>1. IsFiniteSet(S)
  <2>1. IsFiniteSet(1..n)
    BY FS_Interval, 1 \in Int, n \in Int
  <2> QED BY <2>1, FS_Subset
<1> DEFINE R == StrictSubsetOrdering(S)
<1>2. IsWellFoundedOn(R, SUBSET S)
  BY <1>1, FS_StrictSubsetOrderingWellFounded, FS_FiniteSubsetsOfFinite
<1> HIDE DEF R
<1>3. \E x \in S : \A y \in S : x <= y
  <2> DEFINE Below == {S \cap (1..x) : x \in S}
  <2>1. PICK T \in Below : \A U \in Below : <<U, T>> \notin R
    <3>1. Below \subseteq SUBSET S /\ Below # {}
      OBVIOUS
    <3> HIDE DEF Below
    <3> QED BY <3>1, <1>2, WFMin
  <2>2. PICK x \in S : T = S \cap (1..x)
    BY <2>1
  <2>3. ASSUME NEW y \in S, ~(x <= y)
        PROVE  FALSE
    <3> DEFINE U == S \cap (1..y)
    <3>1. U \subseteq T /\ x \in T /\ x \notin U /\ U \in Below
      BY <2>2, <2>3
    <3>2. <<U, T>> \in R
      BY <3>1, <2>2 DEF StrictSubsetOrdering, R
    <3> QED BY <3>1, <3>2, <2>1
  <2> QED BY <2>3
<1>4. \E x \in S : \A y \in S : x >= y
  <2> DEFINE Above == {S \cap (x..n) : x \in S}
  <2>1. PICK T \in Above : \A U \in Above : <<U, T>> \notin R
    <3>1. Above \subseteq SUBSET S /\ Above # {}
      OBVIOUS
    <3> HIDE DEF Above
    <3> QED BY <3>1, <1>2, WFMin
  <2>2. PICK x \in S : T = S \cap (x..n)
    BY <2>1
  <2>3. ASSUME NEW y \in S, ~(x >= y)
        PROVE  FALSE
    <3> DEFINE U == S \cap (y..n)
    <3>1. U \subseteq T /\ x \in T /\ x \notin U /\ U \in Above
      BY <2>2, <2>3
    <3>2. <<U, T>> \in R
      BY <3>1, <2>2 DEF StrictSubsetOrdering, R
    <3> QED BY <3>1, <3>2, <2>1
  <2> QED BY <2>3
<1> QED BY <1>3, <1>4 DEF Min, Max

(* What the exit paths act on is a row of the ledger.                      *)
LEMMA EntryIsALeg ==
    ASSUME NEW legs \in Seq(Leg), UnclosedLegs(legs) # {}
    PROVE  legs # <<>> /\ EntryLeg(legs) \in Leg
<1>1. UnclosedLegs(legs) \subseteq DOMAIN legs
  BY DEF UnclosedLegs, OpenQuantity, Openers
<1>2. DOMAIN legs = 1..Len(legs) /\ Len(legs) \in Nat
  BY LenProperties
<1>3. Min(UnclosedLegs(legs)) \in UnclosedLegs(legs)
  BY <1>1, <1>2, ExtremaExist
<1>4. EntryLeg(legs) \in Leg
  BY <1>1, <1>2, <1>3, ElementOfSeq DEF EntryLeg
<1>5. legs # <<>>
  BY <1>1, <1>2, EmptySeq
<1> QED BY <1>4, <1>5
-------------------------------------------------------------------------------
(* The type invariant.  It is not inductive by itself: what a task writes  *)
(* to the ledger comes from its local variables, so the invariant has to   *)
(* say what they hold at each step.                                        *)

ClosingSteps == {"verify", "getBracket", "gttStatus", "cancelGtt", "updateBracket",
                 "reconcile", "place", "wait", "record"}

(* Local variables j fit a task at a step, when its symbol has these legs  *)
(* and the broker has accepted n orders.                                   *)
Consistent(step, j, legs, n) ==
    /\ step = "idle" => j = NoJob
    /\ step \in EntrySteps => j.kind = "entry"
    /\ step \in ExitSteps => j.kind # "entry"
    /\ j.kind = "entry" => j.qty # 0
    /\ (j.kind # "entry" /\ step \in ClosingSteps) => j.qty # 0 /\ legs # <<>>
    /\ step = "wait" => j.oid \in 1..n
    /\ step = "record" => j.oid \in 0..n /\ j.result \in OrderResults
    /\ step \in {"cancelGtt", "updateBracket"} => j.result \in {"cancelled", "closed"}
    /\ step = "recordBracket" => j.trigger # 0

JobsOK == \A t \in Tasks :
              Consistent(pc[t], job[t], ledger[Symbol(t)], Len(orders))

TypeInv == TypeOK /\ JobsOK

(* What the rest of the world may do while a task moves: orders and rows   *)
(* are added, none is removed.                                             *)
OnlyGrows ==
    /\ Len(orders) \in Nat /\ Len(orders') \in Nat /\ Len(orders') >= Len(orders)
    /\ \A s \in Symbols : ledger[s] # <<>> => ledger'[s] # <<>>

LEMMA TaskMoves ==
    ASSUME TypeInv, OnlyGrows, NEW t \in Tasks, NEW step \in Steps, NEW j \in Job,
           ContinueWith(t, step, j),
           Consistent(step, j, ledger'[Symbol(t)], Len(orders'))
    PROVE  pc' \in [Tasks -> Steps] /\ job' \in [Tasks -> Job] /\ JobsOK'
<1>1. pc' \in [Tasks -> Steps] /\ job' \in [Tasks -> Job]
  BY DEF TypeInv, TypeOK, ContinueWith
<1>2. ASSUME NEW u \in Tasks
      PROVE  Consistent(pc'[u], job'[u], ledger'[Symbol(u)], Len(orders'))
  <2>1. CASE u = t
    BY <2>1 DEF TypeInv, TypeOK, ContinueWith
  <2>2. CASE u # t
    <3>1. pc'[u] = pc[u] /\ job'[u] = job[u] /\ Symbol(u) \in Symbols
      BY <2>2 DEF TypeInv, TypeOK, ContinueWith, Tasks, Symbol
    <3>2. Consistent(pc[u], job[u], ledger[Symbol(u)], Len(orders))
      BY DEF TypeInv, JobsOK
    <3> QED BY <3>1, <3>2 DEF Consistent, OnlyGrows
  <2> QED BY <2>1, <2>2
<1> QED BY <1>1, <1>2 DEF JobsOK

(* Writing a well-formed row keeps the ledger well-formed.                 *)
LEMMA WritingALeg ==
    ASSUME TypeOK, NEW s \in Symbols, NEW side \in Sides, NEW status \in OrderResults,
           NEW qty \in Nat \ {0}, NEW intent \in Bars \cup {None}, NEW oid \in Nat,
           side = "BUY" \/ ledger[s] # <<>>,
           WriteLeg(s, side, status, qty, intent, oid)
    PROVE  /\ ledger' \in [Symbols -> Seq(Leg)]
           /\ \A r \in Symbols : ledger'[r] # <<>> => OpeningSide(ledger'[r]) = "BUY"
           /\ \A r \in Symbols : ledger[r] # <<>> => ledger'[r] # <<>>
<1> DEFINE leg == [side |-> side, status |-> status, qty |-> qty,
                   intent |-> intent, oid |-> oid, seen |-> Len(orders)]
<1>1. leg \in Leg
  BY LenProperties DEF TypeOK, Leg
<1> HIDE DEF leg
<1>2. ledger' = [ledger EXCEPT ![s] = Append(@, leg)]
  BY DEF WriteLeg, leg
<1>3. ledger[s] \in Seq(Leg)
  BY DEF TypeOK
<1>4. /\ Append(ledger[s], leg) \in Seq(Leg)
      /\ Append(ledger[s], leg) # <<>>
      /\ ledger[s] # <<>> => Append(ledger[s], leg)[1] = ledger[s][1]
      /\ ledger[s] = <<>> => Append(ledger[s], leg)[1] = leg
  BY <1>1, <1>3, AppendProperties, EmptySeq, LenProperties
<1>5. leg.side = side
  BY DEF leg
<1> QED BY <1>2, <1>4, <1>5 DEF TypeOK, OpeningSide

(* A step that changes nothing but the task's own place and variables.     *)
LEMMA LocalMove ==
    ASSUME TypeInv, NEW t \in Tasks, NEW step \in Steps, NEW j \in Job,
           ContinueWith(t, step, j),
           Consistent(step, j, ledger[Symbol(t)], Len(orders)),
           UNCHANGED <<brokerVars, recordVars, clockVars, lost>>
    PROVE  TypeInv'
<1>1. OnlyGrows
  BY LenProperties DEF OnlyGrows, TypeInv, TypeOK, brokerVars, recordVars
<1>2. Consistent(step, j, ledger'[Symbol(t)], Len(orders'))
  BY DEF brokerVars, recordVars
<1>3. pc' \in [Tasks -> Steps] /\ job' \in [Tasks -> Job] /\ JobsOK'
  BY <1>1, <1>2, TaskMoves
<1> QED BY <1>3 DEF TypeInv, TypeOK, brokerVars, recordVars, clockVars

LEMMA ContinuingKeepsJob ==
    ASSUME TypeOK, NEW t \in Tasks, NEW step, Continue(t, step)
    PROVE  ContinueWith(t, step, job[t])
BY DEF TypeOK, Continue, ContinueWith

LEMMA FinishIsLocal ==
    ASSUME TypeInv, NEW t \in Tasks, Finish(t),
           UNCHANGED <<brokerVars, recordVars, clockVars, lost>>
    PROVE  TypeInv'
<1>1. NoJob \in Job /\ Consistent("idle", NoJob, ledger[Symbol(t)], Len(orders))
  BY DEF NoJob, Job, Consistent, EntrySteps, ExitSteps, ClosingSteps
<1> QED BY <1>1, LocalMove DEF Finish, Steps

(* The steps of a task before and after its order, none of which writes.   *)
LEMMA EntryLookupsType ==
    ASSUME TypeInv, NEW t \in Tasks,
           \/ CheckOpen(t) \/ CheckCapacity(t) \/ CheckIntent(t)
           \/ NoTaggedOrder(t) \/ NoHiddenPosition(t)
    PROVE  TypeInv'
<1>1. PICK step \in {"finalize", "checkCapacity", "checkIntent", "lookupTag",
                     "checkHolding", "place"} :
          Continue(t, step)
  BY DEF CheckOpen, CheckCapacity, CheckIntent, NoTaggedOrder, NoHiddenPosition
<1>2. ContinueWith(t, step, job[t])
  BY <1>1, ContinuingKeepsJob DEF TypeInv
<1>3. pc[t] \in EntrySteps /\ UNCHANGED <<brokerVars, recordVars, clockVars, lost>>
  BY DEF CheckOpen, CheckCapacity, CheckIntent, NoTaggedOrder, NoHiddenPosition, EntrySteps
<1>4. Consistent(step, job[t], ledger[Symbol(t)], Len(orders))
  BY <1>3 DEF TypeInv, JobsOK, Consistent, EntrySteps, ExitSteps
<1>5. step \in Steps /\ job[t] \in Job
  BY DEF TypeInv, TypeOK, Steps, EntrySteps, OrderSteps
<1> QED BY <1>2, <1>3, <1>4, <1>5, LocalMove

LEMMA RecheckType ==
    ASSUME TypeInv, NEW t \in Tasks, Recheck(t)
    PROVE  TypeInv'
<1>1. /\ pc[t] = "recheck" /\ job[t] \in Job
      /\ Consistent(pc[t], job[t], ledger[Symbol(t)], Len(orders))
      /\ UNCHANGED <<brokerVars, recordVars, clockVars, lost>>
  BY DEF Recheck, TypeInv, TypeOK, JobsOK
<1>2. CASE Continue(t, "finalize")
  <2>1. ContinueWith(t, "finalize", job[t])
    BY <1>2, ContinuingKeepsJob DEF TypeInv
  <2> QED BY <1>1, <2>1, LocalMove DEF Consistent, Steps, EntrySteps, ExitSteps
<1>3. CASE ContinueWith(t, "place", [job[t] EXCEPT !.attempt = @ + 1])
  <2> DEFINE j == [job[t] EXCEPT !.attempt = @ + 1]
  <2>1. j \in Job
    <3>1. job[t].attempt + 1 \in Nat
      BY <1>1 DEF Job
    <3> QED BY <1>1, <3>1 DEF Job
  <2>2. Consistent("place", j, ledger[Symbol(t)], Len(orders))
    BY <1>1 DEF Consistent, Job, EntrySteps, ExitSteps
  <2> QED BY <1>1, <1>3, <2>1, <2>2, LocalMove DEF Steps, OrderSteps
<1> QED BY <1>2, <1>3 DEF Recheck

LEMMA FinalizeType ==
    ASSUME TypeInv, NEW t \in Tasks, Finalize(t)
    PROVE  TypeInv'
<1>1. /\ pc[t] = "finalize" /\ job[t] \in Job /\ Symbol(t) \in Symbols
      /\ Consistent(pc[t], job[t], ledger[Symbol(t)], Len(orders))
      /\ UNCHANGED <<brokerVars, recordVars, clockVars, lost>>
  BY DEF Finalize, TypeInv, TypeOK, JobsOK, Tasks, Symbol
<1>2. CASE Unclosed(Symbol(t)) # {} /\ job[t].gated
  <2> DEFINE qty == Entry(Symbol(t)).qty
             j == [job[t] EXCEPT !.qty = qty]
  <2>1. qty \in Nat \ {0}
    BY <1>1, <1>2, EntryIsALeg DEF TypeInv, TypeOK, Unclosed, Entry, Leg
  <2>2. ContinueWith(t, "placeGtt", j)
    BY <1>2 DEF Finalize
  <2> HIDE DEF qty
  <2>3. j \in Job /\ Consistent("placeGtt", j, ledger[Symbol(t)], Len(orders))
    BY <1>1, <2>1 DEF Job, Consistent, EntrySteps, ExitSteps
  <2> HIDE DEF j
  <2> QED BY <1>1, <2>2, <2>3, LocalMove DEF Steps, EntrySteps
<1>3. CASE ~(Unclosed(Symbol(t)) # {} /\ job[t].gated)
  <2>1. Finish(t)
    BY <1>3 DEF Finalize
  <2> QED BY <1>1, <2>1, FinishIsLocal
<1> QED BY <1>2, <1>3

LEMMA LookupType ==
    ASSUME TypeInv, NEW t \in Tasks, Lookup(t) \/ Square(t)
    PROVE  TypeInv'
<1>1. /\ pc[t] \in {"lookup", "square"} /\ job[t] \in Job /\ Symbol(t) \in Symbols
      /\ Consistent(pc[t], job[t], ledger[Symbol(t)], Len(orders))
      /\ UNCHANGED <<brokerVars, recordVars, clockVars, lost>>
  BY DEF Lookup, Square, TypeInv, TypeOK, JobsOK, Tasks, Symbol
<1> DEFINE qty == Entry(Symbol(t)).qty
           j == [job[t] EXCEPT !.qty = qty]
<1>2. ASSUME Unclosed(Symbol(t)) # {}, NEW step \in {"verify", "place"},
             ContinueWith(t, step, j)
      PROVE  TypeInv'
  <2>1. qty \in Nat \ {0} /\ ledger[Symbol(t)] # <<>>
    BY <1>1, <1>2, EntryIsALeg DEF TypeInv, TypeOK, Unclosed, Entry, Leg
  <2> HIDE DEF qty
  <2>2. j \in Job /\ Consistent(step, j, ledger[Symbol(t)], Len(orders))
    BY <1>1, <2>1 DEF Job, Consistent, EntrySteps, ExitSteps
  <2> HIDE DEF j
  <2> QED BY <1>1, <1>2, <2>2, LocalMove DEF Steps, ExitSteps, OrderSteps
<1>3. ASSUME Continue(t, "square"), pc[t] = "lookup" PROVE TypeInv'
  <2>1. ContinueWith(t, "square", job[t])
    BY <1>3, ContinuingKeepsJob DEF TypeInv
  <2>2. Consistent("square", job[t], ledger[Symbol(t)], Len(orders))
    BY <1>1, <1>3 DEF Consistent, ClosingSteps, EntrySteps, ExitSteps
  <2> QED BY <1>1, <2>1, <2>2, LocalMove DEF Steps, ExitSteps
<1>4. ASSUME Finish(t) PROVE TypeInv'
  BY <1>1, <1>4, FinishIsLocal
<1> QED BY <1>2, <1>3, <1>4 DEF Lookup, Square

LEMMA VerifyType ==
    ASSUME TypeInv, NEW t \in Tasks, Verify(t)
    PROVE  TypeInv'
<1>1. /\ pc[t] = "verify" /\ job[t] \in Job
      /\ Consistent(pc[t], job[t], ledger[Symbol(t)], Len(orders))
      /\ UNCHANGED <<brokerVars, recordVars, clockVars, lost>>
  BY DEF Verify, TypeInv, TypeOK, JobsOK
<1>2. PICK real \in {"held", "flat", "unverified"} :
          ContinueWith(t, "getBracket", [job[t] EXCEPT !.real = real])
  BY DEF Verify
<1> DEFINE j == [job[t] EXCEPT !.real = real]
<1>3. j \in Job /\ Consistent("getBracket", j, ledger[Symbol(t)], Len(orders))
  BY <1>1 DEF Job, Consistent, ClosingSteps, EntrySteps, ExitSteps
<1> QED BY <1>1, <1>2, <1>3, LocalMove DEF Steps, ExitSteps

LEMMA GetBracketType ==
    ASSUME TypeInv, NEW t \in Tasks, GetBracket(t)
    PROVE  TypeInv'
<1>1. /\ pc[t] = "getBracket" /\ job[t] \in Job
      /\ Consistent(pc[t], job[t], ledger[Symbol(t)], Len(orders))
      /\ UNCHANGED <<brokerVars, recordVars, clockVars, lost>>
  BY DEF GetBracket, TypeInv, TypeOK, JobsOK
<1> DEFINE active == ActiveBrackets(Symbol(t))
<1>2. CASE active = {}
  <2>1. PICK step \in {"reconcile", "square"} : Continue(t, step)
    BY <1>2 DEF GetBracket, CloseStep
  <2>2. ContinueWith(t, step, job[t])
    BY <2>1, ContinuingKeepsJob DEF TypeInv
  <2>3. Consistent(step, job[t], ledger[Symbol(t)], Len(orders))
    BY <1>1 DEF Consistent, ClosingSteps, EntrySteps, ExitSteps
  <2> QED BY <1>1, <2>2, <2>3, LocalMove DEF Steps, ExitSteps
<1>3. CASE active # {}
  <2> DEFINE g == brackets[Max(active)].trigger
             j == [job[t] EXCEPT !.trigger = g]
  <2>1. g \in Nat \ {0}
    <3>1. brackets \in Seq(Bracket) /\ Len(brackets) \in Nat /\ DOMAIN brackets = 1..Len(brackets)
      BY LenProperties DEF TypeInv, TypeOK
    <3>2. active \in SUBSET (1..Len(brackets))
      BY <3>1 DEF ActiveBrackets
    <3>3. Max(active) \in 1..Len(brackets)
      BY <1>3, <3>1, <3>2, ExtremaExist
    <3>4. brackets[Max(active)] \in Bracket
      BY <3>1, <3>3, ElementOfSeq
    <3> QED BY <3>4 DEF Bracket
  <2>2. ContinueWith(t, "gttStatus", j)
    BY <1>3 DEF GetBracket
  <2> HIDE DEF g
  <2>3. j \in Job /\ Consistent("gttStatus", j, ledger[Symbol(t)], Len(orders))
    BY <1>1, <2>1 DEF Job, Consistent, ClosingSteps, EntrySteps, ExitSteps
  <2> HIDE DEF j
  <2> QED BY <1>1, <2>2, <2>3, LocalMove DEF Steps, ExitSteps
<1> QED BY <1>2, <1>3

LEMMA GttStatusType ==
    ASSUME TypeInv, NEW t \in Tasks, GttStatus(t)
    PROVE  TypeInv'
<1>1. /\ pc[t] = "gttStatus" /\ job[t] \in Job
      /\ Consistent(pc[t], job[t], ledger[Symbol(t)], Len(orders))
      /\ UNCHANGED <<brokerVars, recordVars, clockVars, lost>>
  BY DEF GttStatus, TypeInv, TypeOK, JobsOK
<1>2. PICK step \in {"cancelGtt", "updateBracket"}, result \in {"cancelled", "closed"},
           real \in {"none", "held", "flat", "unverified"} :
          ContinueWith(t, step, [job[t] EXCEPT !.result = result, !.real = real])
  <2>1. job[t].real \in {"none", "held", "flat", "unverified"}
    BY <1>1 DEF Job
  <2>2. PICK live : ContinueWith(t, IF live THEN "cancelGtt" ELSE "updateBracket",
              [job[t] EXCEPT !.result = IF live THEN "cancelled" ELSE "closed",
                             !.real = IF @ = "unverified" /\ ~live THEN "flat" ELSE @])
    BY DEF GttStatus
  <2> QED BY <2>1, <2>2
<1> DEFINE j == [job[t] EXCEPT !.result = result, !.real = real]
<1>3. j \in Job /\ Consistent(step, j, ledger[Symbol(t)], Len(orders))
  BY <1>1 DEF Job, Consistent, ClosingSteps, EntrySteps, ExitSteps
<1> HIDE DEF j
<1>4. ContinueWith(t, step, j)
  BY <1>2 DEF j
<1> QED BY <1>1, <1>3, <1>4, LocalMove DEF Steps, ExitSteps

LEMMA StartType ==
    ASSUME TypeInv, NEW t \in Tasks,
           \/ \E bar \in Bars, gated \in BOOLEAN : StartEntry(t, bar, gated)
           \/ StartExit(t)
    PROVE  TypeInv'
<1>1. ASSUME NEW bar \in Bars, NEW gated \in BOOLEAN, StartEntry(t, bar, gated)
      PROVE  TypeInv'
  <2> DEFINE j == [NoJob EXCEPT !.kind = "entry", !.bar = bar, !.gated = gated,
                                !.attempt = 1, !.qty = EntryQty]
  <2>1. /\ ContinueWith(t, "checkOpen", j)
        /\ UNCHANGED <<brokerVars, recordVars, clockVars, lost>>
    BY <1>1 DEF StartEntry
  <2>2. j \in Job /\ j.kind = "entry" /\ j.qty # 0
    BY NumberAssumption DEF NumberAssumption, NoJob, Job
  <2>3. Consistent("checkOpen", j, ledger[Symbol(t)], Len(orders))
    BY <2>2 DEF Consistent, EntrySteps, ExitSteps
  <2> HIDE DEF j
  <2> QED BY <2>1, <2>2, <2>3, LocalMove DEF Steps, EntrySteps
<1>2. ASSUME StartExit(t) PROVE TypeInv'
  <2> DEFINE j == [NoJob EXCEPT !.kind = "exit"]
  <2>1. /\ ContinueWith(t, "lookup", j)
        /\ UNCHANGED <<brokerVars, recordVars, clockVars, lost>>
    BY <1>2 DEF StartExit
  <2>2. j \in Job /\ Consistent("lookup", j, ledger[Symbol(t)], Len(orders))
    BY DEF NoJob, Job, Consistent, EntrySteps, ExitSteps, ClosingSteps
  <2> HIDE DEF j
  <2> QED BY <2>1, <2>2, LocalMove DEF Steps, ExitSteps
<1> QED BY <1>1, <1>2

(* Steps around the order that change only the task.                       *)
LEMMA WaitType ==
    ASSUME TypeInv, NEW t \in Tasks, PlaceRefused(t) \/ WaitReturns(t) \/ WaitRaises(t)
    PROVE  TypeInv'
<1>1. /\ pc[t] \in {"place", "wait"} /\ job[t] \in Job
      /\ Consistent(pc[t], job[t], ledger[Symbol(t)], Len(orders))
      /\ Len(orders) \in Nat
      /\ UNCHANGED <<brokerVars, recordVars, clockVars, lost>>
  BY LenProperties
     DEF PlaceRefused, WaitReturns, WaitRaises, TypeInv, TypeOK, JobsOK
<1>2. PICK oid \in 0..Len(orders), result \in OrderResults :
          ContinueWith(t, "record", [job[t] EXCEPT !.oid = oid, !.result = result])
  <2>1. CASE PlaceRefused(t)
    <3>1. 0 \in 0..Len(orders)
      BY <1>1
    <3>2. "REJECTED" \in OrderResults
      BY DEF OrderResults, TerminalStatuses
    <3>3. ContinueWith(t, "record", [job[t] EXCEPT !.oid = 0, !.result = "REJECTED"])
      BY <2>1 DEF PlaceRefused
    <3> QED BY <3>1, <3>2, <3>3
  <2>2. ASSUME pc[t] = "wait", NEW result \in OrderResults,
               ContinueWith(t, "record", [job[t] EXCEPT !.result = result])
        PROVE  \E oid \in 0..Len(orders) :
                   ContinueWith(t, "record", [job[t] EXCEPT !.oid = oid, !.result = result])
    <3>1. job[t].oid \in 0..Len(orders)
      BY <1>1, <2>2 DEF Consistent
    <3>2. [job[t] EXCEPT !.result = result]
             = [job[t] EXCEPT !.oid = job[t].oid, !.result = result]
      BY <1>1 DEF Job
    <3> QED BY <2>2, <3>1, <3>2
  <2>3. CASE WaitReturns(t)
    <3>1. pc[t] = "wait" /\ job[t].oid \in 1..Len(orders)
      BY <1>1, <2>3 DEF WaitReturns, Consistent
    <3>2. orders[job[t].oid] \in Order
      BY <3>1, ElementOfSeq DEF TypeInv, TypeOK
    <3>3. Reported(job[t].oid) \subseteq OrderResults
      BY <3>2 DEF Reported, Pending, Order, OrderResults
    <3> QED BY <2>2, <2>3, <3>1, <3>3 DEF WaitReturns
  <2>4. CASE WaitRaises(t)
    BY <2>2, <2>4 DEF WaitRaises, OrderResults
  <2> QED BY <2>1, <2>3, <2>4
<1> DEFINE j == [job[t] EXCEPT !.oid = oid, !.result = result]
<1>3. j \in Job /\ j.kind = job[t].kind /\ j.qty = job[t].qty
      /\ j.oid = oid /\ j.result = result
  <2>1. oid \in Nat
    BY <1>1
  <2> QED BY <1>1, <2>1 DEF Job
<1> HIDE DEF j
<1>4. Consistent("record", j, ledger[Symbol(t)], Len(orders))
  BY <1>1, <1>3 DEF Consistent, ClosingSteps, EntrySteps, ExitSteps
<1>5. ContinueWith(t, "record", j)
  BY <1>2 DEF j
<1> QED BY <1>1, <1>3, <1>4, <1>5, LocalMove DEF Steps, OrderSteps

LEMMA GttRefusedType ==
    ASSUME TypeInv, NEW t \in Tasks, GttRefused(t)
    PROVE  TypeInv'
BY FinishIsLocal DEF GttRefused

(* Steps that write a row of the ledger.                                   *)
LEMMA LedgerMove ==
    ASSUME TypeInv, NEW t \in Tasks, NEW step \in Steps, NEW j \in Job,
           ContinueWith(t, step, j),
           Consistent(step, j, ledger'[Symbol(t)], Len(orders)),
           NEW side \in Sides, NEW status \in OrderResults, NEW qty \in Nat \ {0},
           NEW intent \in Bars \cup {None}, NEW oid \in Nat,
           side = "BUY" \/ ledger[Symbol(t)] # <<>>,
           WriteLeg(Symbol(t), side, status, qty, intent, oid),
           UNCHANGED <<brokerVars, brackets, clockVars, lost>>
    PROVE  TypeInv'
<1>1. /\ ledger' \in [Symbols -> Seq(Leg)]
      /\ \A r \in Symbols : ledger'[r] # <<>> => OpeningSide(ledger'[r]) = "BUY"
      /\ \A r \in Symbols : ledger[r] # <<>> => ledger'[r] # <<>>
  BY WritingALeg DEF TypeInv, Tasks, Symbol
<1>2. OnlyGrows
  BY <1>1, LenProperties DEF OnlyGrows, TypeInv, TypeOK, brokerVars
<1>3. pc' \in [Tasks -> Steps] /\ job' \in [Tasks -> Job] /\ JobsOK'
  BY <1>2, TaskMoves DEF brokerVars
<1> QED BY <1>1, <1>3 DEF TypeInv, TypeOK, brokerVars, clockVars

LEMMA HiddenPositionFoundType ==
    ASSUME TypeInv, NEW t \in Tasks, HiddenPositionFound(t)
    PROVE  TypeInv'
<1>1. /\ pc[t] = "checkHolding" /\ job[t] \in Job /\ held[Symbol(t)] \in Nat \ {0}
      /\ Consistent(pc[t], job[t], ledger[Symbol(t)], Len(orders))
  BY DEF HiddenPositionFound, TypeInv, TypeOK, JobsOK, Tasks, Symbol
<1>2. ContinueWith(t, "finalize", job[t])
  BY ContinuingKeepsJob DEF HiddenPositionFound, TypeInv
<1>3. Consistent("finalize", job[t], ledger'[Symbol(t)], Len(orders))
  BY <1>1 DEF Consistent, ClosingSteps, EntrySteps, ExitSteps
<1>4. job[t].bar \in Bars \cup {None} /\ "COMPLETE" \in OrderResults
      /\ "BUY" \in Sides /\ 0 \in Nat /\ "finalize" \in Steps
  BY <1>1 DEF Job, OrderResults, TerminalStatuses, Sides, Steps, EntrySteps
<1>5. /\ WriteLeg(Symbol(t), "BUY", "COMPLETE", held[Symbol(t)], job[t].bar, 0)
      /\ UNCHANGED <<brokerVars, brackets, clockVars, lost>>
  BY DEF HiddenPositionFound
<1> QED BY <1>1, <1>2, <1>3, <1>4, <1>5, LedgerMove

LEMMA TaggedOrderFoundType ==
    ASSUME TypeInv, NEW t \in Tasks, TaggedOrderFound(t)
    PROVE  TypeInv'
<1>1. /\ pc[t] = "lookupTag" /\ job[t] \in Job
      /\ Consistent(pc[t], job[t], ledger[Symbol(t)], Len(orders))
  BY DEF TaggedOrderFound, TypeInv, TypeOK, JobsOK
<1> DEFINE o == LatestTagged(Symbol(t), job[t].bar)
<1>2. o \in 1..Len(orders) /\ orders[o] \in Order
  <2>1. orders \in Seq(Order) /\ Len(orders) \in Nat /\ DOMAIN orders = 1..Len(orders)
    BY LenProperties DEF TypeInv, TypeOK
  <2>2. OrdersTagged(Symbol(t), job[t].bar) \in SUBSET (1..Len(orders))
    BY <2>1 DEF OrdersTagged, TodaysOrders
  <2>3. o \in 1..Len(orders)
    BY <2>1, <2>2, ExtremaExist DEF LatestTagged, TaggedOrderFound
  <2> QED BY <2>1, <2>3, ElementOfSeq
<1>3. PICK status \in Reported(o), step \in {"checkHolding", "finalize"} :
          /\ WriteLeg(Symbol(t), "BUY", status, orders[o].qty, job[t].bar, o)
          /\ Continue(t, step)
  BY DEF TaggedOrderFound
<1>4. ContinueWith(t, step, job[t])
  BY <1>3, ContinuingKeepsJob DEF TypeInv
<1>5. Consistent(step, job[t], ledger'[Symbol(t)], Len(orders))
  BY <1>1 DEF Consistent, ClosingSteps, EntrySteps, ExitSteps
<1>6. /\ job[t].bar \in Bars \cup {None} /\ status \in OrderResults
      /\ orders[o].qty \in Nat \ {0} /\ o \in Nat
      /\ "BUY" \in Sides /\ step \in Steps
  BY <1>1, <1>2, <1>3
     DEF Job, Order, Reported, Pending, OrderResults, Sides, Steps, EntrySteps
<1>7. UNCHANGED <<brokerVars, brackets, clockVars, lost>>
  BY DEF TaggedOrderFound
<1> HIDE DEF o
<1> QED BY <1>1, <1>3, <1>4, <1>5, <1>6, <1>7, LedgerMove

LEMMA RecordType ==
    ASSUME TypeInv, NEW t \in Tasks, Record(t)
    PROVE  TypeInv'
<1>1. /\ pc[t] = "record" /\ job[t] \in Job /\ Len(orders) \in Nat
      /\ Consistent(pc[t], job[t], ledger[Symbol(t)], Len(orders))
  BY LenProperties DEF Record, TypeInv, TypeOK, JobsOK
<1>2. job[t].oid \in Nat
  BY <1>1 DEF Job
<1>3. /\ job[t].result \in OrderResults /\ job[t].qty \in Nat \ {0}
      /\ job[t].bar \in Bars \cup {None} /\ Side(t) \in Sides
      /\ Side(t) = "BUY" \/ ledger[Symbol(t)] # <<>>
  BY <1>1 DEF Consistent, Job, Side, IsEntry, Sides, ClosingSteps
<1>4. /\ WriteLeg(Symbol(t), Side(t), job[t].result, job[t].qty, job[t].bar, job[t].oid)
      /\ UNCHANGED <<brokerVars, brackets, clockVars, lost>>
  BY DEF Record
<1>5. CASE IsEntry(t)
  <2>1. PICK step \in {"recheck", "finalize"} : Continue(t, step)
    BY <1>5 DEF Record
  <2>2. ContinueWith(t, step, job[t])
    BY <2>1, ContinuingKeepsJob DEF TypeInv
  <2>3. step \in Steps /\ Consistent(step, job[t], ledger'[Symbol(t)], Len(orders))
    BY <1>1, <1>5 DEF Consistent, IsEntry, Steps, EntrySteps, ExitSteps, ClosingSteps
  <2> QED BY <1>1, <1>2, <1>3, <1>4, <2>2, <2>3, LedgerMove
<1>6. CASE ~IsEntry(t)
  <2>1. ContinueWith(t, "idle", NoJob)
    BY <1>6 DEF Record, Finish
  <2>2. NoJob \in Job /\ "idle" \in Steps
        /\ Consistent("idle", NoJob, ledger'[Symbol(t)], Len(orders))
    BY DEF NoJob, Job, Steps, Consistent, EntrySteps, ExitSteps, ClosingSteps
  <2> QED BY <1>2, <1>3, <1>4, <2>1, <2>2, LedgerMove
<1> QED BY <1>5, <1>6

LEMMA ReconcileType ==
    ASSUME TypeInv, NEW t \in Tasks, Reconcile(t)
    PROVE  TypeInv'
<1>1. /\ pc[t] = "reconcile" /\ job[t] \in Job
      /\ Consistent(pc[t], job[t], ledger[Symbol(t)], Len(orders))
      /\ WriteLeg(Symbol(t), "SELL", "COMPLETE", job[t].qty, None, 0)
      /\ ContinueWith(t, "idle", NoJob)
      /\ UNCHANGED <<brokerVars, brackets, clockVars, lost>>
  BY DEF Reconcile, Finish, TypeInv, TypeOK, JobsOK
<1>2. job[t].qty \in Nat \ {0} /\ ledger[Symbol(t)] # <<>>
  BY <1>1 DEF Consistent, Job, ExitSteps, ClosingSteps
<1>3. /\ NoJob \in Job /\ "idle" \in Steps
      /\ Consistent("idle", NoJob, ledger'[Symbol(t)], Len(orders))
  BY DEF NoJob, Job, Steps, Consistent, EntrySteps, ExitSteps, ClosingSteps
<1>4. /\ "SELL" \in Sides /\ "COMPLETE" \in OrderResults
      /\ None \in Bars \cup {None} /\ 0 \in Nat
  BY DEF Sides, OrderResults, TerminalStatuses
<1> QED BY <1>1, <1>2, <1>3, <1>4, LedgerMove

(* Steps that change what the broker has.                                  *)
LEMMA BrokerMove ==
    ASSUME TypeInv, NEW t \in Tasks, NEW step \in Steps, NEW j \in Job,
           ContinueWith(t, step, j),
           orders' \in Seq(Order), Len(orders') >= Len(orders), gtts' \in Seq(Gtt),
           brackets' \in Seq(Bracket), lost' \subseteq DOMAIN orders',
           Consistent(step, j, ledger[Symbol(t)], Len(orders')),
           UNCHANGED <<held, ledger, clockVars>>
    PROVE  TypeInv'
<1>1. OnlyGrows
  BY LenProperties DEF OnlyGrows, TypeInv, TypeOK
<1>2. pc' \in [Tasks -> Steps] /\ job' \in [Tasks -> Job] /\ JobsOK'
  BY <1>1, TaskMoves
<1> QED BY <1>2 DEF TypeInv, TypeOK, clockVars

LEMMA AcceptedOrder ==
    ASSUME TypeOK, NEW s \in Symbols, NEW side \in {"BUY", "SELL"}, NEW qty \in Nat \ {0},
           NEW tag \in Bars \cup {None}, AcceptOrder(s, side, qty, tag)
    PROVE  /\ orders' \in Seq(Order) /\ Len(orders) \in Nat
           /\ Len(orders') = Len(orders) + 1
           /\ DOMAIN orders \subseteq DOMAIN orders'
           /\ Len(orders) + 1 \in DOMAIN orders'
<1> DEFINE order == NewOrder(s, side, qty, tag, FALSE)
<1>1. order \in Order
  BY DEF NewOrder, Order
<1> HIDE DEF order
<1>2. orders' = Append(orders, order) /\ orders \in Seq(Order)
  BY DEF AcceptOrder, order, TypeOK
<1> QED BY <1>1, <1>2, AppendProperties, LenProperties

LEMMA PlaceAcceptedType ==
    ASSUME TypeInv, NEW t \in Tasks, PlaceAccepted(t) \/ PlaceReplyLost(t)
    PROVE  TypeInv'
<1>1. /\ pc[t] = "place" /\ job[t] \in Job /\ Symbol(t) \in Symbols
      /\ Consistent(pc[t], job[t], ledger[Symbol(t)], Len(orders))
      /\ AcceptOrder(Symbol(t), Side(t), job[t].qty, job[t].bar)
      /\ UNCHANGED <<held, gtts, recordVars, clockVars>>
  BY DEF PlaceAccepted, PlaceReplyLost, TypeInv, TypeOK, JobsOK, Tasks, Symbol
<1>2. /\ job[t].qty \in Nat \ {0} /\ job[t].bar \in Bars \cup {None}
      /\ Side(t) \in {"BUY", "SELL"}
  BY <1>1 DEF Consistent, Job, Side, IsEntry, ClosingSteps
<1>3. /\ orders' \in Seq(Order) /\ Len(orders) \in Nat
      /\ Len(orders') = Len(orders) + 1
      /\ DOMAIN orders \subseteq DOMAIN orders'
      /\ Len(orders) + 1 \in DOMAIN orders'
  BY <1>1, <1>2, AcceptedOrder DEF TypeInv
<1>4. lost' \subseteq DOMAIN orders'
  BY <1>3 DEF PlaceAccepted, PlaceReplyLost, TypeInv, TypeOK
<1>5. PICK oid \in Nat, step \in {"wait", "record"}, result \in OrderResults \cup {job[t].result} :
          /\ ContinueWith(t, step, [job[t] EXCEPT !.oid = oid, !.result = result])
          /\ step = "wait" => oid \in 1..Len(orders')
          /\ step = "record" => oid \in 0..Len(orders') /\ result \in OrderResults
  <2>1. CASE PlaceAccepted(t)
    <3>1. Len(orders) + 1 \in Nat /\ Len(orders) + 1 \in 1..Len(orders')
      BY <1>3
    <3>2. [job[t] EXCEPT !.oid = Len(orders) + 1]
             = [job[t] EXCEPT !.oid = Len(orders) + 1, !.result = job[t].result]
      BY <1>1 DEF Job
    <3>3. ContinueWith(t, "wait",
              [job[t] EXCEPT !.oid = Len(orders) + 1, !.result = job[t].result])
      BY <2>1, <3>2 DEF PlaceAccepted
    <3> QED BY <3>1, <3>3
  <2>2. CASE PlaceReplyLost(t)
    <3>1. 0 \in Nat /\ 0 \in 0..Len(orders')
      BY <1>3
    <3>2. "REJECTED" \in OrderResults
      BY DEF OrderResults, TerminalStatuses
    <3>3. ContinueWith(t, "record", [job[t] EXCEPT !.oid = 0, !.result = "REJECTED"])
      BY <2>2 DEF PlaceReplyLost
    <3> QED BY <3>1, <3>2, <3>3
  <2> QED BY <2>1, <2>2
<1> DEFINE j == [job[t] EXCEPT !.oid = oid, !.result = result]
<1>6. j \in Job /\ j.kind = job[t].kind /\ j.qty = job[t].qty
      /\ j.oid = oid /\ j.result = result
  BY <1>1, <1>5 DEF Job
<1> HIDE DEF j
<1>7. Consistent(step, j, ledger[Symbol(t)], Len(orders'))
  BY <1>1, <1>5, <1>6 DEF Consistent, ClosingSteps, EntrySteps, ExitSteps
<1>8. ContinueWith(t, step, j) /\ step \in Steps
  BY <1>5 DEF j, Steps, OrderSteps
<1>9. Len(orders') >= Len(orders) /\ gtts' \in Seq(Gtt) /\ brackets' \in Seq(Bracket)
      /\ UNCHANGED <<held, ledger, clockVars>>
  BY <1>1, <1>3 DEF TypeInv, TypeOK, recordVars
<1> QED BY <1>3, <1>4, <1>6, <1>7, <1>8, <1>9, BrokerMove

LEMMA GttAcceptedType ==
    ASSUME TypeInv, NEW t \in Tasks, GttAccepted(t)
    PROVE  TypeInv'
<1>1. /\ pc[t] = "placeGtt" /\ job[t] \in Job /\ Symbol(t) \in Symbols
      /\ Consistent(pc[t], job[t], ledger[Symbol(t)], Len(orders))
      /\ AcceptGtt(Symbol(t), job[t].qty)
      /\ UNCHANGED <<orders, held, recordVars, clockVars, lost>>
  BY DEF GttAccepted, TypeInv, TypeOK, JobsOK, Tasks, Symbol
<1> DEFINE gtt == [sym |-> Symbol(t), qty |-> job[t].qty, status |-> "active"]
           n == Len(gtts) + 1
           j == [job[t] EXCEPT !.trigger = n]
<1>2. gtt \in Gtt
  BY <1>1 DEF Gtt, Consistent, Job, EntrySteps
<1>3. gtts' = Append(gtts, gtt) /\ gtts \in Seq(Gtt)
  BY <1>1 DEF AcceptGtt, TypeInv, TypeOK
<1> HIDE DEF gtt
<1>4. gtts' \in Seq(Gtt) /\ n \in Nat \ {0}
  BY <1>2, <1>3, AppendProperties, LenProperties
<1>5. ContinueWith(t, "recordBracket", j)
  BY DEF GttAccepted
<1> HIDE DEF n
<1>6. j \in Job /\ Consistent("recordBracket", j, ledger[Symbol(t)], Len(orders))
  BY <1>1, <1>4 DEF Job, Consistent, EntrySteps, ExitSteps
<1> HIDE DEF j
<1>7. /\ orders' = orders /\ orders' \in Seq(Order) /\ Len(orders') >= Len(orders)
      /\ brackets' \in Seq(Bracket) /\ lost' \subseteq DOMAIN orders'
      /\ UNCHANGED <<held, ledger, clockVars>> /\ "recordBracket" \in Steps
  BY <1>1, LenProperties DEF TypeInv, TypeOK, recordVars, Steps, EntrySteps
<1> QED BY <1>4, <1>5, <1>6, <1>7, BrokerMove

LEMMA CancelGttType ==
    ASSUME TypeInv, NEW t \in Tasks, CancelGtt(t)
    PROVE  TypeInv'
<1>1. /\ pc[t] = "cancelGtt" /\ job[t] \in Job
      /\ Consistent(pc[t], job[t], ledger[Symbol(t)], Len(orders))
      /\ UNCHANGED <<orders, held, recordVars, clockVars, lost>>
  BY DEF CancelGtt, TypeInv, TypeOK, JobsOK
<1>2. ContinueWith(t, "updateBracket", job[t])
  BY ContinuingKeepsJob DEF CancelGtt, TypeInv
<1>3. Consistent("updateBracket", job[t], ledger[Symbol(t)], Len(orders'))
  BY <1>1 DEF Consistent, ClosingSteps, EntrySteps, ExitSteps
<1>4. gtts' \in Seq(Gtt)
  <2>1. gtts \in Seq(Gtt)
    BY DEF TypeInv, TypeOK
  <2>2. ASSUME NEW g, DeleteGtt(g) PROVE gtts' \in Seq(Gtt)
    <3>1. /\ Len(gtts) \in Nat /\ DOMAIN gtts = 1..Len(gtts)
          /\ \A i \in 1..Len(gtts) : gtts[i] \in Gtt
      BY <2>1, LenProperties, ElementOfSeq
    <3>2. gtts' = [gtts EXCEPT ![g].status = "deleted"]
      BY <2>2 DEF DeleteGtt
    <3>3. gtts' = [i \in 1..Len(gtts) |-> gtts'[i]]
      BY <3>1, <3>2
    <3>4. \A i \in 1..Len(gtts) : gtts'[i] \in Gtt
      BY <3>1, <3>2 DEF Gtt
    <3> QED BY <3>1, <3>3, <3>4, IsASeq
  <2> QED BY <2>1, <2>2 DEF CancelGtt
<1>5. /\ orders' \in Seq(Order) /\ Len(orders') >= Len(orders)
      /\ brackets' \in Seq(Bracket) /\ lost' \subseteq DOMAIN orders'
      /\ UNCHANGED <<held, ledger, clockVars>> /\ "updateBracket" \in Steps
  BY <1>1, LenProperties DEF TypeInv, TypeOK, recordVars, Steps, ExitSteps
<1> QED BY <1>1, <1>2, <1>3, <1>4, <1>5, BrokerMove

LEMMA RecordBracketType ==
    ASSUME TypeInv, NEW t \in Tasks, RecordBracket(t)
    PROVE  TypeInv'
<1>1. /\ pc[t] = "recordBracket" /\ job[t] \in Job /\ Symbol(t) \in Symbols
      /\ Consistent(pc[t], job[t], ledger[Symbol(t)], Len(orders))
      /\ ContinueWith(t, "idle", NoJob)
      /\ UNCHANGED <<brokerVars, ledger, clockVars, lost>>
  BY DEF RecordBracket, Finish, TypeInv, TypeOK, JobsOK, Tasks, Symbol
<1> DEFINE row == [sym |-> Symbol(t), trigger |-> job[t].trigger, status |-> "active"]
<1>2. row \in Bracket
  BY <1>1 DEF Bracket, Consistent, Job
<1>3. brackets' = Append(brackets, row) /\ brackets \in Seq(Bracket)
  BY DEF RecordBracket, TypeInv, TypeOK
<1> HIDE DEF row
<1>4. brackets' \in Seq(Bracket)
  BY <1>2, <1>3, AppendProperties
<1>5. NoJob \in Job /\ Consistent("idle", NoJob, ledger[Symbol(t)], Len(orders'))
  BY DEF NoJob, Job, Consistent, EntrySteps, ExitSteps, ClosingSteps
<1>6. /\ orders' \in Seq(Order) /\ Len(orders') >= Len(orders) /\ gtts' \in Seq(Gtt)
      /\ lost' \subseteq DOMAIN orders'
      /\ UNCHANGED <<held, ledger, clockVars>> /\ "idle" \in Steps
  BY <1>1, LenProperties DEF TypeInv, TypeOK, brokerVars, Steps
<1> QED BY <1>1, <1>4, <1>5, <1>6, BrokerMove

LEMMA UpdateBracketType ==
    ASSUME TypeInv, NEW t \in Tasks, UpdateBracket(t)
    PROVE  TypeInv'
<1>1. /\ pc[t] = "updateBracket" /\ job[t] \in Job
      /\ Consistent(pc[t], job[t], ledger[Symbol(t)], Len(orders))
      /\ UNCHANGED <<brokerVars, ledger, clockVars, lost>>
  BY DEF UpdateBracket, TypeInv, TypeOK, JobsOK
<1>2. PICK step \in {"reconcile", "square"} : Continue(t, step)
  BY DEF UpdateBracket, CloseStep
<1>3. ContinueWith(t, step, job[t])
  BY <1>2, ContinuingKeepsJob DEF TypeInv
<1>4. step \in Steps /\ Consistent(step, job[t], ledger[Symbol(t)], Len(orders'))
  BY <1>1 DEF brokerVars, Consistent, Steps, ClosingSteps, EntrySteps, ExitSteps
<1>5. brackets' \in Seq(Bracket)
  <2> DEFINE n == Len(brackets)
             after == [b \in 1..n |-> IF brackets[b].trigger = job[t].trigger
                                         THEN [brackets[b] EXCEPT !.status = job[t].result]
                                         ELSE brackets[b]]
  <2>1. n \in Nat /\ DOMAIN brackets = 1..n /\ \A b \in 1..n : brackets[b] \in Bracket
    BY LenProperties, ElementOfSeq DEF TypeInv, TypeOK
  <2>2. brackets' = after
    BY <2>1 DEF UpdateBracket
  <2>3. job[t].result \in {"active", "cancelled", "closed"}
    BY <1>1 DEF Consistent
  <2>4. \A b \in 1..n : after[b] \in Bracket
    BY <2>1, <2>3 DEF Bracket
  <2> QED BY <2>1, <2>2, <2>4, IsASeq
<1>6. /\ orders' \in Seq(Order) /\ Len(orders') >= Len(orders) /\ gtts' \in Seq(Gtt)
      /\ lost' \subseteq DOMAIN orders' /\ UNCHANGED <<held, ledger, clockVars>>
  BY <1>1, LenProperties DEF TypeInv, TypeOK, brokerVars
<1> QED BY <1>1, <1>3, <1>4, <1>5, <1>6, BrokerMove

-------------------------------------------------------------------------------
(* Steps of the environment.                                               *)

LEMMA StopType ==
    ASSUME TypeInv, NEW p \in Processes, NEW S \in SUBSET Symbols, Stop(p, S)
    PROVE  TypeInv'
<1> DEFINE Stopped(t) == Process(t) = p /\ Symbol(t) \in S
<1>1. /\ UNCHANGED <<brokerVars, recordVars, cutoff, days>>
      /\ failures' = failures + 1
      /\ pc' = [t \in Tasks |-> IF Stopped(t) THEN "idle" ELSE pc[t]]
      /\ job' = [t \in Tasks |-> IF Stopped(t) THEN NoJob ELSE job[t]]
  BY DEF Stop
<1>2. NoJob \in Job /\ "idle" \in Steps
  BY DEF NoJob, Job, Steps
<1> HIDE DEF Stopped
<1>3. pc' \in [Tasks -> Steps] /\ job' \in [Tasks -> Job]
  BY <1>1, <1>2 DEF TypeInv, TypeOK
<1>4. ASSUME NEW t \in Tasks
      PROVE  Consistent(pc'[t], job'[t], ledger'[Symbol(t)], Len(orders'))
  <2>1. CASE Stopped(t)
    BY <1>1, <2>1 DEF NoJob, Consistent, EntrySteps, ExitSteps, ClosingSteps
  <2>2. CASE ~Stopped(t)
    BY <1>1, <2>2 DEF TypeInv, JobsOK, brokerVars, recordVars
  <2> QED BY <2>1, <2>2
<1>5. lost' \subseteq DOMAIN orders'
  <2>1. ASSUME NEW s \in S, pc[<<p, s>>] \in {"wait", "record"}, job[<<p, s>>].oid # 0
        PROVE  job[<<p, s>>].oid \in DOMAIN orders
    <3>1. <<p, s>> \in Tasks
      BY DEF Tasks
    <3>2. Consistent(pc[<<p, s>>], job[<<p, s>>], ledger[Symbol(<<p, s>>)], Len(orders))
      BY <3>1 DEF TypeInv, JobsOK
    <3>3. DOMAIN orders = 1..Len(orders) /\ Len(orders) \in Nat
      BY LenProperties DEF TypeInv, TypeOK
    <3>4. job[<<p, s>>].oid \in 0..Len(orders)
      BY <2>1, <3>2, <3>3 DEF Consistent
    <3> QED BY <2>1, <3>3, <3>4
  <2> QED BY <1>1, <2>1 DEF Stop, TypeInv, TypeOK, brokerVars
<1> QED BY <1>1, <1>3, <1>4, <1>5 DEF TypeInv, TypeOK, JobsOK, brokerVars, recordVars

LEMMA FailureType ==
    ASSUME TypeInv,
           \/ \E p \in Processes : Crash(p)
           \/ \E t \in Tasks : DatabaseFails(t)
    PROVE  TypeInv'
<1>1. ASSUME NEW t \in Tasks PROVE Process(t) \in Processes /\ {Symbol(t)} \in SUBSET Symbols
  BY DEF Tasks, Process, Symbol
<1> QED BY <1>1, StopType DEF Crash, DatabaseFails

(* The broker changes orders and GTTs in place or adds to them, and the    *)
(* program stands still.                                                   *)
LEMMA OutsideMove ==
    ASSUME TypeInv, orders' \in Seq(Order), Len(orders') >= Len(orders),
           held' \in [Symbols -> Nat], gtts' \in Seq(Gtt),
           UNCHANGED <<recordVars, pc, job, lost>>,
           cutoff' \in BOOLEAN, failures' \in Nat, days' \in Nat
    PROVE  TypeInv'
<1>1. /\ Len(orders) \in Nat /\ Len(orders') \in Nat
      /\ DOMAIN orders = 1..Len(orders) /\ DOMAIN orders' = 1..Len(orders')
  BY LenProperties DEF TypeInv, TypeOK
<1>2. lost' \subseteq DOMAIN orders'
  BY <1>1 DEF TypeInv, TypeOK
<1>3. ASSUME NEW t \in Tasks
      PROVE  Consistent(pc'[t], job'[t], ledger'[Symbol(t)], Len(orders'))
  <2>1. Consistent(pc[t], job[t], ledger[Symbol(t)], Len(orders))
    BY DEF TypeInv, JobsOK
  <2> QED BY <1>1, <2>1 DEF recordVars, Consistent
<1> QED BY <1>2, <1>3 DEF TypeInv, TypeOK, JobsOK, recordVars

(* Changing orders one by one leaves the order book a sequence of orders.  *)
LEMMA SameLength ==
    ASSUME NEW S, NEW old \in Seq(S), NEW new, new = [i \in DOMAIN old |-> new[i]],
           \A i \in DOMAIN old : old[i] \in S => new[i] \in S
    PROVE  new \in Seq(S) /\ Len(new) = Len(old) /\ Len(old) \in Nat
<1>1. /\ Len(old) \in Nat /\ DOMAIN old = 1..Len(old)
      /\ \A i \in 1..Len(old) : old[i] \in S
  BY LenProperties, ElementOfSeq
<1>2. \A i \in 1..Len(old) : new[i] \in S
  BY <1>1
<1>3. new \in Seq(S)
  BY <1>1, <1>2, IsASeq
<1> QED BY <1>1, <1>3, LenProperties

LEMMA OrderEvents ==
    ASSUME TypeInv, NEW o \in DOMAIN orders,
           (\E n \in 1..EntryQty : Fill(o, n)) \/ Reject(o) \/ Cancel(o)
    PROVE  /\ orders' \in Seq(Order) /\ Len(orders') = Len(orders) /\ Len(orders) \in Nat
           /\ held' \in [Symbols -> Nat] /\ gtts' \in Seq(Gtt)
<1>1. orders \in Seq(Order) /\ orders[o] \in Order
  BY ElementOfSeq, LenProperties DEF TypeInv, TypeOK
<1>2. ASSUME NEW n \in 1..EntryQty, Fill(o, n)
      PROVE  /\ orders' \in Seq(Order) /\ Len(orders') = Len(orders) /\ Len(orders) \in Nat
             /\ held' \in [Symbols -> Nat]
  <2>1. n \in Nat /\ orders[o].filled + n \in Nat
    BY <1>1, NumberAssumption DEF NumberAssumption, Order
  <2> DEFINE filled == orders[o].filled + n
             status == IF filled = orders[o].qty THEN "COMPLETE" ELSE "OPEN"
  <2>2. orders' = [orders EXCEPT ![o] = [@ EXCEPT !.filled = filled, !.status = status]]
    BY <1>2 DEF Fill
  <2>3. filled \in Nat /\ status \in TerminalStatuses \cup {"OPEN"}
    BY <2>1 DEF TerminalStatuses
  <2> HIDE DEF filled, status
  <2>4. orders' = [i \in DOMAIN orders |-> orders'[i]]
    BY <2>2
  <2>5. \A i \in DOMAIN orders : orders[i] \in Order => orders'[i] \in Order
    BY <2>2, <2>3 DEF Order
  <2>6. held' \in [Symbols -> Nat]
    <3>1. orders[o].sym \in Symbols /\ orders[o].side \in {"BUY", "SELL"}
      BY <1>1 DEF Order
    <3>2. held \in [Symbols -> Nat] /\ held[orders[o].sym] \in Nat
      BY <3>1 DEF TypeInv, TypeOK
    <3>3. orders[o].side = "SELL" => n <= held[orders[o].sym]
      BY <1>2 DEF Fill
    <3>4. PICK left \in Nat : held' = [held EXCEPT ![orders[o].sym] = left]
      <4>1. CASE orders[o].side = "BUY"
        <5>1. held' = [held EXCEPT ![orders[o].sym] = @ + n]
          BY <1>2, <4>1 DEF Fill
        <5>2. held[orders[o].sym] + n \in Nat
          BY <2>1, <3>2
        <5> QED BY <3>2, <5>1, <5>2
      <4>2. CASE orders[o].side = "SELL"
        <5>1. held' = [held EXCEPT ![orders[o].sym] = @ - n]
          BY <1>2, <4>2 DEF Fill
        <5>2. held[orders[o].sym] - n \in Nat
          BY <2>1, <3>2, <3>3, <4>2
        <5> QED BY <3>2, <5>1, <5>2
      <4> QED BY <3>1, <4>1, <4>2
    <3> QED BY <3>2, <3>4
  <2> QED BY <1>1, <2>4, <2>5, <2>6, SameLength
<1>3. ASSUME Reject(o) \/ Cancel(o)
      PROVE  orders' \in Seq(Order) /\ Len(orders') = Len(orders) /\ Len(orders) \in Nat
  <2>1. PICK status \in TerminalStatuses : orders' = [orders EXCEPT ![o].status = status]
    BY <1>3 DEF Reject, Cancel, TerminalStatuses
  <2>2. orders' = [i \in DOMAIN orders |-> orders'[i]]
    BY <2>1
  <2>3. \A i \in DOMAIN orders : orders[i] \in Order => orders'[i] \in Order
    BY <2>1 DEF Order
  <2> QED BY <1>1, <2>2, <2>3, SameLength
<1>4. gtts' = gtts /\ (Reject(o) \/ Cancel(o) => held' = held)
  BY DEF Fill, Reject, Cancel
<1> QED BY <1>2, <1>3, <1>4 DEF TypeInv, TypeOK

LEMMA GttFiring ==
    ASSUME TypeInv, NEW g \in DOMAIN gtts, GttFires(g)
    PROVE  /\ orders' \in Seq(Order) /\ Len(orders') >= Len(orders)
           /\ held' \in [Symbols -> Nat] /\ gtts' \in Seq(Gtt)
<1>1. gtts \in Seq(Gtt) /\ gtts[g] \in Gtt /\ orders \in Seq(Order)
  BY ElementOfSeq, LenProperties DEF TypeInv, TypeOK
<1>2. gtts' \in Seq(Gtt)
  <2>1. gtts' = [gtts EXCEPT ![g].status = "triggered"]
    BY DEF GttFires
  <2>2. gtts' = [i \in DOMAIN gtts |-> gtts'[i]]
    BY <2>1
  <2>3. \A i \in DOMAIN gtts : gtts[i] \in Gtt => gtts'[i] \in Gtt
    BY <2>1 DEF Gtt
  <2> QED BY <1>1, <2>2, <2>3, SameLength
<1> DEFINE order == NewOrder(gtts[g].sym, "SELL", gtts[g].qty, None, TRUE)
<1>3. order \in Order
  BY <1>1 DEF NewOrder, Order, Gtt
<1>4. orders' = Append(orders, order) /\ held' = held
  BY DEF GttFires
<1> HIDE DEF order
<1>5. orders' \in Seq(Order) /\ Len(orders') = Len(orders) + 1 /\ Len(orders) \in Nat
  BY <1>1, <1>3, <1>4, AppendProperties, LenProperties
<1> QED BY <1>2, <1>4, <1>5 DEF TypeInv, TypeOK

LEMMA RolledBook ==
    ASSUME TypeInv, BookRollsOver
    PROVE  orders' \in Seq(Order) /\ Len(orders') = Len(orders) /\ Len(orders) \in Nat
<1>1. orders' = [o \in DOMAIN orders |-> orders'[o]]
  BY DEF BookRollsOver
<1>2. ASSUME NEW o \in DOMAIN orders, orders[o] \in Order
      PROVE  orders'[o] \in Order
  <2>1. PICK status \in TerminalStatuses \cup {"OPEN"} :
            orders'[o] = [orders[o] EXCEPT !.today = FALSE, !.status = status]
    BY <1>2 DEF BookRollsOver, TerminalStatuses, Order
  <2> QED BY <1>2, <2>1 DEF Order
<1> QED BY <1>1, <1>2, SameLength DEF TypeInv, TypeOK

LEMMA OutsideType ==
    ASSUME TypeInv, BrokerSteps \/ PassCutoff \/ NewDay
    PROVE  TypeInv'
<1>1. CASE BrokerSteps
  <2>1. /\ orders' \in Seq(Order) /\ Len(orders') >= Len(orders)
        /\ held' \in [Symbols -> Nat] /\ gtts' \in Seq(Gtt)
    BY <1>1, OrderEvents, GttFiring DEF BrokerSteps
  <2> QED BY <1>1, <2>1, OutsideMove DEF BrokerSteps, TypeInv, TypeOK, clockVars
<1>2. CASE PassCutoff
  <2>1. Len(orders) \in Nat
    BY LenProperties DEF TypeInv, TypeOK
  <2> QED BY <1>2, <2>1, OutsideMove DEF PassCutoff, TypeInv, TypeOK, brokerVars
<1>3. CASE NewDay
  <2>1. BookRollsOver /\ held' = held /\ gtts' = gtts /\ days' = days + 1
    BY <1>3 DEF NewDay, BookRollsOver
  <2>2. orders' \in Seq(Order) /\ Len(orders') >= Len(orders)
    BY <2>1, RolledBook
  <2>3. cutoff' \in BOOLEAN /\ failures' \in Nat /\ days' \in Nat
    <3>1. days + 1 \in Nat
      BY DEF TypeInv, TypeOK
    <3> QED BY <1>3, <2>1, <3>1 DEF NewDay, TypeInv, TypeOK
  <2>4. held' \in [Symbols -> Nat] /\ gtts' \in Seq(Gtt)
    BY <2>1 DEF TypeInv, TypeOK
  <2>5. UNCHANGED <<recordVars, pc, job, lost>>
    BY <1>3 DEF NewDay
  <2> QED BY <2>2, <2>3, <2>4, <2>5, OutsideMove
<1> QED BY <1>1, <1>2, <1>3

-------------------------------------------------------------------------------
LEMMA InitType == Init => TypeInv
<1> SUFFICES ASSUME Init PROVE TypeInv
  OBVIOUS
<1>1. /\ orders = <<>> /\ held = [s \in Symbols |-> 0] /\ gtts = <<>>
      /\ ledger = [s \in Symbols |-> <<>>] /\ brackets = <<>>
      /\ pc = [t \in Tasks |-> "idle"] /\ job = [t \in Tasks |-> NoJob]
      /\ cutoff = FALSE /\ failures = 0 /\ days = 0 /\ lost = {}
  BY DEF Init, BrokerInit
<1>2. NoJob \in Job /\ "idle" \in Steps
  BY DEF NoJob, Job, Steps
<1>3. \A S : <<>> \in Seq(S)
  BY EmptySeq
<1>4. TypeOK
  BY <1>1, <1>2, <1>3 DEF TypeOK
<1>5. JobsOK
  BY <1>1 DEF JobsOK, Consistent, NoJob, EntrySteps, ExitSteps, ClosingSteps
<1> QED BY <1>4, <1>5 DEF TypeInv

LEMMA StepType == TypeInv /\ [Next]_vars => TypeInv'
<1> SUFFICES ASSUME TypeInv, [Next]_vars PROVE TypeInv'
  OBVIOUS
<1>1. ASSUME NEW t \in Tasks, EntryStep(t) PROVE TypeInv'
  BY <1>1, EntryLookupsType, TaggedOrderFoundType, HiddenPositionFoundType,
     RecheckType, FinalizeType, GttAcceptedType, GttRefusedType, RecordBracketType
     DEF EntryStep
<1>2. ASSUME NEW t \in Tasks, OrderStep(t) PROVE TypeInv'
  BY <1>2, PlaceAcceptedType, WaitType, RecordType DEF OrderStep
<1>3. ASSUME NEW t \in Tasks, ExitStep(t) PROVE TypeInv'
  BY <1>3, LookupType, VerifyType, GetBracketType, GttStatusType, CancelGttType,
     UpdateBracketType, ReconcileType DEF ExitStep
<1>4. ASSUME NEW t \in Tasks,
             (\E bar \in Bars, gated \in BOOLEAN : StartEntry(t, bar, gated)) \/ StartExit(t)
      PROVE  TypeInv'
  BY <1>4, StartType
<1>5. CASE BrokerSteps \/ PassCutoff \/ NewDay
  BY <1>5, OutsideType
<1>6. CASE (\E p \in Processes : Crash(p)) \/ (\E t \in Tasks : DatabaseFails(t))
  BY <1>6, FailureType
<1>7. CASE UNCHANGED vars
  BY <1>7 DEF vars, brokerVars, recordVars, clockVars, TypeInv, TypeOK, JobsOK
<1> QED BY <1>1, <1>2, <1>3, <1>4, <1>5, <1>6, <1>7 DEF Next, TaskStep

(* In every reachable state, whatever the broker, failures and concurrent  *)
(* exits do, each row of the ledger is well-formed and the first row of a  *)
(* symbol is a buy, which is what _net_unclosed_legs relies on.            *)
THEOREM TypeCorrect == Spec => []TypeOK
<1>1. TypeInv => TypeOK
  BY DEF TypeInv
<1> QED BY InitType, StepType, <1>1, PTL DEF Spec

-------------------------------------------------------------------------------
(* The position limit, for every value of the constants: with one process  *)
(* evaluating signals and broker reads that do not fail, no fault of the   *)
(* environment (lost replies, crashes, late fills, dashboard exits running *)
(* alongside) makes more than MaxPositions symbols carry real money.       *)

(* From the capacity check to the record of the order, an entry relies on  *)
(* what the check saw.                                                     *)
ClearedSteps == {"checkIntent", "lookupTag", "checkHolding", "place", "wait",
                 "record", "recheck"}

WorkSteps == {"checkOpen", "checkCapacity"} \cup ClearedSteps

AtWork(t) == IsEntry(t) /\ pc[t] \in WorkSteps
Cleared(t) == IsEntry(t) /\ pc[t] \in ClearedSteps

(* The inductive invariant: there is still room for the symbol of an entry *)
(* that was cleared, because no other entry is at work at the same time.   *)
CapacityInv ==
    /\ Cardinality(Exposed) <= MaxPositions
    /\ \A t \in Tasks : Cleared(t) => Cardinality(Exposed \cup {Symbol(t)}) <= MaxPositions
    /\ \A t \in Tasks : IsEntry(t) => Process(t) \in Pipelines
    /\ \A t, u \in Tasks : AtWork(t) /\ AtWork(u) => t = u

-------------------------------------------------------------------------------
(* Exposure and its size.                                                  *)

LEMMA Smaller ==
    ASSUME NEW S \in SUBSET Symbols, NEW T \in SUBSET Symbols, S \subseteq T
    PROVE  /\ Cardinality(S) \in Nat /\ Cardinality(T) \in Nat
           /\ Cardinality(S) <= Cardinality(T)
<1>1. IsFiniteSet(T)
  BY SymbolsAssumption, FS_Subset
<1>2. IsFiniteSet(S) /\ Cardinality(S) <= Cardinality(T)
  BY <1>1, FS_Subset
<1> QED BY <1>1, <1>2, FS_CardinalityType

(* Exposure depends on the holdings and the pending buys alone.            *)
LEMMA SameExposure ==
    ASSUME UNCHANGED <<orders, held>>
    PROVE  Exposed' = Exposed
BY DEF Exposed, PendingBuys, Pending

(* An order appended to the book exposes at most its own symbol, and only  *)
(* if it buys.                                                             *)
LEMMA AppendedExposure ==
    ASSUME TypeOK, NEW order \in Order, orders' = Append(orders, order), held' = held
    PROVE  /\ Exposed' \subseteq Exposed \cup (IF order.side = "BUY" THEN {order.sym} ELSE {})
           /\ Exposed \subseteq Exposed'
<1>1. /\ Len(orders) \in Nat /\ DOMAIN orders = 1..Len(orders)
      /\ DOMAIN orders' = 1..(Len(orders) + 1)
      /\ \A o \in 1..Len(orders) : orders'[o] = orders[o]
      /\ orders'[Len(orders) + 1] = order
  BY LenProperties, AppendProperties DEF TypeOK
<1>2. ASSUME NEW s \in Exposed'
      PROVE  s \in Exposed \cup (IF order.side = "BUY" THEN {order.sym} ELSE {})
  <2>1. s \in Symbols
    BY <1>2 DEF Exposed
  <2>2. CASE held[s] > 0
    BY <2>1, <2>2 DEF Exposed
  <2>3. CASE \E o \in PendingBuys' : orders'[o].sym = s
    <3>1. PICK o \in DOMAIN orders' : orders'[o].status = "OPEN" /\ orders'[o].side = "BUY"
                                      /\ orders'[o].sym = s
      BY <2>3 DEF PendingBuys, Pending
    <3>2. CASE o = Len(orders) + 1
      BY <1>1, <3>1, <3>2
    <3>3. CASE o # Len(orders) + 1
      <4>1. o \in DOMAIN orders /\ orders'[o] = orders[o]
        <5>1. o \in 1..Len(orders)
          BY <1>1, <3>3
        <5> QED BY <1>1, <5>1
      <4> QED BY <2>1, <3>1, <4>1 DEF Exposed, PendingBuys, Pending
    <3> QED BY <3>2, <3>3
  <2> QED BY <1>2, <2>2, <2>3 DEF Exposed
<1>3. ASSUME NEW s \in Exposed
      PROVE  s \in Exposed'
  <2>1. \A o \in DOMAIN orders : o \in DOMAIN orders' /\ orders'[o] = orders[o]
    <3>1. 1..Len(orders) \subseteq 1..(Len(orders) + 1)
      BY <1>1
    <3> QED BY <1>1, <3>1
  <2> QED BY <1>3, <2>1 DEF Exposed, PendingBuys, Pending
<1> QED BY <1>2, <1>3

(* If no order becomes a pending buy and shares only arrive for pending    *)
(* buys, exposure does not grow.                                           *)
LEMMA ChangedExposure ==
    ASSUME DOMAIN orders' = DOMAIN orders,
           \A o \in DOMAIN orders : /\ orders'[o].sym = orders[o].sym
                                    /\ orders'[o].side = orders[o].side
                                    /\ orders'[o].status = "OPEN" => orders[o].status = "OPEN",
           \A s \in Symbols : held'[s] > 0 => s \in Exposed
    PROVE  Exposed' \subseteq Exposed
<1>1. ASSUME NEW s \in Exposed', ~(held'[s] > 0)
      PROVE  s \in Exposed
  <2>1. PICK o \in DOMAIN orders' : orders'[o].status = "OPEN" /\ orders'[o].side = "BUY"
                                    /\ orders'[o].sym = s
    BY <1>1 DEF Exposed, PendingBuys, Pending
  <2> QED BY <1>1, <2>1 DEF Exposed, PendingBuys, Pending
<1> QED BY <1>1 DEF Exposed

LEMMA OrderEventExposure ==
    ASSUME TypeOK, NEW o \in DOMAIN orders,
           (\E n \in 1..EntryQty : Fill(o, n)) \/ Reject(o) \/ Cancel(o)
    PROVE  Exposed' \subseteq Exposed
<1>1. orders \in Seq(Order) /\ orders[o] \in Order
  BY ElementOfSeq, LenProperties DEF TypeOK
<1>2. /\ DOMAIN orders' = DOMAIN orders
      /\ \A i \in DOMAIN orders :
            /\ orders'[i].sym = orders[i].sym /\ orders'[i].side = orders[i].side
            /\ orders'[i].status = "OPEN" => orders[i].status = "OPEN"
  <2> DEFINE Unexposing ==
                 /\ DOMAIN orders' = DOMAIN orders
                 /\ \A i \in DOMAIN orders :
                       /\ orders'[i].sym = orders[i].sym /\ orders'[i].side = orders[i].side
                       /\ orders'[i].status = "OPEN" => orders[i].status = "OPEN"
  <2>1. orders[o].status = "OPEN"
    BY DEF Fill, Reject, Cancel, Pending
  <2>2. ASSUME NEW after, orders' = [orders EXCEPT ![o] = after],
               after.sym = orders[o].sym, after.side = orders[o].side
        PROVE  Unexposing
    BY <2>1, <2>2
  <2> HIDE DEF Unexposing
  <2>3. ASSUME NEW n \in 1..EntryQty, Fill(o, n) PROVE Unexposing
    <3> DEFINE after == [orders[o] EXCEPT !.filled = orders[o].filled + n,
                             !.status = IF orders[o].filled + n = orders[o].qty
                                          THEN "COMPLETE" ELSE "OPEN"]
    <3>1. orders' = [orders EXCEPT ![o] = after]
      BY <2>3 DEF Fill
    <3>2. after.sym = orders[o].sym /\ after.side = orders[o].side
      BY <1>1 DEF Order
    <3> HIDE DEF after
    <3> QED BY <2>2, <3>1, <3>2
  <2>4. ASSUME NEW st, orders' = [orders EXCEPT ![o].status = st] PROVE Unexposing
    <3> DEFINE after == [orders[o] EXCEPT !.status = st]
    <3>1. orders' = [orders EXCEPT ![o] = after]
      BY <2>4
    <3>2. after.sym = orders[o].sym /\ after.side = orders[o].side
      BY <1>1 DEF Order
    <3> HIDE DEF after
    <3> QED BY <2>2, <3>1, <3>2
  <2>5. Unexposing
    BY <2>3, <2>4 DEF Reject, Cancel
  <2> QED BY <2>5 DEF Unexposing
<1>3. \A s \in Symbols : held'[s] > 0 => s \in Exposed
  <2>1. ASSUME NEW n \in 1..EntryQty, Fill(o, n), NEW s \in Symbols, held'[s] > 0
        PROVE  s \in Exposed
    <3>1. held \in [Symbols -> Nat] /\ n \in Nat /\ orders[o].sym \in Symbols
      <4>1. n \in Nat
        BY NumberAssumption DEF NumberAssumption
      <4> QED BY <1>1, <4>1 DEF TypeOK, Order
    <3>2. CASE orders[o].side = "BUY" /\ s = orders[o].sym
      BY <2>1, <3>2 DEF Fill, Exposed, PendingBuys
    <3>3. CASE s # orders[o].sym
      <4>1. held'[s] = held[s]
        BY <2>1, <3>1, <3>3 DEF Fill
      <4> QED BY <2>1, <4>1 DEF Exposed
    <3>4. CASE orders[o].side # "BUY" /\ s = orders[o].sym
      <4>1. held'[s] = held[s] - n /\ held[s] \in Nat
        BY <2>1, <3>1, <3>4 DEF Fill
      <4>2. held[s] > 0
        BY <2>1, <3>1, <4>1
      <4> QED BY <4>2 DEF Exposed
    <3> QED BY <3>2, <3>3, <3>4
  <2>2. Reject(o) \/ Cancel(o) => held' = held
    BY DEF Reject, Cancel
  <2> QED BY <2>1, <2>2 DEF Exposed
<1> QED BY <1>2, <1>3, ChangedExposure

LEMMA OutsideExposure ==
    ASSUME TypeOK, BrokerSteps \/ PassCutoff \/ NewDay
    PROVE  Exposed' \subseteq Exposed
<1>1. ASSUME NEW g \in DOMAIN gtts, GttFires(g) PROVE Exposed' \subseteq Exposed
  <2> DEFINE order == NewOrder(gtts[g].sym, "SELL", gtts[g].qty, None, TRUE)
  <2>1. gtts[g] \in Gtt
    BY ElementOfSeq, LenProperties DEF TypeOK
  <2>2. order \in Order /\ order.side = "SELL"
    BY <2>1 DEF NewOrder, Order, Gtt
  <2>3. orders' = Append(orders, order) /\ held' = held
    BY <1>1 DEF GttFires
  <2> HIDE DEF order
  <2> QED BY <2>2, <2>3, AppendedExposure
<1>2. CASE PassCutoff
  BY <1>2, SameExposure DEF PassCutoff, brokerVars
<1>3. CASE NewDay
  <2>1. /\ DOMAIN orders' = DOMAIN orders
        /\ \A o \in DOMAIN orders :
              /\ orders'[o].sym = orders[o].sym /\ orders'[o].side = orders[o].side
              /\ orders'[o].status = "OPEN" => orders[o].status = "OPEN"
    <3>1. \A o \in DOMAIN orders : orders[o] \in Order
      BY ElementOfSeq, LenProperties DEF TypeOK
    <3> QED BY <1>3, <3>1 DEF NewDay, BookRollsOver, Order
  <2>2. held' = held
    BY <1>3 DEF NewDay, BookRollsOver
  <2> QED BY <2>1, <2>2, ChangedExposure DEF Exposed
<1> QED BY <1>1, <1>2, <1>3, OrderEventExposure DEF BrokerSteps

-------------------------------------------------------------------------------
(* Steps of one task.                                                      *)

(* A step after which nothing more is exposed and no entry has got further *)
(* than the invariant already allowed.                                     *)
LEMMA QuietStep ==
    ASSUME CapacityInv, Exposed' \subseteq Exposed,
           \A t \in Tasks : /\ IsEntry(t)' => IsEntry(t)
                            /\ Cleared(t)' => Cleared(t)
                            /\ AtWork(t)' => AtWork(t)
    PROVE  CapacityInv'
<1>1. Exposed \in SUBSET Symbols /\ Exposed' \in SUBSET Symbols
  BY DEF Exposed
<1>2. Cardinality(Exposed') <= MaxPositions
  BY <1>1, Smaller, NumberAssumption DEF CapacityInv, NumberAssumption
<1>3. ASSUME NEW t \in Tasks, Cleared(t)'
      PROVE  Cardinality(Exposed' \cup {Symbol(t)}) <= MaxPositions
  <2>1. Symbol(t) \in Symbols
    BY DEF Tasks, Symbol
  <2>2. Cardinality(Exposed \cup {Symbol(t)}) <= MaxPositions
    BY <1>3 DEF CapacityInv
  <2>3. /\ Cardinality(Exposed' \cup {Symbol(t)}) \in Nat
        /\ Cardinality(Exposed \cup {Symbol(t)}) \in Nat
        /\ Cardinality(Exposed' \cup {Symbol(t)}) <= Cardinality(Exposed \cup {Symbol(t)})
    BY <1>1, <2>1, Smaller
  <2> QED BY <2>2, <2>3, NumberAssumption DEF NumberAssumption
<1> QED BY <1>2, <1>3 DEF CapacityInv, Process, Symbol

LEMMA QuietTask ==
    ASSUME TypeOK, CapacityInv, NEW t \in Tasks, NEW step, NEW j,
           ContinueWith(t, step, j), UNCHANGED <<orders, held>>,
           j.kind = "entry" =>
               /\ IsEntry(t)
               /\ step \in ClearedSteps => pc[t] \in ClearedSteps
               /\ step \in WorkSteps => pc[t] \in WorkSteps
    PROVE  CapacityInv'
<1>1. ASSUME NEW u \in Tasks
      PROVE  /\ IsEntry(u)' => IsEntry(u)
             /\ Cleared(u)' => Cleared(u)
             /\ AtWork(u)' => AtWork(u)
  <2>1. CASE u = t
    <3>1. pc'[u] = step /\ job'[u] = j
      BY <2>1 DEF TypeOK, ContinueWith
    <3> QED BY <2>1, <3>1 DEF IsEntry, Cleared, AtWork
  <2>2. CASE u # t
    <3>1. pc'[u] = pc[u] /\ job'[u] = job[u]
      BY <2>2 DEF TypeOK, ContinueWith
    <3> QED BY <3>1 DEF IsEntry, Cleared, AtWork
  <2> QED BY <2>1, <2>2
<1> QED BY <1>1, QuietStep, SameExposure

LEMMA QuietContinue ==
    ASSUME TypeInv, CapacityInv, NEW t \in Tasks, NEW step, Continue(t, step),
           UNCHANGED <<orders, held>>,
           IsEntry(t) => /\ step \in ClearedSteps => pc[t] \in ClearedSteps
                         /\ step \in WorkSteps => pc[t] \in WorkSteps
    PROVE  CapacityInv'
<1>1. ContinueWith(t, step, job[t])
  BY ContinuingKeepsJob DEF TypeInv
<1> QED BY <1>1, QuietTask DEF IsEntry, TypeInv

LEMMA QuietFinish ==
    ASSUME TypeInv, CapacityInv, NEW t \in Tasks, Finish(t), UNCHANGED <<orders, held>>
    PROVE  CapacityInv'
BY QuietTask DEF Finish, NoJob, TypeInv

(* Steps that hand on new local variables, of the same kind of task.       *)
LEMMA QuietMove ==
    ASSUME TypeInv, CapacityInv, NEW t \in Tasks, NEW step, NEW j,
           ContinueWith(t, step, j), j.kind = job[t].kind, UNCHANGED <<orders, held>>,
           IsEntry(t) => /\ step \in ClearedSteps => pc[t] \in ClearedSteps
                         /\ step \in WorkSteps => pc[t] \in WorkSteps
    PROVE  CapacityInv'
BY QuietTask DEF IsEntry, TypeInv

LEMMA EntryCapacity ==
    ASSUME TypeInv, CapacityInv, NEW t \in Tasks,
           EntryStep(t), ~CheckCapacity(t)
    PROVE  CapacityInv'
<1>0. job[t] \in Job
  BY DEF TypeInv, TypeOK
<1>1. CASE \/ CheckOpen(t) \/ CheckIntent(t) \/ NoTaggedOrder(t) \/ TaggedOrderFound(t)
           \/ HiddenPositionFound(t) \/ NoHiddenPosition(t)
  <2>1. PICK step : /\ Continue(t, step)
                    /\ step \in ClearedSteps => pc[t] \in ClearedSteps
                    /\ step \in WorkSteps => pc[t] \in WorkSteps
    BY <1>1 DEF CheckOpen, CheckIntent, NoTaggedOrder, TaggedOrderFound,
                HiddenPositionFound, NoHiddenPosition, ClearedSteps, WorkSteps
  <2>2. UNCHANGED <<orders, held>>
    BY <1>1 DEF CheckOpen, CheckIntent, NoTaggedOrder, TaggedOrderFound,
                HiddenPositionFound, NoHiddenPosition, brokerVars
  <2> QED BY <2>1, <2>2, QuietContinue
<1>2. CASE Recheck(t)
  <2>1. pc[t] \in ClearedSteps /\ pc[t] \in WorkSteps /\ UNCHANGED <<orders, held>>
    BY <1>2 DEF Recheck, ClearedSteps, WorkSteps, brokerVars
  <2>2. CASE Continue(t, "finalize")
    BY <2>1, <2>2, QuietContinue
  <2>3. CASE ContinueWith(t, "place", [job[t] EXCEPT !.attempt = @ + 1])
    <3>1. [job[t] EXCEPT !.attempt = @ + 1].kind = job[t].kind
      BY <1>0 DEF Job
    <3> QED BY <2>1, <2>3, <3>1, QuietMove
  <2> QED BY <1>2, <2>2, <2>3 DEF Recheck
<1>3. CASE Finalize(t) \/ GttAccepted(t)
  <2>1. UNCHANGED <<orders, held>>
    BY <1>3 DEF Finalize, GttAccepted, brokerVars
  <2>2. ASSUME NEW qty, ContinueWith(t, "placeGtt", [job[t] EXCEPT !.qty = qty])
        PROVE  CapacityInv'
    <3>1. [job[t] EXCEPT !.qty = qty].kind = job[t].kind
      BY <1>0 DEF Job
    <3>2. "placeGtt" \notin ClearedSteps /\ "placeGtt" \notin WorkSteps
      BY DEF ClearedSteps, WorkSteps
    <3> QED BY <2>1, <2>2, <3>1, <3>2, QuietMove
  <2>3. ASSUME NEW g, ContinueWith(t, "recordBracket", [job[t] EXCEPT !.trigger = g])
        PROVE  CapacityInv'
    <3>1. [job[t] EXCEPT !.trigger = g].kind = job[t].kind
      BY <1>0 DEF Job
    <3>2. "recordBracket" \notin ClearedSteps /\ "recordBracket" \notin WorkSteps
      BY DEF ClearedSteps, WorkSteps
    <3> QED BY <2>1, <2>3, <3>1, <3>2, QuietMove
  <2>4. CASE Finish(t)
    BY <2>1, <2>4, QuietFinish
  <2> QED BY <1>3, <2>2, <2>3, <2>4 DEF Finalize, GttAccepted
<1>4. CASE GttRefused(t) \/ RecordBracket(t)
  BY <1>4, QuietFinish DEF GttRefused, RecordBracket, brokerVars
<1> QED BY <1>1, <1>2, <1>3, <1>4 DEF EntryStep

(* The capacity check: what it counted includes everything exposed, so one *)
(* more symbol fits.                                                       *)
LEMMA CheckCapacityKeeps ==
    ASSUME ~BestEffortFailures, TypeInv, CapacityInv, NEW t \in Tasks, CheckCapacity(t)
    PROVE  CapacityInv'
<1>1. /\ pc[t] = "checkCapacity" /\ UNCHANGED <<orders, held>>
      /\ Continue(t, IF Cardinality(Occupied) >= MaxPositions THEN "finalize" ELSE "checkIntent")
  BY DEF CheckCapacity, brokerVars
<1>2. CASE Cardinality(Occupied) >= MaxPositions
  <2>1. Continue(t, "finalize") /\ "finalize" \notin ClearedSteps /\ "finalize" \notin WorkSteps
    BY <1>1, <1>2 DEF ClearedSteps, WorkSteps
  <2> QED BY <1>1, <2>1, QuietContinue
<1>3. CASE ~(Cardinality(Occupied) >= MaxPositions)
  <2>1. /\ pc' = [pc EXCEPT ![t] = "checkIntent"] /\ job' = job
        /\ \A u \in Tasks : (IsEntry(u)' <=> IsEntry(u)) /\ (AtWork(u)' => AtWork(u))
        /\ \A u \in Tasks \ {t} : Cleared(u)' => Cleared(u)
    <3>1. pc' = [pc EXCEPT ![t] = "checkIntent"] /\ job' = job
      BY <1>1, <1>3 DEF Continue
    <3> QED BY <1>1, <3>1 DEF TypeInv, TypeOK, IsEntry, AtWork, Cleared, WorkSteps
  <2>2. Cardinality(Exposed \cup {Symbol(t)}) <= MaxPositions
    <3>1. /\ Exposed \in SUBSET Symbols /\ Occupied \in SUBSET Symbols
          /\ Exposed \subseteq Occupied
      BY DEF Exposed, Occupied, OnLedger
    <3>2. /\ Cardinality(Exposed) \in Nat /\ Cardinality(Occupied) \in Nat
          /\ Cardinality(Exposed) <= Cardinality(Occupied)
      BY <3>1, Smaller
    <3>3. IsFiniteSet(Exposed)
      BY <3>1, SymbolsAssumption, FS_Subset
    <3>4. \/ Cardinality(Exposed \cup {Symbol(t)}) = Cardinality(Exposed)
          \/ Cardinality(Exposed \cup {Symbol(t)}) = Cardinality(Exposed) + 1
      BY <3>3, FS_AddElement
    <3> QED BY <1>3, <3>2, <3>4, NumberAssumption DEF NumberAssumption
  <2>3. Exposed' = Exposed
    BY <1>1, SameExposure
  <2>4. \A u \in Tasks : Cleared(u)' => Cardinality(Exposed' \cup {Symbol(u)}) <= MaxPositions
    BY <2>1, <2>2, <2>3 DEF CapacityInv
  <2> QED BY <2>1, <2>3, <2>4 DEF CapacityInv, Process, Symbol
<1> QED BY <1>2, <1>3

(* An accepted order exposes the symbol of an entry, and nothing else.     *)
LEMMA PlacingExposure ==
    ASSUME TypeInv, NEW t \in Tasks, PlaceAccepted(t) \/ PlaceReplyLost(t)
    PROVE  /\ Exposed' \subseteq Exposed \cup (IF IsEntry(t) THEN {Symbol(t)} ELSE {})
           /\ Exposed \subseteq Exposed'
<1>1. /\ pc[t] = "place" /\ job[t] \in Job /\ Symbol(t) \in Symbols
      /\ Consistent(pc[t], job[t], ledger[Symbol(t)], Len(orders))
      /\ AcceptOrder(Symbol(t), Side(t), job[t].qty, job[t].bar) /\ held' = held
  BY DEF PlaceAccepted, PlaceReplyLost, TypeInv, TypeOK, JobsOK, Tasks, Symbol
<1> DEFINE order == NewOrder(Symbol(t), Side(t), job[t].qty, job[t].bar, FALSE)
<1>2. job[t].qty \in Nat \ {0}
  BY <1>1 DEF Consistent, Job, ClosingSteps
<1>3. /\ order \in Order /\ order.sym = Symbol(t)
      /\ order.side = "BUY" <=> IsEntry(t)
  BY <1>1, <1>2 DEF NewOrder, Order, Job, Side
<1>4. orders' = Append(orders, order)
  BY <1>1 DEF AcceptOrder
<1> HIDE DEF order
<1> QED BY <1>1, <1>3, <1>4, AppendedExposure DEF TypeInv

(* An accepted order exposes the symbol the entry was cleared for.         *)
LEMMA PlacingKeeps ==
    ASSUME TypeInv, CapacityInv, NEW t \in Tasks, PlaceAccepted(t) \/ PlaceReplyLost(t)
    PROVE  CapacityInv'
<1>1. pc[t] = "place" /\ job[t] \in Job /\ Symbol(t) \in Symbols
  BY DEF PlaceAccepted, PlaceReplyLost, TypeInv, TypeOK, Tasks, Symbol
<1>2. PICK step, j :
          step \in {"wait", "record"} /\ ContinueWith(t, step, j) /\ j.kind = job[t].kind
  <2>1. CASE PlaceAccepted(t)
    <3> DEFINE j == [job[t] EXCEPT !.oid = Len(orders) + 1]
    <3>1. ContinueWith(t, "wait", j)
      BY <2>1 DEF PlaceAccepted
    <3>2. j.kind = job[t].kind
      BY <1>1 DEF Job
    <3> HIDE DEF j
    <3> QED BY <3>1, <3>2
  <2>2. CASE PlaceReplyLost(t)
    <3> DEFINE j == [job[t] EXCEPT !.oid = 0, !.result = "REJECTED"]
    <3>1. ContinueWith(t, "record", j)
      BY <2>2 DEF PlaceReplyLost
    <3>2. j.kind = job[t].kind
      BY <1>1 DEF Job
    <3> HIDE DEF j
    <3> QED BY <3>1, <3>2
  <2> QED BY <2>1, <2>2
<1>3. \A u \in Tasks : /\ IsEntry(u)' => IsEntry(u)
                       /\ Cleared(u)' => Cleared(u)
                       /\ AtWork(u)' => AtWork(u)
  BY <1>1, <1>2 DEF TypeInv, TypeOK, ContinueWith, IsEntry, AtWork, Cleared,
                    ClearedSteps, WorkSteps
<1>4. Exposed' \subseteq Exposed \cup (IF IsEntry(t) THEN {Symbol(t)} ELSE {})
  BY PlacingExposure
<1>5. CASE ~IsEntry(t)
  BY <1>3, <1>4, <1>5, QuietStep
<1>6. CASE IsEntry(t)
  <2>1. Cleared(t) /\ AtWork(t)
    BY <1>1, <1>6 DEF Cleared, AtWork, ClearedSteps, WorkSteps
  <2>2. Cardinality(Exposed \cup {Symbol(t)}) <= MaxPositions
    BY <2>1 DEF CapacityInv
  <2>3. \A S \in SUBSET (Exposed \cup {Symbol(t)}) : Cardinality(S) <= MaxPositions
    <3>1. Exposed \cup {Symbol(t)} \in SUBSET Symbols
      BY <1>1 DEF Exposed
    <3> QED BY <2>2, <3>1, Smaller, NumberAssumption DEF NumberAssumption
  <2>4. Cardinality(Exposed') <= MaxPositions
    BY <1>4, <1>6, <2>3
  <2>5. ASSUME NEW u \in Tasks, Cleared(u)'
        PROVE  Cardinality(Exposed' \cup {Symbol(u)}) <= MaxPositions
    <3>1. AtWork(u)
      BY <1>3, <2>5 DEF Cleared, AtWork, WorkSteps
    <3>2. u = t
      BY <2>1, <3>1 DEF CapacityInv
    <3> QED BY <1>4, <1>6, <2>3, <3>2
  <2> QED BY <1>3, <2>4, <2>5 DEF CapacityInv, Process, Symbol
<1> QED BY <1>5, <1>6

LEMMA OrderCapacity ==
    ASSUME TypeInv, CapacityInv, NEW t \in Tasks, OrderStep(t)
    PROVE  CapacityInv'
<1>0. job[t] \in Job
  BY DEF TypeInv, TypeOK
<1>1. CASE PlaceAccepted(t) \/ PlaceReplyLost(t)
  BY <1>1, PlacingKeeps
<1>2. CASE PlaceRefused(t) \/ WaitReturns(t) \/ WaitRaises(t)
  <2>1. pc[t] \in ClearedSteps /\ pc[t] \in WorkSteps /\ UNCHANGED <<orders, held>>
    BY <1>2 DEF PlaceRefused, WaitReturns, WaitRaises, ClearedSteps, WorkSteps, brokerVars
  <2>2. PICK j : ContinueWith(t, "record", j) /\ j.kind = job[t].kind
    <3>1. CASE PlaceRefused(t)
      <4> DEFINE j == [job[t] EXCEPT !.oid = 0, !.result = "REJECTED"]
      <4>1. ContinueWith(t, "record", j) /\ j.kind = job[t].kind
        BY <1>0, <3>1 DEF PlaceRefused, Job
      <4> HIDE DEF j
      <4> QED BY <4>1
    <3>2. ASSUME NEW result, ContinueWith(t, "record", [job[t] EXCEPT !.result = result])
          PROVE  \E j : ContinueWith(t, "record", j) /\ j.kind = job[t].kind
      <4> DEFINE j == [job[t] EXCEPT !.result = result]
      <4>1. ContinueWith(t, "record", j) /\ j.kind = job[t].kind
        BY <1>0, <3>2 DEF Job
      <4> HIDE DEF j
      <4> QED BY <4>1
    <3> QED BY <1>2, <3>1, <3>2 DEF WaitReturns, WaitRaises
  <2> QED BY <2>1, <2>2, QuietMove
<1>3. CASE Record(t)
  <2>1. pc[t] \in ClearedSteps /\ pc[t] \in WorkSteps /\ UNCHANGED <<orders, held>>
    BY <1>3 DEF Record, ClearedSteps, WorkSteps, brokerVars
  <2>2. (\E step : Continue(t, step)) \/ Finish(t)
    BY <1>3 DEF Record
  <2> QED BY <2>1, <2>2, QuietContinue, QuietFinish
<1> QED BY <1>1, <1>2, <1>3 DEF OrderStep

(* Exits are no entries and place no buys.                                 *)
LEMMA ExitCapacity ==
    ASSUME TypeInv, CapacityInv, NEW t \in Tasks, ExitStep(t)
    PROVE  CapacityInv'
<1>1. pc[t] \in ExitSteps /\ UNCHANGED <<orders, held>>
  BY DEF ExitStep, Lookup, Verify, GetBracket, GttStatus, CancelGtt, UpdateBracket,
         Reconcile, Square, ExitSteps, brokerVars
<1>2. job[t] \in Job /\ ~IsEntry(t)
  BY <1>1 DEF TypeInv, TypeOK, JobsOK, Consistent, IsEntry
<1>3. ASSUME NEW step, Continue(t, step) PROVE CapacityInv'
  BY <1>1, <1>2, <1>3, QuietContinue
<1>4. CASE Finish(t)
  BY <1>1, <1>4, QuietFinish
<1>5. ASSUME NEW step, NEW j, ContinueWith(t, step, j), j.kind = job[t].kind
      PROVE  CapacityInv'
  BY <1>1, <1>2, <1>5, QuietMove
<1>6. ASSUME NEW step, NEW qty, ContinueWith(t, step, [job[t] EXCEPT !.qty = qty])
      PROVE  CapacityInv'
  <2>1. [job[t] EXCEPT !.qty = qty].kind = job[t].kind
    BY <1>2 DEF Job
  <2> QED BY <1>5, <1>6, <2>1
<1>7. CASE Lookup(t) \/ Square(t)
  BY <1>3, <1>4, <1>6, <1>7 DEF Lookup, Square
<1>8. CASE Verify(t)
  <2>1. PICK real : ContinueWith(t, "getBracket", [job[t] EXCEPT !.real = real])
    BY <1>8 DEF Verify
  <2>2. [job[t] EXCEPT !.real = real].kind = job[t].kind
    BY <1>2 DEF Job
  <2> QED BY <1>5, <2>1, <2>2
<1>9. CASE GetBracket(t)
  <2> DEFINE g == brackets[Max(ActiveBrackets(Symbol(t)))].trigger
  <2>1. \/ \E step : Continue(t, step)
        \/ ContinueWith(t, "gttStatus", [job[t] EXCEPT !.trigger = g])
    BY <1>9 DEF GetBracket
  <2>2. [job[t] EXCEPT !.trigger = g].kind = job[t].kind
    BY <1>2 DEF Job
  <2> QED BY <1>3, <1>5, <2>1, <2>2
<1>10. CASE GttStatus(t)
  <2>1. PICK step, result, real :
            ContinueWith(t, step, [job[t] EXCEPT !.result = result, !.real = real])
    BY <1>10 DEF GttStatus
  <2>2. [job[t] EXCEPT !.result = result, !.real = real].kind = job[t].kind
    BY <1>2 DEF Job
  <2> QED BY <1>5, <2>1, <2>2
<1>11. CASE CancelGtt(t) \/ UpdateBracket(t) \/ Reconcile(t)
  BY <1>3, <1>4, <1>11 DEF CancelGtt, UpdateBracket, Reconcile
<1> QED BY <1>7, <1>8, <1>9, <1>10, <1>11 DEF ExitStep

LEMMA StartCapacity ==
    ASSUME OnePipeline, TypeInv, CapacityInv, NEW t \in Tasks,
           \/ \E bar \in Bars, gated \in BOOLEAN : StartEntry(t, bar, gated)
           \/ StartExit(t)
    PROVE  CapacityInv'
<1>1. ASSUME NEW bar \in Bars, NEW gated \in BOOLEAN, StartEntry(t, bar, gated)
      PROVE  CapacityInv'
  <2>1. /\ pc' = [pc EXCEPT ![t] = "checkOpen"] /\ Process(t) \in Pipelines
        /\ ~EntryUnderway(Process(t)) /\ UNCHANGED <<orders, held>>
        /\ \A u \in Tasks \ {t} : pc'[u] = pc[u] /\ job'[u] = job[u]
    BY <1>1 DEF StartEntry, ContinueWith, TypeInv, TypeOK, brokerVars
  <2>2. pc'[t] = "checkOpen"
    BY <2>1 DEF TypeInv, TypeOK
  <2>3. ASSUME NEW u \in Tasks, AtWork(u) PROVE FALSE
    <3>1. Process(u) = Process(t)
      BY <2>1, <2>3 DEF OnePipeline, CapacityInv, AtWork
    <3>2. u = <<Process(t), Symbol(u)>> /\ Symbol(u) \in Symbols
      BY <3>1 DEF Tasks, Process, Symbol
    <3>3. pc[u] \notin {"finalize", "placeGtt", "recordBracket"}
      BY <2>3 DEF AtWork, WorkSteps, ClearedSteps
    <3> QED BY <2>1, <2>3, <3>2, <3>3 DEF EntryUnderway, AtWork
  <2>4. Exposed' = Exposed
    BY <2>1, SameExposure
  <2>5. \A u \in Tasks \ {t} : /\ IsEntry(u)' <=> IsEntry(u)
                               /\ Cleared(u)' <=> Cleared(u)
                               /\ AtWork(u)' <=> AtWork(u)
    BY <2>1 DEF IsEntry, Cleared, AtWork
  <2>6. ~Cleared(t)'
    BY <2>2 DEF Cleared, ClearedSteps
  <2> QED BY <2>1, <2>3, <2>4, <2>5, <2>6 DEF CapacityInv, Process, Symbol
<1>2. CASE StartExit(t)
  <2> DEFINE j == [NoJob EXCEPT !.kind = "exit"]
  <2>1. ContinueWith(t, "lookup", j) /\ UNCHANGED <<orders, held>>
    BY <1>2 DEF StartExit, brokerVars
  <2>2. j.kind # "entry"
    BY DEF NoJob
  <2> HIDE DEF j
  <2> QED BY <2>1, <2>2, QuietTask DEF TypeInv
<1> QED BY <1>1, <1>2

LEMMA StopCapacity ==
    ASSUME TypeInv, CapacityInv, NEW p \in Processes, NEW S \in SUBSET Symbols, Stop(p, S)
    PROVE  CapacityInv'
<1>1. /\ UNCHANGED <<orders, held>>
      /\ \A t \in Tasks : \/ pc'[t] = "idle" /\ job'[t] = NoJob
                          \/ pc'[t] = pc[t] /\ job'[t] = job[t]
  BY DEF Stop, brokerVars
<1>2. \A t \in Tasks : /\ IsEntry(t)' => IsEntry(t)
                       /\ Cleared(t)' => Cleared(t)
                       /\ AtWork(t)' => AtWork(t)
  BY <1>1 DEF IsEntry, Cleared, AtWork, NoJob
<1> QED BY <1>1, <1>2, QuietStep, SameExposure

LEMMA FailureCapacity ==
    ASSUME TypeInv, CapacityInv,
           \/ \E p \in Processes : Crash(p)
           \/ \E t \in Tasks : DatabaseFails(t)
    PROVE  CapacityInv'
<1>1. ASSUME NEW t \in Tasks PROVE Process(t) \in Processes /\ {Symbol(t)} \in SUBSET Symbols
  BY DEF Tasks, Process, Symbol
<1> QED BY <1>1, StopCapacity DEF Crash, DatabaseFails

LEMMA OutsideCapacity ==
    ASSUME TypeInv, CapacityInv, BrokerSteps \/ PassCutoff \/ NewDay
    PROVE  CapacityInv'
<1>1. UNCHANGED <<pc, job>>
  BY DEF BrokerSteps, PassCutoff, NewDay
<1>2. Exposed' \subseteq Exposed
  BY OutsideExposure DEF TypeInv
<1> QED BY <1>1, <1>2, QuietStep DEF IsEntry, Cleared, AtWork

-------------------------------------------------------------------------------
LEMMA InitCapacity == Init => CapacityInv
<1> SUFFICES ASSUME Init PROVE CapacityInv
  OBVIOUS
<1>1. Exposed = {}
  BY DEF Init, BrokerInit, Exposed, PendingBuys
<1>2. Cardinality(Exposed) = 0
  BY <1>1, FS_EmptySet
<1>3. \A t \in Tasks : ~IsEntry(t)
  BY DEF Init, IsEntry, NoJob
<1> QED BY <1>2, <1>3, NumberAssumption DEF CapacityInv, AtWork, Cleared, NumberAssumption

LEMMA StepCapacity ==
    ASSUME OnePipeline, ~BestEffortFailures
    PROVE  TypeInv /\ CapacityInv /\ [Next]_vars => CapacityInv'
<1> SUFFICES ASSUME TypeInv, CapacityInv, [Next]_vars PROVE CapacityInv'
  OBVIOUS
<1>1. ASSUME NEW t \in Tasks, TaskStep(t) PROVE CapacityInv'
  BY <1>1, EntryCapacity, CheckCapacityKeeps, OrderCapacity, ExitCapacity DEF TaskStep
<1>2. ASSUME NEW t \in Tasks,
             (\E bar \in Bars, gated \in BOOLEAN : StartEntry(t, bar, gated)) \/ StartExit(t)
      PROVE  CapacityInv'
  BY <1>2, StartCapacity
<1>3. CASE BrokerSteps \/ PassCutoff \/ NewDay
  BY <1>3, OutsideCapacity
<1>4. CASE (\E p \in Processes : Crash(p)) \/ (\E t \in Tasks : DatabaseFails(t))
  BY <1>4, FailureCapacity
<1>5. CASE UNCHANGED vars
  <2>1. Exposed' = Exposed /\ UNCHANGED <<pc, job>>
    BY <1>5, SameExposure DEF vars, brokerVars
  <2> QED BY <2>1, QuietStep DEF IsEntry, Cleared, AtWork
<1> QED BY <1>1, <1>2, <1>3, <1>4, <1>5 DEF Next

(* max_positions is never exceeded by real exposure, for any number of     *)
(* symbols, orders, failures and dashboards, as long as one process        *)
(* evaluates signals and the capacity check can read the broker: what the  *)
(* check saw cannot be outdated by the time the order is placed, although  *)
(* nothing reserves the slot in between.                                   *)
THEOREM CapacityHolds ==
    ASSUME OnePipeline, ~BestEffortFailures
    PROVE  Spec => []CapacityRespected
<1>1. CapacityInv => CapacityRespected
  BY DEF CapacityInv, CapacityRespected
<1> QED BY InitType, StepType, InitCapacity, StepCapacity, <1>1, PTL DEF Spec

-------------------------------------------------------------------------------
(* The refinement of PositionBook.                                         *)

(* Only a placed entry adds to the exposure.                               *)
LEMMA ExposureStep ==
    ASSUME TypeInv, [Next]_vars
    PROVE  \/ Exposed' \subseteq Exposed
           \/ \E t \in Tasks : /\ Cleared(t)
                               /\ Exposed' = Exposed \cup {Symbol(t)}
<1>1. ASSUME NEW t \in Tasks, PlaceAccepted(t) \/ PlaceReplyLost(t)
      PROVE  Exposed' \subseteq Exposed \/ (Cleared(t) /\ Exposed' = Exposed \cup {Symbol(t)})
  <2>1. pc[t] \in ClearedSteps
    BY <1>1 DEF PlaceAccepted, PlaceReplyLost, ClearedSteps
  <2> QED BY <1>1, <2>1, PlacingExposure DEF Cleared
<1>2. ASSUME NEW t \in Tasks, TaskStep(t), ~PlaceAccepted(t), ~PlaceReplyLost(t)
      PROVE  UNCHANGED <<orders, held>>
  BY <1>2 DEF TaskStep, EntryStep, OrderStep, ExitStep, brokerVars, CheckOpen, CheckCapacity,
              CheckIntent, NoTaggedOrder, TaggedOrderFound, HiddenPositionFound,
              NoHiddenPosition, Recheck, Finalize, GttAccepted, GttRefused, RecordBracket,
              PlaceRefused, WaitReturns, WaitRaises, Record, Lookup, Verify, GetBracket,
              GttStatus, CancelGtt, UpdateBracket, Reconcile, Square
<1>3. ASSUME NEW t \in Tasks,
             (\E bar \in Bars, gated \in BOOLEAN : StartEntry(t, bar, gated)) \/ StartExit(t)
      PROVE  UNCHANGED <<orders, held>>
  BY <1>3 DEF StartEntry, StartExit, brokerVars
<1>4. CASE \/ \E p \in Processes : Crash(p)
           \/ \E t \in Tasks : DatabaseFails(t)
           \/ UNCHANGED vars
  BY <1>4, SameExposure DEF Crash, DatabaseFails, Stop, vars, brokerVars
<1>5. CASE BrokerSteps \/ PassCutoff \/ NewDay
  BY <1>5, OutsideExposure DEF TypeInv
<1> QED BY <1>1, <1>2, <1>3, <1>4, <1>5, SameExposure DEF Next

(* Cash trading implements the position book: under the assumptions of     *)
(* CapacityHolds, a symbol comes to carry real money only one at a time    *)
(* and only while there is a free slot, whatever else goes on.             *)
THEOREM ImplementsPositionBook ==
    ASSUME OnePipeline, ~BestEffortFailures
    PROVE  Spec => FollowsBook
<1>1. Init => Book!Init
  BY DEF Init, BrokerInit, Exposed, PendingBuys, Book!Init
<1>2. TypeInv /\ CapacityInv /\ [Next]_vars => [Book!Next]_Exposed
  <2> SUFFICES ASSUME TypeInv, CapacityInv, [Next]_vars, Exposed' # Exposed
               PROVE  Book!Next
    OBVIOUS
  <2>1. CASE Exposed' \subseteq Exposed
    <3>1. Exposed \ Exposed' \in SUBSET Exposed /\ Exposed \ Exposed' # {}
          /\ Exposed' = Exposed \ (Exposed \ Exposed')
      BY <2>1
    <3>2. Book!Leave(Exposed \ Exposed')
      BY <3>1 DEF Book!Leave
    <3> QED BY <3>1, <3>2 DEF Book!Next
  <2>2. ASSUME NEW t \in Tasks, Cleared(t), Exposed' = Exposed \cup {Symbol(t)}
        PROVE  Book!Next
    <3>1. /\ Symbol(t) \in Symbols /\ Symbol(t) \notin Exposed
          /\ IsFiniteSet(Exposed) /\ Cardinality(Exposed) \in Nat
      BY <2>2, SymbolsAssumption, FS_Subset, FS_CardinalityType DEF Exposed, Tasks, Symbol
    <3>2. Cardinality(Exposed \cup {Symbol(t)}) = Cardinality(Exposed) + 1
      BY <3>1, FS_AddElement
    <3>3. Cardinality(Exposed \cup {Symbol(t)}) <= MaxPositions
      BY <2>2 DEF CapacityInv
    <3>4. Cardinality(Exposed) < MaxPositions
      BY <3>1, <3>2, <3>3, NumberAssumption DEF NumberAssumption
    <3>5. Book!Cardinality(Exposed) = Cardinality(Exposed)
      BY DEF Book!Cardinality, Cardinality, Book!IsFiniteSet, IsFiniteSet
    <3>6. Book!Enter(Symbol(t))
      BY <2>2, <3>1, <3>4, <3>5 DEF Book!Enter
    <3> QED BY <3>1, <3>6 DEF Book!Next
  <2> QED BY <2>1, <2>2, ExposureStep
<1> QED BY InitType, StepType, InitCapacity, StepCapacity, <1>1, <1>2, PTL
        DEF Spec, FollowsBook, Book!Spec

-------------------------------------------------------------------------------
(* No order of the application is forgotten, whatever faults the model has.*)


Awaits(t) == pc[t] \in {"wait", "record"} /\ job[t].oid # 0

(* What a task waits for, or is about to record, is an order of its own    *)
(* symbol, side and quantity.                                              *)
OwnOrder(t) ==
    LET order == orders[job[t].oid]
    IN  order.sym = Symbol(t) /\ order.side = Side(t) /\ order.qty = job[t].qty

OnRecord(o) ==
    \E i \in DOMAIN ledger[orders[o].sym] :
        LET leg == ledger[orders[o].sym][i]
        IN  leg.oid = o /\ leg.side = orders[o].side /\ leg.qty = orders[o].qty

Accounted(o) ==
    \/ orders[o].gtt
    \/ o \in lost
    \/ \E t \in Tasks : Awaits(t) /\ job[t].oid = o
    \/ OnRecord(o)

(* The inductive invariant: what a task will write to the ledger agrees    *)
(* with the order it will write it for.                                    *)
RecordInv ==
    /\ \A o \in DOMAIN orders : Accounted(o)
    /\ \A t \in Tasks : Awaits(t) => OwnOrder(t)

(* Orders and rows stay as they are in what they say of side and quantity. *)
Keeps ==
    /\ DOMAIN orders \subseteq DOMAIN orders' /\ lost \subseteq lost'
    /\ \A o \in DOMAIN orders :
          /\ orders'[o].sym = orders[o].sym /\ orders'[o].side = orders[o].side
          /\ orders'[o].qty = orders[o].qty /\ orders'[o].gtt = orders[o].gtt
    /\ \A s \in Symbols : \A i \in DOMAIN ledger[s] :
          i \in DOMAIN ledger'[s] /\ ledger'[s][i] = ledger[s][i]

(* What may become of a task that waits for an order: it goes on, it is    *)
(* written off, or it has recorded the order.                              *)
SameJob(t) ==
    Awaits(t)' /\ job'[t].oid = job[t].oid /\ Side(t)' = Side(t) /\ job'[t].qty = job[t].qty

Resolved(t) ==
    \E o \in DOMAIN orders : o = job[t].oid /\ (o \in lost' \/ OnRecord(o)')

LEMMA AwaitedIsAnOrder ==
    ASSUME TypeInv, NEW t \in Tasks, Awaits(t)
    PROVE  job[t].oid \in DOMAIN orders
<1>1. DOMAIN orders = 1..Len(orders) /\ Len(orders) \in Nat
  BY LenProperties DEF TypeInv, TypeOK
<1>2. job[t].oid \in 1..Len(orders)
  BY <1>1 DEF Awaits, TypeInv, JobsOK, Consistent
<1> QED BY <1>1, <1>2

(* What was accounted for stays so, if every task goes on waiting, or is   *)
(* written off, or has recorded its order.                                 *)
LEMMA StillAccounted ==
    ASSUME TypeInv, RecordInv, Keeps,
           \A t \in Tasks : Awaits(t) => SameJob(t) \/ Resolved(t),
           NEW o \in DOMAIN orders
    PROVE  Accounted(o)'
<1>1. /\ orders[o] \in Order /\ orders[o].sym \in Symbols
  <2>1. orders[o] \in Order
    BY ElementOfSeq, LenProperties DEF TypeInv, TypeOK
  <2> QED BY <2>1 DEF Order
<1>2. CASE orders[o].gtt \/ o \in lost
  BY <1>2 DEF Accounted, Keeps
<1>3. ASSUME NEW t \in Tasks, Awaits(t), job[t].oid = o
      PROVE  Accounted(o)'
  <2>1. CASE SameJob(t)
    BY <1>3, <2>1 DEF Accounted, SameJob
  <2>2. CASE Resolved(t)
    BY <1>3, <2>2 DEF Accounted, Resolved
  <2> QED BY <1>3, <2>1, <2>2
<1>4. CASE OnRecord(o)
  BY <1>1, <1>4 DEF Accounted, OnRecord, Keeps
<1> QED BY <1>2, <1>3, <1>4 DEF RecordInv, Accounted

(* A step that places no order of the application.                         *)
LEMMA NothingPlaced ==
    ASSUME TypeInv, RecordInv, Keeps,
           \A o \in DOMAIN orders' : o \in DOMAIN orders \/ orders'[o].gtt,
           \A t \in Tasks : Awaits(t)' => Awaits(t) /\ SameJob(t),
           \A t \in Tasks : Awaits(t) => SameJob(t) \/ Resolved(t)
    PROVE  RecordInv'
<1>1. ASSUME NEW o \in DOMAIN orders' PROVE Accounted(o)'
  <2>1. CASE o \in DOMAIN orders
    BY <2>1, StillAccounted
  <2>2. CASE orders'[o].gtt
    BY <2>2 DEF Accounted
  <2> QED BY <2>1, <2>2
<1>2. ASSUME NEW t \in Tasks, Awaits(t)' PROVE OwnOrder(t)'
  <2>1. Awaits(t) /\ SameJob(t) /\ OwnOrder(t) /\ job[t].oid \in DOMAIN orders
    BY <1>2, AwaitedIsAnOrder DEF RecordInv
  <2> QED BY <2>1 DEF OwnOrder, SameJob, Keeps, Symbol
<1> QED BY <1>1, <1>2 DEF RecordInv

(* A step of one task leaves the others where they are.                    *)
LEMMA OthersStill ==
    ASSUME TypeInv, NEW t \in Tasks, NEW step, NEW j, ContinueWith(t, step, j)
    PROVE  /\ pc'[t] = step /\ job'[t] = j
           /\ \A u \in Tasks : u # t => (Awaits(u)' <=> Awaits(u)) /\ (Awaits(u) => SameJob(u))
BY DEF ContinueWith, TypeInv, TypeOK, Awaits, SameJob, Side, IsEntry

(* A step of one task that waits for nothing, nor will after it.           *)
LEMMA IdleMove ==
    ASSUME TypeInv, RecordInv, Keeps, orders' = orders,
           NEW t \in Tasks, NEW step, NEW j, ContinueWith(t, step, j),
           ~Awaits(t), step \notin {"wait", "record"} \/ j.oid = 0
    PROVE  RecordInv'
<1>1. ~Awaits(t)'
  BY OthersStill DEF Awaits
<1>2. ASSUME NEW u \in Tasks
      PROVE  (Awaits(u)' => Awaits(u) /\ SameJob(u)) /\ (Awaits(u) => SameJob(u))
  BY <1>1, OthersStill
<1> QED BY <1>2, NothingPlaced

LEMMA NothingWritten ==
    ASSUME UNCHANGED <<orders, ledger, lost>>
    PROVE  Keeps
BY DEF Keeps

(* A new row comes after the others.                                       *)
LEMMA RowWritten ==
    ASSUME TypeInv, NEW s \in Symbols, NEW side, NEW status, NEW qty, NEW intent, NEW oid,
           WriteLeg(s, side, status, qty, intent, oid), UNCHANGED <<orders, lost>>
    PROVE  /\ Keeps
           /\ \E i \in DOMAIN ledger'[s] :
                 LET leg == ledger'[s][i]
                 IN  leg.side = side /\ leg.qty = qty /\ leg.oid = oid
<1> DEFINE leg == [side |-> side, status |-> status, qty |-> qty,
                   intent |-> intent, oid |-> oid, seen |-> Len(orders)]
           n == Len(ledger[s])
<1>1. leg.side = side /\ leg.qty = qty /\ leg.oid = oid
  OBVIOUS
<1> HIDE DEF leg
<1>2. ledger' = [ledger EXCEPT ![s] = Append(@, leg)]
  BY DEF WriteLeg, leg
<1>3. ledger \in [Symbols -> Seq(Leg)] /\ ledger[s] \in Seq(Leg)
  BY DEF TypeInv, TypeOK
<1>4. /\ n \in Nat /\ DOMAIN ledger[s] = 1..n
      /\ ledger'[s] = Append(ledger[s], leg)
      /\ \A r \in Symbols : r # s => ledger'[r] = ledger[r]
  BY <1>2, <1>3, LenProperties
<1>5. /\ DOMAIN ledger'[s] = 1..(n + 1)
      /\ \A i \in 1..n : ledger'[s][i] = ledger[s][i]
      /\ ledger'[s][n + 1] = leg
  BY <1>3, <1>4
<1>6. Keeps
  BY <1>4, <1>5 DEF Keeps
<1> QED BY <1>1, <1>4, <1>5, <1>6

(* Every step of a task but those between placing an order and recording   *)
(* it is such a move.                                                      *)
LEMMA EntryStepRecord ==
    ASSUME TypeInv, RecordInv, NEW t \in Tasks, EntryStep(t)
    PROVE  RecordInv'
<1>1. Symbol(t) \in Symbols /\ orders' = orders /\ lost' = lost /\ ~Awaits(t)
  BY DEF EntryStep, CheckOpen, CheckCapacity, CheckIntent, NoTaggedOrder,
         TaggedOrderFound, HiddenPositionFound, NoHiddenPosition, Recheck, Finalize,
         GttAccepted, GttRefused, RecordBracket, brokerVars, Awaits, Tasks, Symbol
<1>2. PICK step, j : ContinueWith(t, step, j) /\ step \notin {"wait", "record"}
  BY ContinuingKeepsJob
     DEF EntryStep, CheckOpen, CheckCapacity, CheckIntent, NoTaggedOrder, TypeInv,
         TaggedOrderFound, HiddenPositionFound, NoHiddenPosition, Recheck, Finalize,
         GttAccepted, GttRefused, RecordBracket, Finish
<1>3. Keeps
  <2>1. CASE TaggedOrderFound(t) \/ HiddenPositionFound(t)
    BY <1>1, <2>1, RowWritten DEF TaggedOrderFound, HiddenPositionFound
  <2>2. CASE ~(TaggedOrderFound(t) \/ HiddenPositionFound(t))
    BY <1>1, <2>2, NothingWritten
       DEF EntryStep, CheckOpen, CheckCapacity, CheckIntent, NoTaggedOrder,
           NoHiddenPosition, Recheck, Finalize, GttAccepted, GttRefused, RecordBracket,
           recordVars
  <2> QED BY <2>1, <2>2
<1> QED BY <1>1, <1>2, <1>3, IdleMove

LEMMA ExitStepRecord ==
    ASSUME TypeInv, RecordInv, NEW t \in Tasks, ExitStep(t)
    PROVE  RecordInv'
<1>1. Symbol(t) \in Symbols /\ orders' = orders /\ lost' = lost /\ ~Awaits(t)
  BY DEF ExitStep, Lookup, Verify, GetBracket, GttStatus, CancelGtt, UpdateBracket,
         Reconcile, Square, brokerVars, Awaits, Tasks, Symbol
<1>2. PICK step, j : ContinueWith(t, step, j) /\ step \notin {"wait", "record"}
  <2>1. GttStatus(t) =>
            \E step \in {"cancelGtt", "updateBracket"} : \E j : ContinueWith(t, step, j)
    BY DEF GttStatus
  <2>2. Lookup(t) \/ Square(t) =>
            \E step \in {"verify", "square", "idle", "place"} : \E j : ContinueWith(t, step, j)
    BY ContinuingKeepsJob DEF Lookup, Square, Finish, TypeInv
  <2>3. GetBracket(t) =>
            \E step \in {"gttStatus", "square", "reconcile"} : \E j : ContinueWith(t, step, j)
    BY ContinuingKeepsJob DEF GetBracket, CloseStep, TypeInv
  <2>4. Verify(t) \/ CancelGtt(t) \/ UpdateBracket(t) \/ Reconcile(t) =>
            \E step \in {"getBracket", "updateBracket", "square", "reconcile", "idle"} :
                \E j : ContinueWith(t, step, j)
    BY ContinuingKeepsJob
       DEF Verify, CancelGtt, UpdateBracket, Reconcile, Finish, CloseStep, TypeInv
  <2> QED BY <2>1, <2>2, <2>3, <2>4 DEF ExitStep
<1>3. Keeps
  <2>1. CASE Reconcile(t)
    BY <1>1, <2>1, RowWritten DEF Reconcile
  <2>2. CASE ~Reconcile(t)
    BY <1>1, <2>2, NothingWritten
       DEF ExitStep, Lookup, Verify, GetBracket, GttStatus, CancelGtt, UpdateBracket,
           Square, recordVars
  <2> QED BY <2>1, <2>2
<1> QED BY <1>1, <1>2, <1>3, IdleMove

LEMMA StartRecord ==
    ASSUME TypeInv, RecordInv, NEW t \in Tasks,
           \/ \E bar \in Bars, gated \in BOOLEAN : StartEntry(t, bar, gated)
           \/ StartExit(t) \/ PlaceRefused(t)
    PROVE  RecordInv'
<1>1. ~Awaits(t) /\ orders' = orders /\ Keeps
  BY NothingWritten
     DEF StartEntry, StartExit, PlaceRefused, brokerVars, recordVars, Awaits
<1>2. PICK step, j : /\ ContinueWith(t, step, j)
                     /\ step \notin {"wait", "record"} \/ j.oid = 0
  <2>1. CASE PlaceRefused(t)
    <3>1. job[t] \in Job
      BY DEF TypeInv, TypeOK
    <3>2. [job[t] EXCEPT !.oid = 0, !.result = "REJECTED"].oid = 0
      BY <3>1 DEF Job
    <3> QED BY <2>1, <3>2 DEF PlaceRefused
  <2>2. ASSUME NEW bar \in Bars, NEW gated \in BOOLEAN, StartEntry(t, bar, gated)
        PROVE  \E j : ContinueWith(t, "checkOpen", j)
    BY <2>2 DEF StartEntry
  <2>3. StartExit(t) => \E j : ContinueWith(t, "lookup", j)
    BY DEF StartExit
  <2> QED BY <2>1, <2>2, <2>3
<1> QED BY <1>1, <1>2, IdleMove

(* The task stops waiting and goes on with the same order.                 *)
LEMMA WaitRecord ==
    ASSUME TypeInv, RecordInv, NEW t \in Tasks, WaitReturns(t) \/ WaitRaises(t)
    PROVE  RecordInv'
<1>1. pc[t] = "wait" /\ job[t] \in Job /\ orders' = orders /\ Keeps
  BY NothingWritten DEF WaitReturns, WaitRaises, TypeInv, TypeOK, brokerVars, recordVars
<1>2. PICK result : ContinueWith(t, "record", [job[t] EXCEPT !.result = result])
  BY DEF WaitReturns, WaitRaises
<1> DEFINE j == [job[t] EXCEPT !.result = result]
<1>3. j.oid = job[t].oid /\ j.qty = job[t].qty /\ j.kind = job[t].kind
  BY <1>1 DEF Job
<1> HIDE DEF j
<1>4. pc'[t] = "record" /\ job'[t] = j
  BY <1>2, OthersStill DEF j
<1>5. (Awaits(t)' <=> Awaits(t)) /\ (Awaits(t) => SameJob(t))
  BY <1>1, <1>3, <1>4 DEF Awaits, SameJob, Side, IsEntry
<1>6. \A u \in Tasks : (Awaits(u)' => Awaits(u) /\ SameJob(u)) /\ (Awaits(u) => SameJob(u))
  BY <1>2, <1>5, OthersStill
<1> QED BY <1>1, <1>6, NothingPlaced

(* The row a task writes is that of its order.                             *)
LEMMA RecordRecord ==
    ASSUME TypeInv, RecordInv, NEW t \in Tasks, Record(t)
    PROVE  RecordInv'
<1>1. /\ Symbol(t) \in Symbols /\ orders' = orders /\ lost' = lost
      /\ WriteLeg(Symbol(t), Side(t), job[t].result, job[t].qty, job[t].bar, job[t].oid)
  BY DEF Record, brokerVars, Tasks, Symbol
<1>2. PICK i \in DOMAIN ledger'[Symbol(t)] :
          LET leg == ledger'[Symbol(t)][i]
          IN  leg.side = Side(t) /\ leg.qty = job[t].qty /\ leg.oid = job[t].oid
  BY <1>1, RowWritten
<1>3. Keeps
  BY <1>1, RowWritten
<1>4. Awaits(t) => Resolved(t)
  BY <1>1, <1>2, AwaitedIsAnOrder DEF RecordInv, OwnOrder, OnRecord, Resolved
<1>5. PICK step, j : ContinueWith(t, step, j) /\ step \notin {"wait", "record"}
  BY ContinuingKeepsJob DEF Record, Finish, TypeInv
<1>6. ~Awaits(t)'
  BY <1>5, OthersStill DEF Awaits
<1>7. \A u \in Tasks : /\ Awaits(u)' => Awaits(u) /\ SameJob(u)
                       /\ Awaits(u) => SameJob(u) \/ Resolved(u)
  BY <1>4, <1>5, <1>6, OthersStill
<1> QED BY <1>1, <1>3, <1>7, NothingPlaced

(* A new order of the application is awaited by its task, or is lost.      *)
LEMMA PlaceRecord ==
    ASSUME TypeInv, RecordInv, NEW t \in Tasks, PlaceAccepted(t) \/ PlaceReplyLost(t)
    PROVE  RecordInv'
<1> DEFINE n == Len(orders) + 1
           order == NewOrder(Symbol(t), Side(t), job[t].qty, job[t].bar, FALSE)
<1>1. /\ pc[t] = "place" /\ job[t] \in Job /\ orders \in Seq(Order)
      /\ orders' = Append(orders, order)
      /\ ledger' = ledger /\ lost \subseteq lost'
  BY DEF PlaceAccepted, PlaceReplyLost, AcceptOrder, TypeInv, TypeOK, recordVars
<1>2. /\ order.sym = Symbol(t) /\ order.side = Side(t) /\ order.qty = job[t].qty
      /\ order.gtt = FALSE
  BY DEF NewOrder
<1> HIDE DEF order
<1>3. /\ Len(orders) \in Nat /\ DOMAIN orders = 1..Len(orders) /\ DOMAIN orders' = 1..n
      /\ orders'[n] = order /\ \A o \in DOMAIN orders : orders'[o] = orders[o]
  <2>1. Len(orders) \in Nat /\ DOMAIN orders = 1..Len(orders)
    BY <1>1, LenProperties
  <2> QED BY <1>1, <2>1
<1>4. Keeps
  BY <1>1, <1>3 DEF Keeps
<1>5. PICK step, j : /\ ContinueWith(t, step, j) /\ j.kind = job[t].kind
                     /\ j.qty = job[t].qty
                     /\ \/ step = "wait" /\ j.oid = n
                        \/ step = "record" /\ j.oid = 0 /\ n \in lost'
  <2>1. CASE PlaceAccepted(t)
    <3>1. ContinueWith(t, "wait", [job[t] EXCEPT !.oid = n])
      BY <2>1 DEF PlaceAccepted
    <3>2. LET j == [job[t] EXCEPT !.oid = n]
          IN  j.kind = job[t].kind /\ j.qty = job[t].qty /\ j.oid = n
      BY <1>1 DEF Job
    <3> QED BY <3>1, <3>2
  <2>2. CASE PlaceReplyLost(t)
    <3>1. ContinueWith(t, "record", [job[t] EXCEPT !.oid = 0, !.result = "REJECTED"])
          /\ n \in lost'
      BY <2>2 DEF PlaceReplyLost
    <3>2. LET j == [job[t] EXCEPT !.oid = 0, !.result = "REJECTED"]
          IN  j.kind = job[t].kind /\ j.qty = job[t].qty /\ j.oid = 0
      BY <1>1 DEF Job
    <3> QED BY <3>1, <3>2
  <2> QED BY <2>1, <2>2
<1>6. /\ ~Awaits(t) /\ pc'[t] = step /\ job'[t] = j
      /\ \A u \in Tasks : u # t => (Awaits(u)' <=> Awaits(u)) /\ (Awaits(u) => SameJob(u))
  BY <1>1, <1>5, OthersStill DEF Awaits
<1>7. Side(t)' = Side(t) /\ job'[t].qty = job[t].qty
  BY <1>5, <1>6 DEF Side, IsEntry
<1>8. ASSUME NEW o \in DOMAIN orders' PROVE Accounted(o)'
  <2>1. CASE o \in DOMAIN orders
    BY <1>4, <1>6, <2>1, StillAccounted
  <2>2. CASE o = n /\ step = "wait"
    <3>1. Awaits(t)' /\ job'[t].oid = o
      BY <1>3, <1>5, <1>6, <2>2 DEF Awaits
    <3> QED BY <3>1 DEF Accounted
  <2>3. CASE o = n /\ step = "record"
    BY <1>5, <2>3 DEF Accounted
  <2> QED BY <1>3, <1>5, <2>1, <2>2, <2>3
<1>9. ASSUME NEW u \in Tasks, Awaits(u)' PROVE OwnOrder(u)'
  <2>1. CASE u = t
    BY <1>2, <1>3, <1>5, <1>6, <1>7, <1>9, <2>1 DEF Awaits, OwnOrder, Symbol
  <2>2. CASE u # t
    <3>1. Awaits(u) /\ SameJob(u) /\ OwnOrder(u) /\ job[u].oid \in DOMAIN orders
      BY <1>6, <1>9, <2>2, AwaitedIsAnOrder DEF RecordInv
    <3> QED BY <1>4, <3>1 DEF OwnOrder, SameJob, Keeps, Symbol
  <2> QED BY <2>1, <2>2
<1> QED BY <1>8, <1>9 DEF RecordInv

(* A task that ends where it is leaves its order to the history.           *)
LEMMA StopRecord ==
    ASSUME TypeInv, RecordInv, NEW p \in Processes, NEW S \in SUBSET Symbols, Stop(p, S)
    PROVE  RecordInv'
<1> DEFINE Stopped(t) == Process(t) = p /\ Symbol(t) \in S
<1>1. /\ orders' = orders /\ ledger' = ledger /\ lost \subseteq lost'
      /\ pc' = [t \in Tasks |-> IF Stopped(t) THEN "idle" ELSE pc[t]]
      /\ job' = [t \in Tasks |-> IF Stopped(t) THEN NoJob ELSE job[t]]
  BY DEF Stop, brokerVars, recordVars
<1>2. Keeps
  BY <1>1 DEF Keeps
<1>3. ASSUME NEW t \in Tasks, Stopped(t)
      PROVE  ~Awaits(t)' /\ (Awaits(t) => Resolved(t))
  <2>1. pc'[t] = "idle"
    BY <1>1, <1>3
  <2>2. t = <<p, Symbol(t)>>
    BY <1>3 DEF Tasks, Process, Symbol
  <2>3. ASSUME Awaits(t) PROVE job[t].oid \in lost'
    <3>1. pc[<<p, Symbol(t)>>] \in {"wait", "record"} /\ job[<<p, Symbol(t)>>].oid # 0
      BY <2>2, <2>3 DEF Awaits
    <3> QED BY <1>3, <2>2, <3>1 DEF Stop
  <2> QED BY <2>1, <2>3, AwaitedIsAnOrder DEF Awaits, Resolved
<1>4. ASSUME NEW t \in Tasks, ~Stopped(t)
      PROVE  (Awaits(t)' => Awaits(t)) /\ (Awaits(t) => SameJob(t))
  <2>1. pc'[t] = pc[t] /\ job'[t] = job[t]
    BY <1>1, <1>4
  <2> QED BY <2>1 DEF Awaits, SameJob, Side, IsEntry
<1> HIDE DEF Stopped
<1> QED BY <1>1, <1>2, <1>3, <1>4, NothingPlaced

(* The broker never changes whose order it is, its side or its quantity.   *)
LEMMA OutsideRecord ==
    ASSUME TypeInv, RecordInv, BrokerSteps \/ PassCutoff \/ NewDay \/ UNCHANGED vars
    PROVE  RecordInv'
<1>1. /\ UNCHANGED <<ledger, pc, job, lost>>
      /\ orders \in Seq(Order) /\ Len(orders) \in Nat /\ DOMAIN orders = 1..Len(orders)
      /\ \A o \in DOMAIN orders : orders[o] \in Order
  BY LenProperties, ElementOfSeq
     DEF BrokerSteps, PassCutoff, NewDay, vars, recordVars, TypeInv, TypeOK
<1>2. /\ DOMAIN orders \subseteq DOMAIN orders'
      /\ \A o \in DOMAIN orders :
            /\ orders'[o].sym = orders[o].sym /\ orders'[o].side = orders[o].side
            /\ orders'[o].qty = orders[o].qty /\ orders'[o].gtt = orders[o].gtt
      /\ \A o \in DOMAIN orders' : o \in DOMAIN orders \/ orders'[o].gtt
  <2>1. ASSUME NEW o \in DOMAIN orders, NEW n, Fill(o, n) PROVE <1>2
    <3> DEFINE status == IF orders[o].filled + n = orders[o].qty THEN "COMPLETE" ELSE "OPEN"
               filled == orders[o].filled + n
    <3>1. orders' = [orders EXCEPT ![o] = [@ EXCEPT !.filled = filled, !.status = status]]
      BY <2>1 DEF Fill
    <3> HIDE DEF status, filled
    <3> QED BY <1>1, <3>1 DEF Order
  <2>2. ASSUME NEW o \in DOMAIN orders, Reject(o) \/ Cancel(o) PROVE <1>2
    <3>1. PICK status : orders' = [orders EXCEPT ![o].status = status]
      BY <2>2 DEF Reject, Cancel
    <3> QED BY <1>1, <3>1 DEF Order
  <2>3. ASSUME NEW g \in DOMAIN gtts, GttFires(g) PROVE <1>2
    <3> DEFINE order == NewOrder(gtts[g].sym, "SELL", gtts[g].qty, None, TRUE)
    <3>1. orders' = Append(orders, order) /\ order.gtt
      BY <2>3 DEF GttFires, NewOrder
    <3> HIDE DEF order
    <3> QED BY <1>1, <3>1
  <2>4. ASSUME BookRollsOver PROVE <1>2
    <3>1. ASSUME NEW o \in DOMAIN orders
          PROVE  \E status : orders'[o] = [orders[o] EXCEPT !.today = FALSE, !.status = status]
      BY <2>4 DEF BookRollsOver
    <3>2. DOMAIN orders' = DOMAIN orders
      BY <2>4 DEF BookRollsOver
    <3> QED BY <1>1, <3>1, <3>2 DEF Order
  <2>5. ASSUME orders' = orders PROVE <1>2
    BY <2>5
  <2> QED BY <2>1, <2>2, <2>3, <2>4, <2>5
          DEF BrokerSteps, PassCutoff, NewDay, vars, brokerVars
<1>3. Keeps
  BY <1>1, <1>2 DEF Keeps
<1>4. \A t \in Tasks : (Awaits(t)' <=> Awaits(t)) /\ (Awaits(t) => SameJob(t))
  BY <1>1 DEF Awaits, SameJob, Side, IsEntry
<1> QED BY <1>2, <1>3, <1>4, NothingPlaced

-------------------------------------------------------------------------------
LEMMA InitRecord == Init => RecordInv
BY DEF Init, BrokerInit, RecordInv, Awaits, NoJob

LEMMA StepRecord == TypeInv /\ RecordInv /\ [Next]_vars => RecordInv'
<1> SUFFICES ASSUME TypeInv, RecordInv, [Next]_vars PROVE RecordInv'
  OBVIOUS
<1>1. ASSUME NEW t \in Tasks, TaskStep(t) PROVE RecordInv'
  BY <1>1, EntryStepRecord, ExitStepRecord, StartRecord, PlaceRecord, WaitRecord,
     RecordRecord DEF TaskStep, OrderStep
<1>2. ASSUME NEW t \in Tasks,
             (\E bar \in Bars, gated \in BOOLEAN : StartEntry(t, bar, gated)) \/ StartExit(t)
      PROVE  RecordInv'
  BY <1>2, StartRecord
<1>3. CASE (\E p \in Processes : Crash(p)) \/ (\E t \in Tasks : DatabaseFails(t))
  <2>1. ASSUME NEW t \in Tasks PROVE Process(t) \in Processes /\ {Symbol(t)} \in SUBSET Symbols
    BY DEF Tasks, Process, Symbol
  <2> QED BY <1>3, <2>1, StopRecord DEF Crash, DatabaseFails
<1>4. CASE BrokerSteps \/ PassCutoff \/ NewDay \/ UNCHANGED vars
  BY <1>4, OutsideRecord
<1> QED BY <1>1, <1>2, <1>3, <1>4 DEF Next

(* Every order the application placed is on the ledger with its own side   *)
(* and quantity, or a task that will record exactly that is at work, or    *)
(* its task died or never learned of it: _record runs after every outcome  *)
(* of wait_for_fill, a failed poll included.                               *)
THEOREM NothingForgotten == Spec => []NoOrderForgotten
<1>1. TypeInv /\ RecordInv => NoOrderForgotten
  BY DEF RecordInv, Accounted, Awaits, OnRecord, NoOrderForgotten
<1> QED BY InitType, StepType, InitRecord, StepRecord, <1>1, PTL DEF Spec

-------------------------------------------------------------------------------
(* Shares held, shares on order and shares on the ledger.  What is assumed *)
(* of the environment is what the runs show to be needed: one process      *)
(* evaluating signals, a broker whose replies arrive and can be read, buys *)
(* that are settled when the next cycle looks, and no cancellation after a *)
(* part was filled.                                                        *)

Calm ==
    /\ OnePipeline
    /\ ~PartialCancels /\ ~LostReplies /\ ~BestEffortFailures /\ ~LateSettlement

BuysOf(s) == {o \in PendingBuys : orders[o].sym = s}

Clean(s) == held[s] = 0 /\ BuysOf(s) = {}

BeforeOrder == {"checkOpen", "checkCapacity", "checkIntent", "lookupTag", "checkHolding"}

(* What an entry with local variables j may rely on at a step: nobody else *)
(* buys the symbol, and where it goes on to buy there is nothing there yet.*)
EntryFits(t, step, j) ==
    LET s == Symbol(t)
    IN  /\ Process(t) \in Pipelines
        /\ step \in BeforeOrder \cup OrderSteps \cup {"recheck"} => j.qty = EntryQty
        /\ step \in BeforeOrder => BuysOf(s) = {}
        /\ step \in {"place", "recheck"} => Clean(s)
        /\ step = "wait" => /\ BuysOf(s) \subseteq {j.oid}
                            /\ ConfirmedNoPosition(orders[j.oid].status) => Clean(s)
        /\ (step = "record" /\ ConfirmedNoPosition(j.result)) => Clean(s)

(* The first inductive invariant: at most one buy of a symbol is pending,  *)
(* it buys one entry's quantity, and what is held came from it.            *)
StackInv ==
    /\ \A o, q \in PendingBuys : orders[o].sym = orders[q].sym => o = q
    /\ \A o \in PendingBuys : /\ orders[o].qty = EntryQty
                              /\ held[orders[o].sym] <= orders[o].filled
    /\ \A s \in Symbols : held[s] <= EntryQty
    /\ \A t \in Tasks : IsEntry(t) => EntryFits(t, pc[t], job[t])

-------------------------------------------------------------------------------
(* No stacking.                                                            *)

LEMMA TaskParts ==
    ASSUME NEW t \in Tasks
    PROVE  t = <<Process(t), Symbol(t)>> /\ Symbol(t) \in Symbols /\ Process(t) \in Processes
BY DEF Tasks, Process, Symbol

LEMMA OneEntryPerSymbol ==
    ASSUME Calm, StackInv, NEW t \in Tasks, NEW u \in Tasks,
           IsEntry(t), IsEntry(u), Symbol(t) = Symbol(u)
    PROVE  t = u
BY TaskParts DEF Calm, OnePipeline, StackInv, EntryFits

(* A step of a task that leaves orders and holdings alone.                 *)
LEMMA TaskStacks ==
    ASSUME TypeInv, StackInv, NEW t \in Tasks, NEW step, NEW j, ContinueWith(t, step, j),
           UNCHANGED <<orders, held>>, j.kind = "entry" => EntryFits(t, step, j)
    PROVE  StackInv'
<1>1. PendingBuys' = PendingBuys /\ \A s : BuysOf(s)' = BuysOf(s) /\ Clean(s)' = Clean(s)
  BY DEF PendingBuys, Pending, BuysOf, Clean
<1>2. ASSUME NEW u \in Tasks, IsEntry(u)'
      PROVE  EntryFits(u, pc[u], job[u])'
  <2>1. CASE u = t
    <3>1. pc'[u] = step /\ job'[u] = j
      BY <2>1, OthersStill
    <3>2. EntryFits(t, step, j)
      BY <1>2, <3>1 DEF IsEntry
    <3> QED BY <1>1, <2>1, <3>1, <3>2 DEF EntryFits, Process, Symbol
  <2>2. CASE u # t
    <3>1. pc'[u] = pc[u] /\ job'[u] = job[u]
      BY <2>2 DEF ContinueWith, TypeInv, TypeOK
    <3>2. EntryFits(u, pc[u], job[u])
      BY <1>2, <3>1 DEF IsEntry, StackInv
    <3> QED BY <1>1, <3>1, <3>2 DEF EntryFits, Process, Symbol
  <2> QED BY <2>1, <2>2
<1> QED BY <1>1, <1>2 DEF StackInv

LEMMA ContinueStacks ==
    ASSUME TypeInv, StackInv, NEW t \in Tasks, NEW step, Continue(t, step),
           UNCHANGED <<orders, held>>, IsEntry(t) => EntryFits(t, step, job[t])
    PROVE  StackInv'
BY ContinuingKeepsJob, TaskStacks DEF TypeInv, IsEntry

LEMMA FinishStacks ==
    ASSUME TypeInv, StackInv, NEW t \in Tasks, Finish(t), UNCHANGED <<orders, held>>
    PROVE  StackInv'
<1>1. NoJob.kind # "entry"
  BY DEF NoJob
<1> QED BY <1>1, TaskStacks DEF Finish

LEMMA EntryStepStacks ==
    ASSUME Calm, TypeInv, StackInv, NEW t \in Tasks, EntryStep(t)
    PROVE  StackInv'
<1>1. /\ IsEntry(t) /\ job[t] \in Job /\ EntryFits(t, pc[t], job[t])
      /\ UNCHANGED <<orders, held>>
  <2>1. UNCHANGED <<orders, held>> /\ pc[t] \in EntrySteps
    BY DEF EntryStep, CheckOpen, CheckCapacity, CheckIntent, NoTaggedOrder,
           TaggedOrderFound, HiddenPositionFound, NoHiddenPosition, Recheck, Finalize,
           GttAccepted, GttRefused, RecordBracket, brokerVars, EntrySteps
  <2>2. IsEntry(t) /\ job[t] \in Job
    BY <2>1 DEF TypeInv, TypeOK, JobsOK, Consistent, IsEntry
  <2> QED BY <2>1, <2>2 DEF StackInv
<1>2. CASE \/ CheckOpen(t) \/ CheckCapacity(t) \/ CheckIntent(t) \/ NoTaggedOrder(t)
           \/ TaggedOrderFound(t) \/ HiddenPositionFound(t)
  <2>1. PICK step \in BeforeOrder \cup {"finalize"} : Continue(t, step)
    BY <1>2 DEF CheckOpen, CheckCapacity, CheckIntent, NoTaggedOrder, TaggedOrderFound,
                HiddenPositionFound, BeforeOrder
  <2>2. pc[t] \in BeforeOrder
    BY <1>2 DEF CheckOpen, CheckCapacity, CheckIntent, NoTaggedOrder, TaggedOrderFound,
                HiddenPositionFound, BeforeOrder
  <2>3. EntryFits(t, step, job[t])
    BY <1>1, <2>1, <2>2 DEF EntryFits, BeforeOrder, OrderSteps
  <2> QED BY <1>1, <2>1, <2>3, ContinueStacks
<1>3. CASE NoHiddenPosition(t)
  <2>1. held[Symbol(t)] = 0 /\ pc[t] = "checkHolding" /\ Continue(t, "place")
    BY <1>3 DEF NoHiddenPosition, Calm
  <2>2. EntryFits(t, "place", job[t])
    BY <1>1, <2>1 DEF EntryFits, BeforeOrder, OrderSteps, Clean
  <2> QED BY <1>1, <2>1, <2>2, ContinueStacks
<1>4. CASE Recheck(t)
  <2>1. pc[t] = "recheck"
    BY <1>4 DEF Recheck
  <2>2. CASE Continue(t, "finalize")
    <3>1. EntryFits(t, "finalize", job[t])
      BY <1>1, <2>1 DEF EntryFits, BeforeOrder, OrderSteps
    <3> QED BY <1>1, <2>2, <3>1, ContinueStacks
  <2>3. CASE ContinueWith(t, "place", [job[t] EXCEPT !.attempt = @ + 1])
    <3> DEFINE j == [job[t] EXCEPT !.attempt = @ + 1]
    <3>1. j.qty = job[t].qty
      BY <1>1 DEF Job
    <3> HIDE DEF j
    <3>2. EntryFits(t, "place", j)
      BY <1>1, <2>1, <3>1 DEF EntryFits, BeforeOrder, OrderSteps
    <3> QED BY <1>1, <2>3, <3>2, TaskStacks DEF j
  <2> QED BY <1>4, <2>2, <2>3 DEF Recheck
<1>5. CASE Finalize(t) \/ GttAccepted(t)
  <2>1. \/ Finish(t)
        \/ \E step \in {"placeGtt", "recordBracket"} : \E j : ContinueWith(t, step, j)
    BY <1>5 DEF Finalize, GttAccepted
  <2>2. \A step \in {"placeGtt", "recordBracket"} : \A j : EntryFits(t, step, j)
    BY <1>1 DEF EntryFits, BeforeOrder, OrderSteps
  <2> QED BY <1>1, <2>1, <2>2, TaskStacks, FinishStacks
<1>6. CASE GttRefused(t) \/ RecordBracket(t)
  BY <1>1, <1>6, FinishStacks DEF GttRefused, RecordBracket
<1> QED BY <1>2, <1>3, <1>4, <1>5, <1>6 DEF EntryStep

LEMMA ExitStepStacks ==
    ASSUME TypeInv, StackInv, NEW t \in Tasks, ExitStep(t) \/ StartExit(t)
    PROVE  StackInv'
<1>1. UNCHANGED <<orders, held>> /\ job[t] \in Job
  BY DEF ExitStep, StartExit, Lookup, Verify, GetBracket, GttStatus, CancelGtt,
         UpdateBracket, Reconcile, Square, brokerVars, TypeInv, TypeOK
<1>2. PICK step, j : ContinueWith(t, step, j) /\ j.kind # "entry"
  <2>1. CASE StartExit(t)
    BY <2>1 DEF StartExit, NoJob
  <2>2. CASE ExitStep(t)
    <3>1. pc[t] \in ExitSteps
      BY <2>2 DEF ExitStep, Lookup, Verify, GetBracket, GttStatus, CancelGtt,
                  UpdateBracket, Reconcile, Square, ExitSteps
    <3>2. job[t].kind # "entry"
      BY <3>1 DEF TypeInv, JobsOK, Consistent
    <3>3. PICK step, j : ContinueWith(t, step, j) /\ j.kind \in {job[t].kind, "none"}
      <4>1. NoJob.kind = "none" /\ (\A s : Continue(t, s) => ContinueWith(t, s, job[t]))
        BY ContinuingKeepsJob DEF NoJob, TypeInv
      <4>2. \A q, tr, re, rl :
               /\ [job[t] EXCEPT !.qty = q].kind = job[t].kind
               /\ [job[t] EXCEPT !.trigger = tr].kind = job[t].kind
               /\ [job[t] EXCEPT !.real = rl].kind = job[t].kind
               /\ [job[t] EXCEPT !.result = re, !.real = rl].kind = job[t].kind
        BY <1>1 DEF Job
      <4>3. CASE Lookup(t) \/ Square(t)
        <5> DEFINE k == [job[t] EXCEPT !.qty = Entry(Symbol(t)).qty]
        <5>1. \/ Finish(t) \/ Continue(t, "square")
              \/ \E step \in {"verify", "place"} : ContinueWith(t, step, k)
          BY <4>3 DEF Lookup, Square
        <5>2. k.kind = job[t].kind
          BY <4>2
        <5> HIDE DEF k
        <5> QED BY <4>1, <5>1, <5>2 DEF Finish
      <4>4. CASE Verify(t)
        BY <4>2, <4>4 DEF Verify
      <4>5. CASE GetBracket(t)
        BY <4>1, <4>2, <4>5 DEF GetBracket
      <4>6. CASE GttStatus(t)
        <5>1. PICK step, re, rl :
                  ContinueWith(t, step, [job[t] EXCEPT !.result = re, !.real = rl])
          BY <4>6 DEF GttStatus
        <5> DEFINE k == [job[t] EXCEPT !.result = re, !.real = rl]
        <5>2. ContinueWith(t, step, k) /\ k.kind = job[t].kind
          BY <4>2, <5>1
        <5> HIDE DEF k
        <5> QED BY <5>2
      <4>7. CASE CancelGtt(t) \/ UpdateBracket(t) \/ Reconcile(t)
        BY <4>1, <4>7 DEF CancelGtt, UpdateBracket, Reconcile, Finish
      <4> QED BY <2>2, <4>3, <4>4, <4>5, <4>6, <4>7 DEF ExitStep
    <3> QED BY <3>2, <3>3
  <2> QED BY <2>1, <2>2
<1> QED BY <1>1, <1>2, TaskStacks

LEMMA StartEntryStacks ==
    ASSUME Calm, TypeInv, StackInv, NEW t \in Tasks, NEW bar \in Bars, NEW gated \in BOOLEAN,
           StartEntry(t, bar, gated)
    PROVE  StackInv'
<1> DEFINE j == [NoJob EXCEPT !.kind = "entry", !.bar = bar, !.gated = gated,
                              !.attempt = 1, !.qty = EntryQty]
<1>1. j.qty = EntryQty
  BY DEF NoJob
<1>2. ContinueWith(t, "checkOpen", j) /\ PendingBuys = {} /\ Process(t) \in Pipelines
      /\ UNCHANGED <<orders, held>>
  BY DEF StartEntry, Settled, Calm, brokerVars
<1> HIDE DEF j
<1>3. EntryFits(t, "checkOpen", j)
  BY <1>1, <1>2 DEF EntryFits, BuysOf, OrderSteps
<1> QED BY <1>2, <1>3, TaskStacks

LEMMA ReplyStacks ==
    ASSUME Calm, TypeInv, StackInv, NEW t \in Tasks,
           PlaceRefused(t) \/ WaitReturns(t) \/ WaitRaises(t)
    PROVE  StackInv'
<1>1. job[t] \in Job /\ UNCHANGED <<orders, held>>
  BY DEF PlaceRefused, WaitReturns, WaitRaises, brokerVars, TypeInv, TypeOK
<1>2. PICK step, j : /\ ContinueWith(t, step, j)
                     /\ IsEntry(t) => EntryFits(t, step, j)
                     /\ j.kind = job[t].kind
  <2>1. CASE PlaceRefused(t)
    <3> DEFINE j == [job[t] EXCEPT !.oid = 0, !.result = "REJECTED"]
    <3>1. j.qty = job[t].qty /\ j.kind = job[t].kind
      BY <1>1 DEF Job
    <3>2. ContinueWith(t, "record", j) /\ pc[t] = "place"
      BY <2>1 DEF PlaceRefused
    <3> HIDE DEF j
    <3>3. IsEntry(t) => EntryFits(t, "record", j)
      BY <3>1, <3>2 DEF StackInv, EntryFits, OrderSteps, BeforeOrder
    <3> QED BY <3>1, <3>2, <3>3
  <2>2. ASSUME NEW result, pc[t] = "wait",
               ContinueWith(t, "record", [job[t] EXCEPT !.result = result]),
               ConfirmedNoPosition(result) => ConfirmedNoPosition(orders[job[t].oid].status)
        PROVE  \E step, j : /\ ContinueWith(t, step, j)
                            /\ IsEntry(t) => EntryFits(t, step, j)
                            /\ j.kind = job[t].kind
    <3> DEFINE j == [job[t] EXCEPT !.result = result]
    <3>1. j.qty = job[t].qty /\ j.kind = job[t].kind /\ j.result = result
      BY <1>1 DEF Job
    <3>2. ContinueWith(t, "record", j)
      BY <2>2
    <3> HIDE DEF j
    <3>3. IsEntry(t) => EntryFits(t, "record", j)
      BY <2>2, <3>1 DEF StackInv, EntryFits, OrderSteps, BeforeOrder
    <3> QED BY <3>1, <3>2, <3>3
  <2>3. CASE WaitReturns(t)
    <3>1. PICK status \in Reported(job[t].oid) :
              ContinueWith(t, "record", [job[t] EXCEPT !.result = status])
      BY <2>3 DEF WaitReturns
    <3>2. ConfirmedNoPosition(status) => ConfirmedNoPosition(orders[job[t].oid].status)
      BY <3>1, StatusAssumption
         DEF StatusAssumption, Reported, ConfirmedNoPosition, TerminalStatuses
    <3> QED BY <2>2, <2>3, <3>1, <3>2 DEF WaitReturns
  <2>4. CASE WaitRaises(t)
    BY <2>2, <2>4 DEF WaitRaises, ConfirmedNoPosition
  <2> QED BY <2>1, <2>3, <2>4
<1> QED BY <1>1, <1>2, TaskStacks DEF IsEntry

LEMMA RecordStacks ==
    ASSUME TypeInv, StackInv, NEW t \in Tasks, Record(t)
    PROVE  StackInv'
<1>1. UNCHANGED <<orders, held>> /\ pc[t] = "record"
  BY DEF Record, brokerVars
<1>2. CASE ~IsEntry(t)
  BY <1>1, <1>2, FinishStacks DEF Record
<1>3. CASE IsEntry(t)
  <2>1. PICK step \in {"recheck", "finalize"} :
            /\ Continue(t, step)
            /\ step = "recheck" => ConfirmedNoPosition(job[t].result)
    BY <1>3 DEF Record, MayRetry
  <2>2. EntryFits(t, step, job[t])
    BY <1>1, <1>3, <2>1 DEF StackInv, EntryFits, OrderSteps, BeforeOrder
  <2> QED BY <1>1, <2>1, <2>2, ContinueStacks
<1> QED BY <1>2, <1>3

(* A new order at the end of the book.                                     *)
LEMMA BookGrows ==
    ASSUME TypeInv, NEW order \in Order, orders' = Append(orders, order),
           order.status = "OPEN"
    PROVE  LET n == Len(orders) + 1
           IN  /\ n \notin DOMAIN orders /\ DOMAIN orders' = DOMAIN orders \cup {n}
               /\ orders'[n] = order
               /\ \A o \in DOMAIN orders : orders'[o] = orders[o]
               /\ PendingBuys' = PendingBuys \cup (IF order.side = "BUY" THEN {n} ELSE {})
<1> DEFINE n == Len(orders) + 1
<1>1. Len(orders) \in Nat /\ DOMAIN orders = 1..Len(orders)
  BY LenProperties DEF TypeInv, TypeOK
<1>2. /\ n \notin DOMAIN orders /\ DOMAIN orders' = 1..n
      /\ orders'[n] = order /\ \A o \in DOMAIN orders : orders'[o] = orders[o]
  BY <1>1
<1>3. 1..n = DOMAIN orders \cup {n}
  BY <1>1
<1> HIDE DEF n
<1>4. PendingBuys' = PendingBuys \cup (IF order.side = "BUY" THEN {n} ELSE {})
  BY <1>2, <1>3 DEF PendingBuys, Pending
<1> QED BY <1>2, <1>3, <1>4 DEF n

(* The order a task places.                                                *)
LEMMA PlacedOrder ==
    ASSUME TypeInv, NEW t \in Tasks, PlaceAccepted(t)
    PROVE  \E order \in Order :
              /\ orders' = Append(orders, order) /\ held' = held
              /\ order.sym = Symbol(t) /\ order.side = Side(t) /\ order.qty = job[t].qty
              /\ order.filled = 0 /\ order.status = "OPEN"
<1> DEFINE order == NewOrder(Symbol(t), Side(t), job[t].qty, job[t].bar, FALSE)
<1>1. /\ pc[t] = "place" /\ job[t] \in Job /\ Symbol(t) \in Symbols
      /\ Consistent(pc[t], job[t], ledger[Symbol(t)], Len(orders))
      /\ AcceptOrder(Symbol(t), Side(t), job[t].qty, job[t].bar) /\ held' = held
  BY DEF PlaceAccepted, TypeInv, TypeOK, JobsOK, Tasks, Symbol
<1>2. job[t].qty \in Nat \ {0}
  BY <1>1 DEF Consistent, Job, ClosingSteps
<1>3. order \in Order
  BY <1>1, <1>2 DEF NewOrder, Order, Job, Side
<1>4. /\ order.sym = Symbol(t) /\ order.side = Side(t) /\ order.qty = job[t].qty
      /\ order.filled = 0 /\ order.status = "OPEN" /\ orders' = Append(orders, order)
  BY <1>1 DEF NewOrder, AcceptOrder
<1> HIDE DEF order
<1> QED BY <1>1, <1>3, <1>4

LEMMA PlaceStacks ==
    ASSUME Calm, TypeInv, RecordInv, StackInv, NEW t \in Tasks, PlaceAccepted(t)
    PROVE  StackInv'
<1> DEFINE n == Len(orders) + 1
           j == [job[t] EXCEPT !.oid = n]
<1>1. PICK order \in Order :
          /\ orders' = Append(orders, order) /\ held' = held
          /\ order.sym = Symbol(t) /\ order.side = Side(t) /\ order.qty = job[t].qty
          /\ order.filled = 0 /\ order.status = "OPEN"
  BY PlacedOrder
<1>2. /\ n \notin DOMAIN orders /\ DOMAIN orders' = DOMAIN orders \cup {n}
      /\ orders'[n] = order
      /\ \A o \in DOMAIN orders : orders'[o] = orders[o]
      /\ PendingBuys' = PendingBuys \cup (IF order.side = "BUY" THEN {n} ELSE {})
  BY <1>1, BookGrows
<1>3. /\ pc[t] = "place" /\ job[t] \in Job /\ pc'[t] = "wait" /\ job'[t] = j
      /\ \A u \in Tasks : u # t => pc'[u] = pc[u] /\ job'[u] = job[u]
  BY DEF PlaceAccepted, ContinueWith, TypeInv, TypeOK
<1>4. j.oid = n /\ j.qty = job[t].qty /\ j.kind = job[t].kind
  BY <1>3 DEF Job
<1> HIDE DEF n, j
<1>5. ASSUME NEW u \in Tasks, u # t, IsEntry(u)', Symbol(u) # Symbol(t) \/ ~IsEntry(t)
      PROVE  EntryFits(u, pc[u], job[u])'
  <2>1. pc'[u] = pc[u] /\ job'[u] = job[u] /\ EntryFits(u, pc[u], job[u])
    BY <1>3, <1>5 DEF IsEntry, StackInv
  <2>2. BuysOf(Symbol(u))' = BuysOf(Symbol(u))
    <3>1. order.side = "BUY" => Symbol(u) # Symbol(t)
      BY <1>1, <1>5 DEF Side
    <3> QED BY <1>1, <1>2, <3>1 DEF BuysOf, PendingBuys, Symbol
  <2>3. Clean(Symbol(u))' = Clean(Symbol(u))
    BY <1>1, <2>2 DEF Clean, Symbol
  <2>4. pc[u] = "wait" => orders'[job[u].oid] = orders[job[u].oid]
    <3>1. ASSUME pc[u] = "wait" PROVE job[u].oid \in DOMAIN orders
      BY <3>1, LenProperties DEF TypeInv, TypeOK, JobsOK, Consistent
    <3> QED BY <1>2, <3>1
  <2> QED BY <2>1, <2>2, <2>3, <2>4 DEF EntryFits, Process, Symbol
<1>6. CASE ~IsEntry(t)
  <2>1. PendingBuys' = PendingBuys /\ ~IsEntry(t)'
    BY <1>1, <1>2, <1>3, <1>4, <1>6 DEF Side, IsEntry
  <2>2. \A o \in PendingBuys : orders'[o] = orders[o]
    BY <1>2 DEF PendingBuys
  <2>3. \A u \in Tasks : IsEntry(u)' => EntryFits(u, pc[u], job[u])'
    BY <1>5, <1>6, <2>1
  <2>4. \A o, q \in PendingBuys' : orders'[o].sym = orders'[q].sym => o = q
    BY <2>1, <2>2 DEF StackInv
  <2>5. \A o \in PendingBuys' : /\ orders'[o].qty = EntryQty
                                 /\ held'[orders'[o].sym] <= orders'[o].filled
    BY <1>1, <2>1, <2>2 DEF StackInv
  <2>6. \A s \in Symbols : held'[s] <= EntryQty
    BY <1>1 DEF StackInv
  <2> QED BY <2>3, <2>4, <2>5, <2>6 DEF StackInv
<1>7. CASE IsEntry(t)
  <2>1. EntryFits(t, "place", job[t])
    BY <1>3, <1>7 DEF StackInv
  <2>2. Clean(Symbol(t)) /\ job[t].qty = EntryQty /\ Process(t) \in Pipelines
    BY <2>1 DEF EntryFits, OrderSteps
  <2>3. PendingBuys' = PendingBuys \cup {n} /\ BuysOf(Symbol(t)) = {} /\ held[Symbol(t)] = 0
    BY <1>1, <1>2, <1>7, <2>2 DEF Side, Clean
  <2>4. \A o \in PendingBuys : o # n /\ orders'[o] = orders[o] /\ orders[o].sym # Symbol(t)
    BY <1>2, <2>3 DEF PendingBuys, BuysOf
  <2>5. orders'[n].sym = Symbol(t) /\ orders'[n].qty = EntryQty /\ orders'[n].filled = 0
        /\ held'[Symbol(t)] = 0 /\ 0 <= 0
    BY <1>1, <1>2, <2>2, <2>3
  <2>6. \A o, q \in PendingBuys' : orders'[o].sym = orders'[q].sym => o = q
    <3>1. \A o \in PendingBuys : orders'[o].sym # Symbol(t)
      BY <2>4
    <3>2. \A o, q \in PendingBuys : orders'[o].sym = orders'[q].sym => o = q
      BY <2>4 DEF StackInv
    <3> QED BY <2>3, <2>5, <3>1, <3>2
  <2>7. \A o \in PendingBuys' : /\ orders'[o].qty = EntryQty
                                 /\ held'[orders'[o].sym] <= orders'[o].filled
    <3>1. \A o \in PendingBuys : /\ orders'[o].qty = EntryQty
                                 /\ held'[orders'[o].sym] <= orders'[o].filled
      BY <1>1, <2>4 DEF StackInv
    <3>2. orders'[n].qty = EntryQty /\ held'[orders'[n].sym] <= orders'[n].filled
      BY <2>5
    <3> QED BY <2>3, <3>1, <3>2
  <2>8. EntryFits(t, pc[t], job[t])'
    <3>1. BuysOf(Symbol(t))' \subseteq {j.oid}
      BY <1>4, <2>3, <2>4 DEF BuysOf, Symbol
    <3>2. ~ConfirmedNoPosition(orders'[j.oid].status)
      BY <1>1, <1>2, <1>4 DEF ConfirmedNoPosition
    <3> QED BY <1>3, <1>4, <2>2, <3>1, <3>2
            DEF EntryFits, OrderSteps, BeforeOrder, Process, Symbol
  <2>9. \A u \in Tasks : IsEntry(u)' => EntryFits(u, pc[u], job[u])'
    <3>1. ASSUME NEW u \in Tasks, u # t, IsEntry(u)' PROVE Symbol(u) # Symbol(t)
      BY <1>3, <1>7, <3>1, OneEntryPerSymbol DEF IsEntry
    <3> QED BY <1>5, <2>8, <3>1
  <2>10. \A s \in Symbols : held'[s] <= EntryQty
    BY <1>1 DEF StackInv
  <2> QED BY <2>6, <2>7, <2>9, <2>10 DEF StackInv
<1> QED BY <1>6, <1>7

(* The broker acts: buys are filled or end, none appears.                  *)
LEMMA BrokerStacks ==
    ASSUME TypeInv, RecordInv, StackInv, UNCHANGED <<pc, job>>,
           DOMAIN orders \subseteq DOMAIN orders', PendingBuys' \subseteq PendingBuys,
           \A o \in PendingBuys' : /\ orders'[o].sym = orders[o].sym
                                   /\ orders'[o].qty = orders[o].qty
                                   /\ held'[orders[o].sym] <= orders'[o].filled,
           \A s \in Symbols : /\ held'[s] <= EntryQty
                              /\ held'[s] # 0 => held[s] # 0 \/ BuysOf(s) # {},
           \A o \in DOMAIN orders :
              \/ ConfirmedNoPosition(orders'[o].status) => ConfirmedNoPosition(orders[o].status)
              \/ orders[o].side # "BUY"
              \/ o \in PendingBuys \ PendingBuys' /\ held'[orders[o].sym] = 0
    PROVE  StackInv'
<1>1. \A o \in PendingBuys' : o \in PendingBuys /\ orders'[o].sym = orders[o].sym
  OBVIOUS
<1>2. \A s : BuysOf(s)' \subseteq BuysOf(s)
  BY <1>1 DEF BuysOf
<1>3. \A s \in Symbols : Clean(s) => Clean(s)'
  BY <1>2 DEF Clean
<1>4. ASSUME NEW t \in Tasks, IsEntry(t)'
      PROVE  EntryFits(t, pc[t], job[t])'
  <2> DEFINE s == Symbol(t)
             o == job[t].oid
  <2>1. IsEntry(t) /\ s \in Symbols /\ EntryFits(t, pc[t], job[t])
    BY <1>4, TaskParts DEF IsEntry, StackInv
  <2>2. ASSUME pc[t] = "wait", ConfirmedNoPosition(orders'[o].status)
        PROVE  Clean(s)'
    <3>1. o \in DOMAIN orders /\ o # 0
      BY <2>2, LenProperties DEF TypeInv, TypeOK, JobsOK, Consistent
    <3>2. orders[o].sym = s /\ orders[o].side = "BUY"
      BY <2>1, <2>2, <3>1 DEF RecordInv, Awaits, OwnOrder, Side
    <3>3. CASE ConfirmedNoPosition(orders[o].status)
      BY <1>3, <2>1, <2>2, <3>3 DEF EntryFits
    <3>4. CASE o \in PendingBuys \ PendingBuys' /\ held'[orders[o].sym] = 0
      <4>1. BuysOf(s) \subseteq {o}
        BY <2>1, <2>2 DEF EntryFits
      <4>2. o \notin BuysOf(s)'
        BY <3>4 DEF BuysOf
      <4>3. BuysOf(s)' = {}
        BY <1>2, <4>1, <4>2
      <4> QED BY <3>2, <3>4, <4>3 DEF Clean, Symbol
    <3> QED BY <2>2, <3>1, <3>2, <3>3, <3>4
  <2> QED BY <1>2, <1>3, <2>1, <2>2 DEF EntryFits, Process, Symbol
<1>5. /\ \A o, q \in PendingBuys' : orders'[o].sym = orders'[q].sym => o = q
      /\ \A o \in PendingBuys' : /\ orders'[o].qty = EntryQty
                                 /\ held'[orders'[o].sym] <= orders'[o].filled
      /\ \A s \in Symbols : held'[s] <= EntryQty
  BY <1>1 DEF StackInv
<1> QED BY <1>4, <1>5 DEF StackInv

(* What becomes of one order, and of the shares.                           *)
LEMMA OrderChanges ==
    ASSUME TypeInv, NEW o \in DOMAIN orders,
           (\E n \in 1..EntryQty : Fill(o, n)) \/ Reject(o) \/ Cancel(o)
    PROVE  /\ orders[o] \in Order /\ held \in [Symbols -> Nat] /\ Pending(o)
           /\ DOMAIN orders' = DOMAIN orders
           /\ \A q \in DOMAIN orders : q # o => orders'[q] = orders[q]
           /\ orders'[o].sym = orders[o].sym /\ orders'[o].side = orders[o].side
           /\ orders'[o].qty = orders[o].qty /\ orders'[o].gtt = orders[o].gtt
           /\ \/ /\ ~ConfirmedNoPosition(orders'[o].status)
                 /\ orders'[o].status = "COMPLETE" => orders'[o].filled = orders[o].qty
                 /\ orders'[o].status # "COMPLETE" => orders'[o].status = "OPEN"
                 /\ \E n \in 1..EntryQty :
                       /\ orders'[o].filled = orders[o].filled + n
                       /\ orders'[o].filled <= orders[o].qty
                       /\ orders[o].side = "SELL" => n <= held[orders[o].sym]
                       /\ held' = [held EXCEPT ![orders[o].sym] =
                                      IF orders[o].side = "BUY" THEN @ + n ELSE @ - n]
              \/ /\ orders'[o].filled = orders[o].filled /\ held' = held
                 /\ PartialCancels \/ orders[o].filled = 0
                 /\ ConfirmedNoPosition(orders'[o].status)
<1>1. /\ orders[o] \in Order /\ held \in [Symbols -> Nat] /\ Pending(o)
  BY ElementOfSeq, LenProperties DEF TypeInv, TypeOK, Fill, Reject, Cancel
<1>2. ASSUME NEW n \in 1..EntryQty, Fill(o, n)
      PROVE  /\ DOMAIN orders' = DOMAIN orders
             /\ \A q \in DOMAIN orders : q # o => orders'[q] = orders[q]
             /\ orders'[o].sym = orders[o].sym /\ orders'[o].side = orders[o].side
             /\ orders'[o].qty = orders[o].qty /\ orders'[o].gtt = orders[o].gtt
             /\ orders'[o].filled = orders[o].filled + n
             /\ orders'[o].status \in {"COMPLETE", "OPEN"}
             /\ orders'[o].status = "COMPLETE" => orders'[o].filled = orders[o].qty
  <2> DEFINE filled == orders[o].filled + n
             status == IF filled = orders[o].qty THEN "COMPLETE" ELSE "OPEN"
  <2>1. orders' = [orders EXCEPT ![o] = [@ EXCEPT !.filled = filled, !.status = status]]
    BY <1>2 DEF Fill
  <2>2. status \in {"COMPLETE", "OPEN"} /\ (status = "COMPLETE" => filled = orders[o].qty)
    OBVIOUS
  <2>3. filled = orders[o].filled + n
    OBVIOUS
  <2> HIDE DEF filled, status
  <2> QED BY <1>1, <2>1, <2>2, <2>3 DEF Order
<1>3. ASSUME NEW n \in 1..EntryQty, Fill(o, n)
      PROVE  /\ orders[o].filled + n <= orders[o].qty
             /\ orders[o].side = "SELL" => n <= held[orders[o].sym]
             /\ held' = [held EXCEPT ![orders[o].sym] =
                            IF orders[o].side = "BUY" THEN @ + n ELSE @ - n]
  BY <1>3 DEF Fill
<1>4. ASSUME Reject(o) \/ Cancel(o)
      PROVE  /\ DOMAIN orders' = DOMAIN orders
             /\ \A q \in DOMAIN orders : q # o => orders'[q] = orders[q]
             /\ orders'[o].sym = orders[o].sym /\ orders'[o].side = orders[o].side
             /\ orders'[o].qty = orders[o].qty /\ orders'[o].gtt = orders[o].gtt
             /\ orders'[o].filled = orders[o].filled /\ held' = held
             /\ PartialCancels \/ orders[o].filled = 0
             /\ ConfirmedNoPosition(orders'[o].status)
  <2>1. PICK status \in {"REJECTED", "CANCELLED"} : orders' = [orders EXCEPT ![o].status = status]
    BY <1>4 DEF Reject, Cancel
  <2>2. held' = held /\ (PartialCancels \/ orders[o].filled = 0)
    BY <1>4 DEF Reject, Cancel, Cancellable
  <2> QED BY <1>1, <2>1, <2>2 DEF Order, ConfirmedNoPosition
<1> QED BY <1>1, <1>2, <1>3, <1>4 DEF ConfirmedNoPosition

LEMMA OrderEventStacks ==
    ASSUME Calm, TypeInv, RecordInv, StackInv, UNCHANGED <<pc, job>>, NEW o \in DOMAIN orders,
           (\E n \in 1..EntryQty : Fill(o, n)) \/ Reject(o) \/ Cancel(o)
    PROVE  StackInv'
<1> DEFINE s == orders[o].sym
<1>1. /\ orders[o] \in Order /\ held \in [Symbols -> Nat] /\ Pending(o)
      /\ DOMAIN orders' = DOMAIN orders
      /\ \A q \in DOMAIN orders : q # o => orders'[q] = orders[q]
      /\ orders'[o].sym = orders[o].sym /\ orders'[o].side = orders[o].side
      /\ orders'[o].qty = orders[o].qty
  BY OrderChanges
<1>2. s \in Symbols /\ orders[o].filled \in Nat /\ held[s] \in Nat /\ EntryQty \in Nat
      /\ orders[o].side \in {"BUY", "SELL"}
  BY <1>1, NumberAssumption DEF NumberAssumption, Order
<1>3. PendingBuys' \subseteq PendingBuys
  BY <1>1 DEF PendingBuys, Pending
<1>4. \A q \in PendingBuys : /\ held[orders[q].sym] <= orders[q].filled
                             /\ orders[q].sym \in Symbols /\ orders[q].filled \in Nat
                             /\ q \in DOMAIN orders
  <2>1. \A q \in DOMAIN orders : orders[q] \in Order
    BY ElementOfSeq, LenProperties DEF TypeInv, TypeOK
  <2>2. \A q \in PendingBuys : q \in DOMAIN orders /\ held[orders[q].sym] <= orders[q].filled
    BY DEF StackInv, PendingBuys
  <2> QED BY <2>1, <2>2 DEF Order
<1>5. orders[o].side = "BUY" => o \in PendingBuys /\ o \in BuysOf(s)
  BY <1>1 DEF PendingBuys, BuysOf
<1>6. \A q \in PendingBuys : (q # o /\ orders[o].side = "BUY") => orders[q].sym # s
  BY <1>5 DEF StackInv
<1>7. CASE /\ ~ConfirmedNoPosition(orders'[o].status)
           /\ \E n \in 1..EntryQty :
                 /\ orders'[o].filled = orders[o].filled + n
                 /\ orders'[o].filled <= orders[o].qty
                 /\ orders[o].side = "SELL" => n <= held[s]
                 /\ held' = [held EXCEPT ![s] = IF orders[o].side = "BUY" THEN @ + n ELSE @ - n]
  <2>1. PICK n \in 1..EntryQty :
            /\ orders'[o].filled = orders[o].filled + n
            /\ orders'[o].filled <= orders[o].qty
            /\ orders[o].side = "SELL" => n <= held[s]
            /\ held' = [held EXCEPT ![s] = IF orders[o].side = "BUY" THEN @ + n ELSE @ - n]
    BY <1>7
  <2>2. /\ n \in Nat /\ \A r \in Symbols : r # s => held'[r] = held[r]
        /\ orders[o].side = "BUY" => held'[s] = held[s] + n
        /\ orders[o].side = "SELL" => held'[s] = held[s] - n /\ n <= held[s]
    BY <1>1, <1>2, <2>1
  <2>3. \A q \in PendingBuys' : /\ orders'[q].sym = orders[q].sym
                                /\ orders'[q].qty = orders[q].qty
                                /\ held'[orders[q].sym] <= orders'[q].filled
    <3>1. ASSUME NEW q \in PendingBuys', q = o
          PROVE  held'[orders[q].sym] <= orders'[q].filled
      <4>1. orders[o].side = "BUY" /\ held[s] <= orders[o].filled
        BY <1>3, <1>4, <3>1 DEF PendingBuys
      <4> QED BY <1>2, <2>1, <2>2, <3>1, <4>1
    <3>2. ASSUME NEW q \in PendingBuys', q # o
          PROVE  held'[orders[q].sym] <= orders'[q].filled
      <4>1. /\ held[orders[q].sym] <= orders[q].filled /\ orders[q].sym \in Symbols
            /\ orders[q].filled \in Nat /\ orders'[q].filled = orders[q].filled
        BY <1>1, <1>3, <1>4, <3>2
      <4>2. CASE orders[o].side = "BUY"
        <5>1. orders[q].sym # s
          BY <1>3, <1>6, <3>2, <4>2
        <5> QED BY <2>2, <4>1, <5>1
      <4>3. CASE orders[o].side = "SELL" /\ orders[q].sym = s
        BY <1>2, <2>2, <4>1, <4>3
      <4>4. CASE orders[q].sym # s
        BY <2>2, <4>1, <4>4
      <4> QED BY <1>2, <4>2, <4>3, <4>4
    <3>3. \A q \in PendingBuys' : orders'[q].sym = orders[q].sym /\ orders'[q].qty = orders[q].qty
      BY <1>1, <1>3, <1>4
    <3> QED BY <3>1, <3>2, <3>3
  <2>4. ASSUME NEW r \in Symbols
        PROVE  held'[r] <= EntryQty /\ (held'[r] # 0 => held[r] # 0 \/ BuysOf(r) # {})
    <3>1. held[r] <= EntryQty /\ held[r] \in Nat
      BY <1>1 DEF StackInv
    <3>2. CASE r # s
      BY <2>2, <3>1, <3>2
    <3>3. CASE r = s /\ orders[o].side = "SELL"
      BY <1>2, <2>2, <3>1, <3>3
    <3>4. CASE r = s /\ orders[o].side = "BUY"
      <4>1. held[s] <= orders[o].filled /\ orders[o].qty = EntryQty
        BY <1>4, <1>5, <3>4 DEF StackInv
      <4>2. held'[s] <= EntryQty
        BY <1>2, <2>1, <2>2, <3>4, <4>1
      <4> QED BY <1>5, <3>4, <4>2
    <3> QED BY <1>2, <3>2, <3>3, <3>4
  <2>5. \A q \in DOMAIN orders :
            ConfirmedNoPosition(orders'[q].status) => ConfirmedNoPosition(orders[q].status)
    BY <1>1, <1>7
  <2> QED BY <1>1, <1>3, <2>3, <2>4, <2>5, BrokerStacks
<1>8. CASE /\ orders'[o].filled = orders[o].filled /\ held' = held
           /\ PartialCancels \/ orders[o].filled = 0
           /\ ConfirmedNoPosition(orders'[o].status)
  <2>1. \A q \in PendingBuys' : q # o
    BY <1>8 DEF PendingBuys, Pending, ConfirmedNoPosition
  <2>2. \A q \in PendingBuys' : /\ orders'[q].sym = orders[q].sym
                                /\ orders'[q].qty = orders[q].qty
                                /\ held'[orders[q].sym] <= orders'[q].filled
    BY <1>1, <1>3, <1>4, <1>8, <2>1
  <2>3. \A r \in Symbols : /\ held'[r] <= EntryQty
                           /\ held'[r] # 0 => held[r] # 0 \/ BuysOf(r) # {}
    BY <1>8 DEF StackInv
  <2>4. orders[o].side = "BUY" => o \in PendingBuys \ PendingBuys' /\ held'[s] = 0
    <3>1. ASSUME orders[o].side = "BUY" PROVE held[s] <= 0
      BY <1>4, <1>5, <1>8, <3>1 DEF Calm
    <3>2. orders[o].side = "BUY" => held[s] = 0
      BY <1>2, <3>1
    <3> QED BY <1>5, <1>8, <2>1, <3>2
  <2>5. ASSUME NEW q \in DOMAIN orders
        PROVE  \/ ConfirmedNoPosition(orders'[q].status) => ConfirmedNoPosition(orders[q].status)
               \/ orders[q].side # "BUY"
               \/ q \in PendingBuys \ PendingBuys' /\ held'[orders[q].sym] = 0
    BY <1>1, <2>4
  <2> QED BY <1>1, <1>3, <2>2, <2>3, <2>5, BrokerStacks
<1> QED BY <1>7, <1>8, OrderChanges

LEMMA GttFiresStacks ==
    ASSUME TypeInv, RecordInv, StackInv, UNCHANGED <<pc, job>>,
           NEW g \in DOMAIN gtts, GttFires(g)
    PROVE  StackInv'
<1> DEFINE order == NewOrder(gtts[g].sym, "SELL", gtts[g].qty, None, TRUE)
<1>1. order \in Order /\ order.side = "SELL" /\ order.status = "OPEN"
  <2>1. gtts[g] \in Gtt
    BY ElementOfSeq, LenProperties DEF TypeInv, TypeOK
  <2> QED BY <2>1 DEF NewOrder, Order, Gtt
<1>2. orders' = Append(orders, order) /\ held' = held
  BY DEF GttFires
<1> HIDE DEF order
<1>3. /\ DOMAIN orders \subseteq DOMAIN orders' /\ PendingBuys' = PendingBuys
      /\ \A o \in DOMAIN orders : orders'[o] = orders[o]
  BY <1>1, <1>2, BookGrows
<1>4. \A o \in PendingBuys' : o \in DOMAIN orders /\ held[orders[o].sym] <= orders[o].filled
  BY <1>3 DEF PendingBuys, StackInv
<1>5. \A s \in Symbols : held[s] <= EntryQty
  BY DEF StackInv
<1> QED BY <1>2, <1>3, <1>4, <1>5, BrokerStacks

LEMMA NewDayStacks ==
    ASSUME Calm, TypeInv, RecordInv, StackInv, NewDay
    PROVE  StackInv'
<1>1. /\ DOMAIN orders' = DOMAIN orders /\ held' = held
      /\ \A t \in Tasks : pc[t] = "idle"
      /\ \A o \in DOMAIN orders : orders'[o] =
            [orders[o] EXCEPT !.today = FALSE, !.status = IF @ = "OPEN" THEN "CANCELLED" ELSE @]
      /\ UNCHANGED <<pc, job>>
  BY DEF NewDay, BookRollsOver
<1>2. \A o \in DOMAIN orders : orders[o] \in Order
  BY ElementOfSeq, LenProperties DEF TypeInv, TypeOK
<1>3. \A o \in DOMAIN orders : orders'[o].status # "OPEN"
  BY <1>1, <1>2 DEF Order
<1>4. PendingBuys' = {}
  BY <1>1, <1>3 DEF PendingBuys, Pending
<1>5. \A t \in Tasks : ~IsEntry(t)'
  <2>1. \A t \in Tasks : job[t] = NoJob
    BY <1>1 DEF TypeInv, JobsOK, Consistent
  <2>2. NoJob.kind # "entry"
    BY DEF NoJob
  <2> QED BY <1>1, <2>1, <2>2 DEF IsEntry
<1> QED BY <1>1, <1>4, <1>5 DEF StackInv

LEMMA StopStacks ==
    ASSUME StackInv, NEW p \in Processes, NEW S \in SUBSET Symbols, Stop(p, S)
    PROVE  StackInv'
<1>1. /\ UNCHANGED <<orders, held>>
      /\ pc' = [t \in Tasks |-> IF Process(t) = p /\ Symbol(t) \in S THEN "idle" ELSE pc[t]]
      /\ job' = [t \in Tasks |-> IF Process(t) = p /\ Symbol(t) \in S THEN NoJob ELSE job[t]]
  BY DEF Stop, brokerVars
<1>2. PendingBuys' = PendingBuys /\ \A s : BuysOf(s)' = BuysOf(s) /\ Clean(s)' = Clean(s)
  BY <1>1 DEF PendingBuys, Pending, BuysOf, Clean
<1>3. ASSUME NEW t \in Tasks, IsEntry(t)'
      PROVE  EntryFits(t, pc[t], job[t])'
  <2>1. pc'[t] = pc[t] /\ job'[t] = job[t]
    BY <1>1, <1>3 DEF IsEntry, NoJob
  <2> QED BY <1>1, <1>2, <1>3, <2>1 DEF StackInv, IsEntry, EntryFits, Process, Symbol
<1> QED BY <1>1, <1>2, <1>3 DEF StackInv

LEMMA InitStacks == Init => StackInv
<1> SUFFICES ASSUME Init PROVE StackInv
  OBVIOUS
<1>1. /\ orders = <<>> /\ held = [s \in Symbols |-> 0] /\ job = [t \in Tasks |-> NoJob]
  BY DEF Init, BrokerInit
<1>2. PendingBuys = {} /\ \A t \in Tasks : ~IsEntry(t)
  BY <1>1 DEF PendingBuys, IsEntry, NoJob
<1>3. \A s \in Symbols : held[s] <= EntryQty
  <2>1. EntryQty \in Nat
    BY NumberAssumption DEF NumberAssumption
  <2> QED BY <1>1, <2>1
<1> QED BY <1>2, <1>3 DEF StackInv

LEMMA StepStacks ==
    ASSUME Calm
    PROVE  TypeInv /\ RecordInv /\ StackInv /\ [Next]_vars => StackInv'
<1> SUFFICES ASSUME TypeInv, RecordInv, StackInv, [Next]_vars PROVE StackInv'
  OBVIOUS
<1>1. ASSUME NEW t \in Tasks, TaskStep(t) PROVE StackInv'
  <2>1. ~PlaceReplyLost(t)
    BY DEF PlaceReplyLost, Calm
  <2> QED BY <1>1, <2>1, EntryStepStacks, ExitStepStacks, PlaceStacks, ReplyStacks, RecordStacks
          DEF TaskStep, OrderStep
<1>2. ASSUME NEW t \in Tasks,
             (\E bar \in Bars, gated \in BOOLEAN : StartEntry(t, bar, gated)) \/ StartExit(t)
      PROVE  StackInv'
  BY <1>2, StartEntryStacks, ExitStepStacks
<1>3. CASE (\E p \in Processes : Crash(p)) \/ (\E t \in Tasks : DatabaseFails(t))
  <2>1. ASSUME NEW t \in Tasks PROVE Process(t) \in Processes /\ {Symbol(t)} \in SUBSET Symbols
    BY DEF Tasks, Process, Symbol
  <2> QED BY <1>3, <2>1, StopStacks DEF Crash, DatabaseFails
<1>4. CASE BrokerSteps
  BY <1>4, OrderEventStacks, GttFiresStacks DEF BrokerSteps
<1>5. CASE NewDay
  BY <1>5, NewDayStacks
<1>6. CASE PassCutoff \/ UNCHANGED vars
  <2>1. UNCHANGED <<orders, held, pc, job>>
    BY <1>6 DEF PassCutoff, vars, brokerVars
  <2>2. PendingBuys' = PendingBuys /\ \A s : BuysOf(s)' = BuysOf(s) /\ Clean(s)' = Clean(s)
    BY <2>1 DEF PendingBuys, Pending, BuysOf, Clean
  <2> QED BY <2>1, <2>2 DEF StackInv, IsEntry, EntryFits, Process, Symbol
<1> QED BY <1>1, <1>2, <1>3, <1>4, <1>5, <1>6 DEF Next

(* What a symbol's pending buys may still add is what the one pending buy, *)
(* if there is one, has not filled yet.                                    *)
LEMMA StillToBuyIs ==
    ASSUME TypeInv, StackInv, NEW s \in Symbols
    PROVE  /\ BuysOf(s) = {} => StillToBuy(s) = 0
           /\ \A o \in BuysOf(s) : StillToBuy(s) = orders[o].qty - orders[o].filled
<1> DEFINE D == BuysOf(s)
           f == [o \in DOMAIN orders |-> orders[o].qty - orders[o].filled]
           Sums(g) == g = [d \in SUBSET D |->
                     IF d = {} THEN 0
                     ELSE LET x == CHOOSE x \in d : TRUE
                          IN  (orders[x].qty - orders[x].filled) + g[d \ {x}]]
           it == CHOOSE it : Sums(it)
<1>1. D \in SUBSET DOMAIN orders /\ IsFiniteSet(D)
  <2>1. DOMAIN orders = 1..Len(orders) /\ Len(orders) \in Nat
    BY LenProperties DEF TypeInv, TypeOK
  <2>2. IsFiniteSet(DOMAIN orders)
    BY <2>1, FS_Interval
  <2>3. D \in SUBSET DOMAIN orders
    BY DEF BuysOf, PendingBuys
  <2> QED BY <2>2, <2>3, FS_Subset
<1>2. StillToBuy(s) = it[D]
  BY DEF StillToBuy, BuysOf, MapThenSumSet, MapThenFoldSet
<1>3. \A g : SumsUp(g, f, D) <=> Sums(g)
  <2>1. ASSUME NEW g, NEW d \in SUBSET D
        PROVE  (IF d = {} THEN 0 ELSE f[Pick(d)] + g[d \ {Pick(d)}])
                 = (IF d = {} THEN 0
                    ELSE LET x == CHOOSE x \in d : TRUE
                         IN  (orders[x].qty - orders[x].filled) + g[d \ {x}])
    <3>1. \A x \in D : f[x] = orders[x].qty - orders[x].filled
      BY <1>1
    <3> HIDE DEF f, D
    <3> QED BY <3>1, Picked DEF Pick
  <2> HIDE DEF f, it
  <2> QED BY <2>1 DEF SumsUp
<1> HIDE DEF f, Sums
<1>4. SumsUp(it, f, D)
  <2>1. \E g : SumsUp(g, f, D)
    <3> HIDE DEF it, D
    <3> QED BY <1>1, SumsUpExists
  <2>2. Sums(it)
    <3> HIDE DEF D
    <3> QED BY <1>3, <2>1
  <2> HIDE DEF it, D
  <2> QED BY <1>3, <2>2
<1> HIDE DEF it
<1>5. StillToBuy(s) = Total(f, D)
  BY <1>1, <1>2, <1>4, TotalOf
<1>6. Total(f, {}) = 0
  BY FS_EmptySet, TotalSplits
<1>7. ASSUME NEW o \in D PROVE Total(f, D) = orders[o].qty - orders[o].filled
  <2>1. D = {o} /\ o \in DOMAIN orders
    BY <1>1 DEF StackInv, BuysOf
  <2>2. f[o] = orders[o].qty - orders[o].filled
    BY <2>1 DEF f
  <2>3. f[o] \in Int
    <3>1. orders[o] \in Order
      BY <2>1, ElementOfSeq, LenProperties DEF TypeInv, TypeOK
    <3> QED BY <2>2, <3>1 DEF Order
  <2>4. Total(f, {} \cup {o}) = Total(f, {}) + f[o]
    <3> HIDE DEF D
    <3> QED BY <2>3, FS_EmptySet, TotalWith
  <2>5. D = {} \cup {o}
    BY <2>1
  <2> HIDE DEF D
  <2> QED BY <1>6, <2>2, <2>3, <2>4, <2>5
<1> QED BY <1>5, <1>6, <1>7

LEMMA StackInvIsNoStacking ==
    ASSUME TypeInv, StackInv
    PROVE  NoStacking
<1> SUFFICES ASSUME NEW s \in Symbols PROVE held[s] + StillToBuy(s) <= EntryQty
  BY DEF NoStacking
<1>1. held[s] \in Nat /\ EntryQty \in Nat /\ held[s] <= EntryQty
  BY NumberAssumption DEF NumberAssumption, TypeInv, TypeOK, StackInv
<1>2. CASE BuysOf(s) = {}
  <2>1. StillToBuy(s) = 0
    BY <1>2, StillToBuyIs
  <2> QED BY <1>1, <2>1
<1>3. ASSUME NEW o \in BuysOf(s) PROVE held[s] + StillToBuy(s) <= EntryQty
  <2>1. StillToBuy(s) = orders[o].qty - orders[o].filled
    BY StillToBuyIs
  <2>2. o \in DOMAIN orders /\ orders[o].qty = EntryQty /\ held[s] <= orders[o].filled
    BY DEF StackInv, BuysOf, PendingBuys
  <2>3. orders[o].filled \in Nat
    <3>1. orders[o] \in Order
      BY <2>2, ElementOfSeq, LenProperties DEF TypeInv, TypeOK
    <3> QED BY <3>1 DEF Order
  <2> QED BY <1>1, <2>1, <2>2, <2>3
<1> QED BY <1>2, <1>3

(* Never two entries in one position: with one process evaluating signals, *)
(* shares held plus shares on order never exceed what one entry buys,      *)
(* whatever crashes, failing database calls, brackets firing and dashboard *)
(* exits do.  Each assumption is needed: TLC finds a second entry stacked  *)
(* whenever one of them is dropped.                                        *)
THEOREM NothingStacked ==
    ASSUME OnePipeline, ~PartialCancels, ~LostReplies, ~BestEffortFailures, ~LateSettlement
    PROVE  Spec => []NoStacking
<1>1. Calm
  BY DEF Calm
<1>2. TypeInv /\ StackInv => NoStacking
  BY StackInvIsNoStacking
<1>3. TypeInv /\ RecordInv /\ StackInv /\ [Next]_vars => StackInv'
  BY <1>1, StepStacks
<1> QED BY InitType, StepType, InitRecord, StepRecord, InitStacks, <1>2, <1>3, PTL DEF Spec

-------------------------------------------------------------------------------
(* Real positions on record.                                               *)

(* Here also: no exit races the strategy's from the dashboard, and what    *)
(* the broker calls a pending order is a status the ledger counts as open. *)
Steady == Calm /\ Dashboards = {} /\ PendingStatuses \subseteq UnclosedStatuses

OnLedgerQty(s) == Opened(ledger[s]) - ClosedQty(ledger[s])

(* The ledger of s shows whatever is held or on order, and sold more.      *)
Covered(s, sold) ==
    /\ held[s] + sold <= OnLedgerQty(s)
    /\ \A o \in BuysOf(s) :
          held[s] + (orders[o].qty - orders[o].filled) + sold <= OnLedgerQty(s)

NoneLost(s) == \A o \in lost : orders[o].sym # s

AwaitsAt(step, j) == step \in {"wait", "record"} /\ j.oid # 0

(* What an exit with local variables j may rely on at a step: nobody buys  *)
(* the symbol, the entry it closes is still the first unclosed one, and    *)
(* what it sold meanwhile is on the ledger as held.                        *)
ExitFits(t, step, j) ==
    LET s == Symbol(t)
    IN  /\ BuysOf(s) = {}
        /\ step \in ClosingSteps => Unclosed(s) # {} /\ j.qty = Entry(s).qty
        /\ j.real = "flat" => held[s] = 0
        /\ step = "reconcile" => j.real = "flat"
        /\ (AwaitsAt(step, j) /\ NoneLost(s)) => Covered(s, orders[j.oid].filled)
        /\ (step = "record" /\ j.result = "COMPLETE")
              => j.oid # 0 /\ orders[j.oid].status = "COMPLETE"

IsExit(t) == ~IsEntry(t) /\ pc[t] # "idle"

(* The second inductive invariant: the ledger shows every share, but for   *)
(* those of an order that is being waited for or was lost.                 *)
PositionInv ==
    /\ \A o \in DOMAIN orders : orders[o].status = "COMPLETE" => orders[o].filled = orders[o].qty
    /\ \A s \in Symbols : NettedInFull(ledger[s])
    /\ \A s \in Symbols :
          (NoneLost(s) /\ \A t \in Tasks : Symbol(t) = s => ~Awaits(t)) => Covered(s, 0)
    /\ \A t \in Tasks : IsExit(t) => ExitFits(t, pc[t], job[t])
    /\ \A t \in Tasks : job[t].real # "unverified"

LEMMA OneTaskPerSymbol ==
    ASSUME Steady, NEW t \in Tasks, NEW u \in Tasks, Symbol(t) = Symbol(u)
    PROVE  t = u /\ Process(t) \in Pipelines
BY TaskParts DEF Steady, Calm, OnePipeline, Processes

(* A step of a task that leaves orders, holdings and rows alone.           *)
LEMMA TaskPositions ==
    ASSUME TypeInv, PositionInv, NEW t \in Tasks, NEW step, NEW j, ContinueWith(t, step, j),
           UNCHANGED <<orders, held, ledger, lost>>,
           Awaits(t) => AwaitsAt(step, j),
           (j.kind # "entry" /\ step # "idle") => ExitFits(t, step, j),
           j.real # "unverified"
    PROVE  PositionInv'
<1>1. /\ \A s : BuysOf(s)' = BuysOf(s) /\ NoneLost(s)' = NoneLost(s)
      /\ \A s : Unclosed(s)' = Unclosed(s) /\ Entry(s)' = Entry(s)
      /\ \A s : \A sold : Covered(s, sold)' = Covered(s, sold)
  BY DEF PendingBuys, Pending, BuysOf, NoneLost, Covered, OnLedgerQty, Unclosed, Entry
<1>2. /\ pc'[t] = step /\ job'[t] = j
      /\ \A u \in Tasks : u # t => pc'[u] = pc[u] /\ job'[u] = job[u]
  BY DEF ContinueWith, TypeInv, TypeOK
<1>3. \A u \in Tasks : Awaits(u) => Awaits(u)'
  BY <1>2 DEF Awaits, AwaitsAt
<1>4. \A s \in Symbols :
          (NoneLost(s)' /\ \A u \in Tasks : Symbol(u) = s => ~Awaits(u)') => Covered(s, 0)'
  BY <1>1, <1>3 DEF PositionInv
<1>5. ASSUME NEW u \in Tasks, IsExit(u)'
      PROVE  ExitFits(u, pc[u], job[u])'
  <2>1. ExitFits(u, pc'[u], job'[u])
    BY <1>2, <1>5 DEF IsExit, IsEntry, PositionInv
  <2> QED BY <1>1, <2>1 DEF ExitFits, AwaitsAt, Symbol
<1>6. \A u \in Tasks : job'[u].real # "unverified"
  BY <1>2 DEF PositionInv
<1> QED BY <1>4, <1>5, <1>6 DEF PositionInv, Symbol

LEMMA ContinuePositions ==
    ASSUME TypeInv, PositionInv, NEW t \in Tasks, NEW step, Continue(t, step),
           UNCHANGED <<orders, held, ledger, lost>>,
           Awaits(t) => AwaitsAt(step, job[t]),
           ~IsEntry(t) => ExitFits(t, step, job[t])
    PROVE  PositionInv'
BY ContinuingKeepsJob, TaskPositions DEF TypeInv, IsEntry, PositionInv

LEMMA FinishPositions ==
    ASSUME TypeInv, PositionInv, NEW t \in Tasks, Finish(t), ~Awaits(t),
           UNCHANGED <<orders, held, ledger, lost>>
    PROVE  PositionInv'
<1>1. NoJob.real # "unverified"
  BY DEF NoJob
<1> QED BY <1>1, TaskPositions DEF Finish

LEMMA EntryStepPositions ==
    ASSUME TypeInv, TypeInv', PositionInv, NEW t \in Tasks, EntryStep(t), ledger' = ledger
    PROVE  PositionInv'
<1>1. /\ IsEntry(t) /\ job[t] \in Job /\ ~Awaits(t) /\ job[t].real # "unverified"
      /\ UNCHANGED <<orders, held, lost>>
  <2>1. UNCHANGED <<orders, held, lost>> /\ pc[t] \in EntrySteps
    BY DEF EntryStep, CheckOpen, CheckCapacity, CheckIntent, NoTaggedOrder,
           TaggedOrderFound, HiddenPositionFound, NoHiddenPosition, Recheck, Finalize,
           GttAccepted, GttRefused, RecordBracket, brokerVars, EntrySteps
  <2>2. IsEntry(t) /\ job[t] \in Job /\ ~Awaits(t)
    BY <2>1 DEF TypeInv, TypeOK, JobsOK, Consistent, IsEntry, EntrySteps, Awaits
  <2> QED BY <2>1, <2>2 DEF PositionInv
<1>2. PICK step, j : /\ ContinueWith(t, step, j)
                     /\ \/ j = NoJob /\ step = "idle"
                        \/ j.kind = job[t].kind /\ j.real = job[t].real
  <2>1. ASSUME NEW step, Continue(t, step)
        PROVE  ContinueWith(t, step, job[t])
    BY <2>1, ContinuingKeepsJob DEF TypeInv
  <2>2. CASE \/ CheckOpen(t) \/ CheckCapacity(t) \/ CheckIntent(t) \/ NoTaggedOrder(t)
             \/ TaggedOrderFound(t) \/ HiddenPositionFound(t) \/ NoHiddenPosition(t)
    BY <2>1, <2>2 DEF CheckOpen, CheckCapacity, CheckIntent, NoTaggedOrder, TaggedOrderFound,
                      HiddenPositionFound, NoHiddenPosition
  <2>3. \A a, q, tr : LET j == job[t] IN
           /\ [j EXCEPT !.attempt = a].kind = j.kind /\ [j EXCEPT !.attempt = a].real = j.real
           /\ [j EXCEPT !.qty = q].kind = j.kind /\ [j EXCEPT !.qty = q].real = j.real
           /\ [j EXCEPT !.trigger = tr].kind = j.kind /\ [j EXCEPT !.trigger = tr].real = j.real
    BY <1>1 DEF Job
  <2>4. CASE Recheck(t)
    <3> DEFINE k == [job[t] EXCEPT !.attempt = @ + 1]
    <3>1. Continue(t, "finalize") \/ ContinueWith(t, "place", k)
      BY <2>4 DEF Recheck
    <3>2. k.kind = job[t].kind /\ k.real = job[t].real
      BY <2>3
    <3> HIDE DEF k
    <3> QED BY <2>1, <3>1, <3>2
  <2>5. CASE Finalize(t)
    BY <2>3, <2>5 DEF Finalize, Finish
  <2>6. CASE GttAccepted(t)
    <3> DEFINE k == [job[t] EXCEPT !.trigger = Len(gtts) + 1]
    <3>1. ContinueWith(t, "recordBracket", k)
      BY <2>6 DEF GttAccepted
    <3>2. k.kind = job[t].kind /\ k.real = job[t].real
      BY <2>3
    <3> HIDE DEF k
    <3> QED BY <3>1, <3>2
  <2>7. CASE GttRefused(t) \/ RecordBracket(t)
    BY <2>7 DEF GttRefused, RecordBracket, Finish
  <2> QED BY <2>2, <2>4, <2>5, <2>6, <2>7 DEF EntryStep
<1>3. NoJob.real # "unverified"
  BY DEF NoJob
<1> QED BY <1>1, <1>2, <1>3, TaskPositions DEF IsEntry

LEMMA StartPositions ==
    ASSUME Steady, TypeInv, PositionInv, NEW t \in Tasks,
           (\E bar \in Bars, gated \in BOOLEAN : StartEntry(t, bar, gated)) \/ StartExit(t)
    PROVE  PositionInv'
<1>1. /\ UNCHANGED <<orders, held, ledger, lost>> /\ pc[t] = "idle" /\ ~Awaits(t)
      /\ PendingBuys = {}
  <2>1. UNCHANGED <<orders, held, ledger, lost>> /\ pc[t] = "idle"
    BY DEF StartEntry, StartExit, brokerVars, recordVars
  <2>2. Settled
    BY OneTaskPerSymbol DEF StartEntry, StartExit
  <2> QED BY <2>1, <2>2 DEF Settled, Steady, Calm, Awaits
<1>2. CASE \E bar \in Bars, gated \in BOOLEAN : StartEntry(t, bar, gated)
  <2>1. PICK bar \in Bars, gated \in BOOLEAN : StartEntry(t, bar, gated)
    BY <1>2
  <2> DEFINE j == [NoJob EXCEPT !.kind = "entry", !.bar = bar, !.gated = gated,
                                !.attempt = 1, !.qty = EntryQty]
  <2>2. ContinueWith(t, "checkOpen", j)
    BY <2>1 DEF StartEntry
  <2>3. j.kind = "entry" /\ j.real # "unverified"
    BY DEF NoJob
  <2> HIDE DEF j
  <2> QED BY <1>1, <2>2, <2>3, TaskPositions
<1>3. CASE StartExit(t)
  <2> DEFINE j == [NoJob EXCEPT !.kind = "exit"]
  <2>1. ContinueWith(t, "lookup", j)
    BY <1>3 DEF StartExit
  <2>2. j.real = "none" /\ j.oid = 0
    BY DEF NoJob
  <2> HIDE DEF j
  <2>3. BuysOf(Symbol(t)) = {}
    BY <1>1 DEF BuysOf
  <2>4. ExitFits(t, "lookup", j)
    BY <2>2, <2>3 DEF ExitFits, ClosingSteps, AwaitsAt
  <2> QED BY <1>1, <2>1, <2>2, <2>4, TaskPositions
<1> QED BY <1>2, <1>3

LEMMA ExitStepPositions ==
    ASSUME Steady, TypeInv, PositionInv, NEW t \in Tasks, ExitStep(t), ~Reconcile(t)
    PROVE  PositionInv'
<1> DEFINE s == Symbol(t)
<1>1. /\ UNCHANGED <<orders, held, ledger, lost>> /\ pc[t] \in ExitSteps /\ ~Awaits(t)
      /\ ~IsEntry(t) /\ job[t] \in Job /\ ExitFits(t, pc[t], job[t])
      /\ job[t].real # "unverified"
  <2>1. UNCHANGED <<orders, held, ledger, lost>> /\ pc[t] \in ExitSteps
    BY DEF ExitStep, Lookup, Verify, GetBracket, GttStatus, CancelGtt,
           UpdateBracket, Square, brokerVars, recordVars, ExitSteps
  <2>2. ~Awaits(t) /\ ~IsEntry(t) /\ job[t] \in Job
    BY <2>1 DEF TypeInv, TypeOK, JobsOK, Consistent, IsEntry, ExitSteps, Awaits
  <2>3. IsExit(t)
    BY <2>1, <2>2 DEF IsExit, ExitSteps
  <2> QED BY <2>1, <2>2, <2>3 DEF PositionInv
<1>2. BuysOf(s) = {} /\ (job[t].real = "flat" => held[s] = 0)
      /\ (pc[t] \in ClosingSteps => Unclosed(s) # {} /\ job[t].qty = Entry(s).qty)
  BY <1>1 DEF ExitFits
<1>3. \A step \in {"idle", "lookup", "verify", "getBracket", "gttStatus", "cancelGtt",
                   "updateBracket", "reconcile", "square", "place"} : \A j :
          (/\ step \in ClosingSteps => Unclosed(s) # {} /\ j.qty = Entry(s).qty
           /\ j.real = "flat" => held[s] = 0
           /\ step = "reconcile" => j.real = "flat") => ExitFits(t, step, j)
  BY <1>2 DEF ExitFits, AwaitsAt
<1>4. CASE Lookup(t) \/ Square(t)
  <2> DEFINE k == [job[t] EXCEPT !.qty = Entry(s).qty]
  <2>1. \/ Finish(t) \/ Continue(t, "square")
        \/ \E step \in {"verify", "place"} : Unclosed(s) # {} /\ ContinueWith(t, step, k)
    BY <1>4 DEF Lookup, Square
  <2>2. k.qty = Entry(s).qty /\ k.real = job[t].real
    BY <1>1 DEF Job
  <2> HIDE DEF k
  <2>3. CASE \E step \in {"verify", "place"} : Unclosed(s) # {} /\ ContinueWith(t, step, k)
    <3>1. PICK step \in {"verify", "place"} : Unclosed(s) # {} /\ ContinueWith(t, step, k)
      BY <2>3
    <3>2. ExitFits(t, step, k)
      BY <1>2, <1>3, <2>2, <3>1
    <3> QED BY <1>1, <2>2, <3>1, <3>2, TaskPositions
  <2>4. CASE Continue(t, "square")
    <3>1. ExitFits(t, "square", job[t])
      BY <1>2, <1>3 DEF ClosingSteps
    <3> QED BY <1>1, <2>4, <3>1, ContinuePositions
  <2> QED BY <1>1, <2>1, <2>3, <2>4, FinishPositions
<1>5. CASE Verify(t)
  <2>1. PICK real \in {"held", "flat"} :
            /\ ContinueWith(t, "getBracket", [job[t] EXCEPT !.real = real])
            /\ real = "flat" => ~(held[s] > 0)
    <3>1. ~BestEffortFailures
      BY DEF Steady, Calm
    <3> QED BY <1>5, <3>1 DEF Verify
  <2> DEFINE k == [job[t] EXCEPT !.real = real]
  <2>2. k.qty = job[t].qty /\ k.real = real
    BY <1>1 DEF Job
  <2> HIDE DEF k
  <2>3. real = "flat" => held[s] = 0
    BY <2>1, TaskParts DEF TypeInv, TypeOK
  <2>4. ExitFits(t, "getBracket", k)
    BY <1>2, <1>3, <1>5, <2>2, <2>3 DEF Verify, ClosingSteps
  <2> QED BY <1>1, <2>1, <2>2, <2>4, TaskPositions DEF k
<1>6. CASE GetBracket(t)
  <2>0. pc[t] \in ClosingSteps
    BY <1>6 DEF GetBracket, ClosingSteps
  <2>1. CASE Continue(t, CloseStep(job[t].real))
    <3>1. ExitFits(t, CloseStep(job[t].real), job[t])
      BY <1>2, <1>3, <2>0 DEF CloseStep
    <3> QED BY <1>1, <2>1, <3>1, ContinuePositions
  <2>2. ASSUME NEW g, ContinueWith(t, "gttStatus", [job[t] EXCEPT !.trigger = g])
        PROVE  PositionInv'
    <3> DEFINE k == [job[t] EXCEPT !.trigger = g]
    <3>1. k.qty = job[t].qty /\ k.real = job[t].real
      BY <1>1 DEF Job
    <3> HIDE DEF k
    <3>2. ExitFits(t, "gttStatus", k)
      BY <1>2, <1>3, <2>0, <3>1
    <3> QED BY <1>1, <2>2, <3>1, <3>2, TaskPositions DEF k
  <2> QED BY <1>6, <2>1, <2>2 DEF GetBracket
<1>7. CASE GttStatus(t)
  <2>1. PICK step \in {"cancelGtt", "updateBracket"} : \E result, real :
            /\ ContinueWith(t, step, [job[t] EXCEPT !.result = result, !.real = real])
            /\ real = job[t].real
    BY <1>1, <1>7 DEF GttStatus, Job
  <2>2. PICK result, real :
            /\ ContinueWith(t, step, [job[t] EXCEPT !.result = result, !.real = real])
            /\ real = job[t].real
    BY <2>1
  <2> DEFINE k == [job[t] EXCEPT !.result = result, !.real = real]
  <2>3. k.qty = job[t].qty /\ k.real = job[t].real
    BY <1>1, <2>2 DEF Job
  <2>4. ContinueWith(t, step, k)
    BY <2>2
  <2> HIDE DEF k
  <2>5. pc[t] \in ClosingSteps
    BY <1>7 DEF GttStatus, ClosingSteps
  <2>6. ExitFits(t, step, k)
    BY <1>2, <1>3, <2>3, <2>5
  <2> QED BY <1>1, <2>3, <2>4, <2>6, TaskPositions
<1>8. CASE CancelGtt(t) \/ UpdateBracket(t)
  <2>1. PICK step : /\ Continue(t, step) /\ pc[t] \in ClosingSteps
                    /\ step = "updateBracket" \/ step = CloseStep(job[t].real)
    BY <1>8 DEF CancelGtt, UpdateBracket, ClosingSteps
  <2>2. ExitFits(t, step, job[t])
    BY <1>2, <1>3, <2>1 DEF CloseStep
  <2> QED BY <1>1, <2>1, <2>2, ContinuePositions
<1> QED BY <1>4, <1>5, <1>6, <1>7, <1>8 DEF ExitStep

(* What writing a row makes of the ledger.                                 *)
LEMMA LedgerGrows ==
    ASSUME TypeInv, TypeInv', NEW s \in Symbols,
           NEW side, NEW status, NEW qty, NEW intent, NEW oid,
           WriteLeg(s, side, status, qty, intent, oid)
    PROVE  /\ \A r \in Symbols : r # s => ledger'[r] = ledger[r]
           /\ GrowsByOne(ledger[s], ledger'[s]) /\ OpeningSide(ledger'[s]) = "BUY"
           /\ LET leg == ledger'[s][Len(ledger'[s])]
              IN  leg.side = side /\ leg.status = status /\ leg.qty = qty
           /\ qty \in Nat \ {0}
<1> DEFINE leg == [side |-> side, status |-> status, qty |-> qty,
                   intent |-> intent, oid |-> oid, seen |-> Len(orders)]
           n == Len(ledger[s])
<1>1. leg.side = side /\ leg.status = status /\ leg.qty = qty
  OBVIOUS
<1> HIDE DEF leg
<1>2. ledger' = [ledger EXCEPT ![s] = Append(@, leg)]
  BY DEF WriteLeg, leg
<1>3. /\ ledger \in [Symbols -> Seq(Leg)] /\ ledger[s] \in Seq(Leg) /\ ledger'[s] \in Seq(Leg)
      /\ ledger'[s] # <<>> => OpeningSide(ledger'[s]) = "BUY"
  BY DEF TypeInv, TypeOK
<1>4. /\ n \in Nat /\ DOMAIN ledger[s] = 1..n
      /\ ledger'[s] = Append(ledger[s], leg)
      /\ \A r \in Symbols : r # s => ledger'[r] = ledger[r]
  BY <1>2, <1>3, LenProperties
<1>5. /\ Len(ledger'[s]) = n + 1
      /\ \A i \in 1..n : ledger'[s][i] = ledger[s][i]
      /\ ledger'[s][n + 1] = leg
  BY <1>3, <1>4, LenProperties
<1>6. \A legs \in Seq(Leg) : WellFormed(legs)
  <2> SUFFICES ASSUME NEW legs \in Seq(Leg) PROVE WellFormed(legs)
    OBVIOUS
  <2>1. Len(legs) \in Nat /\ DOMAIN legs = 1..Len(legs) /\ \A i \in DOMAIN legs : legs[i] \in Leg
    BY ElementOfSeq, LenProperties
  <2> QED BY <2>1 DEF WellFormed, Leg
<1>7. GrowsByOne(ledger[s], ledger'[s])
  BY <1>3, <1>5, <1>6 DEF GrowsByOne
<1>8. n + 1 \in DOMAIN ledger'[s] /\ ledger'[s] # <<>>
  BY <1>3, <1>4, <1>5, LenProperties, EmptySeq
<1>9. qty \in Nat \ {0}
  BY <1>1, <1>5, <1>6, <1>8, <1>3 DEF WellFormed
<1> QED BY <1>1, <1>3, <1>4, <1>5, <1>7, <1>8, <1>9

(* A task writes a row and is not at work on an order, nor on an exit, any *)
(* more.                                                                   *)
LEMMA RowPositions ==
    ASSUME Steady, TypeInv, PositionInv, NEW t \in Tasks, NEW step, NEW j,
           ContinueWith(t, step, j), UNCHANGED <<orders, held, lost>>,
           step \notin {"wait", "record"}, j.kind = "entry" \/ step = "idle",
           j.real # "unverified",
           NEW s, s = Symbol(t), \A r \in Symbols : r # s => ledger'[r] = ledger[r],
           NettedInFull(ledger'[s]),
           NoneLost(s) => Covered(s, 0)'
    PROVE  PositionInv'
<1>1. /\ \A r : BuysOf(r)' = BuysOf(r) /\ NoneLost(r)' = NoneLost(r)
      /\ \A r \in Symbols : r # s =>
            /\ Unclosed(r)' = Unclosed(r) /\ Entry(r)' = Entry(r)
            /\ \A sold : Covered(r, sold)' = Covered(r, sold)
  BY DEF PendingBuys, Pending, BuysOf, NoneLost, Covered, OnLedgerQty, Unclosed, Entry
<1>2. /\ pc'[t] = step /\ job'[t] = j
      /\ \A u \in Tasks : u # t => pc'[u] = pc[u] /\ job'[u] = job[u]
  BY DEF ContinueWith, TypeInv, TypeOK
<1>3. \A u \in Tasks : u # t => Symbol(u) # s /\ Symbol(u) \in Symbols
  BY OneTaskPerSymbol, TaskParts
<1>4. ASSUME NEW r \in Symbols, NoneLost(r)', \A u \in Tasks : Symbol(u) = r => ~Awaits(u)'
      PROVE  Covered(r, 0)'
  <2>1. CASE r = s
    BY <1>1, <1>4, <2>1
  <2>2. CASE r # s
    <3>1. \A u \in Tasks : Symbol(u) = r => ~Awaits(u)
      BY <1>2, <1>4, <2>2 DEF Awaits
    <3> QED BY <1>1, <1>4, <2>2, <3>1 DEF PositionInv
  <2> QED BY <2>1, <2>2
<1>5. ASSUME NEW u \in Tasks, IsExit(u)'
      PROVE  ExitFits(u, pc[u], job[u])'
  <2>1. u # t
    BY <1>2, <1>5 DEF IsExit, IsEntry
  <2>2. ExitFits(u, pc[u], job[u]) /\ pc'[u] = pc[u] /\ job'[u] = job[u]
    BY <1>2, <1>5, <2>1 DEF IsExit, IsEntry, PositionInv
  <2>3. Symbol(u) # s /\ Symbol(u) \in Symbols
    BY <1>3, <2>1
  <2> QED BY <1>1, <2>2, <2>3 DEF ExitFits, AwaitsAt, Symbol
<1>6. \A u \in Tasks : job'[u].real # "unverified"
  BY <1>2 DEF PositionInv
<1>7. \A r \in Symbols : NettedInFull(ledger'[r])
  BY DEF PositionInv
<1> QED BY <1>4, <1>5, <1>6, <1>7 DEF PositionInv, Symbol

(* Netting in numbers.                                                     *)
LEMMA Counts ==
    ASSUME TypeInv, PositionInv, StackInv, NEW s \in Symbols
    PROVE  /\ held[s] \in Nat /\ EntryQty \in Nat /\ held[s] <= EntryQty
           /\ \A o \in BuysOf(s) : /\ o \in DOMAIN orders /\ orders[o] \in Order
                                   /\ orders[o].sym = s
                                   /\ orders[o].qty = EntryQty /\ orders[o].filled \in Nat
                                   /\ held[s] <= orders[o].filled
           /\ NettedInFull(ledger[s])
<1>1. held[s] \in Nat /\ EntryQty \in Nat /\ held[s] <= EntryQty
  BY NumberAssumption DEF NumberAssumption, TypeInv, TypeOK, StackInv
<1>2. ASSUME NEW o \in BuysOf(s)
      PROVE  /\ o \in DOMAIN orders /\ orders[o] \in Order /\ orders[o].sym = s
             /\ orders[o].qty = EntryQty /\ orders[o].filled \in Nat
             /\ held[s] <= orders[o].filled
  <2>1. o \in DOMAIN orders /\ orders[o].sym = s /\ o \in PendingBuys
    BY DEF BuysOf, PendingBuys
  <2>2. orders[o] \in Order
    BY <2>1, ElementOfSeq, LenProperties DEF TypeInv, TypeOK
  <2> QED BY <2>1, <2>2 DEF StackInv, Order
<1> QED BY <1>1, <1>2 DEF PositionInv

LEMMA LedgerCounts ==
    ASSUME TypeInv, NEW s \in Symbols
    PROVE  /\ WellFormed(ledger[s]) /\ Opened(ledger[s]) \in Nat /\ ClosedQty(ledger[s]) \in Nat
           /\ OnLedgerQty(s) \in Int
<1>1. /\ ledger[s] \in Seq(Leg) /\ Len(ledger[s]) \in Nat /\ DOMAIN ledger[s] = 1..Len(ledger[s])
      /\ \A i \in DOMAIN ledger[s] : ledger[s][i] \in Leg
  BY ElementOfSeq, LenProperties DEF TypeInv, TypeOK
<1>2. WellFormed(ledger[s])
  BY <1>1 DEF WellFormed, Leg
<1>3. ClosedQty(ledger[s]) \in Nat
  <2>1. {i \in DOMAIN ledger[s] : /\ ledger[s][i].side # OpeningSide(ledger[s])
                                  /\ ledger[s][i].status = "COMPLETE"} \in SUBSET DOMAIN ledger[s]
    OBVIOUS
  <2> QED BY <1>2, <2>1, FiniteLegs DEF ClosedQty
<1>4. Opened(ledger[s]) \in Nat
  <2>1. Openers(ledger[s], UnclosedStatuses) \in SUBSET DOMAIN ledger[s]
    BY DEF Openers
  <2> QED BY <1>2, <2>1, FiniteLegs DEF Opened
<1> QED BY <1>2, <1>3, <1>4 DEF OnLedgerQty

(* The least of the positions of a sequence that are in a set.             *)
LEMMA FirstExists ==
    ASSUME NEW n \in Nat, NEW S, S \subseteq 1..n, S # {}
    PROVE  \E first \in S : first = Min(S) /\ \A i \in S : first <= i
<1>1. Min(S) \in S
  BY ExtremaExist
<1>2. \E x \in S : \A y \in S : x <= y
  <2> DEFINE Good == {k \in 0..n : (\E x \in S : x <= k) => \E x \in S : \A y \in S : x <= y}
  <2>1. 0 \in Good
    OBVIOUS
  <2>2. ASSUME NEW k \in 0..n, k # 0, k - 1 \in Good
        PROVE  k \in Good
    BY <2>2
  <2> HIDE DEF Good
  <2>3. \A k \in 0..n : k \in Good
    BY <2>1, <2>2, NumberInduction
  <2>4. n \in Good /\ \A x \in S : x <= n
    BY <2>3
  <2> QED BY <2>4 DEF Good
<1> QED BY <1>1, <1>2 DEF Min

(* A buy on the ledger leaves covered what was, and covers an entry.       *)
LEMMA BuyWritten ==
    ASSUME TypeInv, TypeInv', PositionInv, StackInv, NEW s \in Symbols,
           NEW status, NEW qty, NEW intent, NEW oid,
           WriteLeg(s, "BUY", status, qty, intent, oid), UNCHANGED <<orders, held>>
    PROVE  /\ \A r \in Symbols : r # s => ledger'[r] = ledger[r]
           /\ NettedInFull(ledger'[s])
           /\ (\/ Covered(s, 0)
               \/ status \in UnclosedStatuses /\ qty = EntryQty
               \/ Clean(s)) => Covered(s, 0)'
<1> DEFINE L == OnLedgerQty(s)
           M == Opened(ledger'[s]) - ClosedQty(ledger'[s])
<1>1. /\ \A r \in Symbols : r # s => ledger'[r] = ledger[r]
      /\ GrowsByOne(ledger[s], ledger'[s]) /\ OpeningSide(ledger'[s]) = "BUY"
      /\ LET leg == ledger'[s][Len(ledger'[s])]
         IN  leg.side = "BUY" /\ leg.status = status /\ leg.qty = qty
      /\ qty \in Nat \ {0}
  BY LedgerGrows
<1>2. NettedInFull(ledger[s])
  BY Counts
<1>3. /\ NettedInFull(ledger'[s]) /\ ClosedQty(ledger'[s]) = ClosedQty(ledger[s])
      /\ Opened(ledger[s]) \in Nat /\ ClosedQty(ledger[s]) \in Nat
      /\ Opened(ledger'[s]) = Opened(ledger[s])
                                + (IF status \in UnclosedStatuses THEN qty ELSE 0)
  BY <1>1, <1>2, BuyAppended
<1>4. /\ L \in Int /\ M \in Int /\ 0 <= L
      /\ M = L + (IF status \in UnclosedStatuses THEN qty ELSE 0)
  <2>1. L \in Int /\ L = Opened(ledger[s]) - ClosedQty(ledger[s])
    BY <1>3 DEF OnLedgerQty
  <2>2. ClosedQty(ledger[s]) <= Opened(ledger[s])
    BY <1>2 DEF NettedInFull
  <2> HIDE DEF L
  <2>3. CASE status \in UnclosedStatuses
    BY <1>1, <1>3, <2>1, <2>2, <2>3
  <2>4. CASE status \notin UnclosedStatuses
    BY <1>1, <1>3, <2>1, <2>2, <2>4
  <2> QED BY <2>3, <2>4
<1>5. OnLedgerQty(s)' = M /\ BuysOf(s)' = BuysOf(s)
  BY DEF OnLedgerQty, BuysOf, PendingBuys, Pending
<1>6. L <= M
  BY <1>1, <1>4
<1>7. (status \in UnclosedStatuses /\ qty = EntryQty) => EntryQty <= M
  BY <1>1, <1>4
<1> HIDE DEF L, M
<1>8. /\ held[s] \in Nat /\ EntryQty \in Nat /\ held[s] <= EntryQty
      /\ \A o \in BuysOf(s) : /\ orders[o].qty = EntryQty /\ orders[o].filled \in Nat
                              /\ held[s] <= orders[o].filled
  BY Counts
<1>9. ASSUME Covered(s, 0) PROVE Covered(s, 0)'
  <2>1. held[s] + 0 <= M
    BY <1>4, <1>6, <1>8, <1>9 DEF Covered, L
  <2>2. ASSUME NEW o \in BuysOf(s) PROVE held[s] + (orders[o].qty - orders[o].filled) + 0 <= M
    <3>1. held[s] + (orders[o].qty - orders[o].filled) + 0 <= L
      BY <1>9 DEF Covered, L
    <3>2. orders[o].qty \in Nat /\ orders[o].filled \in Nat
      BY <1>8
    <3> QED BY <1>4, <1>6, <1>8, <3>1, <3>2
  <2> QED BY <1>5, <2>1, <2>2 DEF Covered
<1>10. ASSUME EntryQty <= M PROVE Covered(s, 0)'
  <2>1. held[s] + 0 <= M
    BY <1>4, <1>8, <1>10
  <2>2. ASSUME NEW o \in BuysOf(s) PROVE held[s] + (orders[o].qty - orders[o].filled) + 0 <= M
    BY <1>4, <1>8, <1>10
  <2> QED BY <1>5, <2>1, <2>2 DEF Covered
<1>11. ASSUME Clean(s) PROVE Covered(s, 0)'
  BY <1>4, <1>5, <1>6, <1>11 DEF Covered, Clean
<1> QED BY <1>1, <1>3, <1>7, <1>9, <1>10, <1>11

(* The preflight's two signals write what they found.                      *)
LEMMA PreflightPositions ==
    ASSUME Steady, TypeInv, TypeInv', PositionInv, StackInv, NEW t \in Tasks,
           TaggedOrderFound(t) \/ HiddenPositionFound(t)
    PROVE  PositionInv'
<1> DEFINE s == Symbol(t)
<1>1. PICK status, qty, intent, oid, step :
          /\ WriteLeg(s, "BUY", status, qty, intent, oid)
          /\ Continue(t, step) /\ step \in {"checkHolding", "finalize"}
  BY DEF TaggedOrderFound, HiddenPositionFound
<1>2. /\ UNCHANGED <<orders, held, lost>> /\ pc[t] \in {"lookupTag", "checkHolding"}
      /\ s \in Symbols
  BY TaskParts DEF TaggedOrderFound, HiddenPositionFound, brokerVars
<1>3. ContinueWith(t, step, job[t])
  BY <1>1, ContinuingKeepsJob DEF TypeInv
<1>4. job[t].kind = "entry" /\ job[t].real # "unverified"
  BY <1>2 DEF TypeInv, JobsOK, Consistent, EntrySteps, PositionInv
<1>5. ~Awaits(t)
  BY <1>2 DEF Awaits
<1> HIDE DEF s
<1>6. /\ \A r \in Symbols : r # s => ledger'[r] = ledger[r]
      /\ NettedInFull(ledger'[s])
      /\ Covered(s, 0) => Covered(s, 0)'
  BY <1>1, <1>2, BuyWritten
<1>7. NoneLost(s) => Covered(s, 0)
  <2>1. \A u \in Tasks : Symbol(u) = s => ~Awaits(u)
    BY <1>5, OneTaskPerSymbol DEF s
  <2> QED BY <1>2, <2>1 DEF PositionInv
<1>8. step \notin {"wait", "record"}
  BY <1>1
<1>9. NoneLost(s) => Covered(s, 0)'
  BY <1>6, <1>7
<1> QED BY <1>2, <1>3, <1>4, <1>6, <1>8, <1>9, RowPositions DEF s

(* A sell on the ledger of the first unclosed entry's quantity, or one     *)
(* that was not completed.                                                 *)
LEMMA SellWritten ==
    ASSUME TypeInv, TypeInv', PositionInv, StackInv, NEW s \in Symbols,
           NEW status, NEW qty, NEW intent, NEW oid,
           WriteLeg(s, "SELL", status, qty, intent, oid), UNCHANGED <<orders, held>>,
           BuysOf(s) = {}, Unclosed(s) # {}, qty = Entry(s).qty
    PROVE  /\ \A r \in Symbols : r # s => ledger'[r] = ledger[r]
           /\ NettedInFull(ledger'[s])
           /\ held[s] = 0 => Covered(s, 0)'
           /\ Covered(s, IF status = "COMPLETE" THEN qty ELSE 0) => Covered(s, 0)'
<1> DEFINE L == OnLedgerQty(s)
           M == Opened(ledger'[s]) - ClosedQty(ledger'[s])
<1>1. /\ \A r \in Symbols : r # s => ledger'[r] = ledger[r]
      /\ GrowsByOne(ledger[s], ledger'[s]) /\ OpeningSide(ledger'[s]) = "BUY"
      /\ LET leg == ledger'[s][Len(ledger'[s])]
         IN  leg.side = "SELL" /\ leg.status = status /\ leg.qty = qty
      /\ qty \in Nat \ {0}
  BY LedgerGrows
<1>2. NettedInFull(ledger[s])
  BY Counts
<1>3. ClosesFirst(ledger[s], qty) /\ Len(ledger[s]) # 0
  <2>1. UnclosedLegs(ledger[s]) \subseteq DOMAIN ledger[s] /\ UnclosedLegs(ledger[s]) # {}
    BY DEF Unclosed, UnclosedLegs, OpenQuantity, Openers
  <2>2. DOMAIN ledger[s] = 1..Len(ledger[s]) /\ Len(ledger[s]) \in Nat
    BY LenProperties DEF TypeInv, TypeOK
  <2>3. \E first \in UnclosedLegs(ledger[s]) :
            /\ first = Min(UnclosedLegs(ledger[s]))
            /\ \A i \in UnclosedLegs(ledger[s]) : first <= i
    BY <2>1, <2>2, FirstExists
  <2> QED BY <2>1, <2>2, <2>3 DEF ClosesFirst, Entry, EntryLeg
<1>4. /\ NettedInFull(ledger'[s]) /\ Opened(ledger'[s]) = Opened(ledger[s])
      /\ Opened(ledger[s]) \in Nat /\ ClosedQty(ledger[s]) \in Nat
      /\ ClosedQty(ledger'[s]) = ClosedQty(ledger[s]) + (IF status = "COMPLETE" THEN qty ELSE 0)
  BY <1>1, <1>2, <1>3, SellAppended
<1>5. /\ L \in Int /\ M \in Int /\ 0 <= M
      /\ M = L - (IF status = "COMPLETE" THEN qty ELSE 0)
  <2>1. L = Opened(ledger[s]) - ClosedQty(ledger[s])
    BY DEF OnLedgerQty
  <2>2. ClosedQty(ledger'[s]) <= Opened(ledger'[s])
    BY <1>4 DEF NettedInFull
  <2> HIDE DEF L
  <2>3. CASE status = "COMPLETE"
    BY <1>1, <1>4, <2>1, <2>2, <2>3
  <2>4. CASE status # "COMPLETE"
    BY <1>1, <1>4, <2>1, <2>2, <2>4
  <2> QED BY <2>3, <2>4
<1>6. OnLedgerQty(s)' = M /\ BuysOf(s)' = {} /\ held'[s] = held[s] /\ held[s] \in Nat
  <2>1. OnLedgerQty(s)' = M /\ BuysOf(s)' = {} /\ held'[s] = held[s]
    BY DEF OnLedgerQty, BuysOf, PendingBuys, Pending
  <2> QED BY <2>1, Counts
<1> HIDE DEF L, M
<1>7. Covered(s, 0)' <=> held[s] <= M
  BY <1>5, <1>6 DEF Covered
<1>8. held[s] = 0 => held[s] <= M
  BY <1>5
<1>9. ASSUME Covered(s, IF status = "COMPLETE" THEN qty ELSE 0) PROVE held[s] <= M
  <2>1. held[s] + (IF status = "COMPLETE" THEN qty ELSE 0) <= L
    BY <1>9 DEF Covered, L
  <2>2. CASE status = "COMPLETE"
    BY <1>1, <1>5, <1>6, <2>1, <2>2
  <2>3. CASE status # "COMPLETE"
    BY <1>5, <1>6, <2>1, <2>3
  <2> QED BY <2>2, <2>3
<1> QED BY <1>1, <1>4, <1>7, <1>8, <1>9

(* record_broker_side_exit: the shares are gone already.                   *)
LEMMA ReconcilePositions ==
    ASSUME Steady, TypeInv, TypeInv', PositionInv, StackInv, NEW t \in Tasks, Reconcile(t)
    PROVE  PositionInv'
<1> DEFINE s == Symbol(t)
<1>1. /\ WriteLeg(s, "SELL", "COMPLETE", job[t].qty, None, 0) /\ Finish(t)
      /\ UNCHANGED <<orders, held, lost>> /\ pc[t] = "reconcile" /\ s \in Symbols
  BY TaskParts DEF Reconcile, brokerVars
<1>2. IsExit(t)
  BY <1>1 DEF IsExit, IsEntry, TypeInv, JobsOK, Consistent, ExitSteps
<1>3. /\ BuysOf(s) = {} /\ Unclosed(s) # {} /\ job[t].qty = Entry(s).qty /\ held[s] = 0
  BY <1>1, <1>2 DEF PositionInv, ExitFits, ClosingSteps
<1> HIDE DEF s
<1>4. /\ \A r \in Symbols : r # s => ledger'[r] = ledger[r]
      /\ NettedInFull(ledger'[s]) /\ Covered(s, 0)'
  BY <1>1, <1>3, SellWritten
<1>5. NoJob.real # "unverified" /\ ContinueWith(t, "idle", NoJob)
  BY <1>1 DEF NoJob, Finish
<1> QED BY <1>1, <1>4, <1>5, RowPositions DEF s

(* _record: the order's row, in the ledger at last.                        *)
LEMMA RecordPositions ==
    ASSUME Steady, TypeInv, TypeInv', RecordInv, PositionInv, StackInv, NEW t \in Tasks, Record(t)
    PROVE  PositionInv'
<1> DEFINE s == Symbol(t)
           o == job[t].oid
<1>1. /\ WriteLeg(s, Side(t), job[t].result, job[t].qty, job[t].bar, o)
      /\ UNCHANGED <<orders, held, lost>> /\ pc[t] = "record" /\ s \in Symbols
      /\ job[t] \in Job /\ job[t].result \in OrderResults /\ job[t].real # "unverified"
      /\ o \in Nat
  <2>1. job[t] \in Job /\ job[t].real # "unverified"
    BY DEF PositionInv, TypeInv, TypeOK
  <2>2. pc[t] = "record"
    BY DEF Record
  <2>3. job[t].result \in OrderResults
    BY <2>2 DEF TypeInv, JobsOK, Consistent
  <2> QED BY <2>1, <2>2, <2>3, TaskParts DEF Record, brokerVars, Job
<1>2. (NoneLost(s) /\ ~Awaits(t)) => Covered(s, 0)
  BY <1>1, OneTaskPerSymbol DEF PositionInv
<1>3. CASE IsEntry(t)
  <2>1. PICK step \in {"recheck", "finalize"} : Continue(t, step)
    BY <1>3 DEF Record
  <2>2. ContinueWith(t, step, job[t])
    BY <2>1, ContinuingKeepsJob DEF TypeInv
  <2>3. EntryFits(t, "record", job[t]) /\ Side(t) = "BUY"
    BY <1>1, <1>3 DEF StackInv, Side
  <2>4. job[t].qty = EntryQty /\ (ConfirmedNoPosition(job[t].result) => Clean(s))
    BY <2>3 DEF EntryFits, OrderSteps
  <2>5. job[t].result \in UnclosedStatuses \/ ConfirmedNoPosition(job[t].result)
    BY <1>1 DEF OrderResults, TerminalStatuses, UnclosedStatuses, ConfirmedNoPosition, Steady
  <2> HIDE DEF s
  <2>6. /\ \A r \in Symbols : r # s => ledger'[r] = ledger[r]
        /\ NettedInFull(ledger'[s])
        /\ (\/ job[t].result \in UnclosedStatuses /\ job[t].qty = EntryQty
            \/ Clean(s)) => Covered(s, 0)'
    BY <1>1, <2>3, BuyWritten
  <2>7. Covered(s, 0)'
    BY <2>4, <2>5, <2>6
  <2> QED BY <1>1, <1>3, <2>1, <2>2, <2>6, <2>7, RowPositions DEF s, IsEntry
<1>4. CASE ~IsEntry(t)
  <2>1. Finish(t) /\ Side(t) = "SELL"
    BY <1>4 DEF Record, Side
  <2>2. ExitFits(t, "record", job[t])
    BY <1>1, <1>4 DEF PositionInv, IsExit
  <2>3. /\ BuysOf(s) = {} /\ Unclosed(s) # {} /\ job[t].qty = Entry(s).qty
        /\ (o # 0 /\ NoneLost(s)) => Covered(s, orders[o].filled)
        /\ job[t].result = "COMPLETE" => o # 0 /\ orders[o].status = "COMPLETE"
    BY <2>2 DEF ExitFits, ClosingSteps, AwaitsAt
  <2>4. Awaits(t) <=> o # 0
    BY <1>1 DEF Awaits
  <2>5. o # 0 => /\ o \in DOMAIN orders /\ orders[o].filled \in Nat /\ orders[o].qty = job[t].qty
    <3>1. ASSUME o # 0 PROVE o \in DOMAIN orders /\ orders[o] \in Order
      BY <2>4, <3>1, AwaitedIsAnOrder, ElementOfSeq, LenProperties DEF TypeInv, TypeOK
    <3>2. o # 0 => orders[o].qty = job[t].qty
      BY <2>4 DEF RecordInv, OwnOrder
    <3> QED BY <3>1, <3>2 DEF Order
  <2>6. job[t].result = "COMPLETE" => orders[o].filled = job[t].qty
    BY <2>3, <2>5 DEF PositionInv
  <2> HIDE DEF s, o
  <2>7. NoneLost(s) => Covered(s, IF job[t].result = "COMPLETE" THEN job[t].qty ELSE 0)
    <3>1. CASE job[t].result = "COMPLETE"
      BY <2>3, <2>6, <3>1
    <3>2. CASE job[t].result # "COMPLETE" /\ o = 0
      BY <1>2, <2>4, <3>2
    <3>3. CASE job[t].result # "COMPLETE" /\ o # 0
      <4>1. ASSUME Covered(s, orders[o].filled) PROVE Covered(s, 0)
        <5>1. held[s] \in Nat /\ orders[o].filled \in Nat
          BY <1>1, <2>5, <3>3, Counts
        <5>2. OnLedgerQty(s) \in Int
          BY <1>1, LedgerCounts
        <5>3. held[s] + orders[o].filled <= OnLedgerQty(s)
          BY <4>1 DEF Covered
        <5>4. held[s] + 0 <= OnLedgerQty(s)
          BY <5>1, <5>2, <5>3
        <5> QED BY <2>3, <5>4 DEF Covered
      <4> QED BY <2>3, <3>3, <4>1
    <3> QED BY <3>1, <3>2, <3>3
  <2>8. /\ \A r \in Symbols : r # s => ledger'[r] = ledger[r]
        /\ NettedInFull(ledger'[s])
        /\ Covered(s, IF job[t].result = "COMPLETE" THEN job[t].qty ELSE 0) => Covered(s, 0)'
    BY <1>1, <2>1, <2>3, SellWritten
  <2>9. NoJob.real # "unverified" /\ ContinueWith(t, "idle", NoJob)
    BY <2>1 DEF NoJob, Finish
  <2> QED BY <1>1, <2>7, <2>8, <2>9, RowPositions DEF s
<1> QED BY <1>3, <1>4

(* What the broker's answers make of an exit's knowledge of its order.     *)
LEMMA ReplyPositions ==
    ASSUME Steady, TypeInv, PositionInv, NEW t \in Tasks,
           PlaceRefused(t) \/ WaitReturns(t) \/ WaitRaises(t)
    PROVE  PositionInv'
<1> DEFINE s == Symbol(t)
<1>1. /\ job[t] \in Job /\ UNCHANGED <<orders, held, ledger, lost>>
      /\ job[t].real # "unverified"
  BY DEF PlaceRefused, WaitReturns, WaitRaises, brokerVars, recordVars, TypeInv, TypeOK,
         PositionInv
<1>2. CASE PlaceRefused(t)
  <2> DEFINE j == [job[t] EXCEPT !.oid = 0, !.result = "REJECTED"]
  <2>1. /\ j.oid = 0 /\ j.qty = job[t].qty /\ j.real = job[t].real /\ j.kind = job[t].kind
        /\ j.result = "REJECTED"
    BY <1>1 DEF Job
  <2>2. ContinueWith(t, "record", j) /\ pc[t] = "place" /\ ~Awaits(t)
    BY <1>2 DEF PlaceRefused, Awaits
  <2> HIDE DEF j
  <2>3. ~IsEntry(t) => ExitFits(t, "place", job[t])
    BY <2>2 DEF PositionInv, IsExit
  <2>4. ~IsEntry(t) => ExitFits(t, "record", j)
    BY <2>1, <2>3 DEF ExitFits, AwaitsAt, ClosingSteps
  <2> QED BY <1>1, <2>1, <2>2, <2>4, TaskPositions DEF IsEntry
<1>3. ASSUME NEW result, pc[t] = "wait",
             ContinueWith(t, "record", [job[t] EXCEPT !.result = result]),
             result = "COMPLETE" => orders[job[t].oid].status = "COMPLETE"
      PROVE  PositionInv'
  <2> DEFINE j == [job[t] EXCEPT !.result = result]
  <2>1. /\ j.oid = job[t].oid /\ j.qty = job[t].qty /\ j.real = job[t].real
        /\ j.kind = job[t].kind /\ j.result = result
    BY <1>1 DEF Job
  <2>2. ContinueWith(t, "record", j)
    BY <1>3
  <2> HIDE DEF j
  <2>3. job[t].oid # 0
    BY <1>3 DEF TypeInv, JobsOK, Consistent
  <2>4. ~IsEntry(t) => ExitFits(t, "wait", job[t])
    BY <1>3 DEF PositionInv, IsExit
  <2>5. ~IsEntry(t) => ExitFits(t, "record", j)
    BY <1>3, <2>1, <2>3, <2>4 DEF ExitFits, AwaitsAt, ClosingSteps
  <2>6. Awaits(t) => AwaitsAt("record", j)
    BY <2>1, <2>3 DEF AwaitsAt
  <2> QED BY <1>1, <2>1, <2>2, <2>5, <2>6, TaskPositions DEF IsEntry
<1>4. CASE WaitReturns(t)
  <2>1. PICK status \in Reported(job[t].oid) :
            ContinueWith(t, "record", [job[t] EXCEPT !.result = status])
    BY <1>4 DEF WaitReturns
  <2>2. status = "COMPLETE" => orders[job[t].oid].status = "COMPLETE"
    BY <2>1, StatusAssumption DEF StatusAssumption, Reported, TerminalStatuses
  <2> QED BY <1>3, <1>4, <2>1, <2>2 DEF WaitReturns
<1>5. CASE WaitRaises(t)
  BY <1>3, <1>5 DEF WaitRaises
<1> QED BY <1>2, <1>4, <1>5

(* A new order of the book touches nobody's holding, and no order lost.    *)
LEMMA PlacePositions ==
    ASSUME Steady, TypeInv, PositionInv, NEW t \in Tasks, PlaceAccepted(t)
    PROVE  PositionInv'
<1> DEFINE n == Len(orders) + 1
           j == [job[t] EXCEPT !.oid = n]
           s == Symbol(t)
<1>1. PICK order \in Order :
          /\ orders' = Append(orders, order) /\ held' = held
          /\ order.sym = Symbol(t) /\ order.side = Side(t) /\ order.qty = job[t].qty
          /\ order.filled = 0 /\ order.status = "OPEN"
  BY PlacedOrder
<1>2. /\ n \notin DOMAIN orders /\ DOMAIN orders' = DOMAIN orders \cup {n}
      /\ orders'[n] = order
      /\ \A o \in DOMAIN orders : orders'[o] = orders[o]
      /\ PendingBuys' = PendingBuys \cup (IF order.side = "BUY" THEN {n} ELSE {})
  BY <1>1, BookGrows
<1>3. /\ pc[t] = "place" /\ job[t] \in Job /\ pc'[t] = "wait" /\ job'[t] = j
      /\ \A u \in Tasks : u # t => pc'[u] = pc[u] /\ job'[u] = job[u]
      /\ UNCHANGED <<ledger, lost>> /\ s \in Symbols /\ lost \subseteq DOMAIN orders
  BY TaskParts DEF PlaceAccepted, ContinueWith, TypeInv, TypeOK, recordVars
<1>4. j.oid = n /\ j.qty = job[t].qty /\ j.kind = job[t].kind /\ j.real = job[t].real
  BY <1>3 DEF Job
<1>5. n # 0
  BY LenProperties DEF TypeInv, TypeOK
<1> HIDE DEF n, j, s
<1>6. \A r : NoneLost(r)' <=> NoneLost(r)
  <2>1. \A o \in lost : orders'[o] = orders[o]
    BY <1>2, <1>3
  <2> QED BY <1>3, <2>1 DEF NoneLost
<1>7. \A r \in Symbols : (r # s \/ ~IsEntry(t)) => BuysOf(r)' = BuysOf(r)
  <2>1. \A o \in PendingBuys : orders'[o] = orders[o] /\ o # n
    BY <1>2 DEF PendingBuys
  <2>2. (order.side = "BUY" => IsEntry(t)) /\ orders'[n].sym = s
    BY <1>1, <1>2 DEF Side, s
  <2> QED BY <1>2, <2>1, <2>2 DEF BuysOf
<1>8. ASSUME NEW r \in Symbols, r # s \/ ~IsEntry(t), NEW sold
      PROVE  Covered(r, sold)' <=> Covered(r, sold)
  <2>1. BuysOf(r)' = BuysOf(r) /\ \A o \in BuysOf(r) : orders'[o] = orders[o]
    BY <1>2, <1>7, <1>8 DEF BuysOf, PendingBuys
  <2> QED BY <1>1, <1>3, <2>1 DEF Covered, OnLedgerQty
<1>9. Awaits(t)' /\ ~Awaits(t)
  BY <1>3, <1>4, <1>5 DEF Awaits
<1>10. ASSUME NEW r \in Symbols, NoneLost(r)', \A u \in Tasks : Symbol(u) = r => ~Awaits(u)'
       PROVE  Covered(r, 0)'
  <2>1. r # s
    BY <1>9, <1>10 DEF s
  <2>2. \A u \in Tasks : Symbol(u) = r => ~Awaits(u)
    BY <1>3, <1>10, <2>1 DEF Awaits, s
  <2> QED BY <1>6, <1>8, <1>10, <2>1, <2>2 DEF PositionInv
<1>11. ASSUME NEW u \in Tasks, u # t, IsExit(u)'
       PROVE  ExitFits(u, pc[u], job[u])'
  <2>1. /\ pc'[u] = pc[u] /\ job'[u] = job[u] /\ ExitFits(u, pc[u], job[u])
        /\ Symbol(u) # s /\ Symbol(u) \in Symbols
    BY <1>3, <1>11, OneTaskPerSymbol, TaskParts DEF IsExit, IsEntry, PositionInv, s
  <2>2. AwaitsAt(pc[u], job[u]) => orders'[job[u].oid] = orders[job[u].oid]
    BY <1>2, AwaitedIsAnOrder DEF AwaitsAt, Awaits
  <2>3. \A sold : Covered(Symbol(u), sold)' <=> Covered(Symbol(u), sold)
    BY <1>8, <2>1
  <2>4. NoneLost(Symbol(u))' <=> NoneLost(Symbol(u))
    BY <1>6
  <2>5. BuysOf(Symbol(u))' = BuysOf(Symbol(u))
    BY <1>7, <2>1
  <2>6. /\ Unclosed(Symbol(u))' = Unclosed(Symbol(u)) /\ Entry(Symbol(u))' = Entry(Symbol(u))
        /\ held'[Symbol(u)] = held[Symbol(u)]
    BY <1>1, <1>3 DEF Unclosed, Entry
  <2> QED BY <2>1, <2>2, <2>3, <2>4, <2>5, <2>6 DEF ExitFits, AwaitsAt, Symbol
<1>12. ASSUME IsExit(t)'
       PROVE  ExitFits(t, pc[t], job[t])'
  <2>1. ~IsEntry(t) /\ ExitFits(t, "place", job[t])
    BY <1>3, <1>4, <1>12 DEF IsExit, IsEntry, PositionInv
  <2>2. \A sold : Covered(s, sold)' <=> Covered(s, sold)
    BY <1>3, <1>8, <2>1
  <2>3. BuysOf(s)' = BuysOf(s)
    BY <1>3, <1>7, <2>1
  <2>4. NoneLost(s) => Covered(s, 0)
    <3>1. \A u \in Tasks : Symbol(u) = s => ~Awaits(u)
      BY <1>9, OneTaskPerSymbol DEF s
    <3> QED BY <1>3, <3>1 DEF PositionInv
  <2>5. ASSUME NEW q, q = n PROVE NoneLost(s)' => Covered(s, orders[q].filled)'
    <3>1. orders'[q].filled = 0
      BY <1>1, <1>2, <2>5
    <3>2. NoneLost(s)' => Covered(s, 0)'
      BY <1>6, <2>2, <2>4
    <3> QED BY <3>1, <3>2 DEF Covered
  <2>6. /\ Unclosed(s)' = Unclosed(s) /\ Entry(s)' = Entry(s) /\ held'[s] = held[s]
    BY <1>1, <1>3 DEF Unclosed, Entry
  <2>7. /\ BuysOf(s) = {} /\ Unclosed(s) # {} /\ job[t].qty = Entry(s).qty
        /\ job[t].real = "flat" => held[s] = 0
    BY <2>1 DEF ExitFits, ClosingSteps, s
  <2>8. pc'[t] = "wait" /\ job'[t].oid = n /\ job'[t].qty = job[t].qty /\ job'[t].real = job[t].real
    BY <1>3, <1>4
  <2>9. NoneLost(s)' => Covered(s, orders[job[t].oid].filled)'
    BY <2>5, <2>8
  <2> QED BY <2>3, <2>6, <2>7, <2>8, <2>9 DEF ExitFits, AwaitsAt, ClosingSteps, Symbol, s
<1>13. \A u \in Tasks : job'[u].real # "unverified"
  BY <1>3, <1>4 DEF PositionInv
<1>14. \A o \in DOMAIN orders' : orders'[o].status = "COMPLETE" => orders'[o].filled = orders'[o].qty
  BY <1>1, <1>2 DEF PositionInv
<1>15. \A r \in Symbols : NettedInFull(ledger'[r])
  BY <1>3 DEF PositionInv
<1> QED BY <1>10, <1>11, <1>12, <1>13, <1>14, <1>15 DEF PositionInv, Symbol

(* The broker acts: whatever it does to shares it does to an order too.    *)
LEMMA BrokerPositions ==
    ASSUME TypeInv, TypeInv', PositionInv, UNCHANGED <<pc, job, ledger, lost>>,
           DOMAIN orders \subseteq DOMAIN orders',
           \A o \in DOMAIN orders' :
              orders'[o].status = "COMPLETE" => orders'[o].filled = orders'[o].qty,
           \A o \in DOMAIN orders :
              /\ orders'[o].sym = orders[o].sym
              /\ orders[o].status = "COMPLETE" => orders'[o].status = "COMPLETE",
           \A s \in Symbols : /\ BuysOf(s)' \subseteq BuysOf(s)
                              /\ (BuysOf(s) = {} /\ held[s] = 0) => held'[s] = 0
                              /\ Covered(s, 0) => Covered(s, 0)',
           \A t \in Tasks : (IsExit(t) /\ Awaits(t)) =>
              held'[Symbol(t)] + orders'[job[t].oid].filled
                 <= held[Symbol(t)] + orders[job[t].oid].filled
    PROVE  PositionInv'
<1>1. \A s : NoneLost(s)' <=> NoneLost(s)
  <2>1. lost \subseteq DOMAIN orders
    BY DEF TypeInv, TypeOK
  <2> QED BY <2>1 DEF NoneLost
<1>2. \A t \in Tasks : Awaits(t)' <=> Awaits(t)
  BY DEF Awaits
<1>3. ASSUME NEW s \in Symbols, NoneLost(s)', \A t \in Tasks : Symbol(t) = s => ~Awaits(t)'
      PROVE  Covered(s, 0)'
  BY <1>1, <1>2, <1>3 DEF PositionInv
<1>4. ASSUME NEW t \in Tasks, IsExit(t)'
      PROVE  ExitFits(t, pc[t], job[t])'
  <2> DEFINE s == Symbol(t)
             o == job[t].oid
  <2>1. IsExit(t) /\ ExitFits(t, pc[t], job[t]) /\ s \in Symbols
    BY <1>4, TaskParts DEF IsExit, IsEntry, PositionInv
  <2>2. /\ BuysOf(s) = {} /\ BuysOf(s)' = {} /\ Unclosed(s)' = Unclosed(s) /\ Entry(s)' = Entry(s)
        /\ pc[t] \in ClosingSteps => Unclosed(s) # {} /\ job[t].qty = Entry(s).qty
        /\ job[t].real = "flat" => held'[s] = 0
        /\ pc[t] = "reconcile" => job[t].real = "flat"
    BY <2>1 DEF ExitFits, Unclosed, Entry
  <2>3. ASSUME pc[t] = "record", job[t].result = "COMPLETE"
        PROVE  o # 0 /\ orders'[o].status = "COMPLETE"
    <3>1. o # 0 /\ orders[o].status = "COMPLETE"
      BY <2>1, <2>3 DEF ExitFits
    <3>2. o \in DOMAIN orders
      BY <2>3, <3>1, AwaitedIsAnOrder DEF Awaits
    <3> QED BY <3>1, <3>2
  <2>4. ASSUME AwaitsAt(pc[t], job[t]), NoneLost(s), NEW q, q = o
        PROVE  Covered(s, orders[q].filled)'
    <3>1. Awaits(t) /\ o \in DOMAIN orders /\ o \in DOMAIN orders'
      BY <2>4, AwaitedIsAnOrder DEF AwaitsAt, Awaits
    <3>2. /\ orders[o].filled \in Nat /\ orders'[o].filled \in Nat
          /\ held[s] \in Nat /\ held'[s] \in Nat /\ OnLedgerQty(s) \in Int
      <4>1. orders[o] \in Order /\ orders'[o] \in Order
        BY <3>1, ElementOfSeq, LenProperties DEF TypeInv, TypeOK
      <4>2. held[s] \in Nat /\ held'[s] \in Nat
        BY <2>1 DEF TypeInv, TypeOK
      <4> QED BY <2>1, <4>1, <4>2, LedgerCounts DEF Order
    <3>3. held[s] + orders[o].filled <= OnLedgerQty(s) /\ OnLedgerQty(s)' = OnLedgerQty(s)
      BY <2>1, <2>4 DEF ExitFits, Covered, OnLedgerQty
    <3>4. held'[s] + orders'[o].filled <= held[s] + orders[o].filled
      BY <2>1, <3>1
    <3> HIDE DEF s, o
    <3>5. held'[s] + orders'[o].filled <= OnLedgerQty(s)
      BY <3>2, <3>3, <3>4
    <3> QED BY <2>2, <2>4, <3>3, <3>5 DEF Covered, s
  <2>5. ASSUME AwaitsAt(pc[t], job[t])', NoneLost(s)'
        PROVE  Covered(s, orders[job[t].oid].filled)'
    <3>1. AwaitsAt(pc[t], job[t]) /\ NoneLost(s) /\ job'[t].oid = o
      BY <1>1, <2>5 DEF AwaitsAt, Symbol
    <3> QED BY <2>4, <3>1
  <2> QED BY <2>2, <2>3, <2>5 DEF ExitFits, Symbol
<1> QED BY <1>3, <1>4 DEF PositionInv, Symbol

LEMMA OrderEventPositions ==
    ASSUME Steady, TypeInv, TypeInv', RecordInv, PositionInv, StackInv,
           UNCHANGED <<pc, job, ledger, lost>>, NEW o \in DOMAIN orders,
           NEW s, s = orders[o].sym,
           (\E n \in 1..EntryQty : Fill(o, n)) \/ Reject(o) \/ Cancel(o)
    PROVE  PositionInv'
<1> DEFINE filled == orders[o].filled
           more == orders'[o].filled
           qty == orders[o].qty
           L == OnLedgerQty(s)
<1>1. /\ orders[o] \in Order /\ held \in [Symbols -> Nat] /\ Pending(o)
      /\ DOMAIN orders' = DOMAIN orders
      /\ \A q \in DOMAIN orders : q # o => orders'[q] = orders[q]
      /\ orders'[o].sym = orders[o].sym /\ orders'[o].side = orders[o].side
      /\ orders'[o].qty = orders[o].qty
  BY OrderChanges
<1>2. /\ s \in Symbols /\ held[s] \in Nat /\ orders[o].side \in {"BUY", "SELL"}
      /\ filled \in Nat /\ qty \in Nat /\ orders[o].status # "COMPLETE"
  BY <1>1 DEF Order, Pending
<1>3. \A r \in Symbols : BuysOf(r)' \subseteq BuysOf(r)
  BY <1>1 DEF BuysOf, PendingBuys, Pending
<1>4. \A q \in BuysOf(s) : q # o => orders'[q] = orders[q]
  BY <1>1 DEF BuysOf, PendingBuys
<1>5. orders[o].side = "BUY" => BuysOf(s) = {o}
  BY <1>1 DEF BuysOf, PendingBuys, StackInv
<1>6. orders[o].side = "SELL" => o \notin BuysOf(s)
  BY DEF BuysOf, PendingBuys
<1>7. L \in Int /\ OnLedgerQty(s)' = L
  BY <1>2, LedgerCounts DEF OnLedgerQty
<1>8. \A q \in BuysOf(s) : orders[q].qty \in Nat /\ orders[q].filled \in Nat
  BY <1>2, NumberAssumption, Counts DEF NumberAssumption
<1>9. /\ Covered(s, 0) <=> /\ held[s] <= L
                           /\ \A q \in BuysOf(s) : held[s] + (orders[q].qty - orders[q].filled) <= L
      /\ Covered(s, 0)' <=>
            /\ held'[s] <= L
            /\ \A q \in BuysOf(s)' : held'[s] + (orders'[q].qty - orders'[q].filled) <= L
  <2>1. held'[s] \in Nat
    BY <1>2 DEF TypeInv, TypeOK
  <2>2. \A q \in BuysOf(s)' : orders'[q].qty \in Nat /\ orders'[q].filled \in Nat
    <3>1. \A q \in DOMAIN orders' : orders'[q] \in Order
      BY ElementOfSeq, LenProperties DEF TypeInv, TypeOK
    <3> QED BY <3>1 DEF BuysOf, PendingBuys, Order
  <2> HIDE DEF L
  <2>3. Covered(s, 0) <=> /\ held[s] <= L
                          /\ \A q \in BuysOf(s) : held[s] + (orders[q].qty - orders[q].filled) <= L
    BY <1>2, <1>8 DEF Covered, L
  <2>4. Covered(s, 0)' <=>
            /\ held'[s] + 0 <= L
            /\ \A q \in BuysOf(s)' : held'[s] + (orders'[q].qty - orders'[q].filled) + 0 <= L
    BY <1>7 DEF Covered
  <2> QED BY <2>1, <2>2, <2>3, <2>4
<1> HIDE DEF filled, more, qty, L
<1>10. ASSUME NEW t \in Tasks, IsExit(t), Awaits(t)
       PROVE  /\ job[t].oid \in DOMAIN orders /\ Symbol(t) \in Symbols
              /\ orders[job[t].oid].sym = Symbol(t) /\ BuysOf(Symbol(t)) = {}
              /\ orders[job[t].oid].filled \in Nat
  <2>1. job[t].oid \in DOMAIN orders /\ Symbol(t) \in Symbols
    BY <1>10, AwaitedIsAnOrder, TaskParts
  <2>2. orders[job[t].oid] \in Order
    BY <2>1, ElementOfSeq, LenProperties DEF TypeInv, TypeOK
  <2>3. orders[job[t].oid].sym = Symbol(t) /\ BuysOf(Symbol(t)) = {}
    BY <1>10 DEF RecordInv, OwnOrder, PositionInv, ExitFits
  <2> QED BY <2>1, <2>2, <2>3 DEF Order
<1>11. ASSUME \A r \in Symbols : r # s => held'[r] = held[r],
              orders'[o].status = "COMPLETE" => more = qty,
              Covered(s, 0) => Covered(s, 0)',
              (BuysOf(s) = {} /\ held[s] = 0) => held'[s] = 0,
              \A t \in Tasks : (IsExit(t) /\ Awaits(t)) =>
                 held'[Symbol(t)] + orders'[job[t].oid].filled
                    <= held[Symbol(t)] + orders[job[t].oid].filled
       PROVE  PositionInv'
  <2>1. \A q \in DOMAIN orders' : orders'[q].status = "COMPLETE" => orders'[q].filled = orders'[q].qty
    <3>1. \A q \in DOMAIN orders : orders[q].status = "COMPLETE" => orders[q].filled = orders[q].qty
      BY DEF PositionInv
    <3> QED BY <1>1, <1>11, <3>1 DEF more, qty
  <2>2. \A q \in DOMAIN orders :
            /\ orders'[q].sym = orders[q].sym
            /\ orders[q].status = "COMPLETE" => orders'[q].status = "COMPLETE"
    BY <1>1, <1>2
  <2>3. ASSUME NEW r \in Symbols, r # s
        PROVE  Covered(r, 0) => Covered(r, 0)'
    <3>1. /\ BuysOf(r)' = BuysOf(r) /\ \A q \in BuysOf(r) : orders'[q] = orders[q]
      BY <1>1, <2>3 DEF BuysOf, PendingBuys, Pending
    <3>2. held'[r] = held[r]
      BY <1>11, <2>3
    <3> QED BY <3>1, <3>2 DEF Covered, OnLedgerQty
  <2>4. \A r \in Symbols : /\ BuysOf(r)' \subseteq BuysOf(r)
                           /\ (BuysOf(r) = {} /\ held[r] = 0) => held'[r] = 0
                           /\ Covered(r, 0) => Covered(r, 0)'
    BY <1>3, <1>11, <2>3
  <2> QED BY <1>1, <1>11, <2>1, <2>2, <2>4, BrokerPositions
<1>12. ASSUME NEW n \in 1..EntryQty, more = filled + n, more <= qty,
              orders[o].side = "SELL" => n <= held[s],
              held' = [held EXCEPT ![s] = IF orders[o].side = "BUY" THEN @ + n ELSE @ - n],
              orders'[o].status = "COMPLETE" => more = qty
       PROVE  PositionInv'
  <2>1. /\ n \in Nat /\ n # 0 /\ \A r \in Symbols : r # s => held'[r] = held[r]
        /\ orders[o].side = "BUY" => held'[s] = held[s] + n
        /\ orders[o].side = "SELL" => held'[s] = held[s] - n /\ n <= held[s]
    <3>1. n \in Nat /\ n # 0
      BY NumberAssumption DEF NumberAssumption
    <3> QED BY <1>1, <1>2, <1>12, <3>1
  <2>2. ASSUME Covered(s, 0) PROVE Covered(s, 0)'
    <3>1. CASE orders[o].side = "BUY"
      <4>1. held[s] + (qty - filled) <= L
        BY <1>5, <1>9, <2>2, <3>1 DEF qty, filled
      <4>2. held'[s] <= L /\ held'[s] + (qty - more) <= L
        BY <1>2, <1>7, <1>12, <2>1, <3>1, <4>1
      <4>3. \A q \in BuysOf(s)' : q = o
        BY <1>2, <1>3, <1>5, <3>1
      <4> QED BY <1>1, <1>9, <4>2, <4>3 DEF qty, more
    <3>2. CASE orders[o].side = "SELL"
      <4>1. held'[s] \in Nat /\ held'[s] <= held[s] /\ held[s] <= L
        BY <1>2, <1>9, <2>1, <2>2, <3>2
      <4>2. held'[s] <= L
        BY <1>2, <1>7, <4>1
      <4>3. ASSUME NEW q \in BuysOf(s)'
            PROVE  held'[s] + (orders'[q].qty - orders'[q].filled) <= L
        <5>1. q \in BuysOf(s) /\ orders'[q] = orders[q]
          BY <1>2, <1>3, <1>4, <1>6, <3>2
        <5>2. orders[q].qty \in Nat /\ orders[q].filled \in Nat
          BY <1>8, <5>1
        <5>3. held[s] + (orders[q].qty - orders[q].filled) <= L
          BY <1>9, <2>2, <5>1
        <5>4. held'[s] + (orders[q].qty - orders[q].filled) <= L
          BY <1>2, <1>7, <4>1, <5>2, <5>3
        <5> QED BY <5>1, <5>4
      <4> QED BY <1>9, <4>2, <4>3
    <3> QED BY <1>2, <3>1, <3>2
  <2>3. ASSUME NEW t \in Tasks, IsExit(t), Awaits(t)
        PROVE  held'[Symbol(t)] + orders'[job[t].oid].filled
                 <= held[Symbol(t)] + orders[job[t].oid].filled
    <3>1. CASE Symbol(t) # s
      <4>1. job[t].oid # o
        BY <1>10, <2>3, <3>1
      <4>2. orders'[job[t].oid] = orders[job[t].oid] /\ held'[Symbol(t)] = held[Symbol(t)]
        BY <1>1, <1>10, <2>1, <2>3, <3>1, <4>1
      <4>3. held[Symbol(t)] \in Nat
        BY <1>1, <1>10, <2>3
      <4> QED BY <1>10, <2>3, <4>2, <4>3
    <3>2. CASE Symbol(t) = s
      <4>1. orders[o].side = "SELL"
        BY <1>2, <1>5, <1>10, <2>3, <3>2
      <4>2. held'[s] = held[s] - n
        BY <2>1, <4>1
      <4>3. CASE job[t].oid = o
        BY <1>2, <1>12, <2>1, <3>2, <4>2, <4>3 DEF more, filled
      <4>4. CASE job[t].oid # o
        <5>1. orders'[job[t].oid] = orders[job[t].oid] /\ orders[job[t].oid].filled \in Nat
          BY <1>1, <1>10, <2>3, <4>4
        <5> QED BY <1>2, <2>1, <3>2, <4>2, <5>1
      <4> QED BY <4>3, <4>4
    <3> QED BY <3>1, <3>2
  <2>4. (BuysOf(s) = {} /\ held[s] = 0) => held'[s] = 0
    BY <1>2, <1>5, <2>1
  <2> QED BY <1>11, <1>12, <2>1, <2>2, <2>3, <2>4
<1>13. ASSUME more = filled, held' = held, ConfirmedNoPosition(orders'[o].status)
       PROVE  PositionInv'
  <2>1. Covered(s, 0) => Covered(s, 0)'
    <3>1. \A q \in BuysOf(s)' : /\ q \in BuysOf(s) /\ orders'[q].qty = orders[q].qty
                                /\ orders'[q].filled = orders[q].filled
      BY <1>1, <1>2, <1>3, <1>4, <1>13 DEF more, filled
    <3> QED BY <1>9, <1>13, <3>1
  <2>2. ASSUME NEW t \in Tasks, IsExit(t), Awaits(t)
        PROVE  held'[Symbol(t)] + orders'[job[t].oid].filled
                 <= held[Symbol(t)] + orders[job[t].oid].filled
    <3>1. orders'[job[t].oid].filled = orders[job[t].oid].filled
      BY <1>1, <1>10, <1>13, <2>2 DEF more, filled
    <3>2. held[Symbol(t)] \in Nat /\ orders[job[t].oid].filled \in Nat
      BY <1>1, <1>10, <2>2
    <3> QED BY <1>13, <3>1, <3>2
  <2>3. orders'[o].status # "COMPLETE"
    BY <1>13 DEF ConfirmedNoPosition
  <2> QED BY <1>11, <1>13, <2>1, <2>2, <2>3
<1> QED
  <2>1. \/ \E n \in 1..EntryQty :
              /\ more = filled + n /\ more <= qty
              /\ orders[o].side = "SELL" => n <= held[s]
              /\ held' = [held EXCEPT ![s] = IF orders[o].side = "BUY" THEN @ + n ELSE @ - n]
              /\ orders'[o].status = "COMPLETE" => more = qty
        \/ more = filled /\ held' = held /\ ConfirmedNoPosition(orders'[o].status)
    BY OrderChanges DEF more, filled, qty
  <2> QED BY <1>12, <1>13, <2>1

LEMMA GttFiresPositions ==
    ASSUME TypeInv, TypeInv', PositionInv, UNCHANGED <<pc, job, ledger, lost>>,
           NEW g \in DOMAIN gtts, GttFires(g)
    PROVE  PositionInv'
<1> DEFINE order == NewOrder(gtts[g].sym, "SELL", gtts[g].qty, None, TRUE)
<1>1. order \in Order /\ order.side = "SELL" /\ order.status = "OPEN"
  <2>1. gtts[g] \in Gtt
    BY ElementOfSeq, LenProperties DEF TypeInv, TypeOK
  <2> QED BY <2>1 DEF NewOrder, Order, Gtt
<1>2. orders' = Append(orders, order) /\ held' = held
  BY DEF GttFires
<1> HIDE DEF order
<1>3. LET n == Len(orders) + 1
      IN  /\ DOMAIN orders' = DOMAIN orders \cup {n} /\ orders'[n] = order
          /\ PendingBuys' = PendingBuys
          /\ \A o \in DOMAIN orders : orders'[o] = orders[o]
  BY <1>1, <1>2, BookGrows
<1>4. \A s \in Symbols : /\ BuysOf(s)' = BuysOf(s)
                         /\ \A o \in BuysOf(s) : orders'[o] = orders[o]
  BY <1>3 DEF BuysOf, PendingBuys
<1>5. \A s \in Symbols : Covered(s, 0)' <=> Covered(s, 0)
  BY <1>2, <1>4 DEF Covered, OnLedgerQty
<1>6. \A o \in DOMAIN orders' : orders'[o].status = "COMPLETE" => orders'[o].filled = orders'[o].qty
  <2>1. \A o \in DOMAIN orders : orders[o].status = "COMPLETE" => orders[o].filled = orders[o].qty
    BY DEF PositionInv
  <2> QED BY <1>1, <1>3, <2>1
<1>7. ASSUME NEW t \in Tasks, IsExit(t), Awaits(t)
      PROVE  held'[Symbol(t)] + orders'[job[t].oid].filled
               <= held[Symbol(t)] + orders[job[t].oid].filled
  <2>1. job[t].oid \in DOMAIN orders /\ Symbol(t) \in Symbols
    BY <1>7, AwaitedIsAnOrder, TaskParts
  <2>2. orders[job[t].oid] \in Order /\ held[Symbol(t)] \in Nat
    BY <2>1, ElementOfSeq, LenProperties DEF TypeInv, TypeOK
  <2>3. orders[job[t].oid].filled \in Nat
    BY <2>2 DEF Order
  <2>4. orders'[job[t].oid] = orders[job[t].oid] /\ held' = held
    BY <1>2, <1>3, <2>1
  <2> QED BY <2>2, <2>3, <2>4
<1>8. DOMAIN orders \subseteq DOMAIN orders' /\ \A o \in DOMAIN orders : orders'[o] = orders[o]
  BY <1>3
<1> QED BY <1>2, <1>4, <1>5, <1>6, <1>7, <1>8, BrokerPositions

LEMMA NewDayPositions ==
    ASSUME TypeInv, TypeInv', PositionInv, NewDay
    PROVE  PositionInv'
<1>1. /\ DOMAIN orders' = DOMAIN orders /\ held' = held
      /\ \A t \in Tasks : pc[t] = "idle"
      /\ \A o \in DOMAIN orders : orders'[o] =
            [orders[o] EXCEPT !.today = FALSE, !.status = IF @ = "OPEN" THEN "CANCELLED" ELSE @]
      /\ UNCHANGED <<pc, job, ledger, lost>>
  BY DEF NewDay, BookRollsOver, recordVars
<1>2. \A o \in DOMAIN orders : orders[o] \in Order
  BY ElementOfSeq, LenProperties DEF TypeInv, TypeOK
<1>3. \A o \in DOMAIN orders : /\ orders'[o].sym = orders[o].sym
                               /\ orders'[o].filled = orders[o].filled
                               /\ orders'[o].qty = orders[o].qty
                               /\ orders'[o].status # "OPEN"
                               /\ orders'[o].status = "COMPLETE" <=> orders[o].status = "COMPLETE"
  BY <1>1, <1>2 DEF Order
<1>4. \A s \in Symbols : BuysOf(s)' = {}
  BY <1>1, <1>3 DEF BuysOf, PendingBuys, Pending
<1>5. \A s \in Symbols : Covered(s, 0) => Covered(s, 0)'
  BY <1>1, <1>4 DEF Covered, OnLedgerQty
<1>6. \A o \in DOMAIN orders' : orders'[o].status = "COMPLETE" => orders'[o].filled = orders'[o].qty
  BY <1>1, <1>3 DEF PositionInv
<1>7. \A t \in Tasks : ~Awaits(t)
  BY <1>1 DEF Awaits
<1> QED BY <1>1, <1>3, <1>4, <1>5, <1>6, <1>7, BrokerPositions

(* What a stopped task was waiting for is lost from then on.               *)
LEMMA StopPositions ==
    ASSUME TypeInv, RecordInv, PositionInv, NEW p \in Processes, NEW S \in SUBSET Symbols,
           Stop(p, S)
    PROVE  PositionInv'
<1> DEFINE Stopped(t) == Process(t) = p /\ Symbol(t) \in S
<1>1. /\ UNCHANGED <<orders, held, ledger>> /\ lost \subseteq lost'
      /\ pc' = [t \in Tasks |-> IF Stopped(t) THEN "idle" ELSE pc[t]]
      /\ job' = [t \in Tasks |-> IF Stopped(t) THEN NoJob ELSE job[t]]
  BY DEF Stop, brokerVars, recordVars
<1>2. /\ \A s : BuysOf(s)' = BuysOf(s)
      /\ \A s : Unclosed(s)' = Unclosed(s) /\ Entry(s)' = Entry(s)
      /\ \A s : \A sold : Covered(s, sold)' = Covered(s, sold)
  BY <1>1 DEF PendingBuys, Pending, BuysOf, Covered, OnLedgerQty, Unclosed, Entry
<1>3. \A s : NoneLost(s)' => NoneLost(s)
  BY <1>1 DEF NoneLost
<1>4. ASSUME NEW t \in Tasks, Stopped(t), Awaits(t)
      PROVE  ~NoneLost(Symbol(t))'
  <2>1. t = <<p, Symbol(t)>>
    BY <1>4 DEF Tasks, Process, Symbol
  <2>2. pc[<<p, Symbol(t)>>] \in {"wait", "record"} /\ job[<<p, Symbol(t)>>].oid # 0
    BY <1>4, <2>1 DEF Awaits
  <2>3. job[t].oid \in lost'
    BY <1>4, <2>1, <2>2 DEF Stop
  <2>4. orders'[job[t].oid].sym = Symbol(t)
    BY <1>1, <1>4 DEF RecordInv, OwnOrder
  <2> QED BY <2>3, <2>4 DEF NoneLost, Symbol
<1>5. ASSUME NEW t \in Tasks
      PROVE  IF Stopped(t) THEN pc'[t] = "idle" /\ job'[t] = NoJob
                           ELSE pc'[t] = pc[t] /\ job'[t] = job[t]
  BY <1>1
<1> HIDE DEF Stopped
<1>6. ASSUME NEW s \in Symbols, NoneLost(s)', \A t \in Tasks : Symbol(t) = s => ~Awaits(t)'
      PROVE  Covered(s, 0)'
  <2>1. ASSUME NEW t \in Tasks, Symbol(t) = s, Awaits(t) PROVE FALSE
    <3>1. CASE Stopped(t)
      BY <1>4, <1>6, <2>1, <3>1 DEF NoneLost
    <3>2. CASE ~Stopped(t)
      BY <1>5, <1>6, <2>1, <3>2 DEF Awaits
    <3> QED BY <3>1, <3>2
  <2> QED BY <1>2, <1>3, <1>6, <2>1 DEF PositionInv
<1>7. ASSUME NEW t \in Tasks, IsExit(t)'
      PROVE  ExitFits(t, pc[t], job[t])'
  <2>1. pc'[t] = pc[t] /\ job'[t] = job[t] /\ IsExit(t)
    BY <1>5, <1>7 DEF IsExit, IsEntry
  <2>2. ExitFits(t, pc[t], job[t])
    BY <2>1 DEF PositionInv
  <2> QED BY <1>1, <1>2, <1>3, <2>1, <2>2 DEF ExitFits, AwaitsAt, Symbol
<1>8. \A t \in Tasks : job'[t].real # "unverified"
  BY <1>5 DEF PositionInv, NoJob
<1>9. /\ \A o \in DOMAIN orders' : orders'[o].status = "COMPLETE" => orders'[o].filled = orders'[o].qty
      /\ \A s \in Symbols : NettedInFull(ledger'[s])
  BY <1>1 DEF PositionInv
<1> QED BY <1>6, <1>7, <1>8, <1>9 DEF PositionInv, Symbol

LEMMA InitPositions == Init => PositionInv
<1> SUFFICES ASSUME Init PROVE PositionInv
  OBVIOUS
<1>1. /\ orders = <<>> /\ held = [s \in Symbols |-> 0] /\ ledger = [s \in Symbols |-> <<>>]
      /\ pc = [t \in Tasks |-> "idle"] /\ job = [t \in Tasks |-> NoJob]
  BY DEF Init, BrokerInit
<1>2. /\ TypeInv /\ DOMAIN orders = {} /\ PendingBuys = {}
  BY <1>1, InitType DEF PendingBuys
<1>3. ASSUME NEW s \in Symbols
      PROVE  NettedInFull(ledger[s]) /\ Covered(s, 0)
  <2>1. ledger[s] = <<>> /\ DOMAIN ledger[s] = {} /\ held[s] = 0 /\ BuysOf(s) = {}
    BY <1>1, <1>2 DEF BuysOf
  <2>2. Openers(ledger[s], UnclosedStatuses) = {}
    BY <2>1 DEF Openers
  <2>3. ClosedQty(ledger[s]) = SumOfQty(ledger[s], {}) /\ Opened(ledger[s]) = SumOfQty(ledger[s], {})
    <3>1. {i \in DOMAIN ledger[s] : /\ ledger[s][i].side # OpeningSide(ledger[s])
                                    /\ ledger[s][i].status = "COMPLETE"} = {}
      BY <2>1
    <3> QED BY <2>2, <3>1 DEF ClosedQty, Opened
  <2>4. ClosedQty(ledger[s]) \in Nat
    BY <1>2, LedgerCounts
  <2> QED BY <2>1, <2>2, <2>3, <2>4 DEF NettedInFull, Covered, OnLedgerQty
<1>4. NoJob.real # "unverified"
  BY DEF NoJob
<1>5. \A t \in Tasks : pc[t] = "idle" /\ job[t] = NoJob
  BY <1>1
<1> QED BY <1>2, <1>3, <1>4, <1>5 DEF PositionInv, IsExit

LEMMA StepPositions ==
    ASSUME Steady
    PROVE  TypeInv /\ RecordInv /\ StackInv /\ PositionInv /\ [Next]_vars => PositionInv'
<1> SUFFICES ASSUME TypeInv, RecordInv, StackInv, PositionInv, [Next]_vars PROVE PositionInv'
  OBVIOUS
<1>0. TypeInv'
  BY StepType
<1>1. ASSUME NEW t \in Tasks, TaskStep(t) PROVE PositionInv'
  <2>1. CASE EntryStep(t)
    <3>1. \/ TaggedOrderFound(t) \/ HiddenPositionFound(t) \/ ledger' = ledger
      BY <2>1 DEF EntryStep, CheckOpen, CheckCapacity, CheckIntent, NoTaggedOrder,
                  NoHiddenPosition, Recheck, Finalize, GttAccepted, GttRefused,
                  RecordBracket, recordVars
    <3> QED BY <1>0, <2>1, <3>1, PreflightPositions, EntryStepPositions
  <2>2. CASE OrderStep(t)
    <3>1. ~PlaceReplyLost(t)
      BY DEF PlaceReplyLost, Steady, Calm
    <3> QED BY <1>0, <2>2, <3>1, PlacePositions, ReplyPositions, RecordPositions DEF OrderStep
  <2>3. CASE ExitStep(t)
    BY <1>0, <2>3, ReconcilePositions, ExitStepPositions
  <2> QED BY <1>1, <2>1, <2>2, <2>3 DEF TaskStep
<1>2. ASSUME NEW t \in Tasks,
             (\E bar \in Bars, gated \in BOOLEAN : StartEntry(t, bar, gated)) \/ StartExit(t)
      PROVE  PositionInv'
  BY <1>2, StartPositions
<1>3. CASE (\E p \in Processes : Crash(p)) \/ (\E t \in Tasks : DatabaseFails(t))
  <2>1. ASSUME NEW t \in Tasks PROVE Process(t) \in Processes /\ {Symbol(t)} \in SUBSET Symbols
    BY DEF Tasks, Process, Symbol
  <2> QED BY <1>3, <2>1, StopPositions DEF Crash, DatabaseFails
<1>4. CASE BrokerSteps
  <2>1. UNCHANGED <<pc, job, ledger, lost>>
    BY <1>4 DEF BrokerSteps, recordVars
  <2> QED BY <1>0, <1>4, <2>1, OrderEventPositions, GttFiresPositions DEF BrokerSteps
<1>5. CASE NewDay
  BY <1>0, <1>5, NewDayPositions
<1>6. CASE PassCutoff \/ UNCHANGED vars
  <2>1. UNCHANGED <<orders, held, ledger, lost, pc, job>>
    BY <1>6 DEF PassCutoff, vars, brokerVars, recordVars
  <2>2. /\ \A s : BuysOf(s)' = BuysOf(s) /\ NoneLost(s)' = NoneLost(s)
        /\ \A s : Unclosed(s)' = Unclosed(s) /\ Entry(s)' = Entry(s)
        /\ \A s : \A sold : Covered(s, sold)' = Covered(s, sold)
    BY <2>1 DEF PendingBuys, Pending, BuysOf, NoneLost, Covered, OnLedgerQty, Unclosed, Entry
  <2>3. \A t \in Tasks : /\ Awaits(t)' <=> Awaits(t)
                         /\ IsExit(t)' <=> IsExit(t)
                         /\ ExitFits(t, pc[t], job[t]) => ExitFits(t, pc[t], job[t])'
    BY <2>1, <2>2 DEF Awaits, IsExit, IsEntry, ExitFits, AwaitsAt, Symbol
  <2> QED BY <2>1, <2>2, <2>3 DEF PositionInv, Symbol
<1> QED BY <1>1, <1>2, <1>3, <1>4, <1>5, <1>6 DEF Next

LEMMA PositionInvIsOnRecord ==
    ASSUME TypeInv, PositionInv
    PROVE  RealPositionsOnRecord
<1> SUFFICES ASSUME NEW s \in Symbols, held[s] > 0, ~InFlight(s),
                    \A o \in lost : orders[o].sym # s, Unclosed(s) = {}
             PROVE  FALSE
  BY DEF RealPositionsOnRecord
<1>1. Covered(s, 0)
  BY DEF PositionInv, NoneLost, InFlight, Awaits
<1>2. /\ WellFormed(ledger[s]) /\ Opened(ledger[s]) \in Nat /\ ClosedQty(ledger[s]) \in Nat
      /\ held[s] \in Nat
  BY LedgerCounts DEF TypeInv, TypeOK
<1>3. held[s] + 0 <= Opened(ledger[s]) - ClosedQty(ledger[s])
  BY <1>1 DEF Covered, OnLedgerQty
<1> DEFINE open == OpenQuantity(ledger[s], UnclosedStatuses)
<1>4. DOMAIN open = {}
  BY DEF Unclosed, UnclosedLegs
<1>5. Total(open, DOMAIN open) = IF Opened(ledger[s]) > ClosedQty(ledger[s])
                                   THEN Opened(ledger[s]) - ClosedQty(ledger[s]) ELSE 0
  BY <1>2, NettingTotal DEF Opened
<1> HIDE DEF open
<1>6. Total(open, DOMAIN open) = 0
  BY <1>4, FS_EmptySet, TotalSplits
<1> QED BY <1>2, <1>3, <1>5, <1>6

(* A real position never vanishes from the ledger: with one process at     *)
(* work and a broker that answers, shares that are held while no task is   *)
(* at work on their symbol, and no order of it was lost to a crash, have   *)
(* an unclosed row that every exit path finds; whatever crashes, failing   *)
(* database calls, brackets, cancellations and new days did before.  That  *)
(* no exit comes from the dashboard is needed: run cash_unfilled_exit has  *)
(* one, and finds shares on no record.                                     *)
THEOREM RealPositionsRecorded ==
    ASSUME OnePipeline, Dashboards = {}, PendingStatuses \subseteq UnclosedStatuses,
           ~PartialCancels, ~LostReplies, ~BestEffortFailures, ~LateSettlement
    PROVE  Spec => []RealPositionsOnRecord
<1>1. Calm /\ Steady
  BY DEF Calm, Steady
<1>2. TypeInv /\ PositionInv => RealPositionsOnRecord
  BY PositionInvIsOnRecord
<1>3. TypeInv /\ RecordInv /\ StackInv /\ [Next]_vars => StackInv'
  BY <1>1, StepStacks
<1>4. TypeInv /\ RecordInv /\ StackInv /\ PositionInv /\ [Next]_vars => PositionInv'
  BY <1>1, StepPositions
<1> QED BY InitType, StepType, InitRecord, StepRecord, InitStacks, InitPositions,
           <1>2, <1>3, <1>4, PTL DEF Spec
===============================================================================
