--------------------------- MODULE DailySwingProofs ---------------------------
(***************************************************************************)
(* The Daily Swing service, while two actors work on its position: for     *)
(* every set of setups and levels, any number of days and faults.          *)
(*                                                                         *)
(* First the row in the database and the position in memory (RowInv).      *)
(* Then the orders, the ledger and the jobs that place and record them     *)
(* (SwingInv); what the account holds of a future, what its rows say and   *)
(* what is on its way between the two (BooksInv); and that a future on the *)
(* ledger keeps its row, and its row a watcher (Watched).                  *)
(***************************************************************************)
EXTENDS DailySwing, LedgerFacts

JobFields == {"setup", "contract", "side", "rest", "stage", "qty", "oid", "result",
              "filled", "basket", "best", "after"}

Stages == EntryStages \cup ExitStages \cup {"none"}

Row == [status : {"none", "closed", "rejected"} \cup ActiveStatuses, best : Levels]

JobOK(j) ==
    /\ DOMAIN j = JobFields
    /\ j.setup \in Setups \cup {NoSetup} /\ j.rest \in SUBSET Setups
    /\ j.stage \in Stages /\ j.best \in Levels /\ j.after \in {"idle", "choose", "finish"}

Ordering == {"place", "wait", "record"}

(* Where the entry of a basket is underway, and where an exit is.          *)
EntryStep(step, stage) ==
    step \in {"gate", "settle"} \/ (step \in Ordering /\ stage \in EntryStages)

LeavingStep(step, stage) ==
    \/ step \in {"exitLook", "hedgeLook", "exitCheck"} /\ stage \notin EntryStages
    \/ step \in Ordering /\ stage \in ExitStages

Leaving(step, stage) ==
    LeavingStep(step, stage) \/ (step = "clear" /\ stage \notin EntryStages)

Looking == {"trail", "choose", "brokerCheck", "attempt", "contract", "activate", "finish"}

(* Where an actor may be, and whether it has a setup there.                *)
PlaceOK(a, step, j) ==
    /\ \/ step \in {"idle", "lock"}
       \/ Leaving(step, j.stage)
       \/ a = "roll" /\ (step \in Looking \/ EntryStep(step, j.stage))
    /\ a = "tick" => j.after = "idle"
    /\ step \notin {"idle", "lock", "choose", "brokerCheck", "finish"} => j.setup \in Setups

Places == {"idle", "lock"} \cup LockedSteps \cup Looking \cup {"gate", "settle"}

ActorsOK ==
    /\ pc \in [Actors -> Places] /\ DOMAIN job = Actors
    /\ \A a \in Actors : JobOK(job[a]) /\ PlaceOK(a, pc[a], job[a])

StoreOK ==
    /\ rows \in [Setups -> Row] /\ attempts \in SUBSET Setups
    /\ active \in [setup : Setups \cup {NoSetup}, status : {"none"} \cup ActiveStatuses,
                   best : Levels]
    /\ active.status = "none" <=> active = NoActive
    /\ active.status # "none" => active.setup \in Setups
    /\ phase \in {"down", "loop", "session"}

SwingType == ActorsOK /\ StoreOK

(* Nobody is at work outside a session.                                    *)
OnlyInSession == phase # "session" => \A a \in Actors : pc[a] = "idle"

(* While a bucket is worked on, the setups are today's.                    *)
OfToday ==
    /\ pc["roll"] # "idle" => context = today
    /\ pc["roll"] = "brokerCheck" => \A d \in job["roll"].rest : d.date = today
    /\ pc["roll"] \in {"attempt", "contract"} => job["roll"].setup.date = today

DayInv == OnlyInSession /\ OfToday

Entering == EntryStep(pc["roll"], job["roll"].stage) \/ pc["roll"] = "activate"

Gone(a) == Leaving(pc[a], job[a].stage)

(* One active row, and it is the one memory knows, or is about to.         *)
OneRow == \A d, e \in ActiveRows : d = e

RowInMind ==
    phase # "down" =>
        \A d \in ActiveRows : d = active.setup \/ (Entering /\ d = job["roll"].setup)

(* An entry starts from nothing.                                           *)
FromNothing == Entering \/ pc["roll"] \in {"brokerCheck", "attempt", "contract"}
                   => active = NoActive

(* One actor at most is in an exit, and of the position in memory.         *)
ExitsActive ==
    /\ \A a \in Actors : Gone(a) => active.status = "open" /\ job[a].setup = active.setup
    /\ \A a, b \in Actors : Gone(a) /\ Gone(b) => a = b
    /\ \A a \in Actors : pc[a] = "clear" => ActiveRows = {}

(* What the trail is about to write over is the position it was read from. *)
TrailsActive ==
    pc["roll"] = "trail" =>
        \/ active = NoActive
        \/ active.status = "open" /\ active.setup = job["roll"].setup
                                  /\ active.best = job["roll"].best

(* Memory never says more than the row.                                    *)
MemoryAgrees ==
    /\ active.status = "open" => rows[active.setup].status # "entering"
    /\ active.status = "entering" => rows[active.setup].status = "entering"
    /\ active.setup \in ActiveRows => rows[active.setup].best = active.best

EntryRow ==
    /\ pc["roll"] = "contract" =>
          rows[job["roll"].setup].status = "none" /\ job["roll"].setup \in attempts
    /\ Entering => rows[job["roll"].setup].status =
                      IF pc["roll"] = "activate" THEN "open" ELSE "entering"
    /\ pc["roll"] = "activate" => rows[job["roll"].setup].best = 0

Untrailed ==
    /\ \A d \in Setups : rows[d].status \in {"none", "entering"} => rows[d].best = 0
    /\ \A d \in Setups : rows[d].status # "none" => d \in attempts

RowInv ==
    /\ OneRow /\ RowInMind /\ FromNothing /\ ExitsActive /\ TrailsActive /\ MemoryAgrees
    /\ EntryRow /\ Untrailed

-------------------------------------------------------------------------------
(* What the steps of the actors do to where they are.                      *)

Moves(a, step, j) ==
    /\ pc' = [pc EXCEPT ![a] = step]
    /\ DOMAIN job' = DOMAIN job /\ job'[a] = j
    /\ \A b \in Actors : b # a => job'[b] = job[b]

LEMMA Moved ==
    ASSUME ActorsOK, NEW a \in Actors, NEW step, NEW j
    PROVE  /\ Goto(a, step) => Moves(a, step, job[a])
           /\ GotoWith(a, step, j) => Moves(a, step, j)
           /\ Moves(a, step, j) => /\ pc'[a] = step
                                   /\ \A b \in Actors : b # a => pc'[b] = pc[b]
BY DEF ActorsOK, Goto, GotoWith, Moves

LEMMA MoveTyped ==
    ASSUME ActorsOK, NEW a \in Actors, NEW step \in Places, NEW j,
           Moves(a, step, j), JobOK(j), PlaceOK(a, step, j)
    PROVE  ActorsOK'
<1>1. pc' \in [Actors -> Places] /\ DOMAIN job' = Actors
  BY DEF ActorsOK, Moves
<1>2. ASSUME NEW b \in Actors PROVE JobOK(job'[b]) /\ PlaceOK(b, pc'[b], job'[b])
  <2>1. CASE b = a
    BY <2>1, Moved DEF Moves
  <2>2. CASE b # a
    BY <2>2, Moved DEF Moves, ActorsOK
  <2> QED BY <2>1, <2>2
<1> QED BY <1>1, <1>2 DEF ActorsOK

(* The part of a job that tells whose it is.                               *)
SameErrand(k, j) ==
    j.setup = k.setup /\ j.rest = k.rest /\ j.best = k.best /\ j.after = k.after

(* A step of the basket leads from an entry on to an entry, from an exit   *)
(* on to an exit.                                                          *)
Onwards(a, step, j) ==
    /\ Moves(a, step, j) /\ step \in Places /\ JobOK(j) /\ PlaceOK(a, step, j)
    /\ SameErrand(job[a], j)
    /\ \/ a = "roll" /\ EntryStep(pc[a], job[a].stage) /\ EntryStep(step, j.stage)
       \/ LeavingStep(pc[a], job[a].stage) /\ LeavingStep(step, j.stage)

LEMMA Altered ==
    ASSUME NEW k, JobOK(k), NEW x
    PROVE  /\ LET j == [k EXCEPT !.oid = x] IN JobOK(j) /\ SameErrand(k, j) /\ j.stage = k.stage
           /\ LET j == [k EXCEPT !.result = x] IN JobOK(j) /\ SameErrand(k, j) /\ j.stage = k.stage
           /\ LET j == [k EXCEPT !.filled = x] IN JobOK(j) /\ SameErrand(k, j) /\ j.stage = k.stage
           /\ LET j == [k EXCEPT !.basket = x] IN JobOK(j) /\ SameErrand(k, j) /\ j.stage = k.stage
           /\ LET j == [k EXCEPT !.contract = x] IN JobOK(j) /\ SameErrand(k, j) /\ j.stage = k.stage
           /\ LET j == [k EXCEPT !.side = x] IN JobOK(j) /\ SameErrand(k, j) /\ j.stage = k.stage
           /\ LET j == [k EXCEPT !.qty = x] IN JobOK(j) /\ SameErrand(k, j) /\ j.stage = k.stage
           /\ x \in Stages =>
                 LET j == [k EXCEPT !.stage = x] IN JobOK(j) /\ SameErrand(k, j) /\ j.stage = x
BY DEF JobOK, JobFields, SameErrand

LEMMA OrderTyped ==
    ASSUME NEW k, JobOK(k), NEW stage \in Stages, NEW qty
    PROVE  LET j == Order(k, stage, qty)
           IN  JobOK(j) /\ SameErrand(k, j) /\ j.stage = stage
BY DEF Order, JobOK, JobFields, SameErrand

LEMMA ErrandsAgree ==
    ASSUME NEW k, NEW j, NEW l, SameErrand(k, j), SameErrand(j, l)
    PROVE  SameErrand(k, l)
BY DEF SameErrand

(* Going on within an entry or an exit keeps an actor where it may be.     *)
LEMMA GoesOnwards ==
    ASSUME ActorsOK, NEW a \in Actors, NEW step, NEW j, Moves(a, step, j),
           JobOK(j), SameErrand(job[a], j),
           \/ EntryStep(pc[a], job[a].stage) /\ EntryStep(step, j.stage)
           \/ LeavingStep(pc[a], job[a].stage) /\ LeavingStep(step, j.stage)
    PROVE  Onwards(a, step, j)
<1>1. /\ PlaceOK(a, pc[a], job[a]) /\ JobOK(job[a])
      /\ pc[a] \notin {"idle", "lock", "choose", "brokerCheck", "finish"}
      /\ step \in Places
  BY DEF ActorsOK, EntryStep, LeavingStep, Ordering, Places, LockedSteps
<1>2. j.setup \in Setups /\ (a = "tick" => j.after = "idle")
  BY <1>1 DEF PlaceOK, SameErrand
<1>3. CASE LeavingStep(pc[a], job[a].stage) /\ LeavingStep(step, j.stage)
  BY <1>1, <1>2, <1>3 DEF PlaceOK, Onwards, Leaving
<1>4. CASE EntryStep(pc[a], job[a].stage) /\ EntryStep(step, j.stage)
  <2>1. a = "roll"
    BY <1>1, <1>4 DEF PlaceOK, EntryStep, Leaving, LeavingStep, Ordering, EntryStages, ExitStages,
                      Actors, Looking
  <2> QED BY <1>1, <1>2, <1>4, <2>1 DEF PlaceOK, Onwards
<1> QED BY <1>3, <1>4

LEMMA OrderGoesOnwards ==
    ASSUME ActorsOK, NEW a \in Actors, OrderStep(a)
    PROVE  \E step, j : Onwards(a, step, j)
<1> DEFINE k == job[a]
<1>1. JobOK(k) /\ PlaceOK(a, pc[a], k)
  BY DEF ActorsOK
<1>2. pc[a] \in Ordering => k.stage \in EntryStages \/ k.stage \in ExitStages
  BY <1>1 DEF PlaceOK, Leaving, LeavingStep, EntryStep, Looking, Ordering
<1>3. \A step, j : /\ Moves(a, step, j) /\ JobOK(j) /\ SameErrand(k, j)
                   /\ pc[a] \in Ordering /\ step \in Ordering /\ j.stage = k.stage
                   => Onwards(a, step, j)
  BY <1>2, GoesOnwards DEF EntryStep, LeavingStep
<1>4. CASE PlaceAccepted(a)
  <2> DEFINE j == [k EXCEPT !.oid = Len(orders) + 1]
  <2>1. JobOK(j) /\ SameErrand(k, j) /\ j.stage = k.stage
    BY <1>1, Altered
  <2>2. Moves(a, "wait", j) /\ pc[a] \in Ordering
    BY <1>4, Moved DEF PlaceAccepted, Ordering
  <2> HIDE DEF j, k
  <2> QED BY <1>3, <2>1, <2>2 DEF Ordering
<1>5. CASE PlaceRaises(a)
  <2> DEFINE j == [k EXCEPT !.result = "REJECTED"]
  <2>1. JobOK(j) /\ SameErrand(k, j) /\ j.stage = k.stage
    BY <1>1, Altered
  <2>2. Moves(a, "record", j) /\ pc[a] \in Ordering
    BY <1>5, Moved DEF PlaceRaises, Ordering
  <2> HIDE DEF j, k
  <2> QED BY <1>3, <2>1, <2>2 DEF Ordering
<1>6. ASSUME NEW r, NEW q, GotoWith(a, "record", [k EXCEPT !.result = r, !.filled = q]),
             pc[a] = "wait"
      PROVE  \E step, j : Onwards(a, step, j)
  <2> DEFINE j == [k EXCEPT !.result = r, !.filled = q]
  <2>1. JobOK(j) /\ SameErrand(k, j) /\ j.stage = k.stage
    BY <1>1 DEF JobOK, JobFields, SameErrand
  <2>2. Moves(a, "record", j) /\ pc[a] \in Ordering
    BY <1>6, Moved DEF Ordering
  <2> HIDE DEF j, k
  <2> QED BY <1>3, <2>1, <2>2 DEF Ordering
<1>7. CASE Filled(a)
  BY <1>6, <1>7 DEF Filled
<1>8. CASE TimesOut(a)
  BY <1>6, <1>8 DEF TimesOut
<1>9. CASE Record(a)
  <2> DEFINE f == FollowUp(k)
  <2>1. Moves(a, f.step, f.job) /\ pc[a] \in Ordering
    BY <1>9, Moved DEF Record, Ordering
  <2>2. \A stage \in Stages : \A qty :
            LET o == Order(k, stage, qty) IN JobOK(o) /\ SameErrand(k, o) /\ o.stage = stage
    BY <1>1, OrderTyped
  <2>3. /\ k.stage \in EntryStages => EntryStep(pc[a], k.stage)
        /\ k.stage \in ExitStages => LeavingStep(pc[a], k.stage)
    BY <2>1 DEF EntryStep, LeavingStep
  <2>4. CASE k.stage \in ExitStages
    <3>1. f.job = k /\ f.step \in {"hedgeLook", "exitCheck"}
      BY <2>4 DEF FollowUp, Proceed, ExitStages
    <3>2. LeavingStep(f.step, k.stage)
      BY <3>1, <2>4 DEF LeavingStep, ExitStages, EntryStages
    <3>3. SameErrand(k, k)
      BY DEF SameErrand
    <3> HIDE DEF f
    <3> QED BY <1>1, <2>1, <2>3, <2>4, <3>1, <3>2, <3>3, GoesOnwards
  <2>5. CASE k.stage \in EntryStages
    <3>1. \/ f.job = k /\ f.step = "settle"
          \/ \E stage \in EntryStages : \E qty : f.job = Order(k, stage, qty) /\ f.step = "place"
      <4>1. CASE k.stage = "hedge"
        BY <4>1 DEF FollowUp, AfterHedge, Proceed, PlaceNext, EntryStages
      <4>2. CASE k.stage = "future"
        BY <4>2 DEF FollowUp, AfterFuture, Proceed, PlaceNext, EntryStages
      <4>3. CASE k.stage = "unwindFuture"
        BY <4>3 DEF FollowUp, Proceed, PlaceNext, EntryStages
      <4>4. CASE k.stage \in {"unwindHedge", "dropHedge"}
        BY <4>4 DEF FollowUp, Proceed
      <4> QED BY <2>5, <4>1, <4>2, <4>3, <4>4 DEF EntryStages
    <3>2. EntryStep(f.step, f.job.stage) /\ JobOK(f.job) /\ SameErrand(k, f.job)
      <4>1. CASE f.job = k /\ f.step = "settle"
        BY <4>1, <1>1 DEF EntryStep, SameErrand
      <4>2. ASSUME NEW stage \in EntryStages, NEW qty, f.job = Order(k, stage, qty),
                   f.step = "place"
            PROVE  EntryStep(f.step, f.job.stage) /\ JobOK(f.job) /\ SameErrand(k, f.job)
        <5>1. stage \in Stages
          BY DEF Stages
        <5> HIDE DEF f, k
        <5> QED BY <4>2, <5>1, <2>2 DEF EntryStep, Ordering
      <4> HIDE DEF f
      <4> QED BY <3>1, <4>1, <4>2
    <3> HIDE DEF f
    <3> QED BY <2>1, <2>3, <2>5, <3>2, GoesOnwards
  <2> QED BY <1>2, <2>1, <2>4, <2>5
<1> QED BY <1>4, <1>5, <1>7, <1>8, <1>9 DEF OrderStep

LEMMA BasketGoesOnwards ==
    ASSUME ActorsOK, NEW a \in Actors, BasketStep(a)
    PROVE  \E step, j : Onwards(a, step, j)
<1> DEFINE k == job[a]
<1>1. JobOK(k) /\ PlaceOK(a, pc[a], k) /\ SameErrand(k, k)
  BY DEF ActorsOK, SameErrand
<1>2. /\ pc[a] = "gate" => EntryStep(pc[a], k.stage)
      /\ pc[a] \in {"exitLook", "hedgeLook"} => LeavingStep(pc[a], k.stage)
  BY <1>1 DEF PlaceOK, EntryStep, Leaving, LeavingStep, Ordering, Looking
<1>3. \A stage \in Stages : \A qty :
          LET o == Order(k, stage, qty) IN JobOK(o) /\ SameErrand(k, o) /\ o.stage = stage
  BY <1>1, OrderTyped
<1>4. CASE EnterBasket(a)
  <2> DEFINE o == Order(k, "hedge", Lot)
             j == [o EXCEPT !.basket = Len(ledger) + 1]
  <2>1. JobOK(o) /\ SameErrand(k, o) /\ o.stage = "hedge"
    BY <1>3 DEF Stages, EntryStages
  <2> HIDE DEF o
  <2>2. JobOK(j) /\ SameErrand(o, j) /\ j.stage = "hedge"
    BY <2>1, Altered
  <2>3. Moves(a, "place", j) /\ pc[a] = "gate"
    BY <1>4, Moved DEF EnterBasket, o
  <2> HIDE DEF j
  <2>4. EntryStep("place", j.stage) /\ SameErrand(k, j)
    BY <2>1, <2>2, ErrandsAgree DEF EntryStep, Ordering, EntryStages
  <2> QED BY <1>2, <2>2, <2>3, <2>4, GoesOnwards
<1>5. CASE RefuseBasket(a)
  <2> DEFINE j == [k EXCEPT !.basket = 0]
  <2>1. JobOK(j) /\ SameErrand(k, j) /\ j.stage = k.stage
    BY <1>1, Altered
  <2>2. Moves(a, "settle", j) /\ pc[a] = "gate"
    BY <1>5, Moved DEF RefuseBasket
  <2>3. EntryStep("settle", j.stage)
    BY DEF EntryStep
  <2> HIDE DEF j
  <2> QED BY <1>2, <2>1, <2>2, <2>3, GoesOnwards
<1>6. CASE CloseFuture(a)
  <2>1. PICK c : GotoWith(a, "place",
                   [Order(k, "closeFuture", FirstOpen(c).qty)
                      EXCEPT !.contract = c, !.side = FirstOpen(c).side,
                             !.basket = FirstOpen(c).basket])
    BY <1>6 DEF CloseFuture
  <2> DEFINE o == Order(k, "closeFuture", FirstOpen(c).qty)
             j == [o EXCEPT !.contract = c, !.side = FirstOpen(c).side,
                            !.basket = FirstOpen(c).basket]
  <2>2. JobOK(o) /\ SameErrand(k, o) /\ o.stage = "closeFuture"
    BY <1>3 DEF Stages, ExitStages
  <2> HIDE DEF o
  <2>3. JobOK(j) /\ SameErrand(o, j) /\ j.stage = "closeFuture"
    BY <2>2 DEF JobOK, JobFields, SameErrand
  <2>4. Moves(a, "place", j) /\ pc[a] = "exitLook"
    BY <1>6, <2>1, Moved DEF CloseFuture, o
  <2> HIDE DEF j
  <2>5. LeavingStep("place", j.stage) /\ SameErrand(k, j)
    BY <2>2, <2>3, ErrandsAgree DEF LeavingStep, Ordering, ExitStages
  <2> QED BY <1>2, <2>3, <2>4, <2>5, GoesOnwards
<1>7. CASE NothingToClose(a)
  <2> DEFINE j == [k EXCEPT !.basket = 0]
  <2>1. JobOK(j) /\ SameErrand(k, j) /\ j.stage = k.stage
    BY <1>1, Altered
  <2>2. Moves(a, "exitCheck", j) /\ pc[a] = "exitLook"
    BY <1>7, Moved DEF NothingToClose
  <2> HIDE DEF j
  <2>3. LeavingStep("exitCheck", j.stage)
    BY <1>2, <2>1, <2>2 DEF LeavingStep, Ordering
  <2> QED BY <1>2, <2>1, <2>2, <2>3, GoesOnwards
<1>8. CASE CloseHedge(a)
  <2>1. pc[a] = "hedgeLook" /\ LeavingStep("exitCheck", k.stage)
    BY <1>2, <1>8 DEF CloseHedge, LeavingStep, Ordering
  <2>2. CASE Goto(a, "exitCheck")
    BY <1>1, <1>2, <2>1, <2>2, Moved, GoesOnwards
  <2>3. ASSUME NEW q, GotoWith(a, "place", Order(k, "closeHedge", q))
        PROVE  \E step, j : Onwards(a, step, j)
    <3> DEFINE o == Order(k, "closeHedge", q)
    <3>1. JobOK(o) /\ SameErrand(k, o) /\ o.stage = "closeHedge"
      BY <1>3 DEF Stages, ExitStages
    <3>2. Moves(a, "place", o)
      BY <2>3, Moved
    <3> HIDE DEF o
    <3>3. LeavingStep("place", o.stage)
      BY <3>1 DEF LeavingStep, Ordering, ExitStages
    <3> QED BY <1>2, <2>1, <3>1, <3>2, <3>3, GoesOnwards
  <2> QED BY <1>8, <2>2, <2>3 DEF CloseHedge
<1>9. CASE OrderStep(a)
  BY <1>9, OrderGoesOnwards
<1> QED BY <1>4, <1>5, <1>6, <1>7, <1>8, <1>9 DEF BasketStep

-------------------------------------------------------------------------------
(* Moves of one actor that leave the row and the memory as they are.       *)

EnteringAt(step, stage) == EntryStep(step, stage) \/ step = "activate"

(* Whether an entry is underway does not change, nor whose it is.          *)
KeepsEntry(a, step, j) ==
    a = "roll" => /\ EnteringAt(step, j.stage) <=> Entering
                  /\ Entering => /\ j.setup = job["roll"].setup
                                 /\ step = "activate" <=> pc["roll"] = "activate"

(* What has to hold where the actor arrives.                               *)
Arrives(a, step, j) ==
    /\ step \in {"brokerCheck", "attempt", "contract"} => active = NoActive
    /\ step = "trail" => /\ active.status = "open" /\ active.setup = j.setup
                         /\ active.best = j.best
    /\ step = "contract" => rows[j.setup].status = "none" /\ j.setup \in attempts'
    /\ Leaving(step, j.stage) => /\ active.status = "open" /\ active.setup = j.setup
                                 /\ \A b \in Actors : b # a => ~Gone(b)
    /\ step = "clear" => ActiveRows = {}

LEMMA NoActiveFacts ==
    NoActive.status = "none" /\ NoActive.setup = NoSetup /\ NoActive.best = 0
BY DEF NoActive

LEMMA MoveKeepsRow ==
    ASSUME SwingType, RowInv, NEW a \in Actors, NEW step, NEW j, Moves(a, step, j),
           UNCHANGED <<rows, active, phase>>, attempts \subseteq attempts',
           KeepsEntry(a, step, j), Arrives(a, step, j)
    PROVE  RowInv'
<1>1. /\ pc'[a] = step /\ job'[a] = j
      /\ \A b \in Actors : b # a => pc'[b] = pc[b] /\ job'[b] = job[b]
  BY Moved DEF SwingType, Moves
<1>2. "roll" \in Actors /\ ActiveRows' = ActiveRows
  BY DEF Actors, ActiveRows
<1>3. /\ Entering' <=> Entering
      /\ Entering => /\ job'["roll"].setup = job["roll"].setup
                     /\ pc'["roll"] = "activate" <=> pc["roll"] = "activate"
  BY <1>1, <1>2 DEF KeepsEntry, Entering, EnteringAt
<1>4. OneRow' /\ MemoryAgrees' /\ Untrailed'
  BY <1>2 DEF RowInv, OneRow, MemoryAgrees, Untrailed
<1>5. RowInMind'
  BY <1>2, <1>3 DEF RowInv, RowInMind
<1>6. FromNothing'
  BY <1>1, <1>2, <1>3 DEF RowInv, FromNothing, Arrives
<1>7. ExitsActive'
  <2>1. ASSUME NEW b \in Actors
        PROVE  /\ b = a => (Gone(b)' <=> Leaving(step, j.stage))
               /\ b # a => (Gone(b)' <=> Gone(b))
    BY <1>1 DEF Gone
  <2>2. ASSUME NEW b \in Actors, Gone(b)'
        PROVE  active.status = "open" /\ job'[b].setup = active.setup
    BY <1>1, <2>1, <2>2 DEF Arrives, RowInv, ExitsActive
  <2>3. ASSUME NEW b \in Actors, NEW c \in Actors, Gone(b)', Gone(c)' PROVE b = c
    BY <2>1, <2>3 DEF Arrives, RowInv, ExitsActive
  <2>4. ASSUME NEW b \in Actors, pc'[b] = "clear" PROVE ActiveRows = {}
    BY <1>1, <2>4 DEF Arrives, RowInv, ExitsActive
  <2> QED BY <1>2, <2>2, <2>3, <2>4 DEF ExitsActive
<1>8. TrailsActive'
  BY <1>1, <1>2 DEF RowInv, TrailsActive, Arrives
<1>9. EntryRow'
  <2>1. pc'["roll"] = "contract" =>
            rows[job'["roll"].setup].status = "none" /\ job'["roll"].setup \in attempts'
    BY <1>1, <1>2 DEF RowInv, EntryRow, Arrives
  <2>2. pc'["roll"] = "activate" => Entering /\ pc["roll"] = "activate"
    BY <1>3 DEF Entering
  <2> QED BY <1>3, <2>1, <2>2 DEF RowInv, EntryRow
<1> QED BY <1>4, <1>5, <1>6, <1>7, <1>8, <1>9 DEF RowInv

LEMMA MoveKeepsDay ==
    ASSUME ActorsOK, DayInv, NEW a \in Actors, NEW step, NEW j, Moves(a, step, j),
           phase = "session", UNCHANGED <<phase, today>>,
           context' = context \/ context' = today,
           a = "roll" /\ step # "idle" => context' = today,
           a = "roll" /\ step = "brokerCheck" => \A d \in j.rest : d.date = today,
           a = "roll" /\ step \in {"attempt", "contract"} => j.setup.date = today
    PROVE  DayInv'
<1>1. /\ pc'[a] = step /\ job'[a] = j
      /\ \A b \in Actors : b # a => pc'[b] = pc[b] /\ job'[b] = job[b]
  BY Moved DEF Moves
<1>2. "roll" \in Actors
  BY DEF Actors
<1>3. OnlyInSession'
  BY DEF OnlyInSession
<1>4. OfToday'
  BY <1>1, <1>2 DEF DayInv, OfToday
<1> QED BY <1>3, <1>4 DEF DayInv

(* Nothing the invariants speak of moves at all.                           *)
LEMMA StandingStill ==
    ASSUME SwingType, DayInv, RowInv,
           UNCHANGED <<pc, job, rows, attempts, active, phase, today, context>>
    PROVE  SwingType' /\ DayInv' /\ RowInv'
<1>1. SwingType'
  BY DEF SwingType, ActorsOK, StoreOK
<1>2. DayInv'
  BY DEF DayInv, OnlyInSession, OfToday
<1>3. RowInv'
  BY DEF RowInv, OneRow, RowInMind, FromNothing, ExitsActive, TrailsActive, MemoryAgrees,
         EntryRow, Untrailed, ActiveRows, Entering, Gone
<1> QED BY <1>1, <1>2, <1>3

(* A step of the basket, in the types and the day.                         *)
LEMMA BasketShape ==
    ASSUME SwingType, DayInv, NEW a \in Actors, BasketStep(a),
           UNCHANGED <<recordVars, memoryVars, clockVars>>
    PROVE  SwingType' /\ DayInv'
<1>1. PICK step, j : Onwards(a, step, j)
  BY BasketGoesOnwards DEF SwingType
<1>2. /\ rows' = rows /\ attempts' = attempts /\ active' = active /\ phase' = phase
      /\ today' = today /\ context' = context
  BY DEF recordVars, memoryVars, clockVars
<1>3. SwingType'
  <2>1. ActorsOK'
    BY <1>1, MoveTyped DEF SwingType, Onwards
  <2> QED BY <1>2, <2>1 DEF SwingType, StoreOK
<1>4. pc[a] # "idle" /\ step \notin Looking
  BY <1>1 DEF Onwards, EntryStep, LeavingStep, Ordering, Looking
<1>5. phase = "session" /\ (a = "roll" => context = today)
  BY <1>4 DEF DayInv, OnlyInSession, OfToday
<1>6. DayInv'
  BY <1>1, <1>2, <1>4, <1>5, MoveKeepsDay DEF SwingType, Onwards, Looking
<1> QED BY <1>3, <1>6

LEMMA BasketKeeps ==
    ASSUME SwingType, DayInv, RowInv, NEW a \in Actors, BasketStep(a),
           UNCHANGED <<recordVars, memoryVars, clockVars>>
    PROVE  SwingType' /\ DayInv' /\ RowInv'
<1>1. PICK step, j : Onwards(a, step, j)
  BY BasketGoesOnwards DEF SwingType
<1>2. /\ rows' = rows /\ attempts' = attempts /\ active' = active /\ phase' = phase
      /\ today' = today /\ context' = context
  BY DEF recordVars, memoryVars, clockVars
<1>3. SwingType' /\ DayInv'
  BY BasketShape
<1>4. /\ pc[a] \notin {"idle", "lock", "clear"} /\ pc[a] \notin Looking
      /\ step \notin {"idle", "lock", "clear"} /\ step \notin Looking
  BY <1>1 DEF Onwards, EntryStep, LeavingStep, Ordering, Looking
<1>7. RowInv'
  <2>1. KeepsEntry(a, step, j)
    BY <1>1, <1>4 DEF Onwards, KeepsEntry, EnteringAt, Entering, EntryStep, LeavingStep,
                      Ordering, Looking, EntryStages, ExitStages, SameErrand
  <2>2. Leaving(step, j.stage) => Gone(a)
    BY <1>1, <1>4 DEF Onwards, Gone, Leaving, EntryStep, LeavingStep, Ordering, EntryStages, ExitStages
  <2>3. Arrives(a, step, j)
    BY <1>1, <1>4, <2>2 DEF Arrives, Looking, RowInv, ExitsActive, Onwards, SameErrand
  <2> QED BY <1>1, <1>2, <2>1, <2>3, MoveKeepsRow DEF Onwards
<1> QED BY <1>3, <1>7

LEMMA MoveKeeps ==
    ASSUME SwingType, DayInv, NEW a \in Actors, NEW step \in Places, NEW j,
           Moves(a, step, j), JobOK(j), PlaceOK(a, step, j),
           phase = "session", UNCHANGED <<rows, active, phase, today>>,
           attempts' \in SUBSET Setups, attempts \subseteq attempts',
           context' = context \/ context' = today,
           a = "roll" /\ step # "idle" => context' = today,
           a = "roll" /\ step = "brokerCheck" => \A d \in j.rest : d.date = today,
           a = "roll" /\ step \in {"attempt", "contract"} => j.setup.date = today,
           RowInv => KeepsEntry(a, step, j) /\ Arrives(a, step, j)
    PROVE  SwingType' /\ DayInv' /\ (RowInv => RowInv')
<1>1. ActorsOK'
  BY MoveTyped DEF SwingType
<1>2. StoreOK'
  BY DEF SwingType, StoreOK
<1>3. DayInv'
  BY MoveKeepsDay DEF SwingType
<1>4. RowInv => RowInv'
  BY MoveKeepsRow
<1> QED BY <1>1, <1>2, <1>3, <1>4 DEF SwingType

LEMMA NoJobOK ==
    /\ JobOK(NoJob) /\ NoJob.setup = NoSetup /\ NoJob.rest = {} /\ NoJob.best = 0
    /\ NoJob.stage = "none" /\ NoJob.after = "idle"
BY LevelAssumption DEF NoJob, JobOK, JobFields, Stages

LEMMA AtWork ==
    ASSUME SwingType, DayInv, NEW a \in Actors, pc[a] # "idle"
    PROVE  phase = "session" /\ JobOK(job[a]) /\ PlaceOK(a, pc[a], job[a])
           /\ (a = "roll" => context = today)
BY DEF SwingType, ActorsOK, DayInv, OnlyInSession, OfToday

(* Steps that no entry and no exit is part of, on either side.             *)
Plain(step) == step \in {"idle", "lock", "trail", "choose", "brokerCheck", "attempt",
                         "contract", "finish"}

LEMMA PlainSteps ==
    ASSUME NEW step, Plain(step), NEW stage
    PROVE  /\ step \in Places /\ ~EnteringAt(step, stage) /\ ~Leaving(step, stage)
           /\ step # "clear" /\ ~EntryStep(step, stage)
BY DEF Plain, Places, Looking, EnteringAt, EntryStep, Leaving, LeavingStep, Ordering, LockedSteps

LEMMA PlainEntry ==
    ASSUME NEW a \in Actors, NEW step, NEW j, Plain(step), Plain(pc[a])
    PROVE  KeepsEntry(a, step, j)
<1>1. a = "roll" => ~Entering
  BY PlainSteps DEF Entering, EnteringAt
<1> QED BY <1>1, PlainSteps DEF KeepsEntry

LEMMA CloseBucketKeeps ==
    ASSUME SwingType, DayInv, CloseBucket
    PROVE  SwingType' /\ DayInv' /\ (RowInv => RowInv')
<1> DEFINE k == job["roll"]
           t == [k EXCEPT !.setup = active.setup, !.best = active.best]
<1>1. /\ "roll" \in Actors /\ phase = "session" /\ pc["roll"] = "idle" /\ context' = today
      /\ UNCHANGED <<rows, attempts, active, phase, today>>
  BY DEF CloseBucket, ContextOfTheDay, recordVars, memoryVars, Actors
<1>2. JobOK(k) /\ attempts \in SUBSET Setups
  BY <1>1 DEF SwingType, ActorsOK, StoreOK
<1>3. Plain(pc["roll"]) /\ Plain("trail") /\ Plain("choose")
  BY <1>1 DEF Plain
<1>4. CASE active.status = "open" /\ GotoWith("roll", "trail", t)
  <2>1. /\ JobOK(t) /\ t.setup = active.setup /\ t.best = active.best
        /\ active.setup \in Setups
    BY <1>2, <1>4 DEF SwingType, StoreOK, JobOK, JobFields
  <2>2. Moves("roll", "trail", t)
    BY <1>1, <1>4, Moved DEF SwingType
  <2> HIDE DEF t
  <2>3. PlaceOK("roll", "trail", t)
    BY <2>1 DEF PlaceOK, Looking
  <2>4. Arrives("roll", "trail", t)
    BY <1>3, <1>4, <2>1, PlainSteps DEF Arrives
  <2>5. KeepsEntry("roll", "trail", t)
    BY <1>1, <1>3, PlainEntry
  <2> QED BY <1>1, <1>2, <1>3, <2>1, <2>2, <2>3, <2>4, <2>5, PlainSteps, MoveKeeps
<1>5. CASE Goto("roll", "choose")
  <2>1. Moves("roll", "choose", k)
    BY <1>1, <1>5, Moved DEF SwingType
  <2>2. PlaceOK("roll", "choose", k)
    BY <1>1 DEF PlaceOK, Looking
  <2>3. Arrives("roll", "choose", k)
    BY <1>3, PlainSteps DEF Arrives
  <2>4. KeepsEntry("roll", "choose", k)
    BY <1>1, <1>3, PlainEntry
  <2> HIDE DEF k
  <2> QED BY <1>1, <1>2, <1>3, <2>1, <2>2, <2>3, <2>4, PlainSteps, MoveKeeps
<1> QED BY <1>4, <1>5 DEF CloseBucket

(* "roll" goes idle, or on to where nothing is asked of it.                *)
LEMMA RollRests ==
    ASSUME SwingType, DayInv, Plain(pc["roll"]), pc["roll"] # "idle",
           NEW step \in {"idle", "finish"}, NEW j, JobOK(j), Moves("roll", step, j),
           UNCHANGED <<rows, active, phase, today, context>>,
           attempts' \in SUBSET Setups, attempts \subseteq attempts'
    PROVE  SwingType' /\ DayInv' /\ (RowInv => RowInv')
<1>1. "roll" \in Actors
  BY DEF Actors
<1>2. Plain(step) /\ PlaceOK("roll", step, j)
  BY DEF Plain, PlaceOK, Looking
<1>3. phase = "session" /\ context = today
  BY <1>1, AtWork
<1>4. Arrives("roll", step, j)
  BY <1>2, PlainSteps DEF Arrives
<1>5. KeepsEntry("roll", step, j)
  BY <1>1, <1>2, PlainEntry
<1> QED BY <1>1, <1>2, <1>3, <1>4, <1>5, PlainSteps, MoveKeeps

LEMMA ChooseKeeps ==
    ASSUME SwingType, DayInv, Choose
    PROVE  SwingType' /\ DayInv' /\ (RowInv => RowInv')
<1>1. /\ "roll" \in Actors /\ pc["roll"] = "choose" /\ Plain(pc["roll"])
      /\ UNCHANGED <<rows, active, phase, today, context>>
  BY DEF Choose, memoryVars, clockVars, Actors, Plain
<1>2. phase = "session" /\ context = today /\ attempts \in SUBSET Setups
  BY <1>1, AtWork DEF SwingType, StoreOK
<1>3. PICK confirmed \in SUBSET Unattempted :
          \/ GotoWith("roll", "idle", NoJob)
                /\ (UNCHANGED attempts \/ attempts' = attempts \cup confirmed)
          \/ /\ active = NoActive /\ UNCHANGED attempts
             /\ GotoWith("roll", "brokerCheck", [NoJob EXCEPT !.rest = confirmed])
  BY DEF Choose
<1>4. confirmed \in SUBSET Setups /\ \A d \in confirmed : d.date = today
  BY <1>2 DEF Unattempted, ContextSetups
<1>5. CASE GotoWith("roll", "idle", NoJob)
                /\ (UNCHANGED attempts \/ attempts' = attempts \cup confirmed)
  BY <1>1, <1>2, <1>4, <1>5, Moved, NoJobOK, RollRests DEF SwingType
<1>6. CASE /\ active = NoActive /\ UNCHANGED attempts
           /\ GotoWith("roll", "brokerCheck", [NoJob EXCEPT !.rest = confirmed])
  <2> DEFINE j == [NoJob EXCEPT !.rest = confirmed]
  <2>1. JobOK(j) /\ j.rest = confirmed
    BY <1>4, NoJobOK DEF JobOK, JobFields
  <2>2. Moves("roll", "brokerCheck", j)
    BY <1>1, <1>6, Moved DEF SwingType
  <2> HIDE DEF j
  <2>3. Plain("brokerCheck") /\ PlaceOK("roll", "brokerCheck", j)
    BY DEF PlaceOK, Looking, Plain
  <2>4. Arrives("roll", "brokerCheck", j)
    BY <1>6, <2>3, PlainSteps DEF Arrives
  <2>5. KeepsEntry("roll", "brokerCheck", j)
    BY <1>1, <2>3, PlainEntry
  <2> QED BY <1>1, <1>2, <1>4, <1>6, <2>1, <2>2, <2>3, <2>4, <2>5, PlainSteps, MoveKeeps
<1> QED BY <1>3, <1>5, <1>6

LEMMA BrokerCheckKeeps ==
    ASSUME SwingType, DayInv, BrokerCheck
    PROVE  SwingType' /\ DayInv' /\ (RowInv => RowInv')
<1> DEFINE k == job["roll"]
<1>1. /\ "roll" \in Actors /\ pc["roll"] = "brokerCheck" /\ Plain(pc["roll"])
      /\ UNCHANGED <<rows, active, phase, today, context>>
  BY DEF BrokerCheck, memoryVars, clockVars, Actors, Plain
<1>2. /\ phase = "session" /\ context = today /\ attempts \in SUBSET Setups
      /\ JobOK(k) /\ k.rest \in SUBSET Setups
  BY <1>1, AtWork DEF SwingType, StoreOK, JobOK
<1>3. \A d \in k.rest : d.date = today
  BY <1>1 DEF DayInv, OfToday
<1>4. RowInv => active = NoActive
  BY <1>1 DEF RowInv, FromNothing
<1>5. CASE GotoWith("roll", "idle", NoJob) /\ attempts' = attempts \cup k.rest
  BY <1>1, <1>2, <1>5, Moved, NoJobOK, RollRests DEF SwingType
<1>6. ASSUME NEW d \in k.rest,
             GotoWith("roll", "attempt", [k EXCEPT !.setup = d, !.rest = @ \ {d},
                                                   !.contract = d.contract, !.side = d.side]),
             UNCHANGED attempts
      PROVE  SwingType' /\ DayInv' /\ (RowInv => RowInv')
  <2> DEFINE j == [k EXCEPT !.setup = d, !.rest = @ \ {d},
                            !.contract = d.contract, !.side = d.side]
  <2>1. JobOK(j) /\ j.setup = d
    BY <1>2 DEF JobOK, JobFields
  <2>2. Moves("roll", "attempt", j)
    BY <1>1, <1>6, Moved DEF SwingType
  <2> HIDE DEF j
  <2>3. Plain("attempt") /\ PlaceOK("roll", "attempt", j)
    BY <1>2, <2>1 DEF PlaceOK, Looking, Plain
  <2>4. RowInv => Arrives("roll", "attempt", j)
    BY <1>4, <2>3, PlainSteps DEF Arrives
  <2>5. KeepsEntry("roll", "attempt", j)
    BY <1>1, <2>3, PlainEntry
  <2> HIDE DEF k
  <2> QED BY <1>1, <1>2, <1>3, <1>6, <2>1, <2>2, <2>3, <2>4, <2>5, PlainSteps, MoveKeeps
<1> QED BY <1>5, <1>6 DEF BrokerCheck

LEMMA AttemptKeeps ==
    ASSUME SwingType, DayInv, Attempt
    PROVE  SwingType' /\ DayInv' /\ (RowInv => RowInv')
<1> DEFINE k == job["roll"]
<1>1. /\ "roll" \in Actors /\ pc["roll"] = "attempt" /\ Plain(pc["roll"])
      /\ attempts' = attempts \cup {k.setup}
      /\ Goto("roll", IF k.setup \in attempts THEN "finish" ELSE "contract")
      /\ UNCHANGED <<rows, active, phase, today, context>>
  BY DEF Attempt, memoryVars, clockVars, Actors, Plain
<1>2. /\ phase = "session" /\ context = today /\ JobOK(k) /\ PlaceOK("roll", pc["roll"], k)
      /\ attempts \in SUBSET Setups
  BY <1>1, AtWork DEF SwingType, StoreOK
<1>3. k.setup \in Setups /\ k.setup.date = today /\ (RowInv => active = NoActive)
  BY <1>1, <1>2 DEF PlaceOK, DayInv, OfToday, RowInv, FromNothing
<1>4. CASE k.setup \in attempts
  BY <1>1, <1>2, <1>3, <1>4, Moved, RollRests DEF SwingType
<1>5. CASE k.setup \notin attempts
  <2>1. Moves("roll", "contract", k)
    BY <1>1, <1>5, Moved DEF SwingType
  <2>2. Plain("contract") /\ PlaceOK("roll", "contract", k)
    BY <1>3 DEF PlaceOK, Looking, Plain
  <2>3. RowInv => rows[k.setup].status = "none" /\ k.setup \in attempts'
    BY <1>1, <1>3, <1>5 DEF RowInv, Untrailed
  <2>4. RowInv => Arrives("roll", "contract", k)
    BY <1>3, <2>2, <2>3, PlainSteps DEF Arrives
  <2>5. KeepsEntry("roll", "contract", k)
    BY <1>1, <2>2, PlainEntry
  <2> HIDE DEF k
  <2> QED BY <1>1, <1>2, <1>3, <2>1, <2>2, <2>4, <2>5, PlainSteps, MoveKeeps
<1> QED BY <1>4, <1>5

LEMMA DeclineKeeps ==
    ASSUME SwingType, DayInv, Decline
    PROVE  SwingType' /\ DayInv' /\ (RowInv => RowInv')
<1>1. /\ "roll" \in Actors /\ pc["roll"] = "contract" /\ Plain(pc["roll"])
      /\ Goto("roll", "finish")
      /\ UNCHANGED <<rows, attempts, active, phase, today, context>>
  BY DEF Decline, recordVars, memoryVars, clockVars, Actors, Plain
<1>2. JobOK(job["roll"]) /\ attempts \in SUBSET Setups
  BY <1>1, AtWork DEF SwingType, StoreOK
<1> QED BY <1>1, <1>2, Moved, RollRests DEF SwingType

LEMMA FinishKeeps ==
    ASSUME SwingType, DayInv, Finish
    PROVE  SwingType' /\ DayInv' /\ (RowInv => RowInv')
<1>1. /\ "roll" \in Actors /\ pc["roll"] = "finish" /\ Plain(pc["roll"])
      /\ attempts' = attempts \cup job["roll"].rest /\ GotoWith("roll", "idle", NoJob)
      /\ UNCHANGED <<rows, active, phase, today, context>>
  BY DEF Finish, memoryVars, clockVars, Actors, Plain
<1>2. job["roll"].rest \in SUBSET Setups /\ attempts \in SUBSET Setups
  BY <1>1, AtWork DEF SwingType, StoreOK, JobOK
<1> QED BY <1>1, <1>2, NoJobOK, Moved, RollRests DEF SwingType

-------------------------------------------------------------------------------
(* The exit, by either actor.                                              *)

LEMMA Returns ==
    ASSUME ActorsOK, NEW a \in Actors, Return(a)
    PROVE  \E step \in {"idle", "choose", "finish"} :
              Moves(a, step, NoJob) /\ Plain(step) /\ PlaceOK(a, step, NoJob)
<1>1. JobOK(job[a]) /\ PlaceOK(a, pc[a], job[a])
  BY DEF ActorsOK
<1>2. /\ job[a].after \in {"idle", "choose", "finish"}
      /\ a = "tick" => job[a].after = "idle"
      /\ a = "roll" \/ a = "tick"
  BY <1>1 DEF JobOK, PlaceOK, Actors
<1>3. Moves(a, job[a].after, NoJob)
  BY Moved DEF Return
<1>4. Plain(job[a].after)
  BY <1>2 DEF Plain
<1>5. PlaceOK(a, job[a].after, NoJob)
  BY <1>2, NoJobOK DEF PlaceOK, Looking
<1> QED BY <1>2, <1>3, <1>4, <1>5

LEMMA ReturnKeeps ==
    ASSUME SwingType, DayInv, NEW a \in Actors, pc[a] \in {"lock", "exitCheck"},
           Return(a), UNCHANGED <<rows, attempts, active, phase, today, context>>
    PROVE  SwingType' /\ DayInv' /\ (RowInv => RowInv')
<1>1. PICK step \in {"idle", "choose", "finish"} :
          Moves(a, step, NoJob) /\ Plain(step) /\ PlaceOK(a, step, NoJob)
  BY Returns DEF SwingType
<1>2. phase = "session" /\ (a = "roll" => context = today) /\ attempts \in SUBSET Setups
  BY AtWork DEF SwingType, StoreOK
<1>3. KeepsEntry(a, step, NoJob)
  BY <1>1, PlainSteps DEF KeepsEntry, Entering, EntryStep, Ordering
<1>4. Arrives(a, step, NoJob)
  BY <1>1, PlainSteps DEF Arrives
<1> QED BY <1>1, <1>2, <1>3, <1>4, NoJobOK, PlainSteps, MoveKeeps

LEMMA TickExitKeeps ==
    ASSUME SwingType, DayInv, TickExit
    PROVE  SwingType' /\ DayInv' /\ (RowInv => RowInv')
<1>1. /\ "tick" \in Actors /\ phase = "session" /\ pc["tick"] = "idle" /\ Goto("tick", "lock")
      /\ UNCHANGED <<rows, attempts, active, phase, today, context>>
  BY DEF TickExit, recordVars, memoryVars, clockVars, Actors
<1>2. Plain("lock") /\ Plain(pc["tick"])
  BY <1>1 DEF Plain
<1>3. /\ JobOK(job["tick"]) /\ PlaceOK("tick", pc["tick"], job["tick"])
      /\ attempts \in SUBSET Setups
  BY <1>1 DEF SwingType, ActorsOK, StoreOK
<1>4. PlaceOK("tick", "lock", job["tick"]) /\ Moves("tick", "lock", job["tick"])
  BY <1>1, <1>3, Moved DEF PlaceOK, SwingType
<1>5. KeepsEntry("tick", "lock", job["tick"]) /\ Arrives("tick", "lock", job["tick"])
  BY <1>1, <1>2, PlainSteps DEF Arrives, KeepsEntry
<1> QED BY <1>1, <1>2, <1>3, <1>4, <1>5, PlainSteps, MoveKeeps

LEMMA TakeExitLockKeeps ==
    ASSUME SwingType, DayInv, NEW a \in Actors, TakeExitLock(a)
    PROVE  SwingType' /\ DayInv' /\ (RowInv => RowInv')
<1> DEFINE k == job[a]
           j == [k EXCEPT !.setup = active.setup, !.stage = "none"]
<1>1. /\ pc[a] = "lock" /\ \A b \in Actors : ~InExit(b)
      /\ UNCHANGED <<rows, attempts, active, phase, today, context>>
  BY DEF TakeExitLock, recordVars, clockVars
<1>2. /\ phase = "session" /\ (a = "roll" => context = today) /\ attempts \in SUBSET Setups
      /\ JobOK(k) /\ PlaceOK(a, pc[a], k)
  BY <1>1, AtWork DEF SwingType, StoreOK
<1>3. CASE active.status = "open" /\ GotoWith(a, "exitLook", j)
  <2>1. JobOK(j) /\ j.setup = active.setup /\ j.stage = "none" /\ j.after = k.after
    BY <1>2 DEF JobOK, JobFields, Stages, SwingType, StoreOK
  <2>2. Moves(a, "exitLook", j) /\ active.setup \in Setups
    BY <1>3, Moved DEF SwingType, StoreOK
  <2>3. Leaving("exitLook", j.stage) /\ ~EnteringAt("exitLook", j.stage)
    BY <2>1 DEF Leaving, LeavingStep, EntryStages, EnteringAt, EntryStep, Ordering
  <2>4. PlaceOK(a, "exitLook", j)
    BY <1>2, <2>1, <2>2, <2>3 DEF PlaceOK
  <2>5. ASSUME NEW b \in Actors PROVE ~Gone(b)
    <3>1. Gone(b) => InExit(b)
      BY DEF Gone, Leaving, LeavingStep, InExit, LockedSteps, Ordering, EntryStages, ExitStages
    <3> QED BY <1>1, <3>1
  <2>6. Arrives(a, "exitLook", j)
    BY <1>3, <2>1, <2>5 DEF Arrives
  <2>7. KeepsEntry(a, "exitLook", j)
    BY <1>1, <2>3 DEF KeepsEntry, Entering, EntryStep, Ordering
  <2>8. "exitLook" \in Places
    BY DEF Places, LockedSteps
  <2> HIDE DEF j
  <2> QED BY <1>1, <1>2, <2>1, <2>2, <2>4, <2>6, <2>7, <2>8, MoveKeeps
<1>4. CASE Return(a)
  BY <1>1, <1>4, ReturnKeeps
<1> QED BY <1>3, <1>4 DEF TakeExitLock

LEMMA ExitIncompleteKeeps ==
    ASSUME SwingType, DayInv, NEW a \in Actors, ExitIncomplete(a)
    PROVE  SwingType' /\ DayInv' /\ (RowInv => RowInv')
<1>1. /\ pc[a] = "exitCheck" /\ Return(a)
      /\ UNCHANGED <<rows, attempts, active, phase, today, context>>
  BY DEF ExitIncomplete, recordVars, clockVars
<1> QED BY <1>1, ReturnKeeps

(* The types and the day, when the row is written too.                     *)
LEMMA MoveKeepsShape ==
    ASSUME SwingType, DayInv, NEW a \in Actors, NEW step \in Places, NEW j,
           Moves(a, step, j), JobOK(j), PlaceOK(a, step, j), StoreOK',
           phase = "session", UNCHANGED <<phase, today, context>>,
           step \notin {"brokerCheck", "attempt", "contract"},
           a = "roll" => context = today
    PROVE  SwingType' /\ DayInv'
BY MoveTyped, MoveKeepsDay DEF SwingType

LEMMA StatusTyped ==
    ASSUME StoreOK, NEW D, NEW status \in {"closed", "rejected"} \cup ActiveStatuses,
           SetStatus(D, status)
    PROVE  rows' \in [Setups -> Row]
<1>1. ASSUME NEW d \in Setups
      PROVE  (IF d \in D THEN [rows[d] EXCEPT !.status = status] ELSE rows[d]) \in Row
  BY DEF StoreOK, Row
<1> QED BY <1>1 DEF SetStatus

LEMMA MemoryTyped ==
    ASSUME NEW d \in Setups, NEW status \in ActiveStatuses, NEW best \in Levels
    PROVE  LET m == [setup |-> d, status |-> status, best |-> best]
           IN  /\ m \in [setup : Setups \cup {NoSetup}, status : {"none"} \cup ActiveStatuses,
                         best : Levels]
               /\ m # NoActive /\ m.status # "none" /\ m.setup \in Setups
BY SetupAssumption DEF NoActive, ActiveStatuses

LEMMA NoMemoryTyped ==
    NoActive \in [setup : Setups \cup {NoSetup}, status : {"none"} \cup ActiveStatuses,
                  best : Levels]
BY LevelAssumption DEF NoActive

LEMMA CloseRowShape ==
    ASSUME SwingType, DayInv, NEW a \in Actors, CloseRow(a)
    PROVE  SwingType' /\ DayInv'
<1> DEFINE k == job[a]
<1>1. /\ pc[a] = "exitCheck" /\ Goto(a, "clear") /\ UNCHANGED <<attempts, active, phase, today, context>>
      /\ \E D : SetStatus(D, "closed")
  BY DEF CloseRow, memoryVars, clockVars
<1>2. /\ phase = "session" /\ (a = "roll" => context = today)
      /\ JobOK(k) /\ PlaceOK(a, pc[a], k) /\ Moves(a, "clear", k)
  BY <1>1, AtWork, Moved DEF SwingType
<1>3. PlaceOK(a, "clear", k) /\ "clear" \in Places
  BY <1>1, <1>2 DEF PlaceOK, Places, LockedSteps, Leaving, LeavingStep, Looking, EntryStep, Ordering
<1>4. StoreOK'
  BY <1>1, StatusTyped DEF SwingType, StoreOK
<1> HIDE DEF k
<1> QED BY <1>1, <1>2, <1>3, <1>4, MoveKeepsShape

LEMMA ClearActiveShape ==
    ASSUME SwingType, DayInv, NEW a \in Actors, ClearActive(a)
    PROVE  SwingType' /\ DayInv'
<1>1. /\ pc[a] = "clear" /\ active' = NoActive /\ Return(a)
      /\ UNCHANGED <<rows, attempts, phase, today, context>>
  BY DEF ClearActive, recordVars, clockVars
<1>2. PICK step \in {"idle", "choose", "finish"} :
          Moves(a, step, NoJob) /\ Plain(step) /\ PlaceOK(a, step, NoJob)
  BY <1>1, Returns DEF SwingType
<1>3. phase = "session" /\ (a = "roll" => context = today)
  BY <1>1, AtWork
<1>4. StoreOK'
  BY <1>1, NoMemoryTyped, NoActiveFacts DEF SwingType, StoreOK
<1> QED BY <1>1, <1>2, <1>3, <1>4, NoJobOK, PlainSteps, MoveKeepsShape

(* The rows of a sym that are open: none but the one of the active setup.  *)
LEMMA CloseRowKeeps ==
    ASSUME SwingType, DayInv, RowInv, NEW a \in Actors, CloseRow(a)
    PROVE  SwingType' /\ DayInv' /\ RowInv'
<1> DEFINE k == job[a]
           D == {d \in Setups : d.sym = k.setup.sym /\ rows[d].status = "open"}
<1>1. /\ pc[a] = "exitCheck" /\ SetStatus(D, "closed") /\ Goto(a, "clear")
      /\ UNCHANGED <<attempts, active, phase, today, context>>
  BY DEF CloseRow, memoryVars, clockVars
<1>2. /\ phase = "session" /\ (a = "roll" => context = today)
      /\ JobOK(k) /\ PlaceOK(a, pc[a], k) /\ Moves(a, "clear", k)
  BY <1>1, AtWork, Moved DEF SwingType
<1>3. Gone(a) /\ Leaving("clear", k.stage) /\ k.stage \notin EntryStages
  BY <1>1, <1>2 DEF PlaceOK, Gone, Leaving, LeavingStep, Looking, EntryStep, Ordering
<1>4. active.status = "open" /\ k.setup = active.setup /\ active # NoActive /\ ~Entering
  BY <1>3, NoActiveFacts DEF RowInv, ExitsActive, FromNothing
<1>5. rows \in [Setups -> Row] /\ active.setup \in Setups
  BY <1>4 DEF SwingType, StoreOK
<1>6. \A d \in Setups : rows'[d] = IF d \in D THEN [rows[d] EXCEPT !.status = "closed"] ELSE rows[d]
  BY <1>1 DEF SetStatus
<1>7. /\ \A d \in D : rows'[d] = [status |-> "closed", best |-> rows[d].best]
      /\ rows' \in [Setups -> Row]
  BY <1>1, <1>5, <1>6 DEF SetStatus, Row
<1>8. ActiveRows' = {}
  <2>1. ASSUME NEW d \in Setups, rows'[d].status \in ActiveStatuses PROVE FALSE
    <3>1. d \notin D /\ rows'[d] = rows[d]
      BY <1>6, <1>7, <2>1 DEF ActiveStatuses
    <3>2. d \in ActiveRows
      BY <2>1, <3>1 DEF ActiveRows
    <3>3. d = active.setup
      BY <1>2, <1>4, <3>2 DEF RowInv, RowInMind
    <3>4. rows[d].status = "open"
      BY <1>4, <3>2, <3>3 DEF RowInv, MemoryAgrees, ActiveRows, ActiveStatuses
    <3> QED BY <1>4, <3>1, <3>3, <3>4
  <2> QED BY <2>1 DEF ActiveRows
<1>9. /\ pc'[a] = "clear" /\ job'[a] = k
      /\ \A b \in Actors : b # a => pc'[b] = pc[b] /\ job'[b] = job[b]
      /\ "roll" \in Actors
  BY <1>2, Moved DEF Moves, SwingType, Actors
<1>10. SwingType' /\ DayInv'
  BY CloseRowShape
<1>12. ~Entering'
  <2>1. a = "roll" => ~Entering'
    BY <1>9 DEF Entering, EntryStep, Ordering
  <2>2. a # "roll" => ~Entering'
    BY <1>4, <1>9 DEF Entering
  <2> QED BY <2>1, <2>2
<1>13. OneRow' /\ RowInMind'
  BY <1>8 DEF OneRow, RowInMind
<1>14. pc'["roll"] \notin {"brokerCheck", "attempt", "contract", "activate"}
  BY <1>4, <1>9 DEF RowInv, FromNothing, Entering
<1>15. FromNothing'
  BY <1>12, <1>14 DEF FromNothing
<1>16. ExitsActive'
  <2>1. \A b \in Actors : Gone(b)' => Gone(b)
    BY <1>3, <1>9 DEF Gone
  <2>2. \A b \in Actors : Gone(b)' => active'.status = "open" /\ job'[b].setup = active'.setup
    BY <1>1, <1>9, <2>1 DEF RowInv, ExitsActive
  <2> QED BY <1>8, <2>1, <2>2 DEF RowInv, ExitsActive
<1>17. TrailsActive'
  BY <1>1, <1>9 DEF RowInv, TrailsActive
<1>18. MemoryAgrees'
  <2>1. active'.setup \notin ActiveRows'
    BY <1>8
  <2>2. rows'[active'.setup].status # "entering"
    BY <1>1, <1>5, <1>8 DEF ActiveRows, ActiveStatuses
  <2> QED BY <1>1, <1>4, <2>1, <2>2 DEF MemoryAgrees
<1>19. EntryRow'
  BY <1>12, <1>14 DEF EntryRow
<1>20. Untrailed'
  <2>1. ASSUME NEW d \in Setups
        PROVE  /\ rows'[d].status \in {"none", "entering"} => rows'[d].best = 0
               /\ rows'[d].status # "none" => d \in attempts'
    <3>1. CASE d \in D
      BY <1>1, <1>7, <3>1 DEF RowInv, Untrailed
    <3>2. CASE d \notin D
      BY <1>1, <1>6, <3>2 DEF RowInv, Untrailed
    <3> QED BY <3>1, <3>2
  <2> QED BY <2>1 DEF Untrailed
<1> QED BY <1>10, <1>13, <1>15, <1>16, <1>17, <1>18, <1>19, <1>20 DEF RowInv

LEMMA ClearActiveKeeps ==
    ASSUME SwingType, DayInv, RowInv, NEW a \in Actors, ClearActive(a)
    PROVE  SwingType' /\ DayInv' /\ RowInv'
<1>1. /\ pc[a] = "clear" /\ active' = NoActive /\ Return(a)
      /\ UNCHANGED <<rows, attempts, phase, today, context>>
  BY DEF ClearActive, recordVars, clockVars
<1>2. PICK step \in {"idle", "choose", "finish"} :
          Moves(a, step, NoJob) /\ Plain(step) /\ PlaceOK(a, step, NoJob)
  BY <1>1, Returns DEF SwingType
<1>3. /\ phase = "session" /\ (a = "roll" => context = today)
      /\ PlaceOK(a, pc[a], job[a])
  BY <1>1, AtWork
<1>4. ActiveRows = {} /\ ActiveRows' = {} /\ Gone(a)
  BY <1>1, <1>3 DEF RowInv, ExitsActive, ActiveRows, PlaceOK, Gone, Looking, EntryStep, Ordering
<1>5. active.status = "open" /\ active # NoActive /\ ~Entering
  BY <1>4, NoActiveFacts DEF RowInv, ExitsActive, FromNothing
<1>6. /\ pc'[a] = step /\ job'[a] = NoJob
      /\ \A b \in Actors : b # a => pc'[b] = pc[b] /\ job'[b] = job[b]
      /\ "roll" \in Actors
  BY <1>2, Moved DEF Moves, SwingType, Actors
<1>7. SwingType' /\ DayInv'
  BY ClearActiveShape
<1>9. ~Entering' /\ pc'["roll"] # "activate" /\ pc'["roll"] # "contract"
  <2>1. CASE a = "roll"
    BY <1>2, <1>6, <2>1, PlainSteps DEF Entering, EnteringAt
  <2>2. CASE a # "roll"
    BY <1>5, <1>6, <2>2 DEF Entering, RowInv, FromNothing
  <2> QED BY <2>1, <2>2
<1>10. OneRow' /\ RowInMind'
  BY <1>4 DEF OneRow, RowInMind
<1>11. FromNothing' /\ TrailsActive'
  BY <1>1 DEF FromNothing, TrailsActive
<1>12. ExitsActive'
  <2>1. ASSUME NEW b \in Actors PROVE ~Gone(b)'
    <3>1. CASE b = a
      BY <1>2, <1>6, <3>1, PlainSteps DEF Gone
    <3>2. CASE b # a
      BY <1>4, <1>6, <3>2 DEF Gone, RowInv, ExitsActive
    <3> QED BY <3>1, <3>2
  <2> QED BY <1>4, <2>1 DEF ExitsActive
<1>13. MemoryAgrees'
  BY <1>1, <1>4, NoActiveFacts DEF MemoryAgrees
<1>14. EntryRow'
  BY <1>9 DEF EntryRow
<1>15. Untrailed'
  BY <1>1 DEF RowInv, Untrailed
<1> QED BY <1>7, <1>10, <1>11, <1>12, <1>13, <1>14, <1>15 DEF RowInv

-------------------------------------------------------------------------------
(* The entry, and the trail.                                               *)

StepOf(status) == CASE status = "entering" -> "gate"
                    [] status = "open" -> "activate"
                    [] status = "rejected" -> "finish"

LEMMA LargerOfTwo ==
    ASSUME NEW x \in Int, NEW y \in Int
    PROVE  Max({x, y}) = IF x >= y THEN x ELSE y
<1> DEFINE m == IF x >= y THEN x ELSE y
<1>1. m \in {x, y} /\ \A z \in {x, y} : m >= z
  OBVIOUS
<1>2. \A n \in {x, y} : (\A z \in {x, y} : n >= z) => n = m
  OBVIOUS
<1> HIDE DEF m
<1>3. Max({x, y}) \in {x, y} /\ \A z \in {x, y} : Max({x, y}) >= z
  BY <1>1 DEF Max
<1>4. Max({x, y}) = m
  BY <1>2, <1>3
<1> QED BY <1>4 DEF m

LEMMA BestOfLevels ==
    ASSUME NEW x \in Levels, NEW y \in Levels
    PROVE  BestClose(x, y) \in Levels /\ BestClose(x, y) >= x
<1>1. x \in Int /\ y \in Int
  BY LevelAssumption
<1>2. BestClose(x, y) = IF x >= y THEN x ELSE y
  BY <1>1, LargerOfTwo DEF BestClose
<1> QED BY <1>1, <1>2

LEMMA EntryRowShape ==
    ASSUME SwingType, DayInv, pc["roll"] \in {"contract", "settle"},
           NEW status \in {"entering", "open", "rejected"},
           SetStatus({job["roll"].setup}, status), Goto("roll", StepOf(status)),
           UNCHANGED <<attempts, active, phase, today, context>>
    PROVE  SwingType' /\ DayInv'
<1> DEFINE k == job["roll"]
           step == StepOf(status)
<1>1. "roll" \in Actors
  BY DEF Actors
<1>2. /\ phase = "session" /\ context = today
      /\ JobOK(k) /\ PlaceOK("roll", pc["roll"], k) /\ Moves("roll", step, k)
  BY <1>1, AtWork, Moved DEF SwingType
<1>3. step \in {"gate", "activate", "finish"}
  BY DEF StepOf
<1>4. step \in Places /\ PlaceOK("roll", step, k)
  BY <1>2, <1>3 DEF Places, Looking, PlaceOK, EntryStep
<1>5. StoreOK'
  BY StatusTyped DEF SwingType, StoreOK, ActiveStatuses
<1> HIDE DEF k, step
<1> QED BY <1>1, <1>2, <1>3, <1>4, <1>5, MoveKeepsShape

LEMMA ActivateShape ==
    ASSUME SwingType, DayInv, Activate
    PROVE  SwingType' /\ DayInv'
<1> DEFINE k == job["roll"]
           j == [k EXCEPT !.after = "finish"]
<1>1. /\ "roll" \in Actors /\ pc["roll"] = "activate"
      /\ active' = [setup |-> k.setup, status |-> "open", best |-> 0]
      /\ UNCHANGED <<rows, attempts, phase, today, context>>
  BY DEF Activate, recordVars, clockVars, Actors
<1>2. PICK step \in {"lock", "finish"} : GotoWith("roll", step, j)
  BY DEF Activate
<1>3. /\ phase = "session" /\ context = today /\ JobOK(k) /\ PlaceOK("roll", pc["roll"], k)
      /\ Moves("roll", step, j)
  BY <1>1, <1>2, AtWork, Moved DEF SwingType
<1>4. JobOK(j) /\ k.setup \in Setups
  BY <1>1, <1>3 DEF JobOK, JobFields, PlaceOK
<1>5. PlaceOK("roll", step, j) /\ step \in Places
  BY DEF PlaceOK, Looking, Places
<1>6. StoreOK'
  BY <1>1, <1>4, LevelAssumption, MemoryTyped DEF SwingType, StoreOK, ActiveStatuses
<1> HIDE DEF k, j
<1> QED BY <1>1, <1>3, <1>4, <1>5, <1>6, MoveKeepsShape

LEMMA TrailShape ==
    ASSUME SwingType, DayInv, Trail
    PROVE  SwingType' /\ DayInv'
<1> DEFINE k == job["roll"]
           j == [k EXCEPT !.after = "choose"]
<1>1. /\ "roll" \in Actors /\ pc["roll"] = "trail"
      /\ UNCHANGED <<attempts, phase, today, context>>
  BY DEF Trail, clockVars, Actors
<1>2. PICK step \in {"lock", "choose"} : GotoWith("roll", step, j)
  <2>1. \E timeIsUp \in BOOLEAN : GotoWith("roll", IF timeIsUp THEN "lock" ELSE "choose", j)
    BY DEF Trail
  <2> QED BY <2>1
<1>3. /\ phase = "session" /\ context = today /\ JobOK(k) /\ PlaceOK("roll", pc["roll"], k)
      /\ Moves("roll", step, j)
  BY <1>1, <1>2, AtWork, Moved DEF SwingType
<1>4. JobOK(j) /\ k.setup \in Setups /\ k.best \in Levels
  BY <1>1, <1>3 DEF JobOK, JobFields, PlaceOK
<1>5. PlaceOK("roll", step, j) /\ step \in Places
  BY DEF PlaceOK, Looking, Places
<1>6. PICK close \in Levels :
          /\ rows' = [e \in Setups |->
                         IF rows[e].status = "open" /\ e.sym = k.setup.sym
                           THEN [rows[e] EXCEPT !.best = BestClose(k.best, close)] ELSE rows[e]]
          /\ active' = [setup |-> k.setup, status |-> "open", best |-> BestClose(k.best, close)]
  BY DEF Trail
<1>7. BestClose(k.best, close) \in Levels
  BY <1>4, BestOfLevels
<1>8. rows' \in [Setups -> Row]
  <2>1. ASSUME NEW e \in Setups, NEW best \in Levels
        PROVE  [rows[e] EXCEPT !.best = best] \in Row /\ rows[e] \in Row
    BY DEF SwingType, StoreOK, Row
  <2> QED BY <1>6, <1>7, <2>1
<1>9. StoreOK'
  BY <1>1, <1>4, <1>6, <1>7, <1>8, MemoryTyped DEF SwingType, StoreOK, ActiveStatuses
<1> HIDE DEF k, j
<1> QED BY <1>1, <1>3, <1>4, <1>5, <1>9, MoveKeepsShape

(* The row of an entry is written, or written on.                          *)
LEMMA EntryRowKeeps ==
    ASSUME SwingType, DayInv, RowInv, pc["roll"] \in {"contract", "settle"},
           NEW status \in {"entering", "open", "rejected"},
           SetStatus({job["roll"].setup}, status), Goto("roll", StepOf(status)),
           UNCHANGED <<attempts, active, phase, today, context>>
    PROVE  SwingType' /\ DayInv' /\ RowInv'
<1> DEFINE k == job["roll"]
           d == k.setup
           step == StepOf(status)
<1>1. /\ "roll" \in Actors /\ phase = "session" /\ context = today
      /\ JobOK(k) /\ PlaceOK("roll", pc["roll"], k) /\ Moves("roll", step, k)
  <2>1. "roll" \in Actors
    BY DEF Actors
  <2> QED BY <2>1, AtWork, Moved DEF SwingType
<1>2. /\ step \in {"gate", "activate", "finish"}
      /\ step = "gate" <=> status = "entering"
      /\ step = "activate" <=> status = "open"
  BY DEF StepOf
<1>3. d \in Setups /\ active = NoActive /\ active.setup = NoSetup /\ active.status = "none"
  BY <1>1, NoActiveFacts DEF PlaceOK, RowInv, FromNothing, Entering, EntryStep
<1>4. \A b \in Actors : ~Gone(b)
  BY <1>3 DEF RowInv, ExitsActive
<1>5. rows \in [Setups -> Row] /\ attempts \in SUBSET Setups /\ NoSetup \notin Setups
  BY SetupAssumption DEF SwingType, StoreOK
<1>6. ActiveRows \subseteq {d} /\ rows[d].best = 0 /\ d \in attempts
  <2>1. \A e \in ActiveRows : e = d
    BY <1>1, <1>3, <1>5 DEF RowInv, RowInMind, ActiveRows
  <2>2. rows[d].status \in {"none", "entering"} /\ d \in attempts
    BY <1>3 DEF RowInv, EntryRow, Entering, EntryStep, Untrailed
  <2>3. rows[d].best = 0
    BY <1>3, <2>2 DEF RowInv, Untrailed
  <2> QED BY <2>1, <2>2, <2>3
<1>7. \A e \in Setups : rows'[e] = IF e = d THEN [status |-> status, best |-> 0] ELSE rows[e]
  BY <1>3, <1>5, <1>6 DEF SetStatus, Row
<1>9. ActiveRows' \subseteq {d} /\ (step = "finish" => ActiveRows' = {})
  BY <1>2, <1>6, <1>7 DEF ActiveRows, ActiveStatuses
<1>10. /\ pc'["roll"] = step /\ job'["roll"] = k
       /\ \A b \in Actors : b # "roll" => pc'[b] = pc[b] /\ job'[b] = job[b]
  BY <1>1, Moved DEF Moves, SwingType
<1>11. Entering' <=> step # "finish"
  BY <1>2, <1>10 DEF Entering, EntryStep, Ordering
<1>12. SwingType' /\ DayInv'
  BY EntryRowShape
<1>14. OneRow' /\ RowInMind'
  BY <1>9, <1>10, <1>11 DEF OneRow, RowInMind
<1>15. FromNothing' /\ TrailsActive'
  BY <1>3 DEF FromNothing, TrailsActive
<1>16. ExitsActive'
  <2>1. ASSUME NEW b \in Actors PROVE ~Gone(b)' /\ pc'[b] # "clear"
    <3>1. CASE b = "roll"
      BY <1>2, <1>10, <3>1 DEF Gone, Leaving, LeavingStep, Ordering
    <3>2. CASE b # "roll"
      <4>1. pc[b] # "clear"
        BY <1>4 DEF SwingType, ActorsOK, PlaceOK, Gone, Looking, EntryStep, Ordering, Actors
      <4> QED BY <1>4, <1>10, <3>2, <4>1 DEF Gone
    <3> QED BY <3>1, <3>2
  <2> QED BY <2>1 DEF ExitsActive
<1>17. MemoryAgrees'
  <2>1. active'.setup \notin ActiveRows'
    BY <1>3, <1>5 DEF ActiveRows
  <2> QED BY <1>3, <2>1 DEF MemoryAgrees
<1>18. EntryRow'
  BY <1>2, <1>3, <1>7, <1>10, <1>11 DEF EntryRow
<1>19. Untrailed'
  <2>1. ASSUME NEW e \in Setups
        PROVE  /\ rows'[e].status \in {"none", "entering"} => rows'[e].best = 0
               /\ rows'[e].status # "none" => e \in attempts'
    <3>1. CASE e = d
      BY <1>6, <1>7, <3>1
    <3>2. CASE e # d
      BY <1>7, <3>2 DEF RowInv, Untrailed
    <3> QED BY <3>1, <3>2
  <2> QED BY <2>1 DEF Untrailed
<1> QED BY <1>12, <1>14, <1>15, <1>16, <1>17, <1>18, <1>19 DEF RowInv

LEMMA CreateEnteringKeeps ==
    ASSUME SwingType, DayInv, RowInv, CreateEntering
    PROVE  SwingType' /\ DayInv' /\ RowInv'
<1>1. StepOf("entering") = "gate"
  BY DEF StepOf
<1> QED BY <1>1, EntryRowKeeps DEF CreateEntering, memoryVars, clockVars

LEMMA SettleKeeps ==
    ASSUME SwingType, DayInv, RowInv, Settle
    PROVE  SwingType' /\ DayInv' /\ RowInv'
<1>1. StepOf("open") = "activate" /\ StepOf("rejected") = "finish"
  BY DEF StepOf
<1>2. \E status \in {"open", "rejected"} :
          SetStatus({job["roll"].setup}, status) /\ Goto("roll", StepOf(status))
  BY <1>1 DEF Settle
<1> QED BY <1>2, EntryRowKeeps DEF Settle, memoryVars, clockVars

LEMMA ActivateKeeps ==
    ASSUME SwingType, DayInv, RowInv, Activate
    PROVE  SwingType' /\ DayInv' /\ RowInv'
<1> DEFINE k == job["roll"]
           d == k.setup
           j == [k EXCEPT !.after = "finish"]
<1>1. /\ "roll" \in Actors /\ pc["roll"] = "activate"
      /\ active' = [setup |-> d, status |-> "open", best |-> 0]
      /\ UNCHANGED <<rows, attempts, phase, today, context>>
  BY DEF Activate, recordVars, clockVars, Actors
<1>2. PICK step \in {"lock", "finish"} : GotoWith("roll", step, j)
  BY DEF Activate
<1>3. /\ phase = "session" /\ context = today /\ JobOK(k) /\ PlaceOK("roll", pc["roll"], k)
      /\ Moves("roll", step, j)
  BY <1>1, <1>2, AtWork, Moved DEF SwingType
<1>4. JobOK(j) /\ j.setup = d
  BY <1>3 DEF JobOK, JobFields
<1>5. Plain(step) /\ PlaceOK("roll", step, j)
  BY DEF Plain, PlaceOK, Looking
<1>6. /\ d \in Setups /\ Entering /\ active = NoActive /\ active.status = "none"
      /\ active.setup = NoSetup /\ rows[d].status = "open" /\ rows[d].best = 0
  BY <1>1, <1>3, NoActiveFacts DEF PlaceOK, RowInv, FromNothing, EntryRow, Entering
<1>7. ActiveRows' = ActiveRows /\ \A e \in ActiveRows : e = d
  BY <1>1, <1>3, <1>6, SetupAssumption DEF RowInv, RowInMind, ActiveRows
<1>8. /\ pc'["roll"] = step /\ job'["roll"] = j
      /\ \A b \in Actors : b # "roll" => pc'[b] = pc[b] /\ job'[b] = job[b]
  BY <1>1, <1>3, Moved DEF Moves, SwingType
<1> HIDE DEF j
<1>9. ~Entering' /\ step \notin {"brokerCheck", "attempt", "contract", "trail", "activate"}
  BY <1>5, <1>8, PlainSteps DEF Entering, EnteringAt
<1>10. SwingType' /\ DayInv'
  BY ActivateShape
<1>12. OneRow' /\ RowInMind'
  BY <1>1, <1>7 DEF RowInMind, RowInv, OneRow
<1>13. FromNothing' /\ TrailsActive' /\ EntryRow'
  BY <1>8, <1>9 DEF FromNothing, TrailsActive, EntryRow
<1>14. ExitsActive'
  <2>1. ASSUME NEW b \in Actors PROVE ~Gone(b)' /\ pc'[b] # "clear"
    <3>1. CASE b = "roll"
      BY <1>5, <1>8, <3>1, PlainSteps DEF Gone
    <3>2. CASE b # "roll"
      <4>1. ~Gone(b)
        BY <1>6 DEF RowInv, ExitsActive
      <4>2. pc[b] # "clear"
        BY <4>1 DEF SwingType, ActorsOK, PlaceOK, Gone, Looking, EntryStep, Ordering
      <4> QED BY <1>8, <3>2, <4>1, <4>2 DEF Gone
    <3> QED BY <3>1, <3>2
  <2> QED BY <2>1 DEF ExitsActive
<1>15. MemoryAgrees'
  BY <1>1, <1>6 DEF MemoryAgrees
<1>16. Untrailed'
  BY <1>1 DEF RowInv, Untrailed
<1> QED BY <1>10, <1>12, <1>13, <1>14, <1>15, <1>16 DEF RowInv

(* Only the row in mind is trailed, and never downwards.                   *)
LEMMA TrailWrites ==
    ASSUME SwingType, DayInv, RowInv, Trail
    PROVE  \E close \in Levels :
              LET k == job["roll"]
                  best == BestClose(k.best, close)
              IN  /\ best \in Levels /\ best >= k.best
                  /\ active' = [setup |-> k.setup, status |-> "open", best |-> best]
                  /\ rows' \in [Setups -> Row]
                  /\ \A e \in Setups :
                        /\ e \in ActiveRows => /\ e = k.setup /\ rows[e].status = "open"
                                               /\ rows[e].best = k.best
                                               /\ rows'[e] = [status |-> "open", best |-> best]
                        /\ e \notin ActiveRows => rows'[e] = rows[e]
<1> DEFINE k == job["roll"]
<1>1. "roll" \in Actors /\ pc["roll"] = "trail"
  BY DEF Trail, Actors
<1>2. /\ JobOK(k) /\ k.setup \in Setups /\ rows \in [Setups -> Row] /\ NoSetup \notin Setups
      /\ k.best \in Levels /\ phase = "session"
  BY <1>1, AtWork, SetupAssumption DEF SwingType, StoreOK, PlaceOK, JobOK, Leaving, LeavingStep
<1>3. PICK close \in Levels :
          /\ rows' = [e \in Setups |->
                         IF rows[e].status = "open" /\ e.sym = k.setup.sym
                           THEN [rows[e] EXCEPT !.best = BestClose(k.best, close)] ELSE rows[e]]
          /\ active' = [setup |-> k.setup, status |-> "open", best |-> BestClose(k.best, close)]
  BY DEF Trail
<1> DEFINE best == BestClose(k.best, close)
<1>4. best \in Levels /\ best >= k.best
  BY <1>2, BestOfLevels
<1>5. ASSUME NEW e \in ActiveRows
      PROVE  e = k.setup /\ rows[e].status = "open" /\ rows[e].best = k.best
  <2>1. ~Entering
    BY <1>1 DEF Entering, EntryStep, Ordering
  <2>2. e = active.setup /\ e \in Setups
    BY <1>2, <2>1 DEF RowInv, RowInMind, ActiveRows
  <2>3. active # NoActive
    BY <1>2, <2>2, NoActiveFacts
  <2>4. active.status = "open" /\ active.setup = k.setup /\ active.best = k.best
    BY <1>1, <2>3 DEF RowInv, TrailsActive
  <2> QED BY <2>2, <2>4 DEF RowInv, MemoryAgrees, ActiveRows, ActiveStatuses
<1>6. ASSUME NEW e \in Setups, e \in ActiveRows
      PROVE  rows'[e] = [status |-> "open", best |-> best]
  <2>1. e = k.setup /\ rows[e].status = "open" /\ rows[e] \in Row
    BY <1>2, <1>5, <1>6
  <2>2. rows'[e] = [rows[e] EXCEPT !.best = best]
    BY <1>3, <2>1
  <2> QED BY <2>1, <2>2 DEF Row
<1>7. ASSUME NEW e \in Setups, e \notin ActiveRows PROVE rows'[e] = rows[e]
  BY <1>3, <1>7 DEF ActiveRows, ActiveStatuses
<1>8. rows' \in [Setups -> Row]
  <2>1. \A e \in Setups : rows'[e] \in Row
    BY <1>2, <1>4, <1>6, <1>7 DEF Row, ActiveStatuses
  <2> QED BY <1>3, <2>1
<1> HIDE DEF best
<1> QED BY <1>3, <1>4, <1>5, <1>6, <1>7, <1>8 DEF best

LEMMA TrailKeeps ==
    ASSUME SwingType, DayInv, RowInv, Trail
    PROVE  SwingType' /\ DayInv' /\ RowInv'
<1> DEFINE k == job["roll"]
           d == k.setup
           j == [k EXCEPT !.after = "choose"]
<1>1. /\ "roll" \in Actors /\ pc["roll"] = "trail"
      /\ UNCHANGED <<attempts, phase, today, context>>
  BY DEF Trail, clockVars, Actors
<1>2. PICK step \in {"lock", "choose"} : GotoWith("roll", step, j)
  <2>1. \E timeIsUp \in BOOLEAN : GotoWith("roll", IF timeIsUp THEN "lock" ELSE "choose", j)
    BY DEF Trail
  <2> QED BY <2>1
<1>3. /\ phase = "session" /\ context = today /\ JobOK(k) /\ PlaceOK("roll", pc["roll"], k)
      /\ Moves("roll", step, j)
  BY <1>1, <1>2, AtWork, Moved DEF SwingType
<1>4. JobOK(j) /\ d \in Setups
  BY <1>1, <1>3 DEF JobOK, JobFields, PlaceOK, Leaving, LeavingStep
<1>5. Plain(step) /\ PlaceOK("roll", step, j)
  BY DEF Plain, PlaceOK, Looking
<1>6. PICK best \in Levels :
          /\ active' = [setup |-> d, status |-> "open", best |-> best]
          /\ rows' \in [Setups -> Row]
          /\ \A e \in Setups :
                /\ e \in ActiveRows => /\ e = d
                                       /\ rows'[e] = [status |-> "open", best |-> best]
                /\ e \notin ActiveRows => rows'[e] = rows[e]
  BY TrailWrites
<1>7. ActiveRows' = ActiveRows
  BY <1>6 DEF ActiveRows, ActiveStatuses
<1>8. /\ pc'["roll"] = step /\ job'["roll"] = j
      /\ \A b \in Actors : b # "roll" => pc'[b] = pc[b] /\ job'[b] = job[b]
  BY <1>1, <1>3, Moved DEF Moves, SwingType
<1> HIDE DEF j
<1>9. ~Entering' /\ step \notin {"brokerCheck", "attempt", "contract", "trail", "activate"}
  BY <1>5, <1>8, PlainSteps DEF Entering, EnteringAt
<1>10. SwingType' /\ DayInv'
  BY TrailShape
<1>12. OneRow' /\ RowInMind'
  BY <1>6, <1>7 DEF RowInMind, RowInv, OneRow, ActiveRows
<1>13. FromNothing' /\ TrailsActive' /\ EntryRow'
  BY <1>8, <1>9 DEF FromNothing, TrailsActive, EntryRow
<1>14. ExitsActive'
  <2>1. ASSUME NEW b \in Actors, Gone(b)'
        PROVE  b # "roll" /\ Gone(b) /\ job'[b] = job[b]
    BY <1>5, <1>8, <2>1, PlainSteps DEF Gone
  <2>2. ASSUME NEW b \in Actors, Gone(b)' PROVE job'[b].setup = d
    <3>1. active.status = "open" /\ job[b].setup = active.setup
      BY <2>1, <2>2 DEF RowInv, ExitsActive
    <3>2. active.setup = d
      BY <1>1, <3>1, NoActiveFacts DEF RowInv, TrailsActive
    <3> QED BY <2>1, <2>2, <3>1, <3>2
  <2>3. \A b \in Actors : pc'[b] = "clear" => ActiveRows = {}
    BY <1>5, <1>8, PlainSteps DEF RowInv, ExitsActive
  <2> QED BY <1>6, <1>7, <2>1, <2>2, <2>3 DEF RowInv, ExitsActive
<1>15. MemoryAgrees'
  <2>1. rows'[d].status # "entering"
    BY <1>4, <1>6 DEF ActiveRows, ActiveStatuses
  <2>2. d \in ActiveRows' => rows'[d].best = best
    BY <1>4, <1>6, <1>7
  <2> QED BY <1>6, <2>1, <2>2 DEF MemoryAgrees
<1>16. Untrailed'
  <2>1. ASSUME NEW e \in Setups
        PROVE  /\ rows'[e].status \in {"none", "entering"} => rows'[e].best = 0
               /\ rows'[e].status # "none" => e \in attempts'
    <3>1. CASE e \in ActiveRows
      BY <1>1, <1>6, <3>1 DEF RowInv, Untrailed, ActiveRows, ActiveStatuses
    <3>2. CASE e \notin ActiveRows
      BY <1>1, <1>6, <3>2 DEF RowInv, Untrailed
    <3> QED BY <3>1, <3>2
  <2> QED BY <2>1 DEF Untrailed
<1> QED BY <1>10, <1>12, <1>13, <1>14, <1>15, <1>16 DEF RowInv

-------------------------------------------------------------------------------
(* The runner: start, sessions, days.                                      *)

(* Nobody at work.                                                         *)
LEMMA AllIdle ==
    ASSUME \A a \in Actors : pc[a] = "idle"
    PROVE  ~Entering /\ (\A a \in Actors : ~Gone(a) /\ pc[a] # "clear")
           /\ pc["roll"] = "idle"
BY DEF Actors, Entering, EntryStep, Ordering, Gone, Leaving, LeavingStep

LEMMA RestKeepsRow ==
    ASSUME \A a \in Actors : pc[a] = "idle", OneRow, MemoryAgrees, Untrailed,
           phase # "down" => \A d \in ActiveRows : d = active.setup
    PROVE  RowInv
BY AllIdle DEF RowInv, RowInMind, FromNothing, ExitsActive, TrailsActive, EntryRow

(* The same of the state after a step.                                     *)
LEMMA RestKeeps ==
    ASSUME \A a \in Actors : pc'[a] = "idle", OneRow', MemoryAgrees', Untrailed',
           phase' # "down" => \A d \in ActiveRows' : d = active'.setup
    PROVE  RowInv' /\ DayInv'
<1>1. /\ ~Entering' /\ (\A a \in Actors : ~Gone(a)' /\ pc'[a] # "clear")
      /\ pc'["roll"] = "idle"
  BY DEF Actors, Entering, EntryStep, Ordering, Gone, Leaving, LeavingStep
<1>2. RowInv'
  BY <1>1 DEF RowInv, RowInMind, FromNothing, ExitsActive, TrailsActive, EntryRow
<1>3. DayInv'
  BY <1>1 DEF DayInv, OnlyInSession, OfToday
<1> QED BY <1>2, <1>3

LEMMA InitHolds ==
    Init => SwingType /\ DayInv /\ RowInv
<1> SUFFICES ASSUME Init PROVE SwingType /\ DayInv /\ RowInv
  OBVIOUS
<1>1. /\ \A a \in Actors : pc[a] = "idle" /\ job[a] = NoJob
      /\ pc \in [Actors -> {"idle"}] /\ DOMAIN job = Actors
      /\ rows = [d \in Setups |-> [status |-> "none", best |-> 0]] /\ attempts = {}
      /\ active = NoActive /\ phase = "down"
  BY DEF Init, BasketInit
<1>2. ActorsOK
  BY <1>1, NoJobOK DEF ActorsOK, PlaceOK, Places
<1>3. StoreOK
  <2>1. active \in [setup : Setups \cup {NoSetup}, status : {"none"} \cup ActiveStatuses,
                    best : Levels]
    BY <1>1, LevelAssumption DEF NoActive
  <2> QED BY <1>1, <2>1, NoActiveFacts, LevelAssumption DEF StoreOK, Row
<1>4. DayInv
  BY <1>1 DEF DayInv, OnlyInSession, OfToday, Actors
<1>5. ActiveRows = {}
  BY <1>1 DEF ActiveRows, ActiveStatuses
<1>6. MemoryAgrees /\ Untrailed /\ OneRow
  BY <1>1, <1>5, NoActiveFacts DEF MemoryAgrees, Untrailed, OneRow
<1>7. RowInv
  BY <1>1, <1>5, <1>6, RestKeepsRow
<1> QED BY <1>2, <1>3, <1>4, <1>7 DEF SwingType

LEMMA IdleKeepsType ==
    ASSUME ActorsOK, pc' = [a \in Actors |-> "idle"], job' = [a \in Actors |-> NoJob]
    PROVE  ActorsOK' /\ \A a \in Actors : pc'[a] = "idle"
BY NoJobOK DEF ActorsOK, PlaceOK, Places

LEMMA AbandonAll ==
    ASSUME Abandon(Actors)
    PROVE  pc' = [a \in Actors |-> "idle"] /\ job' = [a \in Actors |-> NoJob]
BY DEF Abandon

LEMMA IdleDay ==
    ASSUME \A a \in Actors : pc'[a] = "idle"
    PROVE  DayInv'
BY DEF DayInv, OnlyInSession, OfToday, Actors

(* The types and the day, for every step there is.                         *)
LEMMA RunnerShape ==
    ASSUME SwingType, DayInv, Setup \/ Begin \/ SessionCut \/ Crash \/ NewDay
    PROVE  SwingType' /\ DayInv'
<1>2. CASE Setup
  <2>1. /\ phase = "down" /\ phase' = "loop"
        /\ UNCHANGED <<pc, job, rows, attempts, today, context>>
    BY <1>2 DEF Setup, basketVars, recordVars
  <2>2. \/ active' = NoActive
        \/ \E d \in ActiveRows :
              active' = [setup |-> d, status |-> rows[d].status, best |-> rows[d].best]
    BY <1>2 DEF Setup
  <2>3. StoreOK'
    <3>1. CASE active' = NoActive
      BY <2>1, <3>1, NoMemoryTyped, NoActiveFacts DEF SwingType, StoreOK
    <3>2. ASSUME NEW d \in ActiveRows,
                 active' = [setup |-> d, status |-> rows[d].status, best |-> rows[d].best]
          PROVE  StoreOK'
      <4>1. d \in Setups /\ rows[d].status \in ActiveStatuses /\ rows[d].best \in Levels
        BY DEF ActiveRows, SwingType, StoreOK, Row
      <4> QED BY <2>1, <3>2, <4>1, MemoryTyped DEF SwingType, StoreOK
    <3> QED BY <2>2, <3>1, <3>2
  <2> QED BY <2>1, <2>3 DEF SwingType, ActorsOK, DayInv, OnlyInSession, OfToday
<1>3. CASE Begin
  <2>1. /\ phase = "loop" /\ phase' = "session" /\ UNCHANGED <<pc, job, attempts, today>>
    BY <1>3 DEF Begin, basketVars
  <2>2. \/ UNCHANGED <<rows, active>>
        \/ /\ active.status = "entering" /\ \E D : SetStatus(D, "open")
           /\ active' = [active EXCEPT !.status = "open"]
        \/ active' = NoActive /\ \E D : SetStatus(D, "rejected")
    BY <1>3 DEF Begin
  <2>3. rows' \in [Setups -> Row]
    BY <2>2, StatusTyped DEF SwingType, StoreOK, ActiveStatuses
  <2>4. StoreOK'
    <3>1. CASE UNCHANGED <<rows, active>>
      BY <2>1, <3>1 DEF SwingType, StoreOK
    <3>2. CASE active.status = "entering" /\ active' = [active EXCEPT !.status = "open"]
      <4>1. /\ active' = [setup |-> active.setup, status |-> "open", best |-> active.best]
            /\ active.setup \in Setups /\ active.best \in Levels
        BY <3>2 DEF SwingType, StoreOK
      <4> QED BY <2>1, <2>3, <4>1, MemoryTyped DEF SwingType, StoreOK, ActiveStatuses
    <3>3. CASE active' = NoActive
      BY <2>1, <2>3, <3>3, NoMemoryTyped, NoActiveFacts DEF SwingType, StoreOK
    <3> QED BY <2>2, <3>1, <3>2, <3>3
  <2>5. \A a \in Actors : pc'[a] = "idle"
    BY <2>1 DEF DayInv, OnlyInSession
  <2> QED BY <2>1, <2>4, <2>5, IdleDay DEF SwingType, ActorsOK
<1>4. CASE SessionCut
  <2>1. /\ phase' = "loop" /\ Abandon(Actors)
        /\ UNCHANGED <<rows, attempts, active, today, context>>
    BY <1>4 DEF SessionCut, recordVars, memoryVars
  <2>2. ActorsOK' /\ \A a \in Actors : pc'[a] = "idle"
    BY <2>1, AbandonAll, IdleKeepsType DEF SwingType
  <2> QED BY <2>1, <2>2, IdleDay DEF SwingType, StoreOK
<1>5. CASE Crash
  <2>1. /\ phase' = "down" /\ active' = NoActive /\ Abandon(Actors)
        /\ UNCHANGED <<rows, attempts, today>>
    BY <1>5 DEF Crash, recordVars
  <2>2. ActorsOK' /\ \A a \in Actors : pc'[a] = "idle"
    BY <2>1, AbandonAll, IdleKeepsType DEF SwingType
  <2> QED BY <2>1, <2>2, IdleDay, NoMemoryTyped, NoActiveFacts DEF SwingType, StoreOK
<1>6. CASE NewDay
  <2>1. /\ \A a \in Actors : pc'[a] = "idle"
        /\ phase' = "loop" /\ UNCHANGED <<pc, job, rows, attempts, active>>
    BY <1>6 DEF NewDay, recordVars, memoryVars
  <2> QED BY <2>1, IdleDay DEF SwingType, StoreOK, ActorsOK
<1> QED BY <1>2, <1>3, <1>4, <1>5, <1>6

LEMMA StepShape ==
    ASSUME SwingType, DayInv, [Next]_vars
    PROVE  SwingType' /\ DayInv'
<1>1. CASE CreateEntering \/ Settle
  <2>1. \E status \in {"entering", "open", "rejected"} :
            SetStatus({job["roll"].setup}, status) /\ Goto("roll", StepOf(status))
    <3>1. StepOf("open") = "activate" /\ StepOf("rejected") = "finish" /\ StepOf("entering") = "gate"
      BY DEF StepOf
    <3> QED BY <1>1, <3>1 DEF CreateEntering, Settle
  <2> QED BY <1>1, <2>1, EntryRowShape DEF CreateEntering, Settle, memoryVars, clockVars
<1>2. CASE RollStep
  BY <1>1, <1>2, CloseBucketKeeps, TrailShape, ChooseKeeps, BrokerCheckKeeps, AttemptKeeps,
     DeclineKeeps, ActivateShape, FinishKeeps DEF RollStep
<1>3. CASE TickExit
  BY <1>3, TickExitKeeps
<1>4. ASSUME UNCHANGED <<pc, job, rows, attempts, active, phase, today, context>>
      PROVE  SwingType' /\ DayInv'
  BY <1>4 DEF SwingType, ActorsOK, StoreOK, DayInv, OnlyInSession, OfToday
<1>5. CASE RetryDue
  BY <1>4, <1>5 DEF RetryDue, basketVars, recordVars, clockVars
<1>6. ASSUME NEW a \in Actors, ExitStep(a) PROVE SwingType' /\ DayInv'
  BY <1>6, TakeExitLockKeeps, ExitIncompleteKeeps, CloseRowShape, ClearActiveShape DEF ExitStep
<1>7. CASE Broker /\ UNCHANGED <<recordVars, memoryVars, clockVars>>
  <2>1. pc' = pc /\ job' = job
    BY <1>7 DEF Broker, Trade, Reject
  <2> QED BY <1>4, <1>7, <2>1 DEF recordVars, memoryVars, clockVars
<1>8. ASSUME NEW a \in Actors, BasketStep(a), UNCHANGED <<recordVars, memoryVars, clockVars>>
      PROVE  SwingType' /\ DayInv'
  BY <1>8, BasketShape
<1>9. CASE Setup \/ Begin \/ SessionCut \/ Crash \/ NewDay
  BY <1>9, RunnerShape
<1>10. CASE UNCHANGED vars
  BY <1>4, <1>10 DEF vars, basketVars, recordVars, memoryVars, clockVars
<1> QED BY <1>2, <1>3, <1>5, <1>6, <1>7, <1>8, <1>9, <1>10 DEF Next, Basket

LEMMA SetupKeeps ==
    ASSUME SwingType, DayInv, RowInv, Setup
    PROVE  SwingType' /\ DayInv' /\ RowInv'
<1>1. /\ phase = "down" /\ phase' = "loop"
      /\ UNCHANGED <<pc, job, rows, attempts, today, context>>
  BY DEF Setup, basketVars, recordVars
<1>2. \A a \in Actors : pc[a] = "idle" /\ pc'[a] = "idle"
  BY <1>1 DEF DayInv, OnlyInSession
<1>3. ActiveRows' = ActiveRows /\ ActiveRows \subseteq Setups /\ rows \in [Setups -> Row]
  BY <1>1 DEF ActiveRows, SwingType, StoreOK
<1>4. \/ ActiveRows = {} /\ active' = NoActive
      \/ \E d \in ActiveRows :
            active' = [setup |-> d, status |-> rows[d].status, best |-> rows[d].best]
  BY DEF Setup
<1>7. SwingType' /\ DayInv'
  BY RunnerShape
<1>8. OneRow' /\ Untrailed'
  BY <1>1, <1>3 DEF RowInv, OneRow, Untrailed
<1>9. MemoryAgrees'
  BY <1>1, <1>3, <1>4, NoActiveFacts DEF MemoryAgrees, ActiveRows, ActiveStatuses
<1>10. \A d \in ActiveRows' : d = active'.setup
  BY <1>3, <1>4 DEF RowInv, OneRow
<1> QED BY <1>2, <1>7, <1>8, <1>9, <1>10, RestKeeps

LEMMA BeginKeeps ==
    ASSUME SwingType, DayInv, RowInv, Begin
    PROVE  SwingType' /\ DayInv' /\ RowInv'
<1> DEFINE d == active.setup
<1>0. SwingType' /\ DayInv'
  BY RunnerShape
<1>1. /\ phase = "loop" /\ phase' = "session" /\ UNCHANGED <<pc, job, attempts, today>>
  BY DEF Begin, basketVars
<1>2. \A a \in Actors : pc[a] = "idle" /\ pc'[a] = "idle"
  BY <1>1 DEF DayInv, OnlyInSession
<1>3. \A e \in ActiveRows : e = d
  BY <1>1, <1>2, AllIdle DEF RowInv, RowInMind
<1>4. rows \in [Setups -> Row]
  BY DEF SwingType, StoreOK
<1>5. CASE UNCHANGED <<rows, active>>
  <2>2. OneRow' /\ MemoryAgrees' /\ Untrailed'
    BY <1>1, <1>5 DEF RowInv, OneRow, MemoryAgrees, Untrailed, ActiveRows
  <2>3. \A e \in ActiveRows' : e = active'.setup
    BY <1>3, <1>5 DEF ActiveRows
  <2> QED BY <1>0, <1>2, <2>2, <2>3, RestKeeps
<1>6. ASSUME active.status = "entering"
      PROVE  /\ d \in Setups /\ d \in ActiveRows /\ rows[d].status = "entering"
             /\ rows[d].best = active.best /\ d \in attempts
             /\ active \in [setup : Setups \cup {NoSetup}, status : {"none"} \cup ActiveStatuses,
                            best : Levels]
  <2>1. d \in Setups /\ rows[d].status = "entering"
    BY <1>6 DEF SwingType, StoreOK, RowInv, MemoryAgrees
  <2>2. d \in ActiveRows
    BY <2>1 DEF ActiveRows, ActiveStatuses
  <2> QED BY <2>1, <2>2 DEF SwingType, StoreOK, RowInv, MemoryAgrees, Untrailed
<1>7. ASSUME active.status = "entering", NEW status \in {"open", "rejected"},
             SetStatus({d}, status)
      PROVE  /\ \A e \in Setups : e # d => rows'[e] = rows[e]
             /\ rows'[d] = [status |-> status, best |-> active.best]
             /\ ActiveRows' = IF status = "open" THEN {d} ELSE {}
             /\ OneRow' /\ Untrailed'
  <2>1. /\ \A e \in Setups : e # d => rows'[e] = rows[e]
        /\ rows'[d] = [status |-> status, best |-> active.best]
    BY <1>4, <1>6, <1>7 DEF SetStatus, Row
  <2>3. ActiveRows' = IF status = "open" THEN {d} ELSE {}
    BY <1>3, <1>6, <1>7, <2>1 DEF ActiveRows, ActiveStatuses
  <2>4. OneRow'
    BY <2>3 DEF OneRow
  <2>5. Untrailed'
    BY <1>1, <1>6, <1>7, <2>1 DEF RowInv, Untrailed
  <2> QED BY <2>1, <2>3, <2>4, <2>5
<1>8. CASE /\ active.status = "entering" /\ SetStatus({d}, "open")
           /\ active' = [active EXCEPT !.status = "open"]
  <2>1. active' = [setup |-> d, status |-> "open", best |-> active.best]
    BY <1>6, <1>8
  <2>3. MemoryAgrees'
    BY <1>7, <1>8, <2>1 DEF MemoryAgrees
  <2>4. \A e \in ActiveRows' : e = active'.setup
    BY <1>7, <1>8, <2>1
  <2> QED BY <1>0, <1>2, <1>7, <1>8, <2>3, <2>4, RestKeeps
<1>9. CASE active.status = "entering" /\ SetStatus({d}, "rejected") /\ active' = NoActive
  <2>2. ActiveRows' = {}
    BY <1>7, <1>9
  <2>3. MemoryAgrees'
    BY <1>9, <2>2, NoActiveFacts DEF MemoryAgrees
  <2> QED BY <1>0, <1>2, <1>7, <1>9, <2>2, <2>3, RestKeeps
<1> QED BY <1>5, <1>8, <1>9 DEF Begin

(* A session that is cut, unless an entry is underway.                     *)
LEMMA SessionCutKeeps ==
    ASSUME ~CutEntries, SwingType, DayInv, RowInv, SessionCut
    PROVE  SwingType' /\ DayInv' /\ RowInv'
<1>1. /\ phase = "session" /\ phase' = "loop" /\ ~EntryUnderway /\ Abandon(Actors)
      /\ UNCHANGED <<rows, attempts, active, today, context>>
  BY DEF SessionCut, recordVars, memoryVars
<1>2. \A a \in Actors : pc'[a] = "idle"
  BY <1>1, AbandonAll, IdleKeepsType DEF SwingType
<1>3. ~Entering
  BY <1>1 DEF EntryUnderway, Entering, EntryStep
<1>4. \A e \in ActiveRows' : e = active'.setup
  BY <1>1, <1>3 DEF RowInv, RowInMind, ActiveRows
<1>5. OneRow' /\ MemoryAgrees' /\ Untrailed'
  BY <1>1 DEF RowInv, OneRow, MemoryAgrees, Untrailed, ActiveRows
<1>6. SwingType' /\ DayInv'
  BY RunnerShape
<1> QED BY <1>2, <1>4, <1>5, <1>6, RestKeeps

LEMMA CrashKeeps ==
    ASSUME SwingType, DayInv, RowInv, Crash
    PROVE  SwingType' /\ DayInv' /\ RowInv'
<1>1. /\ phase' = "down" /\ active' = NoActive /\ Abandon(Actors)
      /\ UNCHANGED <<rows, attempts, today>>
  BY DEF Crash, recordVars
<1>2. \A a \in Actors : pc'[a] = "idle"
  BY <1>1, AbandonAll, IdleKeepsType DEF SwingType
<1>3. OneRow' /\ Untrailed'
  BY <1>1 DEF RowInv, OneRow, Untrailed, ActiveRows
<1>4. MemoryAgrees'
  BY <1>1, NoActiveFacts, SetupAssumption DEF MemoryAgrees, ActiveRows
<1>5. SwingType' /\ DayInv'
  BY RunnerShape
<1> QED BY <1>1, <1>2, <1>3, <1>4, <1>5, RestKeeps

LEMMA NewDayKeeps ==
    ASSUME SwingType, DayInv, RowInv, NewDay
    PROVE  SwingType' /\ DayInv' /\ RowInv'
<1>1. /\ \A a \in Actors : pc[a] = "idle" /\ pc'[a] = "idle"
      /\ phase = "session" /\ phase' = "loop" /\ UNCHANGED <<pc, job, rows, attempts, active>>
  BY DEF NewDay, recordVars, memoryVars
<1>2. SwingType' /\ DayInv'
  BY RunnerShape
<1>3. OneRow' /\ MemoryAgrees' /\ Untrailed'
  BY <1>1 DEF RowInv, OneRow, MemoryAgrees, Untrailed, ActiveRows
<1>4. \A e \in ActiveRows' : e = active'.setup
  BY <1>1, AllIdle DEF RowInv, RowInMind, ActiveRows
<1> QED BY <1>1, <1>2, <1>3, <1>4, RestKeeps

(* Everything but a session that is cut keeps all three.                   *)
LEMMA UncutStepKeeps ==
    ASSUME SwingType, DayInv, RowInv, [Next]_vars, ~SessionCut
    PROVE  SwingType' /\ DayInv' /\ RowInv'
<1>1. CASE RollStep
  BY <1>1, CloseBucketKeeps, TrailKeeps, ChooseKeeps, BrokerCheckKeeps, AttemptKeeps, DeclineKeeps,
     CreateEnteringKeeps, SettleKeeps, ActivateKeeps, FinishKeeps DEF RollStep
<1>2. CASE TickExit
  BY <1>2, TickExitKeeps
<1>3. CASE RetryDue
  BY <1>3, StandingStill DEF RetryDue, basketVars, recordVars, clockVars
<1>4. ASSUME NEW a \in Actors, ExitStep(a) PROVE SwingType' /\ DayInv' /\ RowInv'
  BY <1>4, TakeExitLockKeeps, ExitIncompleteKeeps, CloseRowKeeps, ClearActiveKeeps DEF ExitStep
<1>5. CASE Broker /\ UNCHANGED <<recordVars, memoryVars, clockVars>>
  <2>1. pc' = pc /\ job' = job
    BY <1>5 DEF Broker, Trade, Reject
  <2> QED BY <1>5, <2>1, StandingStill DEF recordVars, memoryVars, clockVars
<1>6. ASSUME NEW a \in Actors, BasketStep(a), UNCHANGED <<recordVars, memoryVars, clockVars>>
      PROVE  SwingType' /\ DayInv' /\ RowInv'
  BY <1>6, BasketKeeps
<1>7. CASE Setup \/ Begin \/ Crash \/ NewDay
  BY <1>7, SetupKeeps, BeginKeeps, CrashKeeps, NewDayKeeps
<1>8. CASE UNCHANGED vars
  BY <1>8, StandingStill DEF vars, basketVars, recordVars, memoryVars, clockVars
<1> QED BY <1>1, <1>2, <1>3, <1>4, <1>5, <1>6, <1>7, <1>8 DEF Next, Basket

LEMMA StepKeeps ==
    ASSUME ~CutEntries, SwingType, DayInv, RowInv, [Next]_vars
    PROVE  SwingType' /\ DayInv' /\ RowInv'
BY UncutStepKeeps, SessionCutKeeps

-------------------------------------------------------------------------------
(* The theorems.                                                           *)

(* Never two rows entering or open, whatever crashes, retries and          *)
(* concurrent exits happen, as long as no session ends in the middle of    *)
(* an entry: then the service can always come up again.                    *)
THEOREM OneActiveRowHolds ==
    ASSUME ~CutEntries
    PROVE  Spec => []OneActiveRow
<1>1. ASSUME RowInv PROVE OneActiveRow
  <2>1. CASE ActiveRows = {}
    BY <2>1, FS_EmptySet DEF OneActiveRow
  <2>2. ASSUME NEW d \in ActiveRows PROVE OneActiveRow
    <3>1. ActiveRows = {d}
      BY <1>1, <2>2 DEF RowInv, OneRow
    <3> QED BY <3>1, FS_Singleton DEF OneActiveRow
  <2> QED BY <2>1, <2>2
<1>2. SwingType /\ DayInv /\ RowInv /\ [Next]_vars => SwingType' /\ DayInv' /\ RowInv'
  BY StepKeeps
<1> QED BY <1>1, <1>2, InitHolds, PTL DEF Spec

(* The steps that write the row.                                           *)
LEMMA RowWriters ==
    ASSUME [Next]_vars
    PROVE  \/ CreateEntering \/ Settle \/ Begin \/ Trail \/ UNCHANGED rows
           \/ \E a \in Actors : CloseRow(a)
BY DEF Next, RollStep, ExitStep, CloseBucket, Choose, BrokerCheck, Attempt, Decline, Activate,
       Finish, TickExit, RetryDue, TakeExitLock, ExitIncomplete, ClearActive, Setup, SessionCut,
       Crash, NewDay, vars, recordVars

(* An entry is made on a setup of its own day only: whatever happens, and  *)
(* though the runner may have slept over night with yesterday's setups.    *)
THEOREM TodaysSetupEntered == Spec => EntersOnTodaysSetup
<1>1. ASSUME SwingType, DayInv, [Next]_vars, NEW d \in Setups,
             rows[d].status = "none", rows'[d].status = "entering"
      PROVE  d.date = today
  <2>1. rows \in [Setups -> Row]
    BY <1>1 DEF SwingType, StoreOK
  <2>2. ASSUME NEW D, NEW status \in {"open", "rejected", "closed"}, SetStatus(D, status)
        PROVE  FALSE
    <3>1. rows'[d].status \in {status, rows[d].status}
      BY <1>1, <2>1, <2>2 DEF SetStatus, Row
    <3> QED BY <1>1, <3>1
  <2>3. CASE CreateEntering
    <3>1. /\ pc["roll"] = "contract" /\ SetStatus({job["roll"].setup}, "entering")
          /\ job["roll"].setup.date = today
      BY <1>1, <2>3 DEF CreateEntering, DayInv, OfToday
    <3>2. d = job["roll"].setup
      BY <1>1, <2>1, <3>1 DEF SetStatus
    <3> QED BY <3>1, <3>2
  <2>4. CASE Settle
    BY <2>2, <2>4 DEF Settle
  <2>5. CASE Begin
    BY <1>1, <2>2, <2>5 DEF Begin
  <2>6. ASSUME NEW a \in Actors, CloseRow(a) PROVE FALSE
    BY <2>2, <2>6 DEF CloseRow
  <2>7. CASE Trail
    <3>1. rows'[d].status = rows[d].status
      BY <2>1, <2>7 DEF Trail, Row
    <3> QED BY <1>1, <3>1
  <2>8. CASE UNCHANGED rows
    BY <1>1, <2>8
  <2> QED BY <1>1, <2>3, <2>4, <2>5, <2>6, <2>7, <2>8, RowWriters
<1>2. SwingType /\ DayInv /\ [Next]_vars
          => [\A d \in Setups : rows[d].status = "none" /\ rows'[d].status = "entering"
                                    => d.date = today]_rows
  BY <1>1
<1>3. SwingType /\ DayInv /\ [Next]_vars => SwingType' /\ DayInv'
  BY StepShape
<1> QED BY <1>2, <1>3, InitHolds, PTL DEF Spec, EntersOnTodaysSetup

(* What has been gained moves the stop forward, never back.                *)
LEMMA TrailedStopGrows ==
    ASSUME NEW x \in Nat, NEW y \in Nat, x <= y
    PROVE  TrailedStop(y) >= TrailedStop(x)
<1> DEFINE r == InitialRisk
           high(b) == Max({-r, r, b - TrailGap})
<1>1. r \in Nat \ {0} /\ TrailGap \in Nat /\ r \in Int /\ -r \in Int
  BY LevelAssumption
<1>2. Max({-r, 0}) = 0
  BY <1>1, LargerOfTwo
<1>3. ASSUME NEW b \in Nat PROVE high(b) = IF b - TrailGap >= r THEN b - TrailGap ELSE r
  <2>1. {-r, r, b - TrailGap} = {-r, b - TrailGap} \cup {r}
    OBVIOUS
  <2> DEFINE S == {-r, r, b - TrailGap}
             m == IF b - TrailGap >= r THEN b - TrailGap ELSE r
  <2>2. m \in S /\ \A z \in S : m >= z
    BY <1>1
  <2>3. \A n \in S : (\A z \in S : n >= z) => n = m
    BY <1>1
  <2>4. Max(S) \in S /\ \A z \in S : Max(S) >= z
    <3> HIDE DEF m, S
    <3> QED BY <2>2 DEF Max
  <2> HIDE DEF m
  <2>5. Max(S) = m
    BY <2>3, <2>4
  <2> QED BY <2>5 DEF m
<1>4. ASSUME NEW b \in Nat
      PROVE  TrailedStop(b) = IF b >= 2 * r THEN high(b) ELSE IF b >= r THEN 0 ELSE -r
  BY <1>1, <1>2, <1>4 DEF TrailedStop
<1> HIDE DEF high
<1>5. TrailedStop(x) = IF x >= 2 * r THEN high(x) ELSE IF x >= r THEN 0 ELSE -r
  BY <1>4
<1>6. TrailedStop(y) = IF y >= 2 * r THEN high(y) ELSE IF y >= r THEN 0 ELSE -r
  BY <1>4
<1>7. /\ high(x) = IF x - TrailGap >= r THEN x - TrailGap ELSE r
      /\ high(y) = IF y - TrailGap >= r THEN y - TrailGap ELSE r
  BY <1>3
<1> HIDE DEF r
<1> QED BY <1>1, <1>5, <1>6, <1>7

(* The protective stop never moves away from the market, restarts, retries *)
(* and concurrent exits included, as long as no session ends in the middle *)
(* of an entry.                                                            *)
THEOREM StopsHold ==
    ASSUME ~CutEntries
    PROVE  Spec => StopNeverLoosens
<1>1. ASSUME SwingType, DayInv, RowInv, [Next]_vars, NEW d \in Setups,
             rows[d].status = "open", rows'[d].status = "open"
      PROVE  TrailedStop(rows'[d].best) >= TrailedStop(rows[d].best)
  <2>1. rows \in [Setups -> Row] /\ rows[d].best \in Levels
    BY <1>1 DEF SwingType, StoreOK, Row
  <2>2. rows'[d].best \in Levels /\ rows'[d].best >= rows[d].best
    <3>1. ASSUME rows'[d].best = rows[d].best
          PROVE  rows'[d].best \in Levels /\ rows'[d].best >= rows[d].best
      <4>1. \A x \in Levels : x >= x
        BY LevelAssumption
      <4> QED BY <2>1, <3>1, <4>1
    <3>2. ASSUME NEW D, NEW status, SetStatus(D, status) PROVE rows'[d].best = rows[d].best
      BY <2>1, <3>2 DEF SetStatus, Row
    <3>3. CASE Trail
      <4>1. d \in ActiveRows
        BY <1>1 DEF ActiveRows, ActiveStatuses
      <4>2. PICK best \in Levels : /\ best >= job["roll"].best
                                    /\ rows[d].best = job["roll"].best
                                    /\ rows'[d] = [status |-> "open", best |-> best]
        BY <1>1, <3>3, <4>1, TrailWrites
      <4>3. rows'[d].best = best
        BY <4>2
      <4> QED BY <4>2, <4>3
    <3>4. CASE CreateEntering \/ Settle
      BY <3>1, <3>2, <3>4 DEF CreateEntering, Settle
    <3>5. CASE Begin
      BY <3>1, <3>2, <3>5 DEF Begin
    <3>6. ASSUME NEW a \in Actors, CloseRow(a)
          PROVE  rows'[d].best \in Levels /\ rows'[d].best >= rows[d].best
      BY <3>1, <3>2, <3>6 DEF CloseRow
    <3>7. CASE UNCHANGED rows
      BY <3>1, <3>7
    <3> QED BY <1>1, <3>3, <3>4, <3>5, <3>6, <3>7, RowWriters
  <2>3. rows[d].best \in Nat /\ rows'[d].best \in Nat
    BY <2>1, <2>2, LevelAssumption
  <2> QED BY <2>2, <2>3, TrailedStopGrows
<1>2. SwingType /\ DayInv /\ RowInv /\ [Next]_vars
          => [\A d \in Setups : rows[d].status = "open" /\ rows'[d].status = "open"
                 => TrailedStop(rows'[d].best) >= TrailedStop(rows[d].best)]_rows
  BY <1>1
<1>3. SwingType /\ DayInv /\ RowInv /\ [Next]_vars => SwingType' /\ DayInv' /\ RowInv'
  BY StepKeeps
<1> QED BY <1>2, <1>3, InitHolds, PTL DEF Spec, StopNeverLoosens

-------------------------------------------------------------------------------
(* What the fills of the account's orders add up to.                       *)

OrderList(os) ==
    /\ Len(os) \in Nat /\ DOMAIN os = 1..Len(os)
    /\ \A o \in DOMAIN os : os[o].filled \in Nat

Matching(os, purpose, c, side) ==
    {o \in DOMAIN os : os[o].purpose = purpose /\ os[o].contract = c /\ os[o].side = side}

FillSum(os, I) == MapThenSumSet(LAMBDA o : os[o].filled, I)

Fills(os) == [o \in DOMAIN os |-> os[o].filled]

LEMMA FillSumIsTotal ==
    ASSUME NEW os, NEW I \in SUBSET DOMAIN os, IsFiniteSet(I)
    PROVE  FillSum(os, I) = Total(Fills(os), I)
<1> DEFINE f == Fills(os)
           it == CHOOSE it : it = [s \in SUBSET I |->
                     IF s = {} THEN 0
                     ELSE LET x == CHOOSE x \in s : TRUE IN os[x].filled + it[s \ {x}]]
<1>1. FillSum(os, I) = it[I]
  BY DEF FillSum, MapThenSumSet, MapThenFoldSet
<1>2. \A g : SumsUp(g, f, I) <=>
                g = [s \in SUBSET I |-> IF s = {} THEN 0
                     ELSE LET x == CHOOSE x \in s : TRUE IN os[x].filled + g[s \ {x}]]
  <2>1. ASSUME NEW g, NEW s \in SUBSET I
        PROVE  (IF s = {} THEN 0 ELSE f[Pick(s)] + g[s \ {Pick(s)}])
                 = (IF s = {} THEN 0
                    ELSE LET x == CHOOSE x \in s : TRUE IN os[x].filled + g[s \ {x}])
    BY Picked DEF Fills, Pick
  <2> QED BY <2>1 DEF SumsUp
<1> HIDE DEF f
<1>3. SumsUp(it, f, I)
  <2>1. PICK g : SumsUp(g, f, I)
    BY SumsUpExists
  <2>2. g = [s \in SUBSET I |-> IF s = {} THEN 0
                     ELSE LET x == CHOOSE x \in s : TRUE IN os[x].filled + g[s \ {x}]]
    BY ONLY <1>2, <2>1
  <2>3. it = [s \in SUBSET I |-> IF s = {} THEN 0
                     ELSE LET x == CHOOSE x \in s : TRUE IN os[x].filled + it[s \ {x}]]
    BY ONLY <2>2
  <2> QED BY ONLY <1>2, <2>3
<1> HIDE DEF it
<1> QED BY <1>1, <1>3, TotalOf DEF f

LEMMA TradedIs ==
    ASSUME NEW purpose, NEW c, NEW side
    PROVE  Traded(purpose, c, side) = FillSum(orders, Matching(orders, purpose, c, side))
BY DEF Traded, FillSum, Matching

LEMMA FillsAdd ==
    ASSUME NEW os, OrderList(os), NEW I \in SUBSET DOMAIN os
    PROVE  /\ IsFiniteSet(I) /\ FillSum(os, I) = Total(Fills(os), I)
           /\ FillSum(os, I) \in Nat
           /\ \A o \in DOMAIN os : Fills(os)[o] = os[o].filled /\ Fills(os)[o] \in Nat
<1>1. IsFiniteSet(DOMAIN os)
  BY FS_Interval DEF OrderList
<1>2. IsFiniteSet(I)
  BY <1>1, FS_Subset
<1>3. \A o \in DOMAIN os : Fills(os)[o] = os[o].filled /\ Fills(os)[o] \in Nat
  BY DEF Fills, OrderList
<1>4. Total(Fills(os), I) \in Nat
  BY <1>2, <1>3, TotalIsNat
<1> QED BY <1>2, <1>3, <1>4, FillSumIsTotal

(* Two lists of orders that differ in one order, x.                        *)
DifferAt(os, more, x) ==
    /\ x \in DOMAIN more /\ DOMAIN os \subseteq DOMAIN more
    /\ \A o \in DOMAIN more : o # x =>
          /\ o \in DOMAIN os
          /\ more[o].purpose = os[o].purpose /\ more[o].contract = os[o].contract
          /\ more[o].side = os[o].side /\ more[o].filled = os[o].filled
    /\ x \in DOMAIN os =>
          /\ more[x].purpose = os[x].purpose /\ more[x].contract = os[x].contract
          /\ more[x].side = os[x].side

LEMMA FillsMove ==
    ASSUME NEW os, NEW more, NEW x, OrderList(os), OrderList(more), DifferAt(os, more, x),
           NEW purpose, NEW c, NEW side
    PROVE  FillSum(more, Matching(more, purpose, c, side)) =
              FillSum(os, Matching(os, purpose, c, side)) +
              (IF x \in Matching(more, purpose, c, side)
                 THEN more[x].filled - (IF x \in DOMAIN os THEN os[x].filled ELSE 0)
                 ELSE 0)
<1> DEFINE S == Matching(os, purpose, c, side)
           T == Matching(more, purpose, c, side)
           R == T \ {x}
<1>1. /\ S \in SUBSET DOMAIN os /\ T \in SUBSET DOMAIN more
      /\ R \in SUBSET DOMAIN more /\ R \in SUBSET DOMAIN os
      /\ S \ {x} = R /\ (x \in DOMAIN os => (x \in S <=> x \in T)) /\ x \notin R
  BY DEF Matching, DifferAt
<1>2. x \in DOMAIN more /\ \A o \in R : more[o].filled = os[o].filled
  BY DEF DifferAt, Matching
<1> HIDE DEF S, T, R
<1>3. /\ IsFiniteSet(R) /\ FillSum(os, R) = Total(Fills(os), R) /\ FillSum(os, R) \in Nat
      /\ FillSum(more, R) = Total(Fills(more), R)
      /\ \A o \in DOMAIN os : Fills(os)[o] = os[o].filled /\ Fills(os)[o] \in Nat
      /\ \A o \in DOMAIN more : Fills(more)[o] = more[o].filled /\ Fills(more)[o] \in Nat
  BY <1>1, FillsAdd
<1>4. FillSum(more, R) = FillSum(os, R)
  BY <1>1, <1>2, <1>3, TotalSame
<1>5. x \in T => T = R \cup {x} /\ FillSum(more, T) = FillSum(os, R) + more[x].filled
  <2> SUFFICES ASSUME x \in T PROVE T = R \cup {x} /\ FillSum(more, T) = FillSum(os, R) + more[x].filled
    OBVIOUS
  <2>1. T = R \cup {x}
    BY DEF R
  <2>2. FillSum(more, T) = Total(Fills(more), T)
    BY <1>1, FillsAdd
  <2>3. Total(Fills(more), R \cup {x}) = Total(Fills(more), R) + Fills(more)[x]
    <3>1. Fills(more)[x] \in Int /\ \A o \in R : Fills(more)[o] \in Int
      BY <1>1, <1>2, <1>3
    <3>2. IsFiniteSet(R) /\ x \notin R
      BY <1>1, <1>3
    <3> QED BY <3>1, <3>2, TotalWith
  <2> QED BY <1>2, <1>3, <1>4, <2>1, <2>2, <2>3
<1>6. x \notin T => T = R /\ S = R
  <2>1. x \notin T => x \notin S
    BY <1>1
  <2> QED BY <1>1, <2>1 DEF R
<1>7. x \in T /\ x \in DOMAIN os => FillSum(os, S) = FillSum(os, R) + os[x].filled
  <2> SUFFICES ASSUME x \in T, x \in DOMAIN os
               PROVE  FillSum(os, S) = FillSum(os, R) + os[x].filled
    OBVIOUS
  <2>1. S = R \cup {x}
    BY <1>1
  <2>2. FillSum(os, S) = Total(Fills(os), S)
    BY <1>1, FillsAdd
  <2>3. Total(Fills(os), R \cup {x}) = Total(Fills(os), R) + Fills(os)[x]
    <3>1. Fills(os)[x] \in Int /\ \A o \in R : Fills(os)[o] \in Int
      BY <1>1, <1>3
    <3>2. IsFiniteSet(R) /\ x \notin R
      BY <1>1, <1>3
    <3> QED BY <3>1, <3>2, TotalWith
  <2> QED BY <1>3, <2>1, <2>2, <2>3
<1>8. x \notin DOMAIN os => S = R
  BY <1>1
<1>9. more[x].filled \in Nat /\ (x \in DOMAIN os => os[x].filled \in Nat) /\ FillSum(os, R) \in Nat
  BY <1>2, <1>3 DEF OrderList
<1>10. CASE x \notin T
  BY <1>4, <1>6, <1>9, <1>10 DEF S, T
<1>11. CASE x \in T /\ x \in DOMAIN os
  BY <1>5, <1>7, <1>9, <1>11 DEF S, T
<1>12. CASE x \in T /\ x \notin DOMAIN os
  BY <1>5, <1>8, <1>9, <1>12 DEF S, T
<1> QED BY <1>10, <1>11, <1>12

(* Orders that change in nothing but their status.                         *)
LEMMA FillsStay ==
    ASSUME NEW os, NEW more, OrderList(os), DOMAIN more = DOMAIN os,
           \A o \in DOMAIN os :
              /\ more[o].purpose = os[o].purpose /\ more[o].contract = os[o].contract
              /\ more[o].side = os[o].side /\ more[o].filled = os[o].filled,
           NEW purpose, NEW c, NEW side
    PROVE  FillSum(more, Matching(more, purpose, c, side))
              = FillSum(os, Matching(os, purpose, c, side))
<1>1. Matching(more, purpose, c, side) = Matching(os, purpose, c, side)
  BY DEF Matching
<1> DEFINE S == Matching(os, purpose, c, side)
<1>2. S \in SUBSET DOMAIN os /\ IsFiniteSet(S)
  BY FillsAdd DEF Matching
<1>3. FillSum(os, S) = Total(Fills(os), S) /\ FillSum(more, S) = Total(Fills(more), S)
  BY <1>2, FillSumIsTotal
<1>4. \A o \in S : Fills(os)[o] = Fills(more)[o]
  BY <1>2 DEF Fills
<1> HIDE DEF S
<1>5. Total(Fills(os), S) = Total(Fills(more), S)
  BY <1>2, <1>4, TotalSame
<1> QED BY <1>1, <1>3, <1>5 DEF S

-------------------------------------------------------------------------------
(* The rows of one future among all the rows.                              *)

PrimaryOf(rows_, c) ==
    LET legs[i \in 0..Len(rows_)] ==
            IF i = 0 THEN <<>>
            ELSE IF rows_[i].purpose = "primary" /\ rows_[i].contract = c
              THEN Append(legs[i - 1], rows_[i]) ELSE legs[i - 1]
    IN  legs[Len(rows_)]

LEMMA PrimaryLegsAre == ASSUME NEW c PROVE PrimaryLegs(c) = PrimaryOf(ledger, c)
BY DEF PrimaryLegs, PrimaryOf

(* legs is the selection, row after row, up to row m.                      *)
Selects(legs, rows_, c, m) ==
    legs = [i \in 0..m |->
               IF i = 0 THEN <<>>
               ELSE IF rows_[i].purpose = "primary" /\ rows_[i].contract = c
                 THEN Append(legs[i - 1], rows_[i]) ELSE legs[i - 1]]

SelectNext(before, row, c) ==
    IF row.purpose = "primary" /\ row.contract = c THEN Append(before, row) ELSE before

LEMMA SelectionIs ==
    ASSUME NEW legs, NEW rows_, NEW c, NEW m \in Nat
    PROVE  Selects(legs, rows_, c, m) <=>
             /\ legs = [i \in 0..m |-> legs[i]]
             /\ legs[0] = <<>>
             /\ \A i \in 1..m : legs[i] = SelectNext(legs[i - 1], rows_[i], c)
<1>1. ASSUME Selects(legs, rows_, c, m)
      PROVE  /\ legs = [i \in 0..m |-> legs[i]]
             /\ legs[0] = <<>>
             /\ \A i \in 1..m : legs[i] = SelectNext(legs[i - 1], rows_[i], c)
  <2>1. \A i \in 0..m : legs[i] =
               IF i = 0 THEN <<>>
               ELSE IF rows_[i].purpose = "primary" /\ rows_[i].contract = c
                 THEN Append(legs[i - 1], rows_[i]) ELSE legs[i - 1]
    BY <1>1, Zenon DEF Selects
  <2>2. legs = [i \in 0..m |-> legs[i]]
    <3>1. DOMAIN legs = 0..m /\ legs = [i \in DOMAIN legs |-> legs[i]]
      BY <1>1, Zenon DEF Selects
    <3> QED BY <3>1, Zenon
  <2>3. 0 \in 0..m /\ \A i \in 1..m : i \in 0..m /\ i # 0
    OBVIOUS
  <2>4. legs[0] = <<>>
    BY <2>1, <2>3, Zenon
  <2>5. \A i \in 1..m : legs[i] = SelectNext(legs[i - 1], rows_[i], c)
    BY <2>1, <2>3, Zenon DEF SelectNext
  <2> QED BY <2>2, <2>4, <2>5
<1>2. ASSUME /\ legs = [i \in 0..m |-> legs[i]]
             /\ legs[0] = <<>>
             /\ \A i \in 1..m : legs[i] = SelectNext(legs[i - 1], rows_[i], c)
      PROVE  Selects(legs, rows_, c, m)
  <2>1. ASSUME NEW i \in 0..m
        PROVE  legs[i] = IF i = 0 THEN <<>>
               ELSE IF rows_[i].purpose = "primary" /\ rows_[i].contract = c
                 THEN Append(legs[i - 1], rows_[i]) ELSE legs[i - 1]
    <3>1. i # 0 => i \in 1..m
      OBVIOUS
    <3>2. i # 0 => legs[i] = SelectNext(legs[i - 1], rows_[i], c)
      BY <1>2, <3>1
    <3> QED BY <1>2, <3>2, Zenon DEF SelectNext
  <2> QED BY <1>2, <2>1, Zenon DEF Selects
<1> QED BY <1>1, <1>2

LEMMA SelectionExists ==
    ASSUME NEW rows_, NEW c, NEW n \in Nat
    PROVE  \E legs : Selects(legs, rows_, c, n)
<1> DEFINE Good == {m \in 0..n : \E legs : Selects(legs, rows_, c, m)}
<1>1. 0 \in Good
  <2>1. PICK g : g = [i \in 0..0 |-> <<>>]
    OBVIOUS
  <2>2. g = [i \in 0..0 |-> g[i]] /\ g[0] = <<>> /\ 1..0 = {}
    BY <2>1
  <2>3. Selects(g, rows_, c, 0)
    BY <2>2, SelectionIs
  <2> QED BY <2>3
<1>2. ASSUME NEW m \in 0..n, m # 0, m - 1 \in Good
      PROVE  m \in Good
  <2>1. PICK g : Selects(g, rows_, c, m - 1)
    BY <1>2
  <2>2. PICK h : h = [i \in 0..m |-> IF i < m THEN g[i] ELSE SelectNext(g[m - 1], rows_[m], c)]
    OBVIOUS
  <2>3. m - 1 \in Nat /\ m \in Nat
    BY <1>2
  <2>4. g[0] = <<>> /\ \A i \in 1..(m - 1) : g[i] = SelectNext(g[i - 1], rows_[i], c)
    BY <2>1, <2>3, SelectionIs
  <2>5. \A i \in 0..(m - 1) : h[i] = g[i]
    BY <2>2, <2>3
  <2>6. h[m] = SelectNext(g[m - 1], rows_[m], c)
    BY <2>2, <2>3
  <2>7. ASSUME NEW i \in 1..m PROVE h[i] = SelectNext(h[i - 1], rows_[i], c)
    <3>1. i - 1 \in 0..(m - 1) /\ (i = m \/ i \in 1..(m - 1))
      BY <2>3
    <3>2. h[i - 1] = g[i - 1] /\ (i # m => h[i] = g[i])
      BY <2>3, <2>5, <3>1
    <3> QED BY <2>4, <2>6, <3>1, <3>2
  <2>8. h[0] = <<>> /\ h = [i \in 0..m |-> h[i]]
    BY <2>2, <2>3, <2>4, <2>5
  <2>9. Selects(h, rows_, c, m)
    BY <2>3, <2>7, <2>8, SelectionIs
  <2> QED BY <2>9
<1>3. n \in Good
  <2> HIDE DEF Good
  <2> QED BY <1>1, <1>2, NumberInduction
<1> QED BY <1>3

LEMMA PrimaryOfIs ==
    ASSUME NEW rows_, Len(rows_) \in Nat, NEW c
    PROVE  \E legs : Selects(legs, rows_, c, Len(rows_)) /\ PrimaryOf(rows_, c) = legs[Len(rows_)]
<1> DEFINE n == Len(rows_)
           it == CHOOSE legs : legs = [i \in 0..n |->
                    IF i = 0 THEN <<>>
                    ELSE IF rows_[i].purpose = "primary" /\ rows_[i].contract = c
                      THEN Append(legs[i - 1], rows_[i]) ELSE legs[i - 1]]
<1>1. PrimaryOf(rows_, c) = it[n]
  BY DEF PrimaryOf
<1>2. \E legs : Selects(legs, rows_, c, n)
  BY SelectionExists
<1>3. Selects(it, rows_, c, n)
  BY <1>2 DEF Selects
<1> HIDE DEF it
<1> QED BY <1>1, <1>3

(* A row more is a row more of its own future, if it is the future's.      *)
LEMMA PrimaryOfMore ==
    ASSUME NEW rows_, NEW more, NEW c, Len(rows_) \in Nat, Len(more) = Len(rows_) + 1,
           \A i \in 1..Len(rows_) : more[i] = rows_[i]
    PROVE  PrimaryOf(more, c) = SelectNext(PrimaryOf(rows_, c), more[Len(more)], c)
<1> DEFINE n == Len(rows_)
<1>1. PICK g : Selects(g, rows_, c, n) /\ PrimaryOf(rows_, c) = g[n]
  BY PrimaryOfIs
<1>2. PICK h : Selects(h, more, c, n + 1) /\ PrimaryOf(more, c) = h[n + 1]
  <2>1. Len(more) \in Nat
    OBVIOUS
  <2> QED BY <2>1, PrimaryOfIs
<1>3. g[0] = <<>> /\ \A i \in 1..n : g[i] = SelectNext(g[i - 1], rows_[i], c)
  BY <1>1, SelectionIs
<1>4. h[0] = <<>> /\ \A i \in 1..(n + 1) : h[i] = SelectNext(h[i - 1], more[i], c)
  <2>1. n + 1 \in Nat
    OBVIOUS
  <2> QED BY <1>2, <2>1, SelectionIs
<1> DEFINE Good == {i \in 0..n : g[i] = h[i]}
<1>5. 0 \in Good
  BY <1>3, <1>4
<1>6. ASSUME NEW i \in 0..n, i # 0, i - 1 \in Good
      PROVE  i \in Good
  <2>1. i \in 1..n /\ i \in 1..(n + 1) /\ g[i - 1] = h[i - 1] /\ more[i] = rows_[i]
    BY <1>6
  <2>2. g[i] = h[i]
    BY <1>3, <1>4, <2>1
  <2> QED BY <2>2
<1>7. n \in Good
  <2>1. n \in Nat /\ n \in 0..n
    OBVIOUS
  <2> HIDE DEF Good, n
  <2> QED BY <1>5, <1>6, <2>1, NumberInduction
<1>8. n + 1 \in 1..(n + 1) /\ (n + 1) - 1 = n
  OBVIOUS
<1>9. h[n + 1] = SelectNext(h[n], more[n + 1], c)
  BY <1>4, <1>8
<1> QED BY <1>1, <1>2, <1>7, <1>9

LEMMA PrimaryOfNone ==
    ASSUME NEW c
    PROVE  PrimaryOf(<<>>, c) = <<>>
<1>1. Len(<<>>) = 0
  OBVIOUS
<1>2. PICK g : Selects(g, <<>>, c, 0) /\ PrimaryOf(<<>>, c) = g[0]
  BY <1>1, PrimaryOfIs
<1> QED BY <1>2, SelectionIs

-------------------------------------------------------------------------------
(* What a future's rows say is open.                                       *)

Results == {"COMPLETE", "REJECTED", "CANCELLED"}

Leg == [contract : Contracts, purpose : {"primary", "hedge"}, side : Sides, status : Results,
        qty : 1..Lot, basket : Nat]

Confirmed(legs, side) ==
    {i \in DOMAIN legs : legs[i].side = side /\ legs[i].status = "COMPLETE"}

Counted(legs, side) == SumOfQty(legs, Confirmed(legs, side))

LEMMA LegsAre ==
    ASSUME NEW legs \in Seq(Leg)
    PROVE  /\ WellFormed(legs) /\ Len(legs) \in Nat /\ DOMAIN legs = 1..Len(legs)
           /\ \A i \in DOMAIN legs : /\ legs[i] \in Leg /\ legs[i].qty \in 1..Lot
                                     /\ legs[i].side \in Sides /\ legs[i].status \in Results
                                     /\ legs[i].basket \in Nat
           /\ legs # <<>> => 1 \in DOMAIN legs
           /\ legs = <<>> => DOMAIN legs = {}
<1>1. /\ Len(legs) \in Nat /\ DOMAIN legs = 1..Len(legs)
      /\ \A i \in DOMAIN legs : legs[i] \in Leg
      /\ legs # <<>> => Len(legs) # 0
      /\ legs = <<>> => DOMAIN legs = {}
  BY LenProperties, ElementOfSeq, EmptySeq
<1>2. \A i \in DOMAIN legs : /\ legs[i].qty \in 1..Lot /\ legs[i].side \in Sides
                             /\ legs[i].status \in Results /\ legs[i].basket \in Nat
  BY <1>1 DEF Leg
<1>3. \A q \in 1..Lot : q \in Nat \ {0}
  BY LotAssumption
<1> QED BY <1>1, <1>2, <1>3 DEF WellFormed

LEMMA CountedIsNat ==
    ASSUME NEW legs \in Seq(Leg), NEW side
    PROVE  Counted(legs, side) \in Nat /\ (legs = <<>> => Counted(legs, side) = 0)
<1>1. Confirmed(legs, side) \in SUBSET DOMAIN legs
  BY DEF Confirmed
<1>2. /\ IsFiniteSet(Confirmed(legs, side))
      /\ SumOfQty(legs, Confirmed(legs, side)) = Total(Qty(legs), Confirmed(legs, side))
      /\ Total(Qty(legs), Confirmed(legs, side)) \in Nat
  BY <1>1, LegsAre, FiniteLegs
<1>3. ASSUME legs = <<>> PROVE Counted(legs, side) = 0
  <2>1. Confirmed(legs, side) = {}
    BY <1>1, <1>3, LegsAre
  <2>2. Total(Qty(legs), {}) = 0
    BY <1>2, TotalSplits
  <2> QED BY <1>2, <2>1, <2>2 DEF Counted
<1> QED BY <1>2, <1>3 DEF Counted

LEMMA CountedMore ==
    ASSUME NEW legs \in Seq(Leg), NEW leg \in Leg, NEW side
    PROVE  /\ Append(legs, leg) \in Seq(Leg) /\ Append(legs, leg) # <<>>
           /\ Append(legs, leg)[1] = IF legs = <<>> THEN leg ELSE legs[1]
           /\ Counted(Append(legs, leg), side) = Counted(legs, side) +
                 (IF leg.side = side /\ leg.status = "COMPLETE" THEN leg.qty ELSE 0)
<1> DEFINE more == Append(legs, leg)
           n == Len(legs)
<1>1. /\ more \in Seq(Leg) /\ Len(more) = n + 1 /\ more[n + 1] = leg /\ n \in Nat
      /\ \A i \in 1..n : more[i] = legs[i]
      /\ DOMAIN legs = 1..n /\ DOMAIN more = 1..(n + 1) /\ more # <<>>
  BY LenProperties, AppendProperties
<1> HIDE DEF more
<1>2. more[1] = IF legs = <<>> THEN leg ELSE legs[1]
  <2>1. legs = <<>> => n = 0
    BY EmptySeq
  <2>2. legs # <<>> => 1 \in 1..n
    BY <1>1, LegsAre
  <2> QED BY <1>1, <2>1, <2>2
<1>3. GrowsByOne(legs, more)
  BY <1>1, LegsAre DEF GrowsByOne
<1> DEFINE I == Confirmed(legs, side)
<1>4. I \in SUBSET DOMAIN legs
  BY DEF Confirmed
<1>5. Confirmed(more, side) = IF leg.side = side /\ leg.status = "COMPLETE"
                                THEN I \cup {Len(more)} ELSE I
  <2>1. \A i \in DOMAIN more : i \in DOMAIN legs \/ i = n + 1
    BY <1>1
  <2>2. n + 1 \notin DOMAIN legs /\ n + 1 \in DOMAIN more /\ DOMAIN legs \subseteq DOMAIN more
    BY <1>1
  <2> HIDE DEF n
  <2> QED BY <1>1, <2>1, <2>2 DEF Confirmed
<1>6. /\ SumOfQty(more, I) = SumOfQty(legs, I) /\ SumOfQty(legs, I) \in Nat
      /\ SumOfQty(more, I \cup {Len(more)}) = SumOfQty(legs, I) + more[Len(more)].qty
  BY <1>3, <1>4, SumStays
<1>7. Counted(more, side) = Counted(legs, side) +
                 (IF leg.side = side /\ leg.status = "COMPLETE" THEN leg.qty ELSE 0)
  <2>1. CASE leg.side = side /\ leg.status = "COMPLETE"
    BY <1>1, <1>5, <1>6, <2>1 DEF Counted
  <2>2. CASE ~(leg.side = side /\ leg.status = "COMPLETE")
    BY <1>5, <1>6, <2>2 DEF Counted
  <2> QED BY <2>1, <2>2
<1> QED BY <1>1, <1>2, <1>7 DEF more

LEMMA LeastExists ==
    ASSUME NEW n \in Nat, NEW S, S \subseteq 1..n, S # {}
    PROVE  Min(S) \in S
<1>1. \E x \in S : \A y \in S : x <= y
  <2> DEFINE Good == {k \in 0..n : (\E x \in S : x <= k) => \E x \in S : \A y \in S : x <= y}
  <2>1. 0 \in Good
    OBVIOUS
  <2>2. ASSUME NEW k \in 0..n, k # 0, k - 1 \in Good
        PROVE  k \in Good
    BY <2>2
  <2> HIDE DEF Good
  <2>3. n \in Good
    BY <2>1, <2>2, NumberInduction
  <2>4. \A x \in S : x <= n
    OBVIOUS
  <2> QED BY <2>3, <2>4 DEF Good
<1> QED BY <1>1 DEF Min

(* The open legs: what is left of each, and of all of them together.       *)
LEMMA OpenLegs ==
    ASSUME NEW legs \in Seq(Leg)
    PROVE  LET open == OpenQuantity(legs, UnclosedStatuses)
           IN  /\ DOMAIN open \in SUBSET DOMAIN legs
               /\ \A i \in DOMAIN open : /\ open[i] \in 1..Lot
                                         /\ legs[i].side = OpeningSide(legs)
               /\ DOMAIN open # {} => Min(DOMAIN open) \in DOMAIN open
<1> DEFINE open == OpenQuantity(legs, UnclosedStatuses)
           B(i) == OpenedUpTo(legs, UnclosedStatuses, i)
<1>1. /\ WellFormed(legs) /\ Len(legs) \in Nat /\ DOMAIN legs = 1..Len(legs)
      /\ \A i \in DOMAIN legs : legs[i].qty \in 1..Lot
  BY LegsAre
<1>2. /\ DOMAIN open = {i \in Openers(legs, UnclosedStatuses) : B(i) > ClosedQty(legs)}
      /\ \A i \in DOMAIN open :
            open[i] = IF B(i) - ClosedQty(legs) < legs[i].qty
                        THEN B(i) - ClosedQty(legs) ELSE legs[i].qty
  BY <1>1, NettingIs
<1>3. /\ ClosedQty(legs) \in Nat
      /\ \A i \in 0..Len(legs) : B(i) \in Nat
  BY <1>1, OpenedStepwise
<1> HIDE DEF open, B
<1>4. DOMAIN open \in SUBSET DOMAIN legs
  BY <1>2 DEF Openers
<1>5. ASSUME NEW i \in DOMAIN open PROVE open[i] \in 1..Lot /\ legs[i].side = OpeningSide(legs)
  <2>1. i \in DOMAIN legs /\ i \in 0..Len(legs)
    BY <1>1, <1>4
  <2>2. B(i) \in Nat /\ B(i) > ClosedQty(legs) /\ legs[i].qty \in 1..Lot
    BY <1>1, <1>2, <1>3, <2>1
  <2>3. open[i] = IF B(i) - ClosedQty(legs) < legs[i].qty
                        THEN B(i) - ClosedQty(legs) ELSE legs[i].qty
    BY <1>2
  <2>4. i \in Openers(legs, UnclosedStatuses)
    BY <1>2
  <2> QED BY <1>3, <2>2, <2>3, <2>4, LotAssumption DEF Openers
<1>6. DOMAIN open # {} => Min(DOMAIN open) \in DOMAIN open
  BY <1>1, <1>4, LeastExists
<1> QED BY <1>4, <1>5, <1>6 DEF open

(* They are what was opened beyond what was closed.                        *)
LEMMA OpenTotal ==
    ASSUME NEW legs \in Seq(Leg), NEW side \in Sides,
           legs # <<>> => legs[1].side = side
    PROVE  LET open == OpenQuantity(legs, UnclosedStatuses)
               balance == Counted(legs, side) - Counted(legs, Opposite(side))
           IN  /\ balance \in Int
               /\ Total(open, DOMAIN open) = IF balance > 0 THEN balance ELSE 0
               /\ DOMAIN open # {} <=> balance > 0
               /\ \A i \in DOMAIN open : open[i] <= balance
<1> DEFINE open == OpenQuantity(legs, UnclosedStatuses)
           balance == Counted(legs, side) - Counted(legs, Opposite(side))
<1>1. /\ WellFormed(legs) /\ DOMAIN legs = 1..Len(legs) /\ Len(legs) \in Nat
      /\ \A i \in DOMAIN legs : legs[i].side \in Sides /\ legs[i].status \in Results
      /\ legs # <<>> => 1 \in DOMAIN legs
      /\ legs = <<>> => DOMAIN legs = {}
  BY LegsAre
<1>2. DOMAIN legs # {} => OpeningSide(legs) = side
  BY <1>1 DEF OpeningSide
<1>3. Openers(legs, UnclosedStatuses) = Confirmed(legs, side)
  BY <1>1, <1>2 DEF Openers, Confirmed, UnclosedStatuses, Results
<1>4. ClosedQty(legs) = Counted(legs, Opposite(side))
  <2>1. {i \in DOMAIN legs : legs[i].side # OpeningSide(legs) /\ legs[i].status = "COMPLETE"}
           = Confirmed(legs, Opposite(side))
    BY <1>1, <1>2 DEF Confirmed, Opposite, Sides
  <2> QED BY <2>1 DEF ClosedQty, Counted
<1>5. /\ Counted(legs, side) \in Nat /\ Counted(legs, Opposite(side)) \in Nat
  BY CountedIsNat
<1>6. Total(open, DOMAIN open) = IF balance > 0 THEN balance ELSE 0
  <2>1. Total(open, DOMAIN open) =
           IF SumOfQty(legs, Openers(legs, UnclosedStatuses)) > ClosedQty(legs)
             THEN SumOfQty(legs, Openers(legs, UnclosedStatuses)) - ClosedQty(legs) ELSE 0
    BY <1>1, NettingTotal
  <2>2. SumOfQty(legs, Openers(legs, UnclosedStatuses)) = Counted(legs, side)
    BY <1>3 DEF Counted
  <2> QED BY <1>4, <1>5, <2>1, <2>2
<1>7. DOMAIN open \in SUBSET DOMAIN legs /\ \A i \in DOMAIN open : open[i] \in 1..Lot
  BY OpenLegs
<1>8. IsFiniteSet(DOMAIN open) /\ \A i \in DOMAIN open : open[i] \in Nat \ {0}
  <2>1. IsFiniteSet(DOMAIN legs)
    BY <1>1, FS_Interval
  <2>2. IsFiniteSet(DOMAIN open)
    BY <1>7, <2>1, FS_Subset
  <2>3. \A q \in 1..Lot : q \in Nat \ {0}
    BY LotAssumption
  <2> QED BY <1>7, <2>2, <2>3
<1> HIDE DEF open
<1>9. Total(open, DOMAIN open) \in Nat /\ \A i \in DOMAIN open : open[i] <= Total(open, DOMAIN open)
  BY <1>8, TotalIsNat
<1>10. DOMAIN open = {} => Total(open, DOMAIN open) = 0
  BY <1>8, TotalSplits
<1> HIDE DEF balance
<1>11. balance \in Int
  BY <1>5 DEF balance
<1>12. DOMAIN open # {} <=> balance > 0
  <2>1. ASSUME balance > 0 PROVE DOMAIN open # {}
    <3>1. Total(open, DOMAIN open) = balance
      BY <1>6, <2>1
    <3>2. balance # 0
      BY <1>11, <2>1
    <3> QED BY <1>10, <3>1, <3>2, Zenon
  <2>2. ASSUME NEW i \in DOMAIN open PROVE balance > 0
    <3>1. open[i] \in Nat \ {0} /\ open[i] <= Total(open, DOMAIN open)
      BY <1>8, <1>9
    <3> QED BY <1>6, <1>9, <1>11, <3>1
  <2> QED BY <2>1, <2>2
<1>13. \A i \in DOMAIN open : open[i] <= balance
  BY <1>6, <1>9, <1>12
<1> QED BY <1>6, <1>11, <1>12, <1>13 DEF open, balance

-------------------------------------------------------------------------------
(* At most one actor is in an entry or an exit, whatever is cut or crashes. *)

Solo ==
    /\ FromNothing
    /\ \A a \in Actors : Gone(a) => active.status = "open"
    /\ \A a, b \in Actors : Gone(a) /\ Gone(b) => a = b

Checking == {"brokerCheck", "attempt", "contract"}

Busy(a) == Gone(a) \/ (a = "roll" /\ (Entering \/ pc["roll"] \in Checking))

LEMMA OneBusy ==
    ASSUME Solo, NEW a \in Actors, NEW b \in Actors, Busy(a), Busy(b)
    PROVE  a = b
BY NoActiveFacts DEF Solo, FromNothing, Busy, Checking

(* Where an actor is busy.                                                 *)
LEMMA BusyAt ==
    ASSUME SwingType, NEW a \in Actors,
           \/ pc[a] \in Ordering \cup Checking
           \/ pc[a] \in {"gate", "settle", "activate", "exitLook", "hedgeLook", "exitCheck", "clear"}
    PROVE  Busy(a)
<1>1. PlaceOK(a, pc[a], job[a])
  BY DEF SwingType, ActorsOK
<1>2. pc[a] \notin {"idle", "lock", "trail", "choose", "finish"}
  BY DEF Ordering, Checking
<1>3. Leaving(pc[a], job[a].stage) => Gone(a)
  BY DEF Gone
<1>4. a = "roll" /\ pc[a] \in Looking => Busy(a)
  BY <1>2 DEF Looking, Busy, Entering, Checking
<1>5. a = "roll" /\ EntryStep(pc[a], job[a].stage) => Busy(a)
  BY DEF Busy, Entering
<1> QED BY <1>1, <1>2, <1>3, <1>4, <1>5 DEF PlaceOK, Busy

Nowhere == {"idle", "lock", "trail", "choose", "finish"}

LEMMA NowhereIsPlain ==
    ASSUME NEW step \in Nowhere
    PROVE  Plain(step) /\ step \notin Checking /\ step \notin Ordering
BY DEF Nowhere, Plain, Checking, Ordering

LEMMA MoveKeepsSolo ==
    ASSUME SwingType, Solo, NEW a \in Actors, NEW step, NEW j, Moves(a, step, j),
           a = "roll" /\ (EnteringAt(step, j.stage) \/ step \in Checking) => active' = NoActive,
           Leaving(step, j.stage) =>
               active'.status = "open" /\ \A b \in Actors : b # a => ~Gone(b),
           \A b \in Actors : b # a /\ Gone(b) => active'.status = "open",
           a # "roll" /\ (Entering \/ pc["roll"] \in Checking) => active' = NoActive
    PROVE  Solo'
<1>1. /\ pc'[a] = step /\ job'[a] = j
      /\ \A b \in Actors : b # a => pc'[b] = pc[b] /\ job'[b] = job[b]
      /\ "roll" \in Actors
  BY Moved DEF SwingType, Moves, Actors
<1>2. FromNothing'
  <2>1. CASE a = "roll"
    BY <1>1, <2>1 DEF FromNothing, Entering, EnteringAt, Checking
  <2>2. CASE a # "roll"
    BY <1>1, <2>2 DEF FromNothing, Entering, Checking
  <2> QED BY <2>1, <2>2
<1>3. ASSUME NEW b \in Actors
      PROVE  /\ b = a => (Gone(b)' <=> Leaving(step, j.stage))
             /\ b # a => (Gone(b)' <=> Gone(b))
  BY <1>1 DEF Gone
<1>4. \A b \in Actors : Gone(b)' => active'.status = "open"
  BY <1>3
<1>5. \A b, c \in Actors : Gone(b)' /\ Gone(c)' => b = c
  BY <1>3 DEF Solo
<1> QED BY <1>2, <1>4, <1>5 DEF Solo

-------------------------------------------------------------------------------
(* What the steps that place and record no order do.                       *)

Elsewhere(a, step, j) ==
    \/ /\ step \in Nowhere
       /\ \/ UNCHANGED active
          \/ a = "roll" /\ active'.status = "open"
          \/ pc[a] = "clear" /\ active' = NoActive
    \/ /\ pc[a] = "choose" /\ a = "roll" /\ step = "brokerCheck" /\ active = NoActive
       /\ ~AnyUnclosed /\ UNCHANGED active
    \/ /\ pc[a] = "brokerCheck" /\ a = "roll" /\ step = "attempt" /\ ~BrokerHoldsNfo
       /\ j.setup \in Setups /\ j.contract = j.setup.contract /\ j.side = j.setup.side
       /\ UNCHANGED active
    \/ /\ pc[a] = "attempt" /\ a = "roll" /\ step = "contract" /\ j = job[a]
       /\ j.setup \in Setups /\ j.setup \notin attempts /\ j.setup \in attempts'
       /\ UNCHANGED active
    \/ pc[a] = "contract" /\ a = "roll" /\ step = "gate" /\ j = job[a] /\ UNCHANGED active
    \/ pc[a] = "settle" /\ a = "roll" /\ step = "activate" /\ j = job[a] /\ UNCHANGED active
    \/ /\ pc[a] = "lock" /\ step = "exitLook" /\ active.status = "open"
       /\ j.stage = "none" /\ (\A b \in Actors : ~InExit(b)) /\ UNCHANGED active
    \/ pc[a] = "exitCheck" /\ step = "clear" /\ j = job[a] /\ UNCHANGED active

Strolls(a, step, j) ==
    /\ Moves(a, step, j) /\ Elsewhere(a, step, j)
    /\ pc[a] \notin Ordering /\ pc[a] \notin {"gate", "exitLook", "hedgeLook"}
    /\ j.basket = job[a].basket \/ j.basket = 0
    /\ attempts \subseteq attempts'
    /\ UNCHANGED <<orders, ledger, faults, lost>>

LEMMA NoJobStrolls ==
    ASSUME SwingType, NEW a \in Actors, NEW step \in Nowhere,
           pc[a] \notin Ordering, pc[a] \notin {"gate", "exitLook", "hedgeLook"},
           Moves(a, step, NoJob) \/ Moves(a, step, job[a]),
           UNCHANGED active \/ (pc[a] = "clear" /\ active' = NoActive), attempts \subseteq attempts',
           UNCHANGED <<orders, ledger, faults, lost>>
    PROVE  \E j : Strolls(a, step, j)
<1>1. NoJob.basket = 0
  BY DEF NoJob
<1> QED BY <1>1 DEF Strolls, Elsewhere

LEMMA RollStrolls ==
    ASSUME SwingType, DayInv, RollStep
    PROVE  \E step, j : Strolls("roll", step, j)
<1> DEFINE k == job["roll"]
<1>1. /\ "roll" \in Actors /\ ActorsOK /\ JobOK(k)
      /\ pc["roll"] \notin Nowhere => k.setup \in Setups \/ pc["roll"] = "brokerCheck"
  <2>1. "roll" \in Actors
    BY DEF Actors
  <2> QED BY <2>1 DEF SwingType, ActorsOK, PlaceOK, Nowhere
<1>2. UNCHANGED <<orders, ledger, faults, lost>> /\ attempts \subseteq attempts'
  BY DEF RollStep, CloseBucket, Trail, Choose, BrokerCheck, Attempt, Decline, CreateEntering, Settle,
         Activate, Finish, recordVars
<1>3. ASSUME NEW step, NEW j, Moves("roll", step, j), Elsewhere("roll", step, j),
             pc["roll"] \notin Ordering, pc["roll"] \notin {"gate", "exitLook", "hedgeLook"},
             j.basket = k.basket \/ j.basket = 0
      PROVE  \E step_, j_ : Strolls("roll", step_, j_)
  BY <1>2, <1>3 DEF Strolls
<1>4. CASE CloseBucket
  <2> DEFINE t == [k EXCEPT !.setup = active.setup, !.best = active.best]
  <2>1. pc["roll"] = "idle" /\ UNCHANGED active
    BY <1>4 DEF CloseBucket, memoryVars
  <2>2. CASE GotoWith("roll", "trail", t)
    <3>1. t.basket = k.basket
      BY <1>1 DEF JobOK, JobFields
    <3>2. Moves("roll", "trail", t)
      BY <1>1, <2>2, Moved
    <3> HIDE DEF t, k
    <3> QED BY <1>3, <2>1, <3>1, <3>2 DEF Elsewhere, Nowhere, Ordering
  <2>3. CASE Goto("roll", "choose")
    <3>1. Moves("roll", "choose", k)
      BY <1>1, <2>3, Moved
    <3> HIDE DEF k
    <3> QED BY <1>3, <2>1, <3>1 DEF Elsewhere, Nowhere, Ordering
  <2> QED BY <1>4, <2>2, <2>3 DEF CloseBucket
<1>5. CASE Trail
  <2> DEFINE j == [k EXCEPT !.after = "choose"]
  <2>1. PICK step \in {"lock", "choose"} : GotoWith("roll", step, j) /\ active'.status = "open"
    <3>1. \E timeIsUp \in BOOLEAN : GotoWith("roll", IF timeIsUp THEN "lock" ELSE "choose", j)
      BY <1>5 DEF Trail
    <3>2. active'.status = "open"
      BY <1>5 DEF Trail
    <3> QED BY <3>1, <3>2
  <2>2. Moves("roll", step, j) /\ j.basket = k.basket /\ pc["roll"] = "trail"
    BY <1>1, <1>5, <2>1, Moved DEF JobOK, JobFields, Trail
  <2> HIDE DEF j, k
  <2> QED BY <1>3, <2>1, <2>2 DEF Elsewhere, Nowhere, Ordering
<1>6. CASE Choose
  <2>1. pc["roll"] = "choose" /\ UNCHANGED active
    BY <1>6 DEF Choose, memoryVars
  <2>2. PICK confirmed \in SUBSET Unattempted :
          \/ GotoWith("roll", "idle", NoJob)
          \/ /\ active = NoActive /\ ~AnyUnclosed
             /\ GotoWith("roll", "brokerCheck", [NoJob EXCEPT !.rest = confirmed])
    BY <1>6 DEF Choose
  <2>3. CASE GotoWith("roll", "idle", NoJob)
    <3>1. Moves("roll", "idle", NoJob)
      BY <1>1, <2>3, Moved
    <3> QED BY <1>1, <1>2, <2>1, <3>1, NoJobStrolls DEF Nowhere, Ordering
  <2>4. CASE /\ active = NoActive /\ ~AnyUnclosed
             /\ GotoWith("roll", "brokerCheck", [NoJob EXCEPT !.rest = confirmed])
    <3> DEFINE j == [NoJob EXCEPT !.rest = confirmed]
    <3>1. Moves("roll", "brokerCheck", j) /\ j.basket = 0
      BY <1>1, <2>4, Moved DEF NoJob
    <3> HIDE DEF j, k
    <3> QED BY <1>3, <2>1, <2>4, <3>1 DEF Elsewhere, Ordering
  <2> QED BY <2>2, <2>3, <2>4
<1>7. CASE BrokerCheck
  <2>1. pc["roll"] = "brokerCheck" /\ UNCHANGED active
    BY <1>7 DEF BrokerCheck, memoryVars
  <2>2. CASE GotoWith("roll", "idle", NoJob)
    <3>1. Moves("roll", "idle", NoJob)
      BY <1>1, <2>2, Moved
    <3> QED BY <1>1, <1>2, <2>1, <3>1, NoJobStrolls DEF Nowhere, Ordering
  <2>3. ASSUME ~BrokerHoldsNfo, NEW d \in k.rest,
               GotoWith("roll", "attempt",
                        [k EXCEPT !.setup = d, !.rest = @ \ {d},
                                  !.contract = d.contract, !.side = d.side])
        PROVE  \E step, j : Strolls("roll", step, j)
    <3> DEFINE j == [k EXCEPT !.setup = d, !.rest = @ \ {d},
                              !.contract = d.contract, !.side = d.side]
    <3>1. Moves("roll", "attempt", j)
      BY <1>1, <2>3, Moved
    <3>2. /\ j.setup = d /\ j.contract = d.contract /\ j.side = d.side /\ j.basket = k.basket
          /\ d \in Setups
      BY <1>1 DEF JobOK, JobFields
    <3> HIDE DEF j, k
    <3> QED BY <1>3, <2>1, <2>3, <3>1, <3>2 DEF Elsewhere, Ordering
  <2> QED BY <1>7, <2>2, <2>3 DEF BrokerCheck
<1>8. CASE Attempt
  <2>1. /\ pc["roll"] = "attempt" /\ UNCHANGED active /\ attempts' = attempts \cup {k.setup}
        /\ Goto("roll", IF k.setup \in attempts THEN "finish" ELSE "contract")
    BY <1>8 DEF Attempt, memoryVars
  <2>2. CASE k.setup \in attempts
    <3>1. Moves("roll", "finish", k)
      BY <1>1, <2>1, <2>2, Moved
    <3> HIDE DEF k
    <3> QED BY <1>3, <2>1, <3>1 DEF Elsewhere, Nowhere, Ordering
  <2>3. CASE k.setup \notin attempts
    <3>1. Moves("roll", "contract", k) /\ k.setup \in Setups
      BY <1>1, <2>1, <2>3, Moved DEF Nowhere
    <3>2. Elsewhere("roll", "contract", k)
      BY <2>1, <2>3, <3>1 DEF Elsewhere
    <3> HIDE DEF k
    <3> QED BY <1>3, <2>1, <3>1, <3>2 DEF Ordering
  <2> QED BY <2>2, <2>3
<1>9. ASSUME NEW step, Goto("roll", step), UNCHANGED active,
             \/ pc["roll"] = "contract" /\ step \in {"finish", "gate"}
             \/ pc["roll"] = "settle" /\ step \in {"finish", "activate"}
      PROVE  \E step_, j : Strolls("roll", step_, j)
  <2>1. Moves("roll", step, k)
    BY <1>1, <1>9, Moved
  <2>2. Elsewhere("roll", step, k)
    BY <1>9 DEF Elsewhere, Nowhere
  <2> HIDE DEF k
  <2> QED BY <1>3, <1>9, <2>1, <2>2 DEF Ordering
<1>10. CASE Decline
  BY <1>9, <1>10 DEF Decline, memoryVars
<1>11. CASE CreateEntering
  BY <1>9, <1>11 DEF CreateEntering, memoryVars
<1>12. CASE Settle
  <2>1. PICK step \in {"finish", "activate"} : Goto("roll", step)
    BY <1>12 DEF Settle
  <2> QED BY <1>9, <1>12, <2>1 DEF Settle, memoryVars
<1>13. CASE Activate
  <2> DEFINE j == [k EXCEPT !.after = "finish"]
  <2>1. PICK step \in {"lock", "finish"} : GotoWith("roll", step, j)
    BY <1>13 DEF Activate
  <2>2. Moves("roll", step, j) /\ j.basket = k.basket /\ pc["roll"] = "activate" /\ active'.status = "open"
    BY <1>1, <1>13, <2>1, Moved DEF JobOK, JobFields, Activate
  <2> HIDE DEF j, k
  <2> QED BY <1>3, <2>1, <2>2 DEF Elsewhere, Nowhere, Ordering
<1>14. CASE Finish
  <2>1. Moves("roll", "idle", NoJob) /\ pc["roll"] = "finish" /\ UNCHANGED active
    BY <1>1, <1>14, Moved DEF Finish, memoryVars
  <2> QED BY <1>1, <1>2, <2>1, NoJobStrolls DEF Nowhere, Ordering
<1> QED BY <1>4, <1>5, <1>6, <1>7, <1>8, <1>10, <1>11, <1>12, <1>13, <1>14 DEF RollStep

LEMMA ReturnStrolls ==
    ASSUME SwingType, NEW a \in Actors, pc[a] \in {"lock", "exitCheck", "clear"}, Return(a),
           UNCHANGED active \/ (pc[a] = "clear" /\ active' = NoActive),
           UNCHANGED <<orders, ledger, faults, lost, attempts>>
    PROVE  \E step, j : Strolls(a, step, j)
<1>1. PICK step \in {"idle", "choose", "finish"} : Moves(a, step, NoJob)
  BY Returns DEF SwingType
<1>2. step \in Nowhere
  BY DEF Nowhere
<1> QED BY <1>1, <1>2, NoJobStrolls DEF Ordering

LEMMA ExitStrolls ==
    ASSUME SwingType, NEW a \in Actors, ExitStep(a) \/ (a = "tick" /\ TickExit)
    PROVE  \E step, j : Strolls(a, step, j)
<1> DEFINE k == job[a]
<1>1. ActorsOK /\ JobOK(k)
  BY DEF SwingType, ActorsOK
<1>2. CASE a = "tick" /\ TickExit
  <2>1. pc[a] = "idle" /\ UNCHANGED <<orders, ledger, faults, lost, attempts, active>>
    BY <1>2 DEF TickExit, recordVars, memoryVars
  <2>2. Moves(a, "lock", job[a])
    BY <1>1, <1>2, Moved DEF TickExit
  <2> QED BY <2>1, <2>2, NoJobStrolls DEF Nowhere, Ordering
<1>3. CASE TakeExitLock(a)
  <2>1. pc[a] = "lock" /\ UNCHANGED <<orders, ledger, faults, lost, attempts, active>>
    BY <1>3 DEF TakeExitLock, recordVars
  <2>2. CASE Return(a)
    BY <2>1, <2>2, ReturnStrolls
  <2>3. CASE active.status = "open" /\ GotoWith(a, "exitLook", [k EXCEPT !.setup = active.setup, !.stage = "none"])
    <3> DEFINE j == [k EXCEPT !.setup = active.setup, !.stage = "none"]
    <3>1. Moves(a, "exitLook", j) /\ j.stage = "none" /\ j.basket = k.basket
      BY <1>1, <2>3, Moved DEF JobOK, JobFields
    <3> HIDE DEF j, k
    <3>2. Elsewhere(a, "exitLook", j)
      BY <1>3, <2>1, <2>3, <3>1 DEF Elsewhere, TakeExitLock
    <3> QED BY <2>1, <3>1, <3>2 DEF Strolls, Ordering, k
  <2> QED BY <1>3, <2>2, <2>3 DEF TakeExitLock
<1>4. CASE ExitIncomplete(a)
  BY <1>4, ReturnStrolls DEF ExitIncomplete, recordVars
<1>5. CASE CloseRow(a)
  <2>1. /\ pc[a] = "exitCheck" /\ Moves(a, "clear", job[a])
        /\ UNCHANGED <<orders, ledger, faults, lost, attempts, active>>
    BY <1>1, <1>5, Moved DEF CloseRow, memoryVars
  <2> QED BY <2>1 DEF Strolls, Elsewhere, Ordering
<1>6. CASE ClearActive(a)
  BY <1>6, ReturnStrolls DEF ClearActive, recordVars
<1> QED BY <1>2, <1>3, <1>4, <1>5, <1>6 DEF ExitStep

LEMMA StrollsKeepSolo ==
    ASSUME SwingType, Solo, NEW a \in Actors, NEW step, NEW j, Strolls(a, step, j)
    PROVE  Solo'
<1>1. Moves(a, step, j) /\ Elsewhere(a, step, j) /\ pc[a] \notin Ordering
  BY DEF Strolls
<1>2. "roll" \in Actors /\ NoActive.status = "none"
  BY DEF Actors, NoActive
<1>3. \A b \in Actors : Gone(b) => Busy(b) /\ active.status = "open"
  BY DEF Busy, Solo
<1>4. Entering \/ pc["roll"] \in Checking => Busy("roll") /\ active = NoActive
  BY DEF Busy, Solo, FromNothing, Checking
<1>5. \A b, c \in Actors : Busy(b) /\ Busy(c) => b = c
  BY OneBusy
<1>6. \A x : x \in Nowhere => /\ ~EnteringAt(x, j.stage) /\ ~Leaving(x, j.stage)
                              /\ x \notin Checking
  BY NowhereIsPlain, PlainSteps
<1>7. CASE step \in Nowhere
  <2>1. pc[a] = "clear" => Busy(a)
    BY BusyAt
  <2>2. \A b \in Actors : b # a /\ Gone(b) => active'.status = "open"
    BY <1>1, <1>3, <1>5, <1>6, <1>7, <2>1 DEF Elsewhere, Nowhere
  <2>3. a # "roll" /\ (Entering \/ pc["roll"] \in Checking) => active' = NoActive
    BY <1>1, <1>4, <1>7 DEF Elsewhere, Nowhere
  <2> QED BY <1>1, <1>6, <1>7, <2>2, <2>3, MoveKeepsSolo
<1>8. CASE a = "roll" /\ step \in Checking \cup {"gate", "activate"} /\ UNCHANGED active
  <2>1. pc[a] = "choose" => active = NoActive
    BY <1>1, <1>8, <1>6 DEF Elsewhere, Nowhere, Checking
  <2>2. pc[a] # "choose" => Busy(a) /\ ~Gone(a)
    <3>1. pc[a] \in Checking \cup {"settle"} \/ pc[a] = "choose"
      BY <1>1, <1>8, <1>6 DEF Elsewhere, Nowhere, Checking
    <3>2. pc[a] # "choose" => Busy(a)
      BY <3>1, BusyAt
    <3> QED BY <3>1, <3>2 DEF Gone, Leaving, LeavingStep, Checking, Ordering
  <2>3. active = NoActive
    BY <1>4, <1>8, <2>1, <2>2 DEF Busy
  <2>4. ~Leaving(step, j.stage)
    BY <1>8 DEF Leaving, LeavingStep, Checking, Ordering
  <2>5. \A b \in Actors : ~Gone(b)
    BY <1>2, <1>3, <2>3
  <2> QED BY <1>1, <1>8, <2>3, <2>4, <2>5, MoveKeepsSolo
<1>9. CASE /\ step \in {"exitLook", "clear"} /\ UNCHANGED active /\ active.status = "open"
           /\ \A b \in Actors : b # a => ~Gone(b)
  <2>1. ~EnteringAt(step, j.stage) /\ step \notin Checking
    BY <1>9 DEF EnteringAt, EntryStep, Ordering, Checking
  <2>2. ~(Entering \/ pc["roll"] \in Checking)
    BY <1>2, <1>4, <1>9
  <2> QED BY <1>1, <1>9, <2>1, <2>2, MoveKeepsSolo
<1>10. CASE step = "exitLook" /\ (\A b \in Actors : ~InExit(b)) /\ active.status = "open" /\ UNCHANGED active
  <2>1. \A b \in Actors : Gone(b) => InExit(b)
    BY DEF Gone, Leaving, LeavingStep, InExit, LockedSteps, Ordering, EntryStages, ExitStages
  <2> QED BY <1>9, <1>10, <2>1
<1>11. CASE pc[a] = "exitCheck" /\ step = "clear" /\ UNCHANGED active
  <2>1. Busy(a) /\ Gone(a)
    <3>1. Busy(a)
      BY <1>11, BusyAt
    <3> QED BY <1>11, <3>1 DEF Busy, Entering, EntryStep, Ordering, Checking
  <2> QED BY <1>3, <1>5, <1>9, <1>11, <2>1
<1> QED BY <1>1, <1>7, <1>8, <1>10, <1>11 DEF Elsewhere, Checking

(* A step of the basket stays in its entry, or in its exit.                *)
LEMMA OnwardsKeepsSolo ==
    ASSUME SwingType, Solo, NEW a \in Actors, NEW step, NEW j, Onwards(a, step, j),
           UNCHANGED active
    PROVE  Solo'
<1>1. "roll" \in Actors /\ NoActive.status = "none"
  BY DEF Actors, NoActive
<1>2. CASE a = "roll" /\ EntryStep(pc[a], job[a].stage) /\ EntryStep(step, j.stage)
  <2>1. active = NoActive /\ \A b \in Actors : ~Gone(b)
    BY <1>1, <1>2 DEF Solo, FromNothing, Entering
  <2>2. ~Leaving(step, j.stage)
    BY <1>2 DEF EntryStep, Leaving, LeavingStep, Ordering, EntryStages, ExitStages
  <2> QED BY <1>2, <2>1, <2>2, MoveKeepsSolo DEF Onwards
<1>3. CASE LeavingStep(pc[a], job[a].stage) /\ LeavingStep(step, j.stage)
  <2>1. Gone(a) /\ active.status = "open" /\ active # NoActive
    BY <1>1, <1>3 DEF Gone, Leaving, Solo
  <2>2. (\A b \in Actors : b # a => ~Gone(b)) /\ ~Entering /\ pc["roll"] \notin Checking
    BY <2>1 DEF Solo, FromNothing, Checking
  <2>3. ~EnteringAt(step, j.stage) /\ step \notin Checking
    BY <1>3 DEF LeavingStep, EnteringAt, EntryStep, Ordering, EntryStages, ExitStages, Checking
  <2> QED BY <2>1, <2>2, <2>3, MoveKeepsSolo DEF Onwards
<1> QED BY <1>2, <1>3 DEF Onwards

LEMMA IdleIsSolo ==
    ASSUME \A a \in Actors : pc'[a] = "idle"
    PROVE  Solo'
BY DEF Solo, FromNothing, Entering, EntryStep, Gone, Leaving, LeavingStep, Ordering, Actors

(* The kinds of steps, from where the orders and the ledger stand.         *)
Standing == UNCHANGED <<orders, ledger, pc, job, faults, lost>>

LEMMA StepKinds ==
    ASSUME SwingType, DayInv, [Next]_vars
    PROVE  \/ \E a \in Actors : \E step, j : Strolls(a, step, j)
           \/ \E a \in Actors : BasketStep(a) /\ UNCHANGED <<recordVars, memoryVars, clockVars>>
           \/ /\ \E o \in DOMAIN orders : (\E n \in 1..Lot : Trade(o, n)) \/ Reject(o)
              /\ UNCHANGED <<recordVars, memoryVars, clockVars>>
           \/ SessionCut \/ Crash \/ NewDay
           \/ Standing /\ (Setup \/ Begin)
           \/ Standing /\ UNCHANGED <<active, attempts, rows>>
<1>1. "roll" \in Actors /\ "tick" \in Actors
  BY DEF Actors
<1>2. CASE RollStep
  BY <1>1, <1>2, RollStrolls
<1>3. CASE TickExit \/ \E a \in Actors : ExitStep(a)
  BY <1>1, <1>3, ExitStrolls
<1>4. CASE RetryDue \/ UNCHANGED vars
  BY <1>4 DEF RetryDue, vars, basketVars, recordVars, memoryVars, Standing
<1>5. CASE Setup \/ Begin
  BY <1>5 DEF Setup, Begin, basketVars, Standing
<1>6. CASE Basket /\ UNCHANGED <<recordVars, memoryVars, clockVars>>
  BY <1>6 DEF Basket, Broker
<1> QED BY <1>2, <1>3, <1>4, <1>5, <1>6 DEF Next

LEMMA StepKeepsSolo ==
    ASSUME SwingType, DayInv, Solo, [Next]_vars
    PROVE  Solo'
<1>1. CASE \E a \in Actors : \E step, j : Strolls(a, step, j)
  BY <1>1, StrollsKeepSolo
<1>2. CASE \E a \in Actors : BasketStep(a) /\ UNCHANGED <<recordVars, memoryVars, clockVars>>
  <2>1. PICK a \in Actors : \E step, j : Onwards(a, step, j)
    BY <1>2, BasketGoesOnwards DEF SwingType
  <2> QED BY <1>2, <2>1, OnwardsKeepsSolo DEF memoryVars
<1>3. ASSUME UNCHANGED <<pc, job, active>> PROVE Solo'
  BY <1>3 DEF Solo, FromNothing, Entering, Gone
<1>4. CASE Setup \/ Begin \/ NewDay
  <2>1. \A a \in Actors : pc'[a] = "idle"
    BY <1>4 DEF Setup, Begin, NewDay, basketVars, DayInv, OnlyInSession
  <2> QED BY <2>1, IdleIsSolo
<1>5. CASE SessionCut \/ Crash
  <2>1. \A a \in Actors : pc'[a] = "idle"
    BY <1>5, AbandonAll DEF SessionCut, Crash
  <2> QED BY <2>1, IdleIsSolo
<1>6. CASE /\ \E o \in DOMAIN orders : (\E n \in 1..Lot : Trade(o, n)) \/ Reject(o)
           /\ UNCHANGED <<recordVars, memoryVars, clockVars>>
  BY <1>3, <1>6 DEF Trade, Reject, memoryVars
<1> QED BY <1>1, <1>2, <1>3, <1>4, <1>5, <1>6, StepKinds DEF Standing

-------------------------------------------------------------------------------
(* The types of the orders, of the ledger, and of the jobs that order.     *)

OrderStages == EntryStages \cup ExitStages

BasketOrder ==
    [setup : Setups, contract : Contracts, stage : OrderStages, purpose : {"primary", "hedge"},
     side : Sides, qty : 1..Lot, filled : 0..Lot, status : Results \cup {"OPEN"}]

Consistent(o) ==
    /\ o.filled <= o.qty /\ (o.status = "COMPLETE" <=> o.filled = o.qty)
    /\ o.status = "REJECTED" => o.filled = 0
    /\ o.stage \notin PartialStages => o.filled \in {0, o.qty}
    /\ o.purpose = Purpose(o.stage)

Stores ==
    /\ orders \in Seq(BasketOrder) /\ \A o \in DOMAIN orders : Consistent(orders[o])
    /\ ledger \in Seq(Leg) /\ \A c \in Contracts : PrimaryLegs(c) \in Seq(Leg)
    /\ faults \in 0..MaxFaults /\ lost \in SUBSET DOMAIN orders

(* An order of a stage that is to be placed, awaited, or recorded.         *)
ToOrder(k) ==
    /\ k.contract \in Contracts /\ k.side \in Sides /\ k.qty \in 1..Lot
    /\ k.stage \in {"hedge", "future"} => k.qty = Lot
    /\ k.stage \in EntryStages => k.basket # 0
    /\ k.stage = "unwindFuture" => "future" \in PartialStages

LastOrderDone(c) ==
    Len(orders) # 0 /\ orders[Len(orders)].contract = c /\ orders[Len(orders)].status # "OPEN"

Unplaced(k) ==
    k.oid = 0 /\ k.filled = 0 /\ (k.stage = "unwindFuture" => LastOrderDone(k.contract))

Placed(k) ==
    /\ k.oid = Len(orders) /\ Len(orders) # 0
    /\ LET o == orders[k.oid]
       IN  /\ o.contract = k.contract /\ o.stage = k.stage /\ o.qty = k.qty
           /\ o.side = OrderSide(k.stage, k.side) /\ o.status # "CANCELLED"

Answered(k) ==
    /\ k.result \in Results /\ k.filled \in 0..k.qty
    /\ k.result = "COMPLETE" <=> k.filled = k.qty
    /\ k.stage \notin PartialStages => k.filled \in {0, k.qty}
    /\ \/ k.oid = 0 /\ k.filled = 0
       \/ k.oid = Len(orders) /\ LastOrderDone(k.contract)

OfSetup(k) == k.contract = k.setup.contract /\ k.side = k.setup.side

Sound(step, k) ==
    /\ k.basket \in Nat
    /\ step \in Ordering => ToOrder(k)
    /\ step = "hedgeLook" => k.contract \in Contracts /\ k.side \in Sides
    /\ step = "place" => Unplaced(k)
    /\ step = "wait" => Placed(k)
    /\ step = "record" => Answered(k)
    /\ EntryStep(step, k.stage) \/ step \in {"attempt", "contract"} => OfSetup(k)

JobsSound == \A a \in Actors : Sound(pc[a], job[a])

BasketType == Stores /\ JobsSound

LEMMA OrdersAre ==
    ASSUME orders \in Seq(BasketOrder)
    PROVE  /\ Len(orders) \in Nat /\ DOMAIN orders = 1..Len(orders)
           /\ \A o \in DOMAIN orders : orders[o] \in BasketOrder
           /\ OrderList(orders)
<1>1. /\ Len(orders) \in Nat /\ DOMAIN orders = 1..Len(orders)
      /\ \A o \in DOMAIN orders : orders[o] \in BasketOrder
  BY LenProperties, ElementOfSeq
<1>2. \A o \in DOMAIN orders : orders[o].filled \in Nat
  BY <1>1, LotAssumption DEF BasketOrder
<1> QED BY <1>1, <1>2 DEF OrderList

LEMMA OrderIs ==
    ASSUME NEW o \in BasketOrder
    PROVE  /\ o.setup \in Setups /\ o.contract \in Contracts /\ o.stage \in OrderStages
           /\ o.side \in Sides /\ o.qty \in 1..Lot /\ o.filled \in 0..Lot
           /\ o.status \in Results \cup {"OPEN"}
           /\ o.qty \in Nat /\ o.filled \in Nat /\ o.qty > 0
BY LotAssumption DEF BasketOrder

(* One order changes.                                                      *)
LEMMA OrderChanges ==
    ASSUME orders \in Seq(BasketOrder), \A o \in DOMAIN orders : Consistent(orders[o]),
           NEW x \in DOMAIN orders, NEW e \in BasketOrder, Consistent(e),
           orders' = [orders EXCEPT ![x] = e]
    PROVE  /\ orders' \in Seq(BasketOrder) /\ (\A o \in DOMAIN orders' : Consistent(orders'[o]))
           /\ Len(orders') = Len(orders) /\ DOMAIN orders' = DOMAIN orders
           /\ orders'[x] = e /\ \A o \in DOMAIN orders : o # x => orders'[o] = orders[o]
<1>1. /\ Len(orders) \in Nat /\ DOMAIN orders = 1..Len(orders)
  BY OrdersAre
<1>2. orders' \in Seq(BasketOrder) /\ Len(orders') = Len(orders)
  BY <1>1, ExceptSeq
<1>3. /\ DOMAIN orders' = DOMAIN orders /\ orders'[x] = e
      /\ \A o \in DOMAIN orders : o # x => orders'[o] = orders[o]
  OBVIOUS
<1>4. ASSUME NEW o \in DOMAIN orders' PROVE Consistent(orders'[o])
  BY <1>3
<1> QED BY <1>2, <1>3, <1>4

LEMMA TradeIs ==
    ASSUME orders \in Seq(BasketOrder), \A o \in DOMAIN orders : Consistent(orders[o]),
           NEW x \in DOMAIN orders, NEW n \in 1..Lot, Trade(x, n)
    PROVE  /\ orders' \in Seq(BasketOrder) /\ (\A o \in DOMAIN orders' : Consistent(orders'[o]))
           /\ Len(orders') = Len(orders) /\ DOMAIN orders' = DOMAIN orders
           /\ \A o \in DOMAIN orders : o # x => orders'[o] = orders[o]
           /\ orders[x].status = "OPEN" /\ orders'[x].status \in {"OPEN", "COMPLETE"}
           /\ orders'[x].filled = orders[x].filled + n /\ orders'[x].filled <= orders[x].qty
           /\ orders'[x].contract = orders[x].contract /\ orders'[x].stage = orders[x].stage
           /\ orders'[x].purpose = orders[x].purpose /\ orders'[x].side = orders[x].side
           /\ orders'[x].qty = orders[x].qty
<1> DEFINE u == orders[x]
           status == IF u.filled + n = u.qty THEN "COMPLETE" ELSE "OPEN"
           e == [u EXCEPT !.filled = @ + n, !.status = status]
<1>1. u \in BasketOrder /\ Consistent(u)
  BY OrdersAre
<1>2. /\ u.status = "OPEN" /\ u.filled + n <= u.qty
      /\ n = u.qty - u.filled \/ u.stage \in PartialStages
      /\ orders' = [orders EXCEPT ![x] = e]
  BY DEF Trade, Working
<1>3. /\ u.qty \in 1..Lot /\ u.filled \in 0..Lot /\ n \in Nat /\ Lot \in Nat
  BY <1>1, OrderIs, LotAssumption
<1>4. /\ e.filled = u.filled + n /\ e.status = status /\ e.contract = u.contract
      /\ e.stage = u.stage /\ e.purpose = u.purpose /\ e.side = u.side /\ e.qty = u.qty
      /\ e.filled \in 0..Lot /\ status \in {"OPEN", "COMPLETE"}
  BY <1>1, <1>2, <1>3 DEF BasketOrder
<1>5. e \in BasketOrder
  BY <1>1, <1>4 DEF BasketOrder, Results
<1>6. Consistent(e)
  BY <1>1, <1>2, <1>3, <1>4 DEF Consistent
<1> HIDE DEF e, u, status
<1>7. /\ orders' \in Seq(BasketOrder) /\ (\A o \in DOMAIN orders' : Consistent(orders'[o]))
      /\ Len(orders') = Len(orders) /\ DOMAIN orders' = DOMAIN orders
      /\ orders'[x] = e /\ \A o \in DOMAIN orders : o # x => orders'[o] = orders[o]
  BY <1>2, <1>5, <1>6, OrderChanges
<1> QED BY <1>2, <1>4, <1>7 DEF u

(* An order ends without a fill more: it is rejected, or cancelled.        *)
LEMMA EndIs ==
    ASSUME orders \in Seq(BasketOrder), \A o \in DOMAIN orders : Consistent(orders[o]),
           NEW x \in DOMAIN orders, orders[x].status = "OPEN", NEW end \in {"REJECTED", "CANCELLED"},
           end = "REJECTED" => orders[x].filled = 0,
           orders' = [orders EXCEPT ![x].status = end]
    PROVE  /\ orders' \in Seq(BasketOrder) /\ (\A o \in DOMAIN orders' : Consistent(orders'[o]))
           /\ Len(orders') = Len(orders) /\ DOMAIN orders' = DOMAIN orders
           /\ \A o \in DOMAIN orders : o # x => orders'[o] = orders[o]
           /\ orders'[x].status = end /\ orders'[x].filled = orders[x].filled
           /\ orders'[x].contract = orders[x].contract /\ orders'[x].stage = orders[x].stage
           /\ orders'[x].purpose = orders[x].purpose /\ orders'[x].side = orders[x].side
           /\ orders'[x].qty = orders[x].qty
<1> DEFINE u == orders[x]
           e == [u EXCEPT !.status = end]
<1>1. u \in BasketOrder /\ Consistent(u)
  BY OrdersAre
<1>2. orders' = [orders EXCEPT ![x] = e]
  OBVIOUS
<1>4. /\ e.filled = u.filled /\ e.status = end /\ e.contract = u.contract
      /\ e.stage = u.stage /\ e.purpose = u.purpose /\ e.side = u.side /\ e.qty = u.qty
  BY <1>1 DEF BasketOrder
<1>5. e \in BasketOrder
  BY <1>1, <1>4 DEF BasketOrder, Results
<1>6. Consistent(e)
  BY <1>1, <1>4 DEF Consistent
<1> HIDE DEF e
<1>7. /\ orders' \in Seq(BasketOrder) /\ (\A o \in DOMAIN orders' : Consistent(orders'[o]))
      /\ Len(orders') = Len(orders) /\ DOMAIN orders' = DOMAIN orders
      /\ orders'[x] = e /\ \A o \in DOMAIN orders : o # x => orders'[o] = orders[o]
  BY <1>1, <1>2, <1>5, <1>6, OrderChanges
<1> QED BY <1>4, <1>7

-------------------------------------------------------------------------------
(* The jobs, as they go on.                                                *)

LEMMA OrderFields ==
    ASSUME NEW k, JobOK(k), NEW stage, NEW qty
    PROVE  LET o == Order(k, stage, qty)
           IN  /\ o.setup = k.setup /\ o.contract = k.contract /\ o.side = k.side
               /\ o.basket = k.basket /\ o.stage = stage /\ o.qty = qty
               /\ o.oid = 0 /\ o.result = "none" /\ o.filled = 0 /\ DOMAIN o = JobFields
BY DEF Order, JobOK, JobFields

NextOrder(k, stage, qty) ==
    \/ k.stage = "hedge" /\ k.result = "COMPLETE" /\ stage = "future" /\ qty = Lot
    \/ /\ k.stage = "hedge" /\ k.result # "COMPLETE" /\ k.filled > 0
       /\ stage = "unwindHedge" /\ qty = k.filled
    \/ /\ k.stage = "future" /\ k.result # "COMPLETE" /\ k.filled > 0
       /\ stage = "unwindFuture" /\ qty = k.filled
    \/ /\ k.stage = "future" /\ k.result # "COMPLETE" /\ ~(k.filled > 0)
       /\ stage = "dropHedge" /\ qty = Lot
    \/ k.stage = "unwindFuture" /\ stage = "dropHedge" /\ qty = Lot

NextPlace(k, step) ==
    \/ k.stage = "hedge" /\ k.result # "COMPLETE" /\ ~(k.filled > 0) /\ step = "settle"
    \/ k.stage = "future" /\ k.result = "COMPLETE" /\ step = "settle"
    \/ k.stage \in {"unwindHedge", "dropHedge"} /\ step = "settle"
    \/ k.stage = "closeFuture" /\ step = "hedgeLook"
    \/ k.stage = "closeHedge" /\ step = "exitCheck"

LEMMA FollowUpIs ==
    ASSUME NEW k, k.stage \in OrderStages
    PROVE  \/ /\ FollowUp(k).step = "place"
              /\ \E stage, qty : NextOrder(k, stage, qty) /\ FollowUp(k).job = Order(k, stage, qty)
           \/ NextPlace(k, FollowUp(k).step) /\ FollowUp(k).job = k
<1>1. CASE k.stage = "hedge"
  BY <1>1 DEF FollowUp, AfterHedge, PlaceNext, Proceed, NextOrder, NextPlace
<1>2. CASE k.stage = "future"
  BY <1>2 DEF FollowUp, AfterFuture, PlaceNext, Proceed, NextOrder, NextPlace
<1>3. CASE k.stage = "unwindFuture"
  BY <1>3 DEF FollowUp, PlaceNext, NextOrder
<1>4. CASE k.stage \in {"unwindHedge", "dropHedge", "closeFuture", "closeHedge"}
  BY <1>4 DEF FollowUp, Proceed, NextPlace
<1> QED BY <1>1, <1>2, <1>3, <1>4 DEF OrderStages, EntryStages, ExitStages

(* Who is placing, awaiting or recording an order is alone with it.        *)
LEMMA AtOrder ==
    ASSUME SwingType, Solo, NEW a \in Actors, pc[a] \in Ordering
    PROVE  /\ JobOK(job[a]) /\ job[a].stage \in OrderStages /\ job[a].setup \in Setups
           /\ Gone(a) <=> job[a].stage \in ExitStages
           /\ job[a].stage \in EntryStages => a = "roll" /\ Entering
           /\ \A b \in Actors : b # a => ~Busy(b)
<1>1. PlaceOK(a, pc[a], job[a]) /\ JobOK(job[a])
  BY DEF SwingType, ActorsOK
<1>2. job[a].stage \in OrderStages /\ job[a].setup \in Setups
  BY <1>1 DEF PlaceOK, Ordering, Leaving, LeavingStep, EntryStep, Looking, OrderStages
<1>3. Gone(a) <=> job[a].stage \in ExitStages
  BY DEF Gone, Leaving, LeavingStep, Ordering
<1>4. job[a].stage \in EntryStages => a = "roll" /\ Entering
  BY <1>1 DEF PlaceOK, Ordering, Leaving, LeavingStep, EntryStep, Looking, EntryStages, ExitStages, Entering
<1>5. \A b \in Actors : b # a => ~Busy(b)
  BY BusyAt, OneBusy
<1> QED BY <1>1, <1>2, <1>3, <1>4, <1>5

(* The other actor's job stays sound, whatever the orders become.          *)
LEMMA OthersSound ==
    ASSUME SwingType, Solo, JobsSound, NEW a \in Actors, Busy(a), NEW step, NEW j,
           Moves(a, step, j), Sound(step, j)'
    PROVE  JobsSound'
<1>1. /\ pc'[a] = step /\ job'[a] = j
      /\ \A b \in Actors : b # a => pc'[b] = pc[b] /\ job'[b] = job[b]
  BY Moved DEF SwingType, Moves
<1>2. ASSUME NEW b \in Actors PROVE Sound(pc[b], job[b])'
  <2>1. CASE b = a
    BY <1>1, <2>1
  <2>2. CASE b # a
    <3>1. ~Busy(b)
      BY <2>2, OneBusy
    <3>2. pc[b] \notin Ordering /\ pc[b] \notin Checking /\ pc[b] \notin {"gate", "settle", "hedgeLook"}
      BY <3>1, BusyAt
    <3>3. job[b].basket \in Nat
      BY DEF JobsSound, Sound
    <3> QED BY <1>1, <2>2, <3>2, <3>3 DEF Sound, Ordering, Checking, EntryStep
  <2> QED BY <2>1, <2>2
<1> QED BY <1>2 DEF JobsSound

LEMMA StandingSound ==
    ASSUME BasketType, UNCHANGED <<orders, ledger, faults, lost>>
    PROVE  /\ Stores'
           /\ \A step, k : Sound(step, k)' <=> Sound(step, k)
<1>1. Stores'
  BY DEF BasketType, Stores, PrimaryLegs
<1>2. ASSUME NEW step, NEW k PROVE Sound(step, k)' <=> Sound(step, k)
  BY DEF Sound, Unplaced, Placed, Answered, LastOrderDone
<1> QED BY <1>1, <1>2

LEMMA CalmType ==
    ASSUME SwingType, BasketType, UNCHANGED <<orders, ledger, faults, lost>>,
           NEW a \in Actors, NEW step, NEW j, Moves(a, step, j), Sound(step, j)
    PROVE  BasketType'
<1>1. /\ pc'[a] = step /\ job'[a] = j
      /\ \A b \in Actors : b # a => pc'[b] = pc[b] /\ job'[b] = job[b]
  BY Moved DEF SwingType, Moves
<1>2. Stores' /\ \A s, k : Sound(s, k)' <=> Sound(s, k)
  BY StandingSound
<1>3. \A b \in Actors : Sound(pc'[b], job'[b])
  BY <1>1 DEF BasketType, JobsSound
<1>4. JobsSound'
  <2>1. \A b \in Actors : Sound(pc[b], job[b])'
    BY <1>2, <1>3 DEF Sound, Unplaced, Placed, Answered, LastOrderDone
  <2> QED BY <2>1 DEF JobsSound
<1> QED BY <1>2, <1>4 DEF BasketType

LEMMA StrollsType ==
    ASSUME SwingType, BasketType, NEW a \in Actors, NEW step, NEW j, Strolls(a, step, j)
    PROVE  BasketType'
<1> DEFINE k == job[a]
<1>1. Moves(a, step, j) /\ Elsewhere(a, step, j) /\ UNCHANGED <<orders, ledger, faults, lost>>
  BY DEF Strolls
<1>2. Sound(pc[a], k) /\ j.basket \in Nat
  <2>1. Sound(pc[a], k)
    BY DEF BasketType, JobsSound
  <2>2. k.basket \in Nat
    BY <2>1 DEF Sound
  <2> QED BY <2>1, <2>2 DEF Strolls
<1>3. step \notin Ordering /\ step \notin {"hedgeLook", "settle"}
  BY <1>1 DEF Elsewhere, Nowhere, Ordering
<1>4. step \in {"attempt", "contract", "gate"} => OfSetup(j)
  <2>1. step = "attempt" => OfSetup(j)
    BY <1>1 DEF Elsewhere, Nowhere, OfSetup
  <2>2. step \in {"contract", "gate"} => j = k /\ pc[a] \in {"attempt", "contract"}
    BY <1>1 DEF Elsewhere, Nowhere
  <2>3. step \in {"contract", "gate"} => OfSetup(j)
    BY <1>2, <2>2 DEF Sound
  <2> QED BY <2>1, <2>3
<1>5. Sound(step, j)
  BY <1>2, <1>3, <1>4 DEF Sound, EntryStep, Ordering
<1> QED BY <1>1, <1>5, CalmType

(* The first open leg of a contract, and the first hedge of a basket.      *)
LEMMA FirstOpenIs ==
    ASSUME Stores, NEW sym, NEW c \in OpenContracts(sym)
    PROVE  /\ c \in Contracts /\ FirstOpen(c).qty \in 1..Lot /\ FirstOpen(c).side \in Sides
           /\ FirstOpen(c).basket \in Nat
           /\ LET legs == PrimaryLegs(c)
                  i == Min(DOMAIN OpenPrimary(c))
              IN  /\ legs \in Seq(Leg) /\ i \in DOMAIN OpenPrimary(c) /\ legs # <<>>
                  /\ FirstOpen(c).qty = OpenPrimary(c)[i]
                  /\ FirstOpen(c).side = OpeningSide(legs)
<1> DEFINE legs == PrimaryLegs(c)
           open == OpenQuantity(legs, UnclosedStatuses)
           i == Min(DOMAIN open)
<1>1. c \in Contracts /\ DOMAIN open # {} /\ legs \in Seq(Leg) /\ OpenPrimary(c) = open
  BY DEF OpenContracts, Contracts, OpenPrimary, Stores
<1>2. DOMAIN open \in SUBSET DOMAIN legs /\ i \in DOMAIN open /\ open[i] \in 1..Lot
      /\ legs[i].side = OpeningSide(legs)
  BY <1>1, OpenLegs
<1>3. i \in DOMAIN legs /\ legs[i].side \in Sides /\ legs[i].basket \in Nat /\ legs # <<>>
  BY <1>1, <1>2, LegsAre
<1>4. FirstOpen(c) = [qty |-> open[i], side |-> legs[i].side, basket |-> legs[i].basket]
  BY <1>1 DEF FirstOpen
<1> HIDE DEF i, open, legs
<1>5. /\ FirstOpen(c).qty = open[i] /\ FirstOpen(c).side = legs[i].side
      /\ FirstOpen(c).basket = legs[i].basket
  BY <1>4
<1> QED BY <1>1, <1>2, <1>3, <1>5 DEF i, legs

LEMMA FirstHedgeIs ==
    ASSUME Stores, NEW b, HedgeBuys(b) # {}
    PROVE  ledger[Min(HedgeBuys(b))].qty \in 1..Lot
<1>1. DOMAIN ledger = 1..Len(ledger) /\ Len(ledger) \in Nat
      /\ \A i \in DOMAIN ledger : ledger[i].qty \in 1..Lot
  BY LegsAre DEF Stores
<1>2. HedgeBuys(b) \subseteq 1..Len(ledger)
  BY <1>1 DEF HedgeBuys
<1>3. Min(HedgeBuys(b)) \in HedgeBuys(b)
  BY <1>1, <1>2, LeastExists
<1> QED BY <1>1, <1>2, <1>3

(* The steps of the basket that place and record nothing.                  *)
LEMMA LookType ==
    ASSUME SwingType, BasketType, NEW a \in Actors,
           \/ EnterBasket(a) \/ RefuseBasket(a) \/ CloseFuture(a) \/ NothingToClose(a) \/ CloseHedge(a)
    PROVE  BasketType'
<1> DEFINE k == job[a]
<1>1. JobOK(k) /\ PlaceOK(a, pc[a], k) /\ Sound(pc[a], k) /\ ActorsOK
  BY DEF SwingType, ActorsOK, BasketType, JobsSound
<1>2. Stores /\ UNCHANGED <<orders, ledger, faults, lost>> /\ Len(ledger) \in Nat /\ Lot \in 1..Lot
  <2>1. Stores /\ Len(ledger) \in Nat
    BY LenProperties DEF BasketType, Stores
  <2>2. UNCHANGED <<orders, ledger, faults, lost>>
    BY DEF EnterBasket, RefuseBasket, CloseFuture, NothingToClose, CloseHedge
  <2>3. Lot \in 1..Lot
    BY LotAssumption
  <2> QED BY <2>1, <2>2, <2>3
<1>3. ASSUME NEW j, GotoWith(a, "place", j), ToOrder(j), Unplaced(j), j.basket \in Nat,
             EntryStep("place", j.stage) => OfSetup(j)
      PROVE  BasketType'
  <2>1. Moves(a, "place", j)
    BY <1>1, <1>3, Moved
  <2>2. Sound("place", j)
    BY <1>3 DEF Sound
  <2> QED BY <1>2, <2>1, <2>2, CalmType
<1>4. ASSUME NEW step \in {"settle", "exitCheck"}, NEW j, GotoWith(a, step, j) \/ (Goto(a, step) /\ j = k),
             j.basket \in Nat, step = "settle" => OfSetup(j)
      PROVE  BasketType'
  <2>1. Moves(a, step, j)
    BY <1>1, <1>4, Moved
  <2>2. Sound(step, j)
    BY <1>4 DEF Sound, Ordering, EntryStep
  <2> QED BY <1>2, <2>1, <2>2, CalmType
<1>5. CASE EnterBasket(a)
  <2> DEFINE o == Order(k, "hedge", Lot)
             j == [o EXCEPT !.basket = Len(ledger) + 1]
  <2>1. /\ o.setup = k.setup /\ o.contract = k.contract /\ o.side = k.side /\ o.stage = "hedge"
        /\ o.qty = Lot /\ o.oid = 0 /\ o.filled = 0 /\ DOMAIN o = JobFields
    BY <1>1, OrderFields
  <2> HIDE DEF o
  <2>2. /\ j.setup = k.setup /\ j.contract = k.contract /\ j.side = k.side /\ j.stage = "hedge"
        /\ j.qty = Lot /\ j.oid = 0 /\ j.filled = 0 /\ j.basket = Len(ledger) + 1
    BY <2>1 DEF JobFields
  <2>3. pc[a] = "gate" /\ GotoWith(a, "place", j)
    BY <1>5 DEF EnterBasket, o
  <2> HIDE DEF j
  <2>4. OfSetup(j) /\ j.setup \in Setups
    BY <1>1, <2>2, <2>3 DEF Sound, EntryStep, OfSetup, PlaceOK
  <2>5. j.contract \in Contracts /\ j.side \in Sides
    BY <2>4, SetupAssumption DEF OfSetup, Contracts
  <2>6. ToOrder(j) /\ Unplaced(j) /\ j.basket \in Nat
    BY <1>2, <2>2, <2>5 DEF ToOrder, Unplaced
  <2> QED BY <1>3, <2>3, <2>4, <2>6
<1>6. CASE RefuseBasket(a)
  <2> DEFINE j == [k EXCEPT !.basket = 0]
  <2>1. j.basket = 0 /\ j.contract = k.contract /\ j.side = k.side /\ j.setup = k.setup
    BY <1>1 DEF JobOK, JobFields
  <2>2. pc[a] = "gate" /\ GotoWith(a, "settle", j)
    BY <1>6 DEF RefuseBasket
  <2> HIDE DEF j
  <2>3. OfSetup(j)
    BY <1>1, <2>1, <2>2 DEF Sound, EntryStep, OfSetup
  <2> QED BY <1>4, <2>1, <2>2, <2>3
<1>7. CASE CloseFuture(a)
  <2>1. PICK c \in OpenContracts(k.setup.sym) :
             GotoWith(a, "place", [Order(k, "closeFuture", FirstOpen(c).qty)
                      EXCEPT !.contract = c, !.side = FirstOpen(c).side,
                             !.basket = FirstOpen(c).basket])
    BY <1>7 DEF CloseFuture
  <2> DEFINE o == Order(k, "closeFuture", FirstOpen(c).qty)
             j == [o EXCEPT !.contract = c, !.side = FirstOpen(c).side,
                            !.basket = FirstOpen(c).basket]
  <2>2. /\ o.stage = "closeFuture" /\ o.qty = FirstOpen(c).qty
        /\ o.oid = 0 /\ o.filled = 0 /\ DOMAIN o = JobFields
    BY <1>1, OrderFields
  <2>3. GotoWith(a, "place", j)
    BY <2>1
  <2> HIDE DEF o
  <2>4. /\ j.contract = c /\ j.side = FirstOpen(c).side /\ j.basket = FirstOpen(c).basket
        /\ j.stage = "closeFuture" /\ j.qty = FirstOpen(c).qty /\ j.oid = 0 /\ j.filled = 0
    BY <2>2 DEF JobFields
  <2> HIDE DEF j
  <2>5. /\ c \in Contracts /\ FirstOpen(c).qty \in 1..Lot /\ FirstOpen(c).side \in Sides
        /\ FirstOpen(c).basket \in Nat
    BY <1>2, FirstOpenIs
  <2>6. ToOrder(j) /\ Unplaced(j)
    BY <2>4, <2>5 DEF ToOrder, Unplaced, EntryStages
  <2>7. ~EntryStep("place", j.stage)
    BY <2>4 DEF EntryStep, EntryStages
  <2> QED BY <1>3, <2>3, <2>4, <2>5, <2>6, <2>7
<1>8. CASE NothingToClose(a)
  <2> DEFINE j == [k EXCEPT !.basket = 0]
  <2>1. j.basket = 0
    BY <1>1 DEF JobOK, JobFields
  <2>2. GotoWith(a, "exitCheck", j)
    BY <1>8 DEF NothingToClose
  <2> HIDE DEF j
  <2> QED BY <1>4, <2>1, <2>2
<1>9. CASE CloseHedge(a)
  <2>1. pc[a] = "hedgeLook" /\ k.contract \in Contracts /\ k.side \in Sides /\ k.basket \in Nat
    BY <1>1, <1>9 DEF CloseHedge, Sound
  <2>2. CASE Goto(a, "exitCheck")
    BY <1>4, <2>1, <2>2
  <2>3. ASSUME HedgeBuys(k.basket) # {},
               GotoWith(a, "place", Order(k, "closeHedge", ledger[Min(HedgeBuys(k.basket))].qty))
        PROVE  BasketType'
    <3> DEFINE q == ledger[Min(HedgeBuys(k.basket))].qty
               o == Order(k, "closeHedge", q)
    <3>1. q \in 1..Lot
      BY <1>2, <2>3, FirstHedgeIs
    <3>2. /\ o.contract = k.contract /\ o.side = k.side /\ o.basket = k.basket
          /\ o.stage = "closeHedge" /\ o.qty = q /\ o.oid = 0 /\ o.filled = 0
      BY <1>1, OrderFields
    <3> HIDE DEF o
    <3>3. ToOrder(o) /\ Unplaced(o) /\ o.basket \in Nat /\ ~EntryStep("place", o.stage)
      BY <2>1, <3>1, <3>2 DEF ToOrder, Unplaced, EntryStages, EntryStep
    <3> QED BY <1>3, <2>3, <3>3 DEF o
  <2> QED BY <1>9, <2>2, <2>3 DEF CloseHedge
<1> QED BY <1>5, <1>6, <1>7, <1>8, <1>9

(* The steps of an order, one by one.                                      *)

SameOrder(k, j) ==
    /\ j.setup = k.setup /\ j.contract = k.contract /\ j.side = k.side /\ j.stage = k.stage
    /\ j.qty = k.qty /\ j.basket = k.basket

(* What an order of the list says of itself once and for all.              *)
SameTerms(o, p) ==
    /\ p.contract = o.contract /\ p.stage = o.stage /\ p.purpose = o.purpose
    /\ p.side = o.side /\ p.qty = o.qty

OrdersKept ==
    /\ orders' \in Seq(BasketOrder) /\ (\A o \in DOMAIN orders' : Consistent(orders'[o]))
    /\ Len(orders) \in Nat /\ DOMAIN orders = 1..Len(orders) /\ DOMAIN orders' = 1..Len(orders')

LEMMA PlaceAcceptedIs ==
    ASSUME SwingType, Solo, BasketType, NEW a \in Actors, PlaceAccepted(a)
    PROVE  /\ pc[a] = "place" /\ UNCHANGED <<ledger, faults, lost>>
           /\ \E j : /\ Moves(a, "wait", j) /\ SameOrder(job[a], j) /\ j.filled = job[a].filled
                     /\ j.oid = Len(orders) + 1
           /\ OrdersKept /\ Len(orders') = Len(orders) + 1
           /\ \A o \in DOMAIN orders : orders'[o] = orders[o]
           /\ LET p == orders'[Len(orders) + 1]
              IN  /\ p.contract = job[a].contract /\ p.stage = job[a].stage
                  /\ p.purpose = Purpose(job[a].stage) /\ p.qty = job[a].qty
                  /\ p.side = OrderSide(job[a].stage, job[a].side)
                  /\ p.filled = 0 /\ p.status = "OPEN"
<1> DEFINE k == job[a]
           p == [setup |-> k.setup, contract |-> k.contract, stage |-> k.stage,
                 purpose |-> Purpose(k.stage), side |-> OrderSide(k.stage, k.side),
                 qty |-> k.qty, filled |-> 0, status |-> "OPEN"]
           j == [k EXCEPT !.oid = Len(orders) + 1]
           n == Len(orders)
<1>1. /\ pc[a] = "place" /\ UNCHANGED <<ledger, faults, lost>> /\ orders' = Append(orders, p)
      /\ GotoWith(a, "wait", j)
  BY DEF PlaceAccepted
<1>2. ToOrder(k)
  BY <1>1 DEF BasketType, JobsSound, Sound, Ordering
<1>3. JobOK(k) /\ k.stage \in OrderStages /\ k.setup \in Setups
  BY <1>1, AtOrder DEF Ordering
<1>4. p.side \in Sides /\ p.purpose \in {"primary", "hedge"}
  BY <1>2 DEF ToOrder, OrderSide, Purpose, Opposite, Sides
<1>5. /\ p.contract = k.contract /\ p.stage = k.stage /\ p.purpose = Purpose(k.stage)
      /\ p.qty = k.qty /\ p.side = OrderSide(k.stage, k.side) /\ p.filled = 0 /\ p.status = "OPEN"
  OBVIOUS
<1>6. p \in BasketOrder
  BY <1>2, <1>3, <1>4, LotAssumption DEF BasketOrder, ToOrder
<1>7. Consistent(p)
  BY <1>2, <1>5, LotAssumption DEF Consistent, ToOrder
<1> HIDE DEF p
<1>8. n \in Nat /\ DOMAIN orders = 1..n /\ orders \in Seq(BasketOrder)
  BY OrdersAre DEF BasketType, Stores
<1>9. /\ orders' \in Seq(BasketOrder) /\ Len(orders') = n + 1 /\ orders'[n + 1] = p
      /\ \A o \in 1..n : orders'[o] = orders[o]
  BY <1>1, <1>6, <1>8, AppendProperties
<1>10. DOMAIN orders' = 1..(n + 1)
  BY <1>9, LenProperties
<1>11. \A o \in DOMAIN orders' : Consistent(orders'[o])
  <2>1. \A o \in 1..(n + 1) : o \in 1..n \/ o = n + 1
    BY <1>8
  <2> QED BY <1>7, <1>8, <1>9, <1>10, <2>1 DEF BasketType, Stores
<1>12. Moves(a, "wait", j)
  BY <1>1, Moved DEF SwingType
<1>13. SameOrder(k, j) /\ j.filled = k.filled /\ j.oid = n + 1
  BY <1>3 DEF JobOK, JobFields, SameOrder
<1>14. \E m : Moves(a, "wait", m) /\ SameOrder(k, m) /\ m.filled = k.filled /\ m.oid = n + 1
  <2> HIDE DEF j, k, n
  <2> QED BY <1>12, <1>13
<1> HIDE DEF j, n
<1> QED BY <1>1, <1>5, <1>8, <1>9, <1>10, <1>11, <1>14 DEF OrdersKept, n

LEMMA PlaceRaisesIs ==
    ASSUME SwingType, Solo, BasketType, NEW a \in Actors, PlaceRaises(a)
    PROVE  /\ pc[a] = "place" /\ UNCHANGED <<orders, ledger, lost>>
           /\ faults < MaxFaults /\ faults' = faults + 1
           /\ \E j : /\ Moves(a, "record", j) /\ SameOrder(job[a], j) /\ j.filled = job[a].filled
                     /\ j.oid = job[a].oid /\ j.result = "REJECTED"
<1> DEFINE k == job[a]
           j == [k EXCEPT !.result = "REJECTED"]
<1>1. JobOK(k) /\ pc[a] = "place"
  BY AtOrder DEF Ordering, PlaceRaises
<1>2. Moves(a, "record", j)
  BY Moved DEF PlaceRaises, SwingType
<1>3. SameOrder(k, j) /\ j.filled = k.filled /\ j.oid = k.oid /\ j.result = "REJECTED"
  BY <1>1 DEF JobOK, JobFields, SameOrder
<1> HIDE DEF j
<1> QED BY <1>1, <1>2, <1>3 DEF PlaceRaises

(* The order an actor waits for.                                           *)
LEMMA WaitingFor ==
    ASSUME SwingType, Solo, BasketType, NEW a \in Actors, pc[a] = "wait"
    PROVE  LET k == job[a]
               o == orders[k.oid]
           IN  /\ Placed(k) /\ ToOrder(k) /\ JobOK(k) /\ k.stage \in OrderStages
               /\ k.oid \in DOMAIN orders /\ k.oid = Len(orders) /\ o \in BasketOrder /\ Consistent(o)
               /\ o.contract = k.contract /\ o.stage = k.stage /\ o.qty = k.qty
               /\ o.purpose = Purpose(k.stage) /\ o.side = OrderSide(k.stage, k.side)
               /\ o.status # "CANCELLED" /\ o.filled \in 0..k.qty
<1> DEFINE k == job[a]
           o == orders[k.oid]
<1>1. Placed(k) /\ ToOrder(k)
  BY DEF BasketType, JobsSound, Sound, Ordering
<1>2. JobOK(k) /\ k.stage \in OrderStages
  BY AtOrder DEF Ordering
<1>3. k.oid \in DOMAIN orders /\ k.oid = Len(orders) /\ orders \in Seq(BasketOrder)
  BY <1>1, OrdersAre DEF Placed, BasketType, Stores
<1>4. o \in BasketOrder /\ Consistent(o)
  BY <1>3, OrdersAre DEF BasketType, Stores
<1>5. /\ o.contract = k.contract /\ o.stage = k.stage /\ o.qty = k.qty
      /\ o.side = OrderSide(k.stage, k.side) /\ o.status # "CANCELLED"
  BY <1>1 DEF Placed
<1>6. o.purpose = Purpose(k.stage) /\ o.filled \in 0..k.qty
  BY <1>4, <1>5, OrderIs, LotAssumption DEF Consistent
<1> HIDE DEF k, o
<1> QED BY <1>1, <1>2, <1>3, <1>4, <1>5, <1>6 DEF k, o

LEMMA FilledIs ==
    ASSUME SwingType, Solo, BasketType, NEW a \in Actors, Filled(a)
    PROVE  /\ pc[a] = "wait" /\ UNCHANGED <<orders, ledger, faults, lost>>
           /\ orders[job[a].oid].status # "OPEN"
           /\ \E j : /\ Moves(a, "record", j) /\ SameOrder(job[a], j)
                     /\ j.oid = job[a].oid /\ j.result = orders[job[a].oid].status
                     /\ j.filled = orders[job[a].oid].filled
<1> DEFINE k == job[a]
           o == orders[k.oid]
           j == [k EXCEPT !.result = o.status, !.filled = o.filled]
<1>1. JobOK(k) /\ pc[a] = "wait"
  BY AtOrder DEF Ordering, Filled
<1>2. Moves(a, "record", j)
  BY Moved DEF Filled, SwingType
<1>3. SameOrder(k, j) /\ j.oid = k.oid /\ j.result = o.status /\ j.filled = o.filled
  BY <1>1 DEF JobOK, JobFields, SameOrder
<1> HIDE DEF j
<1> QED BY <1>1, <1>2, <1>3 DEF Filled, Working

LEMMA TimesOutIs ==
    ASSUME SwingType, Solo, BasketType, NEW a \in Actors, TimesOut(a)
    PROVE  /\ pc[a] = "wait" /\ UNCHANGED <<ledger, lost>>
           /\ faults < MaxFaults /\ faults' = faults + 1
           /\ orders[job[a].oid].status = "OPEN"
           /\ OrdersKept /\ Len(orders') = Len(orders)
           /\ \A o \in DOMAIN orders : o # job[a].oid => orders'[o] = orders[o]
           /\ SameTerms(orders[job[a].oid], orders'[job[a].oid])
           /\ orders'[job[a].oid].filled = orders[job[a].oid].filled
           /\ orders'[job[a].oid].status = "CANCELLED"
           /\ \E j : /\ Moves(a, "record", j) /\ SameOrder(job[a], j)
                     /\ j.oid = job[a].oid /\ j.result = "CANCELLED"
                     /\ j.filled = orders[job[a].oid].filled
<1> DEFINE k == job[a]
           o == orders[k.oid]
           j == [k EXCEPT !.result = "CANCELLED", !.filled = o.filled]
<1>1. JobOK(k) /\ pc[a] = "wait"
  BY AtOrder DEF Ordering, TimesOut
<1>2. Moves(a, "record", j)
  BY Moved DEF TimesOut, SwingType
<1>3. SameOrder(k, j) /\ j.oid = k.oid /\ j.result = "CANCELLED" /\ j.filled = o.filled
  BY <1>1 DEF JobOK, JobFields, SameOrder
<1> HIDE DEF j
<1>4. /\ o.status = "OPEN" /\ orders' = [orders EXCEPT ![k.oid].status = "CANCELLED"]
      /\ UNCHANGED <<ledger, lost>> /\ faults < MaxFaults /\ faults' = faults + 1
  BY DEF TimesOut, Working
<1>5. k.oid \in DOMAIN orders /\ orders \in Seq(BasketOrder)
      /\ \A x \in DOMAIN orders : Consistent(orders[x])
  BY <1>1, WaitingFor DEF BasketType, Stores
<1>6. /\ orders' \in Seq(BasketOrder) /\ (\A x \in DOMAIN orders' : Consistent(orders'[x]))
      /\ Len(orders') = Len(orders) /\ DOMAIN orders' = DOMAIN orders
      /\ \A x \in DOMAIN orders : x # k.oid => orders'[x] = orders[x]
      /\ orders'[k.oid].status = "CANCELLED" /\ orders'[k.oid].filled = o.filled
      /\ SameTerms(o, orders'[k.oid])
  BY <1>4, <1>5, EndIs DEF SameTerms
<1>7. OrdersKept
  BY <1>5, <1>6, OrdersAre DEF OrdersKept
<1> HIDE DEF k, o
<1> QED BY <1>1, <1>2, <1>3, <1>4, <1>6, <1>7 DEF k, o

(* The row of an order, and the rows of the futures with it.               *)
RowOf(k) ==
    [contract |-> k.contract, purpose |-> Purpose(k.stage), side |-> OrderSide(k.stage, k.side),
     status |-> k.result, qty |-> k.qty,
     basket |-> IF k.stage \in ExitStages THEN 0 ELSE k.basket]

LEMMA RecordIs ==
    ASSUME SwingType, Solo, BasketType, NEW a \in Actors, Record(a)
    PROVE  LET k == job[a]
           IN  /\ pc[a] = "record" /\ UNCHANGED <<orders, faults, lost>>
               /\ JobOK(k) /\ k.stage \in OrderStages /\ ToOrder(k) /\ Answered(k)
               /\ k.qty \in Nat /\ k.filled \in Nat
               /\ Moves(a, FollowUp(k).step, FollowUp(k).job)
               /\ ledger' \in Seq(Leg) /\ RowOf(k) \in Leg
               /\ \A c \in Contracts :
                     PrimaryLegs(c)' = IF Purpose(k.stage) = "primary" /\ k.contract = c
                                         THEN Append(PrimaryLegs(c), RowOf(k)) ELSE PrimaryLegs(c)
<1> DEFINE k == job[a]
           row == RowOf(k)
<1>1. pc[a] = "record" /\ UNCHANGED <<orders, faults, lost>> /\ ledger' = Append(ledger, row)
  BY DEF Record, RowOf
<1>2. JobOK(k) /\ k.stage \in OrderStages
  BY <1>1, AtOrder DEF Ordering
<1>3. ToOrder(k) /\ Answered(k) /\ k.basket \in Nat
  BY <1>1 DEF BasketType, JobsSound, Sound, Ordering
<1>4. Moves(a, FollowUp(k).step, FollowUp(k).job)
  BY Moved DEF Record, SwingType
<1>5. k.qty \in Nat /\ k.filled \in Nat
  BY <1>3, LotAssumption DEF ToOrder, Answered
<1>6. row \in Leg
  <2>1. OrderSide(k.stage, k.side) \in Sides /\ Purpose(k.stage) \in {"primary", "hedge"}
    BY <1>3 DEF ToOrder, OrderSide, Purpose, Opposite, Sides
  <2>2. (IF k.stage \in ExitStages THEN 0 ELSE k.basket) \in Nat
    BY <1>3
  <2> QED BY <1>3, <2>1, <2>2 DEF RowOf, Leg, ToOrder, Answered
<1>7. row.purpose = Purpose(k.stage) /\ row.contract = k.contract
  BY DEF RowOf
<1> HIDE DEF row
<1>8. ledger \in Seq(Leg) /\ Len(ledger) \in Nat
  BY LenProperties DEF BasketType, Stores
<1>9. /\ ledger' \in Seq(Leg) /\ Len(ledger') = Len(ledger) + 1 /\ ledger'[Len(ledger')] = row
      /\ \A i \in 1..Len(ledger) : ledger'[i] = ledger[i]
  BY <1>1, <1>6, <1>8, AppendProperties
<1>10. ASSUME NEW c \in Contracts
       PROVE  PrimaryLegs(c)' = IF Purpose(k.stage) = "primary" /\ k.contract = c
                                  THEN Append(PrimaryLegs(c), row) ELSE PrimaryLegs(c)
  <2>1. PrimaryLegs(c) = PrimaryOf(ledger, c) /\ PrimaryLegs(c)' = PrimaryOf(ledger', c)
    BY DEF PrimaryLegs, PrimaryOf
  <2>2. PrimaryOf(ledger', c) = SelectNext(PrimaryOf(ledger, c), row, c)
    BY <1>8, <1>9, PrimaryOfMore
  <2> QED BY <1>7, <2>1, <2>2 DEF SelectNext
<1> HIDE DEF k
<1> QED BY <1>1, <1>2, <1>3, <1>4, <1>5, <1>6, <1>9, <1>10 DEF k, row

LEMMA RecordType ==
    ASSUME SwingType, Solo, BasketType, NEW a \in Actors, Record(a)
    PROVE  BasketType'
<1> DEFINE k == job[a]
           f == FollowUp(k)
<1>1. /\ pc[a] = "record" /\ UNCHANGED <<orders, faults, lost>>
      /\ JobOK(k) /\ k.stage \in OrderStages /\ ToOrder(k) /\ Answered(k)
      /\ k.qty \in Nat /\ k.filled \in Nat
      /\ Moves(a, f.step, f.job) /\ ledger' \in Seq(Leg)
  BY RecordIs
<1>2. Stores'
  <2>1. ASSUME NEW c \in Contracts PROVE PrimaryLegs(c)' \in Seq(Leg)
    <3>1. PrimaryLegs(c) \in Seq(Leg)
      BY DEF BasketType, Stores
    <3>2. RowOf(k) \in Leg
      BY RecordIs
    <3>3. Append(PrimaryLegs(c), RowOf(k)) \in Seq(Leg)
      BY <3>1, <3>2, AppendProperties
    <3>4. PrimaryLegs(c)' \in {PrimaryLegs(c), Append(PrimaryLegs(c), RowOf(k))}
      BY RecordIs
    <3> QED BY <3>1, <3>3, <3>4
  <2> QED BY <1>1, <2>1 DEF BasketType, Stores
<1>3. /\ k.basket \in Nat /\ k.qty \in 1..Lot /\ Lot \in 1..Lot
      /\ k.stage \in EntryStages => k.basket # 0 /\ OfSetup(k)
  <2>1. Sound("record", k)
    BY <1>1 DEF BasketType, JobsSound
  <2> QED BY <1>1, <2>1, LotAssumption DEF Sound, EntryStep, Ordering, ToOrder
<1>4. PICK step, j : step = f.step /\ j = f.job
  OBVIOUS
<1>5. ASSUME NEW stage, NEW qty, NextOrder(k, stage, qty), step = "place", j = Order(k, stage, qty)
      PROVE  Sound(step, j)'
  <2>1. /\ j.setup = k.setup /\ j.contract = k.contract /\ j.side = k.side
        /\ j.basket = k.basket /\ j.stage = stage /\ j.qty = qty /\ j.oid = 0 /\ j.filled = 0
    BY <1>1, <1>5, OrderFields
  <2>2. stage \in {"future", "unwindHedge", "unwindFuture", "dropHedge"} /\ k.stage \in EntryStages
        /\ (stage = "future" => qty = Lot)
    BY <1>5 DEF NextOrder, EntryStages
  <2>3. qty \in 1..Lot
    <3>1. k.filled > 0 => k.filled \in 1..Lot
      BY <1>1, <1>3, LotAssumption DEF Answered
    <3> QED BY <1>3, <1>5, <3>1 DEF NextOrder
  <2>4. stage = "unwindFuture" => "future" \in PartialStages /\ LastOrderDone(k.contract)
    <3>1. stage = "unwindFuture" => k.stage = "future" /\ k.filled > 0 /\ k.result # "COMPLETE"
      BY <1>5 DEF NextOrder
    <3> QED BY <1>1, <3>1 DEF Answered
  <2>5. ToOrder(j) /\ OfSetup(j)
    BY <1>1, <1>3, <2>1, <2>2, <2>3, <2>4 DEF ToOrder, OfSetup
  <2>6. Unplaced(j)'
    BY <1>1, <2>1, <2>4 DEF Unplaced, LastOrderDone
  <2> QED BY <1>3, <1>5, <2>1, <2>5, <2>6 DEF Sound, ToOrder, OfSetup
<1>6. ASSUME NextPlace(k, step), j = k
      PROVE  Sound(step, j)'
  <2>1. step \in {"settle", "hedgeLook", "exitCheck"}
    BY <1>6 DEF NextPlace
  <2>2. EntryStep(step, k.stage) => k.stage \in EntryStages
    BY <1>6 DEF NextPlace, EntryStep, Ordering, EntryStages
  <2> QED BY <1>1, <1>3, <1>6, <2>1, <2>2 DEF Sound, Ordering, ToOrder, OfSetup
<1>7. Sound(step, j)'
  <2> HIDE DEF f
  <2>1. \/ step = "place" /\ \E stage, qty : NextOrder(k, stage, qty) /\ j = Order(k, stage, qty)
        \/ NextPlace(k, step) /\ j = k
    BY <1>1, <1>4, FollowUpIs DEF f
  <2> QED BY <1>5, <1>6, <2>1
<1>8. Busy(a)
  BY <1>1, BusyAt DEF Ordering
<1>9. Moves(a, step, j)
  BY <1>1, <1>4
<1>10. JobsSound'
  BY <1>7, <1>8, <1>9, OthersSound DEF BasketType
<1> QED BY <1>2, <1>10 DEF BasketType

LEMMA LegsStay ==
    ASSUME UNCHANGED ledger
    PROVE  \A c \in Contracts : PrimaryLegs(c)' = PrimaryLegs(c)
BY DEF PrimaryLegs

LEMMA OrdersKeptType ==
    ASSUME Stores, OrdersKept, Len(orders') >= Len(orders), UNCHANGED <<ledger, lost>>,
           faults' \in 0..MaxFaults
    PROVE  Stores'
<1>1. \A c \in Contracts : PrimaryLegs(c)' = PrimaryLegs(c)
  BY LegsStay
<1>2. Len(orders') \in Nat
  BY LenProperties DEF OrdersKept
<1>3. DOMAIN orders \subseteq DOMAIN orders'
  BY <1>2 DEF OrdersKept
<1> QED BY <1>1, <1>3 DEF Stores, OrdersKept

LEMMA OrderStepType ==
    ASSUME SwingType, Solo, BasketType, NEW a \in Actors, OrderStep(a)
    PROVE  BasketType'
<1> DEFINE k == job[a]
<1>1. pc[a] \in Ordering /\ Busy(a) /\ Sound(pc[a], k) /\ Stores /\ JobsSound
  <2>1. pc[a] \in Ordering
    BY DEF OrderStep, PlaceAccepted, PlaceRaises, Filled, TimesOut, Record, Ordering
  <2> QED BY <2>1, BusyAt DEF BasketType, JobsSound
<1>2. /\ ToOrder(k) /\ k.basket \in Nat /\ k.stage \in OrderStages
      /\ EntryStep("wait", k.stage) \/ EntryStep("record", k.stage) => OfSetup(k)
      /\ faults \in Nat /\ MaxFaults \in Nat /\ faults \in 0..MaxFaults
  <2>1. EntryStep("wait", k.stage) \/ EntryStep("record", k.stage) => EntryStep(pc[a], k.stage)
    BY <1>1 DEF EntryStep, Ordering
  <2> QED BY <1>1, <2>1, AtOrder, LotAssumption DEF Sound, Stores
<1>3. ASSUME NEW j, SameOrder(k, j)
      PROVE  /\ ToOrder(j) /\ j.basket \in Nat
             /\ EntryStep("wait", j.stage) \/ EntryStep("record", j.stage) => OfSetup(j)
  BY <1>2, <1>3 DEF SameOrder, ToOrder, OfSetup
<1>4. ASSUME NEW step \in {"wait", "record"}, NEW j, Moves(a, step, j), SameOrder(k, j), Stores',
             step = "wait" => Placed(j)', step = "record" => Answered(j)'
      PROVE  BasketType'
  <2>1. Sound(step, j)'
    BY <1>3, <1>4 DEF Sound, Ordering, ToOrder, OfSetup
  <2> QED BY <1>1, <1>4, <2>1, OthersSound DEF BasketType
<1>5. CASE PlaceAccepted(a)
  <2>1. PICK j : /\ Moves(a, "wait", j) /\ SameOrder(k, j) /\ j.filled = k.filled
                 /\ j.oid = Len(orders) + 1
    BY <1>5, PlaceAcceptedIs
  <2> DEFINE p == orders'[Len(orders) + 1]
  <2>2. /\ UNCHANGED <<ledger, faults, lost>>
        /\ OrdersKept /\ Len(orders') = Len(orders) + 1
        /\ p.contract = k.contract /\ p.stage = k.stage /\ p.qty = k.qty
        /\ p.side = OrderSide(k.stage, k.side) /\ p.status = "OPEN"
    BY <1>5, PlaceAcceptedIs
  <2> HIDE DEF p
  <2>3. Stores'
    BY <1>1, <1>2, <2>2, OrdersKeptType DEF OrdersKept
  <2>4. Placed(j)'
    BY <2>1, <2>2 DEF Placed, SameOrder, p, OrdersKept
  <2> QED BY <1>4, <2>1, <2>3, <2>4
<1>6. CASE PlaceRaises(a)
  <2>1. PICK j : /\ Moves(a, "record", j) /\ SameOrder(k, j) /\ j.filled = k.filled
                 /\ j.oid = k.oid /\ j.result = "REJECTED"
    BY <1>6, PlaceRaisesIs
  <2>2. UNCHANGED <<orders, ledger, lost>> /\ faults < MaxFaults /\ faults' = faults + 1 /\ pc[a] = "place"
    BY <1>6, PlaceRaisesIs
  <2>3. Stores'
    BY <1>1, <1>2, <2>2, LegsStay DEF Stores
  <2>4. Answered(j)'
    <3>1. k.filled = 0 /\ k.oid = 0 /\ k.qty \in 1..Lot
      BY <1>1, <1>2, <2>2 DEF Sound, Unplaced, ToOrder
    <3> QED BY <2>1, <3>1, LotAssumption DEF Answered, SameOrder, Results
  <2> QED BY <1>4, <2>1, <2>3, <2>4
<1>7. CASE Filled(a)
  <2> DEFINE o == orders[k.oid]
  <2>1. PICK j : /\ Moves(a, "record", j) /\ SameOrder(k, j)
                 /\ j.oid = k.oid /\ j.result = o.status /\ j.filled = o.filled
    BY <1>7, FilledIs
  <2>2. UNCHANGED <<orders, ledger, faults, lost>> /\ o.status # "OPEN" /\ pc[a] = "wait"
    BY <1>7, FilledIs
  <2>3. /\ o \in BasketOrder /\ Consistent(o) /\ o.contract = k.contract /\ o.stage = k.stage
        /\ o.qty = k.qty /\ o.filled \in 0..k.qty /\ k.oid = Len(orders) /\ Placed(k)
    BY <2>2, WaitingFor
  <2> HIDE DEF o
  <2>4. Stores'
    BY <1>1, <2>2, LegsStay DEF Stores
  <2>5. o.status \in Results
    BY <2>2, <2>3, OrderIs
  <2>6. LastOrderDone(j.contract)'
    BY <2>1, <2>2, <2>3 DEF LastOrderDone, SameOrder, Placed, o
  <2>7. Answered(j)'
    BY <2>1, <2>2, <2>3, <2>5, <2>6 DEF Answered, SameOrder, Consistent
  <2> QED BY <1>4, <2>1, <2>4, <2>7
<1>8. CASE TimesOut(a)
  <2> DEFINE o == orders[k.oid]
             p == orders'[k.oid]
  <2>1. PICK j : /\ Moves(a, "record", j) /\ SameOrder(k, j)
                 /\ j.oid = k.oid /\ j.result = "CANCELLED" /\ j.filled = o.filled
    BY <1>8, TimesOutIs
  <2>2. /\ UNCHANGED <<ledger, lost>> /\ faults < MaxFaults /\ faults' = faults + 1 /\ pc[a] = "wait"
        /\ o.status = "OPEN" /\ OrdersKept /\ Len(orders') = Len(orders) /\ SameTerms(o, p)
        /\ p.status = "CANCELLED"
    BY <1>8, TimesOutIs
  <2>3. /\ o \in BasketOrder /\ Consistent(o) /\ o.contract = k.contract /\ o.stage = k.stage
        /\ o.qty = k.qty /\ o.filled \in 0..k.qty /\ k.oid = Len(orders) /\ Placed(k)
    BY <2>2, WaitingFor
  <2> HIDE DEF o, p
  <2>4. Stores'
    BY <1>1, <1>2, <2>2, OrdersKeptType DEF OrdersKept
  <2>5. LastOrderDone(j.contract)'
    BY <2>1, <2>2, <2>3 DEF LastOrderDone, SameOrder, SameTerms, Placed, p
  <2>6. Answered(j)'
    BY <2>1, <2>2, <2>3, <2>5 DEF Answered, SameOrder, Consistent, Results
  <2> QED BY <1>4, <2>1, <2>4, <2>6
<1> QED BY <1>5, <1>6, <1>7, <1>8, RecordType DEF OrderStep

(* The broker changes one working order.                                   *)
AtBroker(x) ==
    /\ OrdersKept /\ Len(orders') = Len(orders)
    /\ x \in DOMAIN orders /\ \A o \in DOMAIN orders : o # x => orders'[o] = orders[o]
    /\ SameTerms(orders[x], orders'[x])
    /\ orders[x].status = "OPEN" /\ orders'[x].status # "CANCELLED"
    /\ UNCHANGED <<ledger, pc, job, lost>> /\ faults' \in 0..MaxFaults

LEMMA TradeAtBroker ==
    ASSUME Stores, NEW x \in DOMAIN orders, NEW n \in 1..Lot, Trade(x, n)
    PROVE  AtBroker(x) /\ orders'[x].filled = orders[x].filled + n
           /\ orders[x].filled + n <= orders[x].qty /\ UNCHANGED faults
<1>1. /\ orders' \in Seq(BasketOrder) /\ (\A o \in DOMAIN orders' : Consistent(orders'[o]))
      /\ Len(orders') = Len(orders) /\ DOMAIN orders' = DOMAIN orders
      /\ \A o \in DOMAIN orders : o # x => orders'[o] = orders[o]
      /\ orders[x].status = "OPEN" /\ orders'[x].status \in {"OPEN", "COMPLETE"}
      /\ orders'[x].filled = orders[x].filled + n /\ orders'[x].filled <= orders[x].qty
      /\ SameTerms(orders[x], orders'[x])
  BY TradeIs DEF Stores, SameTerms
<1>2. Len(orders) \in Nat /\ DOMAIN orders = 1..Len(orders)
  BY OrdersAre DEF Stores
<1>3. OrdersKept
  BY <1>1, <1>2 DEF OrdersKept
<1>4. UNCHANGED <<ledger, pc, job, lost, faults>> /\ faults \in 0..MaxFaults
  BY DEF Trade, Stores
<1> QED BY <1>1, <1>3, <1>4 DEF AtBroker

LEMMA RejectAtBroker ==
    ASSUME Stores, NEW x \in DOMAIN orders, Reject(x)
    PROVE  AtBroker(x) /\ orders'[x].filled = orders[x].filled /\ orders'[x].status = "REJECTED"
           /\ orders[x].filled = 0 /\ faults < MaxFaults /\ faults' = faults + 1
<1>0. /\ orders[x].status = "OPEN" /\ orders[x].filled = 0 /\ faults < MaxFaults
      /\ orders' = [orders EXCEPT ![x].status = "REJECTED"]
      /\ UNCHANGED <<ledger, pc, job, lost>> /\ faults' = faults + 1
  BY DEF Reject, Working
<1>1. /\ orders' \in Seq(BasketOrder) /\ (\A o \in DOMAIN orders' : Consistent(orders'[o]))
      /\ Len(orders') = Len(orders) /\ DOMAIN orders' = DOMAIN orders
      /\ \A o \in DOMAIN orders : o # x => orders'[o] = orders[o]
      /\ orders'[x].status = "REJECTED" /\ orders'[x].filled = orders[x].filled
      /\ SameTerms(orders[x], orders'[x])
  BY <1>0, EndIs DEF Stores, SameTerms
<1>2. Len(orders) \in Nat /\ DOMAIN orders = 1..Len(orders)
  BY OrdersAre DEF Stores
<1>3. OrdersKept
  BY <1>1, <1>2 DEF OrdersKept
<1>4. faults' \in 0..MaxFaults
  BY <1>0, LotAssumption DEF Stores
<1> QED BY <1>0, <1>1, <1>3, <1>4 DEF AtBroker

LEMMA AtBrokerType ==
    ASSUME BasketType, NEW x, AtBroker(x)
    PROVE  BasketType'
<1> DEFINE n == Len(orders)
<1>1. /\ OrdersKept /\ Len(orders') = n
      /\ x \in DOMAIN orders /\ \A o \in DOMAIN orders : o # x => orders'[o] = orders[o]
      /\ SameTerms(orders[x], orders'[x])
      /\ orders[x].status = "OPEN" /\ orders'[x].status # "CANCELLED"
      /\ UNCHANGED <<ledger, pc, job, lost>> /\ faults' \in 0..MaxFaults
  BY DEF AtBroker
<1>2. n \in Nat /\ DOMAIN orders = 1..n
  BY <1>1 DEF OrdersKept
<1>3. Stores'
  BY <1>1, <1>2, OrdersKeptType DEF BasketType
<1>4. ASSUME NEW c, LastOrderDone(c) PROVE LastOrderDone(c)'
  <2>1. n \in DOMAIN orders /\ n # x /\ n # 0
    BY <1>1, <1>2, <1>4 DEF LastOrderDone
  <2> QED BY <1>1, <1>4, <2>1 DEF LastOrderDone
<1>5. ASSUME NEW k, Placed(k) PROVE Placed(k)'
  <2>1. k.oid = n /\ n # 0 /\ n \in DOMAIN orders
    BY <1>2, <1>5 DEF Placed
  <2>2. CASE n = x
    BY <1>1, <1>5, <2>1, <2>2 DEF Placed, SameTerms
  <2>3. CASE n # x
    BY <1>1, <1>5, <2>1, <2>3 DEF Placed
  <2> QED BY <2>2, <2>3
<1>6. ASSUME NEW a \in Actors PROVE Sound(pc[a], job[a])'
  <2>1. PICK s, k : s = pc[a] /\ k = job[a]
    OBVIOUS
  <2>2. Sound(s, k) /\ pc'[a] = s /\ job'[a] = k
    BY <1>1, <2>1 DEF BasketType, JobsSound
  <2>3. LastOrderDone(k.contract) => LastOrderDone(k.contract)'
    BY <1>4
  <2>4. Unplaced(k) => Unplaced(k)'
    BY <2>3 DEF Unplaced
  <2>5. Answered(k) => Answered(k)'
    BY <1>1, <2>3 DEF Answered
  <2>6. Sound(s, k)'
    BY <1>5, <2>2, <2>4, <2>5 DEF Sound, ToOrder, OfSetup
  <2> QED BY <2>2, <2>6
<1> QED BY <1>3, <1>6 DEF BasketType, JobsSound

LEMMA IdleSound ==
    ASSUME NEW a \in Actors, pc'[a] = "idle", job'[a].basket \in Nat
    PROVE  Sound(pc[a], job[a])'
BY DEF Sound, Ordering, EntryStep

LEMMA NoJobIsSound ==
    ASSUME pc' = [a \in Actors |-> "idle"], job' = [a \in Actors |-> NoJob]
    PROVE  JobsSound'
<1>1. ASSUME NEW a \in Actors PROVE pc'[a] = "idle" /\ job'[a].basket \in Nat
  BY DEF NoJob
<1>2. \A a \in Actors : Sound(pc[a], job[a])'
  BY <1>1, IdleSound
<1> QED BY <1>2 DEF JobsSound

(* A session is cut, or the process crashes.                               *)
LEMMA AbandonType ==
    ASSUME SwingType, BasketType, Abandon(Actors), UNCHANGED <<orders, ledger>>, faults < MaxFaults
    PROVE  BasketType'
<1>1. JobsSound'
  BY AbandonAll, NoJobIsSound
<1>2. Len(orders) \in Nat /\ DOMAIN orders = 1..Len(orders)
  BY OrdersAre DEF BasketType, Stores
<1>3. ASSUME NEW a \in Actors, pc[a] \in {"wait", "record"}, job[a].oid # 0
      PROVE  job[a].oid \in DOMAIN orders
  <2>1. Sound(pc[a], job[a])
    BY DEF BasketType, JobsSound
  <2> QED BY <1>2, <1>3, <2>1 DEF Sound, Placed, Answered, LastOrderDone
<1>4. ASSUME NEW a \in Actors, pc[a] = "place", job[a].stage = "unwindFuture"
      PROVE  Len(orders) \in DOMAIN orders
  <2>1. Sound(pc[a], job[a])
    BY DEF BasketType, JobsSound
  <2> QED BY <1>2, <1>4, <2>1 DEF Sound, Unplaced, LastOrderDone
<1>5. lost' \in SUBSET DOMAIN orders
  <2>1. lost \in SUBSET DOMAIN orders
    BY DEF BasketType, Stores
  <2> QED BY <1>3, <1>4, <2>1 DEF Abandon
<1>6. faults' \in 0..MaxFaults
  BY LotAssumption DEF Abandon, BasketType, Stores
<1>7. Stores'
  BY <1>5, <1>6, LegsStay DEF BasketType, Stores
<1> QED BY <1>1, <1>7 DEF BasketType

(* Over night what is left of the orders lapses.                           *)
Lapsed ==
    /\ OrdersKept /\ Len(orders') = Len(orders)
    /\ \A o \in DOMAIN orders : /\ SameTerms(orders[o], orders'[o])
                                /\ orders'[o].filled = orders[o].filled
                                /\ orders'[o].status # "OPEN"
    /\ UNCHANGED <<ledger, pc, job, faults, lost>> /\ \A a \in Actors : pc[a] = "idle"

LEMMA NewDayLapses ==
    ASSUME BasketType, NewDay
    PROVE  Lapsed
<1> DEFINE n == Len(orders)
<1>1. /\ orders' = [o \in DOMAIN orders |->
                     [orders[o] EXCEPT !.status = IF @ = "OPEN" THEN "CANCELLED" ELSE @]]
      /\ UNCHANGED <<ledger, pc, job, faults, lost>> /\ \A a \in Actors : pc[a] = "idle"
  BY DEF NewDay
<1>2. n \in Nat /\ DOMAIN orders = 1..n /\ \A o \in DOMAIN orders : orders[o] \in BasketOrder
  BY OrdersAre DEF BasketType, Stores
<1>3. ASSUME NEW o \in DOMAIN orders
      PROVE  /\ orders'[o] \in BasketOrder /\ SameTerms(orders[o], orders'[o])
             /\ orders'[o].filled = orders[o].filled
             /\ orders'[o].status = IF orders[o].status = "OPEN" THEN "CANCELLED" ELSE orders[o].status
  <2>1. orders'[o] = [orders[o] EXCEPT !.status = IF @ = "OPEN" THEN "CANCELLED" ELSE @]
    BY <1>1
  <2> QED BY <1>2, <2>1 DEF BasketOrder, Results, SameTerms
<1>4. ASSUME NEW o \in DOMAIN orders PROVE Consistent(orders'[o])
  <2>1. Consistent(orders[o])
    BY DEF BasketType, Stores
  <2> QED BY <1>3, <2>1 DEF Consistent, SameTerms
<1>5. DOMAIN orders' = 1..n /\ orders' \in [1..n -> BasketOrder]
  BY <1>1, <1>2, <1>3
<1>6. orders' \in Seq(BasketOrder)
  BY <1>2, <1>5, SeqDef
<1>7. Len(orders') = n
  <2>1. DOMAIN orders' = 1..Len(orders') /\ Len(orders') \in Nat
    BY <1>6, LenProperties
  <2> QED BY <1>2, <1>5, <2>1
<1>8. OrdersKept
  BY <1>2, <1>4, <1>5, <1>6, <1>7 DEF OrdersKept
<1>9. \A o \in DOMAIN orders : orders'[o].status # "OPEN"
  BY <1>3
<1> QED BY <1>1, <1>3, <1>7, <1>8, <1>9 DEF Lapsed

LEMMA LapsedType ==
    ASSUME BasketType, Lapsed
    PROVE  BasketType'
<1>1. /\ OrdersKept /\ Len(orders') = Len(orders) /\ Len(orders) \in Nat
      /\ UNCHANGED <<ledger, pc, job, faults, lost>> /\ \A a \in Actors : pc[a] = "idle"
  BY DEF Lapsed, OrdersKept
<1>2. Stores'
  <2>1. Stores
    BY DEF BasketType
  <2> QED BY <1>1, <2>1, OrdersKeptType DEF Stores
<1>3. \A a \in Actors : pc'[a] = "idle" /\ job'[a].basket \in Nat
  BY <1>1 DEF BasketType, JobsSound, Sound
<1>4. \A a \in Actors : Sound(pc[a], job[a])'
  BY <1>3, IdleSound
<1> QED BY <1>2, <1>4 DEF BasketType, JobsSound

LEMMA StandingType ==
    ASSUME BasketType, Standing
    PROVE  BasketType'
<1>1. Stores' /\ \A step, k : Sound(step, k)' <=> Sound(step, k)
  BY StandingSound DEF Standing
<1>2. ASSUME NEW a \in Actors PROVE Sound(pc[a], job[a])'
  <2>1. PICK s, k : s = pc[a] /\ k = job[a]
    OBVIOUS
  <2>2. Sound(s, k)'
    BY <1>1, <2>1 DEF BasketType, JobsSound
  <2> QED BY <2>1, <2>2 DEF Standing
<1> QED BY <1>1, <1>2 DEF BasketType, JobsSound

LEMMA StepType ==
    ASSUME SwingType, DayInv, Solo, BasketType, [Next]_vars
    PROVE  BasketType'
<1>1. ASSUME NEW a \in Actors, BasketStep(a) PROVE BasketType'
  BY <1>1, OrderStepType, LookType DEF BasketStep
<1>2. ASSUME NEW o \in DOMAIN orders, (\E n \in 1..Lot : Trade(o, n)) \/ Reject(o) PROVE BasketType'
  <2>1. AtBroker(o)
    BY <1>2, TradeAtBroker, RejectAtBroker DEF BasketType
  <2> QED BY <2>1, AtBrokerType
<1>3. CASE SessionCut \/ Crash
  BY <1>3, AbandonType DEF SessionCut, Crash
<1>4. CASE NewDay
  BY <1>4, NewDayLapses, LapsedType
<1> QED BY <1>1, <1>2, <1>3, <1>4, StrollsType, StandingType, StepKinds

LEMMA BasketInitHolds ==
    Init => Solo /\ BasketType
<1> SUFFICES ASSUME Init PROVE Solo /\ BasketType
  OBVIOUS
<1>1. /\ orders = <<>> /\ ledger = <<>> /\ faults = 0 /\ lost = {}
      /\ \A a \in Actors : pc[a] = "idle" /\ job[a] = NoJob
  BY DEF Init, BasketInit
<1>2. Solo
  BY <1>1 DEF Solo, FromNothing, Entering, EntryStep, Gone, Leaving, LeavingStep, Ordering, Actors
<1>3. \A c \in Contracts : PrimaryLegs(c) = <<>>
  BY <1>1, PrimaryLegsAre, PrimaryOfNone
<1>4. Stores
  <2>1. orders \in Seq(BasketOrder) /\ ledger \in Seq(Leg) /\ DOMAIN orders = {}
    BY <1>1
  <2>2. \A c \in Contracts : PrimaryLegs(c) \in Seq(Leg)
    <3>1. <<>> \in Seq(Leg)
      OBVIOUS
    <3> QED BY <1>3, <3>1
  <2>3. faults \in 0..MaxFaults /\ lost \in SUBSET DOMAIN orders
    BY <1>1, LotAssumption
  <2> QED BY <2>1, <2>2, <2>3 DEF Stores
<1>5. JobsSound
  <2>1. NoJob.basket = 0
    BY DEF NoJob
  <2> QED BY <1>1, <2>1 DEF JobsSound, Sound, Ordering, EntryStep
<1> QED BY <1>2, <1>4, <1>5 DEF BasketType

(* What is left of the types: the exit that is pending, and the days.      *)
ClockOK ==
    /\ pendingExit \in BOOLEAN /\ backoff \in BOOLEAN
    /\ today \in 1..MaxDays /\ context \in 0..today

LEMMA ClockTicks ==
    ASSUME ClockOK, [Next]_vars
    PROVE  ClockOK'
<1> USE DEF ClockOK
<1>1. CASE RollStep
  <2>1. UNCHANGED <<pendingExit, backoff, today>> /\ context' \in {context, today}
    <3>0. CASE CloseBucket
      BY <3>0 DEF CloseBucket, ContextOfTheDay, memoryVars
    <3>1. CASE Choose \/ BrokerCheck \/ Attempt
      BY <3>1 DEF Choose, BrokerCheck, Attempt, memoryVars, clockVars
    <3>2. CASE Trail \/ Activate
      BY <3>2 DEF Trail, Activate, clockVars
    <3>3. CASE Decline \/ CreateEntering \/ Settle \/ Finish
      BY <3>3 DEF Decline, CreateEntering, Settle, Finish, memoryVars, clockVars
    <3> QED BY <1>1, <3>0, <3>1, <3>2, <3>3 DEF RollStep
  <2> QED BY <2>1, LevelAssumption
<1>2. CASE TickExit \/ RetryDue
  BY <1>2 DEF TickExit, RetryDue, memoryVars, clockVars
<1>3. ASSUME NEW a \in Actors, ExitStep(a) PROVE ClockOK'
  BY <1>3 DEF ExitStep, TakeExitLock, ExitIncomplete, CloseRow, ClearActive, memoryVars, clockVars
<1>4. CASE UNCHANGED <<memoryVars, clockVars>>
  BY <1>4 DEF memoryVars, clockVars
<1>5. CASE Setup
  BY <1>5 DEF Setup
<1>6. CASE Begin
  <2>1. context' = today \/ context' = context
    BY <1>6 DEF Begin, BuildContext
  <2>2. today' = today /\ pendingExit' = pendingExit /\ backoff' = backoff
    BY <1>6 DEF Begin
  <2> QED BY <2>1, <2>2, LevelAssumption
<1>7. CASE SessionCut \/ Crash
  <2>1. /\ pendingExit' \in BOOLEAN /\ backoff' \in BOOLEAN /\ today' = today
        /\ context' = context \/ context' = 0
    BY <1>7 DEF SessionCut, Crash, memoryVars
  <2>2. 0 \in 0..today
    BY LevelAssumption
  <2> QED BY <2>1, <2>2
<1>8. CASE NewDay
  BY <1>8, LevelAssumption DEF NewDay, memoryVars
<1>9. CASE UNCHANGED vars
  BY <1>4, <1>9 DEF vars
<1> QED BY <1>1, <1>2, <1>3, <1>4, <1>5, <1>6, <1>7, <1>8, <1>9 DEF Next

SwingInv == SwingType /\ DayInv /\ Solo /\ BasketType /\ ClockOK

LEMMA SwingStarts == Init => SwingInv
<1>1. Init => ClockOK
  <2> SUFFICES ASSUME Init PROVE ClockOK
    OBVIOUS
  <2>1. pendingExit = FALSE /\ backoff = FALSE /\ today = 1 /\ context = 0
    BY DEF Init
  <2>2. 1 \in 1..MaxDays /\ 0 \in 0..1
    BY LevelAssumption
  <2> QED BY <2>1, <2>2 DEF ClockOK
<1> QED BY <1>1, InitHolds, BasketInitHolds DEF SwingInv

LEMMA SwingGoesOn ==
    ASSUME SwingInv, [Next]_vars
    PROVE  SwingInv'
BY StepShape, StepKeepsSolo, StepType, ClockTicks DEF SwingInv

LEMMA SwingInvHolds == Spec => []SwingInv
BY SwingStarts, SwingGoesOn, PTL DEF Spec

(* Every quantity, row, position and counter is in its range.              *)
THEOREM TypesHold == Spec => []TypeOK
<1>1. SwingInv => TypeOK
  <2> SUFFICES ASSUME SwingInv PROVE TypeOK
    OBVIOUS
  <2>1. \A o \in DOMAIN orders : /\ orders[o].qty \in 1..Lot /\ orders[o].filled \in 0..Lot
                                 /\ orders[o].contract \in Contracts
    BY OrdersAre, OrderIs DEF SwingInv, BasketType, Stores
  <2>2. \A i \in DOMAIN ledger : ledger[i].qty \in 1..Lot /\ ledger[i].contract \in Contracts
    BY LegsAre DEF SwingInv, BasketType, Stores, Leg
  <2>3. /\ rows \in [Setups -> [status : {"none", "closed", "rejected"} \cup ActiveStatuses,
                                best : Levels]]
        /\ attempts \subseteq Setups
        /\ active.setup \in Setups \cup {NoSetup} /\ active.status \in {"none"} \cup ActiveStatuses
        /\ phase \in {"down", "loop", "session"}
    BY DEF SwingInv, SwingType, StoreOK, Row
  <2>4. lost \subseteq DOMAIN orders /\ faults \in 0..MaxFaults
    BY DEF SwingInv, BasketType, Stores
  <2> QED BY <2>1, <2>2, <2>3, <2>4 DEF TypeOK, SwingInv, ClockOK
<1> QED BY <1>1, SwingInvHolds, PTL

-------------------------------------------------------------------------------
(* What the account holds, and how an order moves it.                      *)

(* Every setup on a contract takes it in the same direction.               *)
OneDirection == \A d, e \in Setups : d.contract = e.contract => d.side = e.side

Toward(c) == (CHOOSE d \in Setups : d.contract = c).side

Position(c) == Traded("primary", c, Toward(c)) - Traded("primary", c, Opposite(Toward(c)))

Balance(c) == Counted(PrimaryLegs(c), Toward(c)) - Counted(PrimaryLegs(c), Opposite(Toward(c)))

LEMMA TowardIs ==
    ASSUME NEW c \in Contracts
    PROVE  /\ Toward(c) \in Sides /\ Opposite(Toward(c)) \in Sides
           /\ Opposite(Toward(c)) # Toward(c)
           /\ OneDirection => \A d \in Setups : d.contract = c => d.side = Toward(c)
<1>1. PICK e \in Setups : e = CHOOSE d \in Setups : d.contract = c
  BY DEF Contracts
<1>2. e.contract = c /\ Toward(c) = e.side
  BY <1>1 DEF Contracts, Toward
<1> QED BY <1>2, SetupAssumption DEF OneDirection, Opposite, Sides

LEMMA TradedThen ==
    \A p, c, s : Traded(p, c, s)' = FillSum(orders', Matching(orders', p, c, s))
BY DEF Traded, FillSum, Matching, MapThenSumSet, MapThenFoldSet

LEMMA TradedIsNat ==
    ASSUME OrderList(orders), NEW purpose, NEW c, NEW side
    PROVE  Traded(purpose, c, side) \in Nat
<1>1. Matching(orders, purpose, c, side) \in SUBSET DOMAIN orders
  BY DEF Matching
<1> QED BY <1>1, FillsAdd, TradedIs

LEMMA Holdings ==
    ASSUME OrderList(orders), NEW c \in Contracts
    PROVE  /\ \A p : Net(p, c) \in Int
           /\ Position(c) \in Int
           /\ Position(c) = IF Toward(c) = "BUY" THEN Net("primary", c) ELSE -Net("primary", c)
<1>1. \A p, s : Traded(p, c, s) \in Nat
  BY TradedIsNat
<1>2. Toward(c) \in {"BUY", "SELL"}
  BY TowardIs DEF Sides
<1>3. \A p : Net(p, c) \in Int
  BY <1>1 DEF Net
<1>4. CASE Toward(c) = "BUY"
  BY <1>1, <1>4 DEF Position, Net, Opposite
<1>5. CASE Toward(c) = "SELL"
  BY <1>1, <1>5 DEF Position, Net, Opposite
<1> QED BY <1>2, <1>3, <1>4, <1>5

LEMMA BalanceIs ==
    ASSUME Stores, NEW c \in Contracts
    PROVE  /\ Balance(c) \in Int /\ PrimaryLegs(c) \in Seq(Leg)
           /\ PrimaryLegs(c) = <<>> => Balance(c) = 0
<1>1. PrimaryLegs(c) \in Seq(Leg)
  BY DEF Stores
<1>2. \A s : Counted(PrimaryLegs(c), s) \in Nat /\ (PrimaryLegs(c) = <<>> => Counted(PrimaryLegs(c), s) = 0)
  BY <1>1, CountedIsNat
<1> QED BY <1>1, <1>2 DEF Balance

(* The orders hold the same fills, but for n more of order x.              *)
FillsMore(x, n) ==
    \A p, c, s : Traded(p, c, s)' = Traded(p, c, s) +
        (IF orders'[x].purpose = p /\ orders'[x].contract = c /\ orders'[x].side = s
           THEN n ELSE 0)

LEMMA OrdersListed ==
    ASSUME Stores, OrdersKept
    PROVE  OrderList(orders) /\ OrderList(orders')
<1>1. OrderList(orders)
  BY OrdersAre DEF Stores
<1>2. /\ Len(orders') \in Nat /\ DOMAIN orders' = 1..Len(orders')
      /\ \A o \in DOMAIN orders' : orders'[o] \in BasketOrder
  BY LenProperties, ElementOfSeq DEF OrdersKept
<1>3. \A o \in DOMAIN orders' : orders'[o].filled \in Nat
  BY <1>2, OrderIs
<1> QED BY <1>1, <1>2, <1>3 DEF OrderList

LEMMA OneOrderFills ==
    ASSUME Stores, OrdersKept, NEW x \in DOMAIN orders, NEW n \in Nat,
           Len(orders') = Len(orders), \A o \in DOMAIN orders : o # x => orders'[o] = orders[o],
           SameTerms(orders[x], orders'[x]), orders'[x].filled = orders[x].filled + n
    PROVE  FillsMore(x, n)
<1>1. OrderList(orders) /\ OrderList(orders')
  BY OrdersListed
<1>2. DOMAIN orders' = DOMAIN orders
  BY DEF OrdersKept
<1>3. DifferAt(orders, orders', x)
  BY <1>2 DEF DifferAt, SameTerms
<1>4. orders[x].filled \in Nat
  BY <1>1 DEF OrderList
<1>5. ASSUME NEW p, NEW c, NEW s
      PROVE  Traded(p, c, s)' = Traded(p, c, s) +
        (IF orders'[x].purpose = p /\ orders'[x].contract = c /\ orders'[x].side = s THEN n ELSE 0)
  <2>1. Traded(p, c, s)' = FillSum(orders', Matching(orders', p, c, s))
    BY TradedThen
  <2>2. Traded(p, c, s) = FillSum(orders, Matching(orders, p, c, s))
    BY TradedIs
  <2>3. x \in Matching(orders', p, c, s) <=>
           orders'[x].purpose = p /\ orders'[x].contract = c /\ orders'[x].side = s
    BY <1>2 DEF Matching
  <2>4. FillSum(orders', Matching(orders', p, c, s)) = FillSum(orders, Matching(orders, p, c, s)) +
              (IF x \in Matching(orders', p, c, s) THEN orders'[x].filled - orders[x].filled ELSE 0)
    BY <1>1, <1>3, FillsMove
  <2> QED BY <1>4, <2>1, <2>2, <2>3, <2>4
<1> QED BY <1>5 DEF FillsMore

(* Every position stays what it is.                                        *)
SameHoldings == \A p, c, s : Traded(p, c, s)' = Traded(p, c, s)

LEMMA NoFillSame ==
    ASSUME Stores, NEW x, FillsMore(x, 0)
    PROVE  SameHoldings
<1>1. OrderList(orders)
  BY OrdersAre DEF Stores
<1> QED BY <1>1, TradedIsNat DEF FillsMore, SameHoldings

LEMMA NewOrderSame ==
    ASSUME Stores, OrdersKept, Len(orders') = Len(orders) + 1,
           \A o \in DOMAIN orders : orders'[o] = orders[o], orders'[Len(orders) + 1].filled = 0
    PROVE  SameHoldings
<1> DEFINE x == Len(orders) + 1
<1>1. OrderList(orders) /\ OrderList(orders')
  BY OrdersListed
<1>2. DOMAIN orders = 1..Len(orders) /\ DOMAIN orders' = 1..x /\ Len(orders) \in Nat
  BY DEF OrdersKept
<1>3. x \notin DOMAIN orders /\ x \in DOMAIN orders' /\ DOMAIN orders \subseteq DOMAIN orders'
      /\ \A o \in DOMAIN orders' : o # x => o \in DOMAIN orders
  BY <1>2
<1>4. DifferAt(orders, orders', x) /\ orders'[x].filled = 0
  BY <1>3 DEF DifferAt
<1> HIDE DEF x
<1>5. ASSUME NEW p, NEW c, NEW s PROVE Traded(p, c, s)' = Traded(p, c, s)
  <2>1. Traded(p, c, s)' = FillSum(orders', Matching(orders', p, c, s))
    BY TradedThen
  <2>2. Traded(p, c, s) = FillSum(orders, Matching(orders, p, c, s)) /\ Traded(p, c, s) \in Nat
    BY <1>1, TradedIs, TradedIsNat
  <2>3. FillSum(orders', Matching(orders', p, c, s)) = FillSum(orders, Matching(orders, p, c, s)) +
              (IF x \in Matching(orders', p, c, s)
                 THEN orders'[x].filled - (IF x \in DOMAIN orders THEN orders[x].filled ELSE 0)
                 ELSE 0)
    BY <1>1, <1>4, FillsMove
  <2> QED BY <1>3, <1>4, <2>1, <2>2, <2>3
<1> QED BY <1>5 DEF SameHoldings

LEMMA LapsedSame ==
    ASSUME Stores, Lapsed
    PROVE  SameHoldings
<1>1. OrderList(orders) /\ OrderList(orders') /\ DOMAIN orders' = DOMAIN orders
  BY OrdersListed DEF Lapsed, OrdersKept
<1>2. \A o \in DOMAIN orders :
              /\ orders'[o].purpose = orders[o].purpose /\ orders'[o].contract = orders[o].contract
              /\ orders'[o].side = orders[o].side /\ orders'[o].filled = orders[o].filled
  BY DEF Lapsed, SameTerms
<1>3. ASSUME NEW p, NEW c, NEW s PROVE Traded(p, c, s)' = Traded(p, c, s)
  <2>1. Traded(p, c, s)' = FillSum(orders', Matching(orders', p, c, s))
    BY TradedThen
  <2>2. Traded(p, c, s) = FillSum(orders, Matching(orders, p, c, s))
    BY TradedIs
  <2>3. FillSum(orders', Matching(orders', p, c, s)) = FillSum(orders, Matching(orders, p, c, s))
    BY <1>1, <1>2, FillsStay
  <2> QED BY <2>1, <2>2, <2>3
<1> QED BY <1>3 DEF SameHoldings

LEMMA StandingSame == ASSUME UNCHANGED orders PROVE SameHoldings
BY TradedIs, TradedThen DEF SameHoldings

LEMMA SameHoldingsMeans ==
    ASSUME SameHoldings
    PROVE  /\ \A c : Position(c)' = Position(c)
           /\ \A p, c : Net(p, c)' = Net(p, c)
<1>1. \A c : Position(c)' = Traded("primary", c, Toward(c))' - Traded("primary", c, Opposite(Toward(c)))'
  BY DEF Position, Toward
<1> QED BY <1>1 DEF SameHoldings, Position, Net

(* A fill moves the positions of its own contract only, its own way.       *)
LEMMA FillMoves ==
    ASSUME Stores, NEW x, NEW n \in Nat, FillsMore(x, n), orders'[x].side \in Sides,
           NEW c \in Contracts
    PROVE  LET o == orders'[x]
           IN  /\ Position(c)' =
                    IF o.purpose = "primary" /\ o.contract = c
                      THEN IF o.side = Toward(c) THEN Position(c) + n ELSE Position(c) - n
                      ELSE Position(c)
               /\ \A p : Net(p, c)' =
                    IF o.purpose = p /\ o.contract = c
                      THEN IF o.side = "BUY" THEN Net(p, c) + n ELSE Net(p, c) - n
                      ELSE Net(p, c)
<1> DEFINE o == orders'[x]
           t == Toward(c)
           u == Opposite(Toward(c))
<1>1. OrderList(orders)
  BY OrdersAre DEF Stores
<1>2. \A p, s : Traded(p, c, s) \in Nat
  BY <1>1, TradedIsNat
<1>3. o.side \in {"BUY", "SELL"} /\ t \in {"BUY", "SELL"} /\ u = IF t = "BUY" THEN "SELL" ELSE "BUY"
  BY TowardIs DEF Sides, Opposite
<1>4. \A p, s : Traded(p, c, s)' = Traded(p, c, s) +
          (IF o.purpose = p /\ o.contract = c /\ o.side = s THEN n ELSE 0)
  BY DEF FillsMore
<1>5. Position(c)' = Traded("primary", c, t)' - Traded("primary", c, u)'
      /\ Position(c) = Traded("primary", c, t) - Traded("primary", c, u)
  BY DEF Position, Toward
<1>6. ASSUME NEW p
      PROVE  /\ Net(p, c)' = Traded(p, c, "BUY")' - Traded(p, c, "SELL")'
             /\ Net(p, c) = Traded(p, c, "BUY") - Traded(p, c, "SELL")
  BY DEF Net
<1> HIDE DEF o, t, u
<1>7. Position(c)' = IF o.purpose = "primary" /\ o.contract = c
                       THEN IF o.side = t THEN Position(c) + n ELSE Position(c) - n
                       ELSE Position(c)
  BY <1>2, <1>3, <1>4, <1>5
<1>8. ASSUME NEW p
      PROVE  Net(p, c)' = IF o.purpose = p /\ o.contract = c
                      THEN IF o.side = "BUY" THEN Net(p, c) + n ELSE Net(p, c) - n
                      ELSE Net(p, c)
  BY <1>2, <1>3, <1>4, <1>6
<1> QED BY <1>7, <1>8 DEF o, t

-------------------------------------------------------------------------------
(* The books: what is held, what the rows say, and what is on its way.     *)

(* When the rows say exactly what is held, not only no more than that.     *)
OwnContracts == \A d, e \in Setups : d.contract = e.contract => d = e

Exact == "future" \notin PartialStages \/ (MaxFaults <= 1 /\ OwnContracts)

Covers(held, said) == held >= said /\ (Exact => held = IF said > 0 THEN said ELSE 0)

LegsOK(c) == PrimaryLegs(c) # <<>> => PrimaryLegs(c)[1].side = Toward(c)

Settled(c) == Untouched(c) => Covers(Position(c), Balance(c))

NothingOpen == \A c \in Contracts : Balance(c) <= 0

HandlesAt(step, k, c) == step \in Ordering /\ k.contract = c /\ Purpose(k.stage) = "primary"

AwaitedAt(step, k) == IF step = "wait" THEN orders[k.oid].filled ELSE k.filled

(* An order that is to be placed, awaited or recorded: what is held of its *)
(* contract follows from what it filled so far.                            *)
Ordered(step, k) ==
    LET c == k.contract
        x == AwaitedAt(step, k)
    IN  /\ k.stage = "hedge" =>
              (Untouched(c) => Net("hedge", c) = x /\ Net("primary", c) = 0)
        /\ k.stage = "future" => (Untouched(c) => Net("hedge", c) = Lot /\ Position(c) = x)
        /\ k.stage = "unwindFuture" =>
              PrimaryLegs(c) # <<>> /\ (Untouched(c) => Position(c) = k.qty - x)
        /\ k.stage = "closeFuture" =>
              /\ k.qty <= Balance(c) /\ k.side = Toward(c)
              /\ Untouched(c) => Covers(Position(c) + x, Balance(c))

Flat(c) == Untouched(c) => Net("hedge", c) = 0 /\ Net("primary", c) = 0

(* Before an entry and during it no row is open.                           *)
BeforeOpen(step, k) ==
    step \in Checking \/ (EntryStep(step, k.stage) /\ (step # "settle" \/ k.basket = 0))

Book(step, k) ==
    /\ BeforeOpen(step, k) => NothingOpen
    /\ step \in {"attempt", "contract", "gate"} => Flat(k.contract)
    /\ step \in Ordering => Ordered(step, k)

Books ==
    /\ \A c \in Contracts : LegsOK(c)
    /\ \A c \in Contracts : (\A a \in Actors : ~HandlesAt(pc[a], job[a], c)) => Settled(c)
    /\ \A a \in Actors : Book(pc[a], job[a])

(* Who is not busy has no part in them.                                    *)
LEMMA NoPart ==
    ASSUME SwingType, NEW a \in Actors, ~Busy(a)
    PROVE  /\ pc[a] \notin Ordering /\ pc[a] \notin Checking /\ pc[a] \notin {"gate", "settle"}
           /\ \A c : ~HandlesAt(pc[a], job[a], c)
<1>1. pc[a] \notin Ordering /\ pc[a] \notin Checking /\ pc[a] \notin {"gate", "settle"}
  BY BusyAt
<1> QED BY <1>1 DEF HandlesAt

LEMMA OpenIffBalance ==
    ASSUME Stores, NEW c \in Contracts, LegsOK(c)
    PROVE  /\ DOMAIN OpenPrimary(c) # {} <=> Balance(c) > 0
           /\ \A i \in DOMAIN OpenPrimary(c) : OpenPrimary(c)[i] <= Balance(c)
           /\ Total(OpenPrimary(c), DOMAIN OpenPrimary(c)) =
                 IF Balance(c) > 0 THEN Balance(c) ELSE 0
<1>1. PrimaryLegs(c) \in Seq(Leg) /\ Toward(c) \in Sides
  BY TowardIs DEF Stores
<1> QED BY <1>1, OpenTotal DEF OpenPrimary, Balance, LegsOK

LEMMA NothingUnclosed ==
    ASSUME Stores, \A c \in Contracts : LegsOK(c), ~AnyUnclosed
    PROVE  NothingOpen
<1>1. ASSUME NEW c \in Contracts PROVE Balance(c) <= 0
  <2>1. DOMAIN OpenPrimary(c) = {}
    BY DEF AnyUnclosed
  <2>2. ~(Balance(c) > 0) /\ Balance(c) \in Int
    BY <2>1, OpenIffBalance, BalanceIs
  <2> QED BY <2>2
<1> QED BY <1>1 DEF NothingOpen

LEMMA NothingHeld ==
    ASSUME ~BrokerHoldsNfo, NEW c \in Contracts
    PROVE  Flat(c)
BY DEF BrokerHoldsNfo, Flat

LEMMA RowsStand ==
    ASSUME UNCHANGED ledger
    PROVE  /\ \A c \in Contracts : /\ PrimaryLegs(c)' = PrimaryLegs(c) /\ Balance(c)' = Balance(c)
                                   /\ LegsOK(c)' <=> LegsOK(c)
           /\ NothingOpen' <=> NothingOpen
<1>1. \A c \in Contracts : PrimaryLegs(c)' = PrimaryLegs(c)
  BY LegsStay
<1>2. ASSUME NEW c \in Contracts PROVE Balance(c)' = Balance(c) /\ (LegsOK(c)' <=> LegsOK(c))
  BY <1>1 DEF Balance, LegsOK, Toward
<1> QED BY <1>1, <1>2 DEF NothingOpen

LEMMA UntouchedStays ==
    ASSUME Stores, lost \subseteq lost',
           \A o \in DOMAIN orders : orders'[o].contract = orders[o].contract
    PROVE  \A c : Untouched(c)' => Untouched(c)
BY DEF Untouched, Stores

LEMMA SettledStays ==
    ASSUME Books, SameHoldings, UNCHANGED ledger, \A c : Untouched(c)' => Untouched(c)
    PROVE  \A c \in Contracts : /\ LegsOK(c)' /\ (Settled(c) => Settled(c)')
                                /\ (Flat(c) => Flat(c)')
<1>1. ASSUME NEW c \in Contracts
      PROVE  /\ LegsOK(c)' /\ Balance(c)' = Balance(c) /\ Position(c)' = Position(c)
             /\ \A p : Net(p, c)' = Net(p, c)
  BY RowsStand, SameHoldingsMeans DEF Books
<1> QED BY <1>1 DEF Settled, Flat, Covers

LEMMA OrderedStays ==
    ASSUME SameHoldings, UNCHANGED ledger, \A c : Untouched(c)' => Untouched(c),
           NEW step, NEW k, Ordered(step, k), NEW next, NEW j, SameOrder(k, j),
           k.contract \in Contracts, AwaitedAt(next, j)' = AwaitedAt(step, k)
    PROVE  Ordered(next, j)'
<1>1. PICK c, x : c = k.contract /\ x = AwaitedAt(step, k)
  OBVIOUS
<1>2. /\ Balance(c)' = Balance(c) /\ Position(c)' = Position(c) /\ PrimaryLegs(c)' = PrimaryLegs(c)
      /\ \A p : Net(p, c)' = Net(p, c) /\ Toward(c)' = Toward(c)
      /\ Untouched(c)' => Untouched(c)
  BY <1>1, RowsStand, SameHoldingsMeans DEF Toward
<1>3. /\ k.stage = "hedge" =>
            (Untouched(c) => Net("hedge", c) = x /\ Net("primary", c) = 0)
      /\ k.stage = "future" => (Untouched(c) => Net("hedge", c) = Lot /\ Position(c) = x)
      /\ k.stage = "unwindFuture" =>
            PrimaryLegs(c) # <<>> /\ (Untouched(c) => Position(c) = k.qty - x)
      /\ k.stage = "closeFuture" =>
            /\ k.qty <= Balance(c) /\ k.side = Toward(c)
            /\ Untouched(c) => Covers(Position(c) + x, Balance(c))
  BY <1>1 DEF Ordered
<1>4. j.contract = c /\ j.stage = k.stage /\ j.qty = k.qty /\ j.side = k.side
      /\ AwaitedAt(next, j)' = x
  BY <1>1 DEF SameOrder
<1> QED BY <1>2, <1>3, <1>4 DEF Ordered, Covers

(* A step of the one that is busy.                                         *)
LEMMA BooksMove ==
    ASSUME SwingType, NEW a \in Actors, NEW step, NEW j, Moves(a, step, j),
           \A b \in Actors : b # a => ~Busy(b),
           Book(step, j)', \A c \in Contracts : LegsOK(c)',
           \A c \in Contracts : ~HandlesAt(step, j, c) => Settled(c)'
    PROVE  Books'
<1>1. /\ pc'[a] = step /\ job'[a] = j
      /\ \A b \in Actors : b # a => pc'[b] = pc[b] /\ job'[b] = job[b]
  BY Moved DEF SwingType, Moves
<1>2. ASSUME NEW b \in Actors PROVE Book(pc[b], job[b])'
  <2>1. CASE b = a
    BY <1>1, <2>1
  <2>2. CASE b # a
    <3>1. pc[b] \notin Ordering /\ pc[b] \notin Checking /\ pc[b] \notin {"gate", "settle"}
      BY <2>2, NoPart
    <3> QED BY <1>1, <2>2, <3>1 DEF Book, BeforeOpen, EntryStep, Checking
  <2> QED BY <2>1, <2>2
<1>3. ASSUME NEW c \in Contracts, \A b \in Actors : ~HandlesAt(pc'[b], job'[b], c)
      PROVE  Settled(c)'
  BY <1>1, <1>3
<1>4. \A c \in Contracts : (\A b \in Actors : ~HandlesAt(pc[b], job[b], c)') => Settled(c)'
  BY <1>3 DEF HandlesAt
<1> QED BY <1>2, <1>4 DEF Books

(* It goes on with the same order, and nothing is filled.                  *)
LEMMA BooksGoOn ==
    ASSUME SwingType, Solo, BasketType, Books, NEW a \in Actors, pc[a] \in Ordering,
           NEW step \in Ordering, NEW j, Moves(a, step, j), SameOrder(job[a], j),
           SameHoldings, UNCHANGED ledger, \A c : Untouched(c)' => Untouched(c),
           AwaitedAt(step, j)' = AwaitedAt(pc[a], job[a])
    PROVE  Books'
<1>1. PICK s, k : s = pc[a] /\ k = job[a]
  OBVIOUS
<1>2. Book(s, k) /\ Ordered(s, k) /\ s \in Ordering /\ ToOrder(k)
  BY <1>1 DEF Books, Book, BasketType, JobsSound, Sound
<1>3. Ordered(step, j)'
  BY <1>1, <1>2, OrderedStays DEF ToOrder
<1>4. j.stage = k.stage /\ j.contract = k.contract
  BY <1>1 DEF SameOrder
<1>5. BeforeOpen(step, j) => NothingOpen'
  <2>1. BeforeOpen(step, j) => BeforeOpen(s, k)
    BY <1>2, <1>4 DEF BeforeOpen, EntryStep, Ordering, Checking
  <2> QED BY <1>2, <2>1, RowsStand DEF Book
<1>6. Book(step, j)'
  BY <1>3, <1>5 DEF Book, BeforeOpen, Ordering
<1>7. ASSUME NEW c \in Contracts, ~HandlesAt(step, j, c) PROVE Settled(c)'
  <2>1. ~HandlesAt(s, k, c)
    BY <1>2, <1>4, <1>7 DEF HandlesAt
  <2>2. \A b \in Actors : ~HandlesAt(pc[b], job[b], c)
    BY <1>1, <2>1, AtOrder, NoPart
  <2> QED BY <2>2, SettledStays DEF Books
<1>8. \A b \in Actors : b # a => ~Busy(b)
  BY AtOrder
<1> QED BY <1>6, <1>7, <1>8, BooksMove, SettledStays

LEMMA BookStands ==
    ASSUME UNCHANGED <<orders, ledger, lost>>
    PROVE  /\ \A step, k : k.contract \in Contracts \/ step \notin Ordering =>
                              (Book(step, k) => Book(step, k)')
           /\ \A c \in Contracts : /\ (LegsOK(c) => LegsOK(c)') /\ (Settled(c) => Settled(c)')
                                   /\ (Flat(c) => Flat(c)')
           /\ NothingOpen' <=> NothingOpen
<1>1. SameHoldings /\ \A c : Untouched(c)' <=> Untouched(c)
  BY StandingSame DEF Untouched
<1>2. \A c : /\ Position(c)' = Position(c) /\ \A p : Net(p, c)' = Net(p, c)
  BY <1>1, SameHoldingsMeans
<1>3. \A c \in Contracts : /\ PrimaryLegs(c)' = PrimaryLegs(c) /\ Balance(c)' = Balance(c)
                           /\ (LegsOK(c)' <=> LegsOK(c))
  BY RowsStand
<1>4. NothingOpen' <=> NothingOpen
  BY RowsStand
<1>5. ASSUME NEW c \in Contracts
      PROVE  (Settled(c) => Settled(c)')
  BY <1>1, <1>2, <1>3 DEF Settled, Covers
<1>6. \A c : Flat(c) => Flat(c)'
  BY <1>1, <1>2 DEF Flat
<1>7. ASSUME NEW step, NEW k, k.contract \in Contracts, Ordered(step, k)
      PROVE  Ordered(step, k)'
  <2>1. AwaitedAt(step, k)' = AwaitedAt(step, k)
    BY DEF AwaitedAt
  <2>2. SameOrder(k, k)
    BY DEF SameOrder
  <2> QED BY <1>1, <1>7, <2>1, <2>2, OrderedStays
<1>8. ASSUME NEW step, NEW k, k.contract \in Contracts \/ step \notin Ordering, Book(step, k)
      PROVE  Book(step, k)'
  <2>1. step \in Ordering => Ordered(step, k)'
    BY <1>7, <1>8 DEF Book
  <2>2. step \in {"attempt", "contract", "gate"} => Flat(k.contract)'
    BY <1>6, <1>8 DEF Book
  <2>3. BeforeOpen(step, k) => NothingOpen'
    BY <1>4, <1>8 DEF Book
  <2> QED BY <2>1, <2>2, <2>3 DEF Book, BeforeOpen
<1> QED BY <1>3, <1>4, <1>5, <1>6, <1>8

(* A step that changes no order and no row.                                *)
LEMMA BooksStand ==
    ASSUME SwingType, BasketType, Books, UNCHANGED <<orders, ledger, lost>>,
           NEW a \in Actors, NEW step, NEW j, Moves(a, step, j),
           step \in Ordering => ToOrder(j), Book(step, j),
           \A c \in Contracts : HandlesAt(pc[a], job[a], c) => Settled(c) \/ HandlesAt(step, j, c)
    PROVE  Books'
<1>1. /\ pc'[a] = step /\ job'[a] = j
      /\ \A b \in Actors : b # a => pc'[b] = pc[b] /\ job'[b] = job[b]
  BY Moved DEF SwingType, Moves
<1>2. ASSUME NEW b \in Actors PROVE Book(pc[b], job[b])'
  <2>1. PICK s, k : s = pc'[b] /\ k = job'[b]
    OBVIOUS
  <2>2. Book(s, k)
    BY <1>1, <2>1 DEF Books
  <2>3. s \in Ordering => k.contract \in Contracts
    BY <1>1, <2>1 DEF BasketType, JobsSound, Sound, ToOrder
  <2>4. Book(s, k)'
    BY <2>2, <2>3, BookStands
  <2> QED BY <2>1, <2>4
<1>3. ASSUME NEW c \in Contracts, \A b \in Actors : ~HandlesAt(pc'[b], job'[b], c)
      PROVE  Settled(c)'
  <2>1. \A b \in Actors : b # a => ~HandlesAt(pc[b], job[b], c)
    BY <1>1, <1>3
  <2>2. ~HandlesAt(step, j, c)
    BY <1>1, <1>3
  <2>3. Settled(c)
    <3>1. CASE HandlesAt(pc[a], job[a], c)
      BY <2>2, <3>1
    <3>2. CASE ~HandlesAt(pc[a], job[a], c)
      BY <2>1, <3>2 DEF Books
    <3> QED BY <3>1, <3>2
  <2> QED BY <2>3, BookStands
<1>4. \A c \in Contracts : (\A b \in Actors : ~HandlesAt(pc[b], job[b], c)') => Settled(c)'
  BY <1>3 DEF HandlesAt
<1>5. \A c \in Contracts : LegsOK(c)'
  BY BookStands DEF Books
<1> QED BY <1>2, <1>4, <1>5 DEF Books

LEMMA StrollsBooks ==
    ASSUME SwingType, BasketType, Books, NEW a \in Actors, NEW step, NEW j, Strolls(a, step, j)
    PROVE  Books'
<1> DEFINE k == job[a]
<1>1. /\ Moves(a, step, j) /\ Elsewhere(a, step, j) /\ UNCHANGED <<orders, ledger, lost>>
      /\ pc[a] \notin Ordering
  BY DEF Strolls
<1>2. step \notin Ordering /\ step # "settle"
  BY <1>1 DEF Elsewhere, Nowhere, Ordering
<1>3. Book(pc[a], k) /\ Stores /\ \A c \in Contracts : LegsOK(c)
  BY DEF Books, BasketType
<1>4. BeforeOpen(step, j) => NothingOpen
  <2>1. BeforeOpen(step, j) => step \in Checking \cup {"gate"}
    BY <1>2 DEF BeforeOpen, EntryStep
  <2>2. step \in Checking \cup {"gate"} =>
            \/ pc[a] = "choose" /\ ~AnyUnclosed
            \/ pc[a] \in Checking
    BY <1>1 DEF Elsewhere, Nowhere, Checking
  <2>3. pc[a] \in Checking => BeforeOpen(pc[a], k)
    BY DEF BeforeOpen
  <2> QED BY <1>3, <2>1, <2>2, <2>3, NothingUnclosed DEF Book
<1>5. step \in {"attempt", "contract", "gate"} => Flat(j.contract)
  <2>1. step = "attempt" => Flat(j.contract)
    <3> SUFFICES ASSUME step = "attempt" PROVE Flat(j.contract)
      OBVIOUS
    <3>1. ~BrokerHoldsNfo /\ j.setup \in Setups /\ j.contract = j.setup.contract
      BY <1>1 DEF Elsewhere, Nowhere
    <3> QED BY <3>1, NothingHeld DEF Contracts
  <2>2. step \in {"contract", "gate"} => j = k /\ pc[a] \in {"attempt", "contract"}
    BY <1>1 DEF Elsewhere, Nowhere
  <2> QED BY <1>3, <2>1, <2>2 DEF Book
<1>6. Book(step, j)
  BY <1>2, <1>4, <1>5 DEF Book
<1>7. \A c : ~HandlesAt(pc[a], k, c)
  BY <1>1 DEF HandlesAt
<1> QED BY <1>1, <1>2, <1>6, <1>7, BooksStand

(* An exit finds the first leg that is open.                               *)
LEMMA ClosesOpen ==
    ASSUME Stores, \A c \in Contracts : LegsOK(c), NEW sym, NEW c \in OpenContracts(sym)
    PROVE  /\ c \in Contracts /\ FirstOpen(c).qty <= Balance(c) /\ FirstOpen(c).side = Toward(c)
<1> DEFINE i == Min(DOMAIN OpenPrimary(c))
<1>1. /\ c \in Contracts /\ PrimaryLegs(c) \in Seq(Leg) /\ i \in DOMAIN OpenPrimary(c)
      /\ PrimaryLegs(c) # <<>>
      /\ FirstOpen(c).qty = OpenPrimary(c)[i] /\ FirstOpen(c).side = OpeningSide(PrimaryLegs(c))
  BY FirstOpenIs
<1>2. OpenPrimary(c)[i] <= Balance(c)
  BY <1>1, OpenIffBalance
<1>3. OpeningSide(PrimaryLegs(c)) = Toward(c)
  BY <1>1 DEF OpeningSide, LegsOK
<1> HIDE DEF i
<1> QED BY <1>1, <1>2, <1>3

LEMMA LookBooks ==
    ASSUME SwingType, Solo, BasketType, Books, NEW a \in Actors,
           \/ EnterBasket(a) \/ RefuseBasket(a) \/ CloseFuture(a) \/ NothingToClose(a) \/ CloseHedge(a)
    PROVE  Books'
<1> DEFINE k == job[a]
<1>1. /\ JobOK(k) /\ ActorsOK /\ Stores /\ (\A c \in Contracts : LegsOK(c)) /\ Book(pc[a], k)
      /\ Sound(pc[a], k)
  BY DEF SwingType, ActorsOK, BasketType, Books, JobsSound
<1>2. UNCHANGED <<orders, ledger, lost>> /\ pc[a] \notin Ordering
      /\ pc[a] \in {"gate", "exitLook", "hedgeLook"}
  BY DEF EnterBasket, RefuseBasket, CloseFuture, NothingToClose, CloseHedge, Ordering
<1>3. \A c : ~HandlesAt(pc[a], k, c)
  BY <1>2 DEF HandlesAt
<1>4. ASSUME NEW j, GotoWith(a, "place", j), j.contract \in Contracts,
             EntryStep("place", j.stage) => NothingOpen, Ordered("place", j)
      PROVE  Books'
  <2>1. Moves(a, "place", j) /\ Book("place", j)
    BY <1>1, <1>4, Moved DEF Book, BeforeOpen, Checking
  <2>2. PICK step : step = "place"
    OBVIOUS
  <2>3. BasketType'
    BY LookType
  <2>4. pc'[a] = "place" /\ job'[a] = j
    BY <1>1, <2>1, Moved DEF Moves
  <2>5. ToOrder(j)
    BY <2>3, <2>4 DEF BasketType, JobsSound, Sound, Ordering, ToOrder
  <2> QED BY <1>2, <1>3, <2>1, <2>5, BooksStand
<1>5. ASSUME NEW step \in {"settle", "exitCheck"}, NEW j, GotoWith(a, step, j) \/ (Goto(a, step) /\ j = k),
             step = "settle" => NothingOpen
      PROVE  Books'
  <2>1. Moves(a, step, j)
    BY <1>1, <1>5, Moved
  <2>2. Book(step, j) /\ step \notin Ordering
    BY <1>5 DEF Book, BeforeOpen, Checking, EntryStep, Ordering
  <2> QED BY <1>2, <1>3, <2>1, <2>2, BooksStand
<1>6. CASE EnterBasket(a)
  <2> DEFINE o == Order(k, "hedge", Lot)
             j == [o EXCEPT !.basket = Len(ledger) + 1]
  <2>1. /\ o.setup = k.setup /\ o.contract = k.contract /\ o.side = k.side /\ o.stage = "hedge"
        /\ o.filled = 0 /\ DOMAIN o = JobFields
    BY <1>1, OrderFields
  <2> HIDE DEF o
  <2>2. /\ j.setup = k.setup /\ j.contract = k.contract /\ j.stage = "hedge" /\ j.filled = 0
    BY <2>1 DEF JobFields
  <2>3. pc[a] = "gate" /\ GotoWith(a, "place", j) /\ ~AnyUnclosed
    BY <1>6 DEF EnterBasket, o
  <2> HIDE DEF j
  <2>4. k.contract \in Contracts
    <3>1. OfSetup(k) /\ k.setup \in Setups
      BY <1>1, <2>3 DEF Sound, EntryStep, SwingType, ActorsOK, PlaceOK
    <3> QED BY <3>1 DEF OfSetup, Contracts
  <2>5. NothingOpen
    BY <1>1, <2>3, NothingUnclosed
  <2>6. Flat(k.contract)
    BY <1>1, <2>3 DEF Book
  <2>7. Ordered("place", j)
    BY <2>2, <2>6 DEF Ordered, AwaitedAt, Flat
  <2> QED BY <1>4, <2>2, <2>3, <2>4, <2>5, <2>7
<1>7. CASE RefuseBasket(a)
  <2>1. pc[a] = "gate" /\ \E j : GotoWith(a, "settle", j)
    BY <1>7 DEF RefuseBasket
  <2>2. NothingOpen
    BY <1>1, <2>1 DEF Book, BeforeOpen, EntryStep
  <2> QED BY <1>5, <2>1, <2>2
<1>8. CASE CloseFuture(a)
  <2>1. PICK c \in OpenContracts(k.setup.sym) :
             GotoWith(a, "place", [Order(k, "closeFuture", FirstOpen(c).qty)
                      EXCEPT !.contract = c, !.side = FirstOpen(c).side,
                             !.basket = FirstOpen(c).basket])
    BY <1>8 DEF CloseFuture
  <2> DEFINE o == Order(k, "closeFuture", FirstOpen(c).qty)
             j == [o EXCEPT !.contract = c, !.side = FirstOpen(c).side,
                            !.basket = FirstOpen(c).basket]
  <2>2. o.stage = "closeFuture" /\ o.qty = FirstOpen(c).qty /\ o.filled = 0 /\ DOMAIN o = JobFields
    BY <1>1, OrderFields
  <2>3. GotoWith(a, "place", j)
    BY <2>1
  <2> HIDE DEF o
  <2>4. /\ j.contract = c /\ j.side = FirstOpen(c).side
        /\ j.stage = "closeFuture" /\ j.qty = FirstOpen(c).qty /\ j.filled = 0
    BY <2>2 DEF JobFields
  <2> HIDE DEF j
  <2>5. c \in Contracts /\ FirstOpen(c).qty <= Balance(c) /\ FirstOpen(c).side = Toward(c)
    BY <1>1, ClosesOpen
  <2>6. \A b \in Actors : ~HandlesAt(pc[b], job[b], c)
    <3>1. Busy(a)
      BY <1>2, BusyAt
    <3>2. \A b \in Actors : b # a => ~Busy(b)
      BY <3>1, OneBusy
    <3> QED BY <1>3, <3>2, NoPart
  <2>7. Settled(c)
    BY <2>5, <2>6 DEF Books
  <2>8. Position(c) \in Int
    BY <1>1, <2>5, OrdersAre, Holdings DEF Stores
  <2>9. Ordered("place", j)
    <3>1. AwaitedAt("place", j) = 0
      BY <2>4 DEF AwaitedAt
    <3>2. Position(c) + 0 = Position(c)
      BY <2>8
    <3> QED BY <2>4, <2>5, <2>7, <3>1, <3>2 DEF Ordered, Settled
  <2>10. ~EntryStep("place", j.stage)
    BY <2>4 DEF EntryStep, EntryStages
  <2> QED BY <1>4, <2>3, <2>4, <2>5, <2>9, <2>10
<1>9. CASE NothingToClose(a)
  <2>1. \E j : GotoWith(a, "exitCheck", j)
    BY <1>9 DEF NothingToClose
  <2> QED BY <1>5, <2>1
<1>10. CASE CloseHedge(a)
  <2>1. pc[a] = "hedgeLook" /\ k.contract \in Contracts
    BY <1>1, <1>10 DEF CloseHedge, Sound
  <2>2. CASE Goto(a, "exitCheck")
    BY <1>5, <2>1, <2>2
  <2>3. ASSUME NEW q, GotoWith(a, "place", Order(k, "closeHedge", q))
        PROVE  Books'
    <3> DEFINE o == Order(k, "closeHedge", q)
    <3>1. o.contract = k.contract /\ o.stage = "closeHedge"
      BY <1>1, OrderFields
    <3> HIDE DEF o
    <3>2. ~EntryStep("place", o.stage) /\ Ordered("place", o)
      BY <3>1 DEF EntryStep, EntryStages, Ordered
    <3> QED BY <1>4, <2>1, <2>3, <3>1, <3>2 DEF o
  <2> QED BY <1>10, <2>2, <2>3 DEF CloseHedge
<1> QED BY <1>6, <1>7, <1>8, <1>9, <1>10

(* What makes the books exact: no unwinding that fails.                    *)
SureOf(step, k) ==
    /\ step \in {"contract", "gate"} \/ (step \in Ordering /\ k.stage \in EntryStages)
          => k.setup \in attempts
    /\ OwnContracts /\ (step \in {"contract", "gate"}
                          \/ (step \in Ordering /\ k.stage \in {"hedge", "future"}))
          => PrimaryLegs(k.contract) = <<>>
    /\ MaxFaults <= 1 /\ step \in Ordering /\ k.stage = "unwindFuture"
          => /\ faults = MaxFaults
             /\ step = "wait" => orders[k.oid].status # "REJECTED"
             /\ step = "record" => k.result = "COMPLETE"
    /\ MaxFaults <= 1 /\ step = "record" /\ k.stage = "future" /\ k.filled \notin {0, k.qty}
          => faults = MaxFaults

Sure ==
    /\ "future" \notin PartialStages => \A c \in Contracts : Balance(c) >= 0
    /\ OwnContracts => \A c \in Contracts :
                          PrimaryLegs(c) # <<>> => \E d \in attempts : d.contract = c
    /\ \A a \in Actors : SureOf(pc[a], job[a])

(* An order is placed, refused, answered or given up: nothing is filled.   *)
LEMMA OrderBooks ==
    ASSUME SwingType, Solo, BasketType, Books, NEW a \in Actors,
           PlaceAccepted(a) \/ PlaceRaises(a) \/ Filled(a) \/ TimesOut(a)
    PROVE  Books'
<1>1. Stores
  BY DEF BasketType
<1>2. CASE PlaceAccepted(a)
  <2>1. PICK j : /\ Moves(a, "wait", j) /\ SameOrder(job[a], j) /\ j.filled = job[a].filled
                 /\ j.oid = Len(orders) + 1
    BY <1>2, PlaceAcceptedIs
  <2>2. /\ pc[a] = "place" /\ UNCHANGED <<ledger, lost>> /\ OrdersKept
        /\ Len(orders') = Len(orders) + 1 /\ \A o \in DOMAIN orders : orders'[o] = orders[o]
        /\ orders'[Len(orders) + 1].filled = 0
    BY <1>2, PlaceAcceptedIs
  <2>3. SameHoldings /\ \A c : Untouched(c)' => Untouched(c)
    BY <1>1, <2>2, NewOrderSame, UntouchedStays
  <2>4. job[a].filled = 0
    BY <2>2 DEF BasketType, JobsSound, Sound, Unplaced
  <2>5. AwaitedAt("wait", j)' = AwaitedAt(pc[a], job[a])
    BY <2>1, <2>2, <2>4 DEF AwaitedAt
  <2> QED BY <2>1, <2>2, <2>3, <2>5, BooksGoOn DEF Ordering
<1>3. CASE PlaceRaises(a)
  <2>1. PICK j : Moves(a, "record", j) /\ SameOrder(job[a], j) /\ j.filled = job[a].filled
    BY <1>3, PlaceRaisesIs
  <2>2. pc[a] = "place" /\ UNCHANGED <<orders, ledger, lost>>
    BY <1>3, PlaceRaisesIs
  <2>3. SameHoldings /\ \A c : Untouched(c)' => Untouched(c)
    BY <2>2, StandingSame DEF Untouched
  <2>4. AwaitedAt("record", j)' = AwaitedAt(pc[a], job[a])
    BY <2>1, <2>2 DEF AwaitedAt
  <2> QED BY <2>1, <2>2, <2>3, <2>4, BooksGoOn DEF Ordering
<1>4. CASE Filled(a)
  <2>1. PICK j : Moves(a, "record", j) /\ SameOrder(job[a], j) /\ j.filled = orders[job[a].oid].filled
    BY <1>4, FilledIs
  <2>2. pc[a] = "wait" /\ UNCHANGED <<orders, ledger, lost>>
    BY <1>4, FilledIs
  <2>3. SameHoldings /\ \A c : Untouched(c)' => Untouched(c)
    BY <2>2, StandingSame DEF Untouched
  <2>4. AwaitedAt("record", j)' = AwaitedAt(pc[a], job[a])
    BY <2>1, <2>2 DEF AwaitedAt
  <2> QED BY <2>1, <2>2, <2>3, <2>4, BooksGoOn DEF Ordering
<1>5. CASE TimesOut(a)
  <2>1. PICK j : Moves(a, "record", j) /\ SameOrder(job[a], j) /\ j.filled = orders[job[a].oid].filled
    BY <1>5, TimesOutIs
  <2>2. PICK x : x = job[a].oid
    OBVIOUS
  <2>3. /\ pc[a] = "wait" /\ UNCHANGED <<ledger, lost>> /\ OrdersKept /\ Len(orders') = Len(orders)
        /\ \A o \in DOMAIN orders : o # x => orders'[o] = orders[o]
        /\ SameTerms(orders[x], orders'[x]) /\ orders'[x].filled = orders[x].filled
    BY <1>5, <2>2, TimesOutIs
  <2>4. x \in DOMAIN orders /\ orders[x].filled \in Nat
    BY <2>2, <2>3, WaitingFor, OrderIs
  <2>5. FillsMore(x, 0)
    <3>1. orders'[x].filled = orders[x].filled + 0
      BY <2>3, <2>4
    <3> QED BY <1>1, <2>3, <2>4, <3>1, OneOrderFills
  <2>6. SameHoldings
    BY <1>1, <2>5, NoFillSame
  <2>7. \A c : Untouched(c)' => Untouched(c)
    BY <1>1, <2>3, UntouchedStays DEF SameTerms
  <2>8. AwaitedAt("record", j)' = AwaitedAt(pc[a], job[a])
    BY <2>1, <2>3 DEF AwaitedAt
  <2> QED BY <2>1, <2>3, <2>6, <2>7, <2>8, BooksGoOn DEF Ordering
<1> QED BY <1>2, <1>3, <1>4, <1>5

(* Every order that still works is awaited, unless it was lost.            *)
Awaits ==
    \A o \in DOMAIN orders : orders[o].status = "OPEN" =>
        o \in lost \/ \E a \in Actors : pc[a] = "wait" /\ job[a].oid = o

(* The broker fills n of an order, or none of it.                          *)
LEMMA BrokerBooks ==
    ASSUME OneDirection, SwingType, Solo, BasketType, Awaits, Books, NEW x, AtBroker(x), NEW n \in Nat,
           orders'[x].filled = orders[x].filled + n
    PROVE  Books'
<1>0. PICK c0 : c0 = orders[x].contract
  OBVIOUS
<1>1. /\ OrdersKept /\ Len(orders') = Len(orders)
      /\ x \in DOMAIN orders /\ \A o \in DOMAIN orders : o # x => orders'[o] = orders[o]
      /\ SameTerms(orders[x], orders'[x]) /\ orders[x].status = "OPEN"
      /\ UNCHANGED <<ledger, pc, job, lost>> /\ Stores
  BY DEF AtBroker, BasketType
<1>2. FillsMore(x, n)
  BY <1>1, OneOrderFills
<1>3. /\ \A o \in DOMAIN orders : orders[o] \in BasketOrder
      /\ orders[x].filled \in Nat /\ orders'[x].side = orders[x].side
      /\ orders'[x].side \in Sides /\ orders'[x].contract = c0
      /\ orders'[x].purpose = orders[x].purpose
  BY <1>0, <1>1, OrdersAre, OrderIs DEF SameTerms, Stores
<1>4. ASSUME NEW c \in Contracts
      PROVE  /\ Position(c)' =
                    IF orders[x].purpose = "primary" /\ c0 = c
                      THEN IF orders[x].side = Toward(c) THEN Position(c) + n ELSE Position(c) - n
                      ELSE Position(c)
             /\ \A p : Net(p, c)' =
                    IF orders[x].purpose = p /\ c0 = c
                      THEN IF orders[x].side = "BUY" THEN Net(p, c) + n ELSE Net(p, c) - n
                      ELSE Net(p, c)
  BY <1>0, <1>1, <1>2, <1>3, FillMoves
<1>5. \A c : Untouched(c)' => Untouched(c)
  BY <1>1, UntouchedStays DEF SameTerms
<1>6. ASSUME NEW c \in Contracts
      PROVE  Balance(c)' = Balance(c) /\ PrimaryLegs(c)' = PrimaryLegs(c) /\ LegsOK(c)'
  BY <1>1, RowsStand DEF Books
<1>7. x \in lost => ~Untouched(c0)'
  BY <1>1, <1>3 DEF Untouched
<1>8. ASSUME x \notin lost
      PROVE  \E a \in Actors : pc[a] = "wait" /\ job[a].oid = x
  BY <1>1, <1>8 DEF Awaits
<1>9. ASSUME NEW a \in Actors PROVE Book(pc[a], job[a])'
  <2>1. PICK s, k, y : s = pc[a] /\ k = job[a] /\ y = AwaitedAt(s, k)
    OBVIOUS
  <2>2. Book(s, k) /\ Sound(s, k) /\ pc'[a] = s /\ job'[a] = k
    BY <1>1, <2>1 DEF Books, BasketType, JobsSound
  <2>3. BeforeOpen(s, k) => NothingOpen'
    BY <1>1, <2>2, RowsStand DEF Book
  <2>4. ASSUME s \in {"attempt", "contract", "gate"} PROVE Flat(k.contract)'
    <3>1. OfSetup(k)
      BY <2>2, <2>4 DEF Sound, EntryStep
    <3>2. k.contract \in Contracts
      <4>1. PlaceOK(a, s, k)
        BY <2>1 DEF SwingType, ActorsOK
      <4> QED BY <2>4, <3>1, <4>1 DEF PlaceOK, OfSetup, Contracts
    <3>3. PICK c : c = k.contract
      OBVIOUS
    <3>4. CASE c # c0
      BY <1>4, <1>5, <2>2, <2>4, <3>2, <3>3, <3>4 DEF Book, Flat
    <3>5. CASE c = c0
      <4>1. Busy(a) /\ s # "wait"
        BY <2>1, <2>4, BusyAt DEF Checking
      <4>2. x \in lost
        <5> SUFFICES ASSUME x \notin lost PROVE FALSE
          OBVIOUS
        <5>1. PICK b \in Actors : pc[b] = "wait"
          BY <1>8
        <5>2. Busy(b)
          BY <5>1, BusyAt DEF Ordering
        <5> QED BY <2>1, <4>1, <5>1, <5>2, OneBusy
      <4> QED BY <1>7, <3>3, <3>5, <4>2 DEF Flat
    <3> QED BY <3>4, <3>5
  <2>5. ASSUME s \in Ordering PROVE Ordered(s, k)'
    <3>1. ToOrder(k) /\ Ordered(s, k) /\ (s = "wait" => Placed(k))
      BY <2>2, <2>5 DEF Sound, Book
    <3>2. PICK c : c = k.contract /\ c \in Contracts
      BY <3>1 DEF ToOrder
    <3>3. /\ Balance(c)' = Balance(c) /\ PrimaryLegs(c)' = PrimaryLegs(c) /\ Toward(c)' = Toward(c)
          /\ Untouched(c)' => Untouched(c)
      BY <1>5, <1>6, <3>2 DEF Toward
    <3>4. s = "wait" => /\ k.oid \in DOMAIN orders /\ orders[k.oid].contract = c
                        /\ orders[k.oid].stage = k.stage /\ y = orders[k.oid].filled
                        /\ orders[k.oid].purpose = Purpose(k.stage)
                        /\ orders[k.oid].side = OrderSide(k.stage, k.side)
      BY <2>1, <3>2, WaitingFor DEF AwaitedAt
    <3>5. /\ k.stage = "hedge" =>
                (Untouched(c) => Net("hedge", c) = y /\ Net("primary", c) = 0)
          /\ k.stage = "future" => (Untouched(c) => Net("hedge", c) = Lot /\ Position(c) = y)
          /\ k.stage = "unwindFuture" =>
                PrimaryLegs(c) # <<>> /\ (Untouched(c) => Position(c) = k.qty - y)
          /\ k.stage = "closeFuture" =>
                /\ k.qty <= Balance(c) /\ k.side = Toward(c)
                /\ Untouched(c) => Covers(Position(c) + y, Balance(c))
      BY <2>1, <3>1, <3>2 DEF Ordered
    <3>6. CASE ~Untouched(c)'
      BY <3>2, <3>3, <3>5, <3>6 DEF Ordered
    <3>7. CASE Untouched(c)' /\ c # c0
      <4>1. AwaitedAt(s, k)' = y
        BY <1>0, <1>1, <2>1, <3>4, <3>7 DEF AwaitedAt
      <4>2. Position(c)' = Position(c) /\ \A p : Net(p, c)' = Net(p, c)
        BY <1>4, <3>2, <3>7
      <4> QED BY <3>2, <3>3, <3>5, <4>1, <4>2 DEF Ordered, Covers
    <3>8. CASE Untouched(c)' /\ c = c0
      <4>1. PICK b \in Actors : pc[b] = "wait" /\ job[b].oid = x
        BY <1>7, <1>8, <3>8
      <4>2. b = a
        <5>1. Busy(a) /\ Busy(b)
          BY <2>1, <2>5, <4>1, BusyAt DEF Ordering
        <5> QED BY <5>1, OneBusy
      <4>3. s = "wait" /\ k.oid = x
        BY <2>1, <4>1, <4>2
      <4>4. AwaitedAt(s, k)' = y + n /\ y = orders[x].filled /\ y \in Nat
        BY <1>3, <3>4, <4>3 DEF AwaitedAt
      <4>5. /\ Position(c)' =
                    IF Purpose(k.stage) = "primary"
                      THEN IF OrderSide(k.stage, k.side) = Toward(c) THEN Position(c) + n ELSE Position(c) - n
                      ELSE Position(c)
            /\ \A p : Net(p, c)' =
                    IF Purpose(k.stage) = p
                      THEN IF OrderSide(k.stage, k.side) = "BUY" THEN Net(p, c) + n ELSE Net(p, c) - n
                      ELSE Net(p, c)
        BY <1>4, <3>2, <3>4, <3>8, <4>3
      <4>6. /\ Position(c) \in Int /\ \A p : Net(p, c) \in Int
            /\ Toward(c) \in Sides /\ Opposite(Toward(c)) # Toward(c)
            /\ Balance(c) \in Int /\ k.qty \in Nat
        <5>1. OrderList(orders)
          BY <1>1, OrdersAre DEF Stores
        <5>2. k.qty \in Nat
          BY <3>1, LotAssumption DEF ToOrder
        <5> QED BY <1>1, <3>2, <5>1, <5>2, Holdings, TowardIs, BalanceIs
      <4>7. k.stage \in EntryStages => k.side = Toward(c)
        <5> SUFFICES ASSUME k.stage \in EntryStages PROVE k.side = Toward(c)
          OBVIOUS
        <5>1. OfSetup(k) /\ k.setup \in Setups
          <6>1. PlaceOK(a, s, k)
            BY <2>1 DEF SwingType, ActorsOK
          <6> QED BY <2>2, <4>3, <6>1 DEF Sound, EntryStep, Ordering, PlaceOK
        <5> QED BY <3>2, <5>1, TowardIs DEF OfSetup
      <4>8. CASE k.stage = "hedge"
        <5>1. Purpose(k.stage) = "hedge" /\ OrderSide(k.stage, k.side) = "BUY"
          BY <4>8 DEF Purpose, OrderSide
        <5>2. Net("hedge", c)' = y + n /\ Net("primary", c)' = 0
          BY <3>3, <3>5, <3>8, <4>5, <4>6, <4>8, <5>1
        <5> QED BY <3>2, <4>4, <4>8, <5>2 DEF Ordered
      <4>9. CASE k.stage = "future"
        <5>1. Purpose(k.stage) = "primary" /\ OrderSide(k.stage, k.side) = Toward(c)
          BY <4>7, <4>9 DEF Purpose, OrderSide, EntryStages
        <5>2. Position(c)' = y + n /\ Net("hedge", c)' = Lot
          BY <3>3, <3>5, <3>8, <4>5, <4>6, <4>9, <5>1
        <5> QED BY <3>2, <4>4, <4>9, <5>2 DEF Ordered
      <4>10. CASE k.stage = "unwindFuture"
        <5>1. Purpose(k.stage) = "primary" /\ OrderSide(k.stage, k.side) # Toward(c)
          BY <4>6, <4>7, <4>10 DEF Purpose, OrderSide, EntryStages
        <5>2. Position(c)' = k.qty - (y + n)
          BY <3>3, <3>5, <3>8, <4>4, <4>5, <4>6, <4>10, <5>1
        <5> QED BY <3>2, <3>3, <3>5, <4>4, <4>10, <5>2 DEF Ordered
      <4>11. CASE k.stage = "closeFuture"
        <5>1. Purpose(k.stage) = "primary" /\ OrderSide(k.stage, k.side) # Toward(c)
          BY <3>5, <4>6, <4>11 DEF Purpose, OrderSide
        <5>2. Position(c)' + (y + n) = Position(c) + y
          BY <4>4, <4>5, <4>6, <5>1
        <5> QED BY <3>2, <3>3, <3>5, <3>8, <4>4, <4>11, <5>2 DEF Ordered, Covers
      <4>12. CASE k.stage \notin {"hedge", "future", "unwindFuture", "closeFuture"}
        BY <4>12 DEF Ordered
      <4> QED BY <4>8, <4>9, <4>10, <4>11, <4>12
    <3> QED BY <3>6, <3>7, <3>8
  <2> QED BY <2>2, <2>3, <2>4, <2>5 DEF Book, BeforeOpen
<1>10. ASSUME NEW c \in Contracts, \A a \in Actors : ~HandlesAt(pc'[a], job'[a], c), Untouched(c)'
      PROVE  Covers(Position(c)', Balance(c)')
  <2>1. Covers(Position(c), Balance(c))
    BY <1>1, <1>5, <1>10 DEF Books, Settled
  <2>2. ASSUME c0 = c, orders[x].purpose = "primary" PROVE FALSE
    <3>1. PICK a \in Actors : pc[a] = "wait" /\ job[a].oid = x
      BY <1>7, <1>8, <1>10, <2>2
    <3>2. PICK s, k : s = pc[a] /\ k = job[a]
      OBVIOUS
    <3>3. k.contract = c /\ Purpose(k.stage) = "primary"
      BY <1>0, <2>2, <3>1, <3>2, WaitingFor
    <3> QED BY <1>1, <1>10, <3>1, <3>2, <3>3 DEF HandlesAt, Ordering
  <2>3. Position(c)' = Position(c)
    BY <1>4, <2>2
  <2> QED BY <1>6, <2>1, <2>3
<1>11. \A c \in Contracts : (\A a \in Actors : ~HandlesAt(pc[a], job[a], c)') => Settled(c)'
  BY <1>10 DEF HandlesAt, Settled, Covers
<1> QED BY <1>6, <1>9, <1>11 DEF Books

(* A row more in a future's book.                                          *)
LEMMA RowAdds ==
    ASSUME Stores, NEW c \in Contracts, NEW k, RowOf(k) \in Leg, LegsOK(c),
           PrimaryLegs(c) # <<>> \/ OrderSide(k.stage, k.side) = Toward(c),
           PrimaryLegs(c)' = Append(PrimaryLegs(c), RowOf(k))
    PROVE  /\ LegsOK(c)' /\ PrimaryLegs(c)' # <<>>
           /\ Balance(c)' = Balance(c) +
                 (IF k.result # "COMPLETE" THEN 0
                  ELSE IF OrderSide(k.stage, k.side) = Toward(c) THEN k.qty
                  ELSE IF OrderSide(k.stage, k.side) = Opposite(Toward(c)) THEN -k.qty ELSE 0)
<1> DEFINE legs == PrimaryLegs(c)
           t == Toward(c)
           u == Opposite(Toward(c))
           s == OrderSide(k.stage, k.side)
<1>1. legs \in Seq(Leg) /\ t # u
  BY TowardIs DEF Stores
<1>2. RowOf(k).side = s /\ RowOf(k).status = k.result /\ RowOf(k).qty = k.qty
  BY DEF RowOf
<1>3. PICK leg \in Leg : leg = RowOf(k)
  OBVIOUS
<1>4. PICK more : more = Append(legs, leg)
  OBVIOUS
<1>5. PrimaryLegs(c)' = more /\ Toward(c)' = t
  BY <1>3, <1>4 DEF Toward
<1>6. /\ more # <<>> /\ more[1] = IF legs = <<>> THEN leg ELSE legs[1]
      /\ \A side : Counted(more, side) = Counted(legs, side) +
                      (IF leg.side = side /\ leg.status = "COMPLETE" THEN leg.qty ELSE 0)
  BY <1>1, <1>4, CountedMore
<1>7. Counted(legs, t) \in Nat /\ Counted(legs, u) \in Nat /\ leg.qty \in Nat
  <2>1. leg.qty \in 1..Lot
    BY <1>3 DEF Leg
  <2> QED BY <1>1, <2>1, CountedIsNat, LotAssumption
<1>8. Balance(c) = Counted(legs, t) - Counted(legs, u)
      /\ Balance(c)' = Counted(more, t) - Counted(more, u)
  BY <1>5 DEF Balance
<1>9. LegsOK(c)'
  <2>1. more[1].side = t
    BY <1>2, <1>3, <1>6 DEF LegsOK
  <2> QED BY <1>5, <2>1 DEF LegsOK
<1> HIDE DEF legs, t, u, s
<1>10. Balance(c)' = Balance(c) +
                 (IF k.result # "COMPLETE" THEN 0 ELSE IF s = t THEN k.qty
                  ELSE IF s = u THEN -k.qty ELSE 0)
  BY <1>1, <1>2, <1>3, <1>6, <1>7, <1>8
<1> QED BY <1>5, <1>6, <1>9, <1>10 DEF s, t, u

(* What is open, and what is held, once an order of a future is recorded.  *)
LEMMA RecordMeans ==
    ASSUME "closeFuture" \notin PartialStages, OneDirection,
           SwingType, Solo, BasketType, Books, Sure, NEW a \in Actors, Record(a),
           NEW k, NEW c, k = job[a], c = k.contract, Purpose(k.stage) = "primary"
    PROVE  /\ c \in Contracts /\ LegsOK(c)' /\ PrimaryLegs(c)' # <<>>
           /\ k.stage # "closeFuture" => Balance(c) <= 0
           /\ k.stage = "closeFuture" => k.qty <= Balance(c)
           /\ Balance(c)' = IF k.result # "COMPLETE" THEN Balance(c)
                            ELSE IF k.stage = "future" THEN Balance(c) + k.qty
                            ELSE Balance(c) - k.qty
           /\ \/ k.stage = "future" /\ k.result # "COMPLETE" /\ k.filled > 0
              \/ (Untouched(c) => Covers(Position(c), Balance(c)'))
<1>1. k = job[a] /\ c = k.contract
  OBVIOUS
<1>2. /\ pc[a] = "record" /\ JobOK(k) /\ k.stage \in OrderStages /\ ToOrder(k) /\ Answered(k)
      /\ k.qty \in Nat /\ k.filled \in Nat /\ RowOf(k) \in Leg
      /\ \A d \in Contracts :
            PrimaryLegs(d)' = IF Purpose(k.stage) = "primary" /\ k.contract = d
                                THEN Append(PrimaryLegs(d), RowOf(k)) ELSE PrimaryLegs(d)
  BY <1>1, RecordIs
<1>3. /\ Book("record", k) /\ SureOf("record", k) /\ Sound("record", k) /\ Stores
      /\ PlaceOK(a, "record", k)
  BY <1>1, <1>2 DEF Books, Sure, BasketType, JobsSound, SwingType, ActorsOK
<1>4. c \in Contracts /\ k.contract = c /\ PrimaryLegs(c)' = Append(PrimaryLegs(c), RowOf(k))
      /\ LegsOK(c)
  BY <1>1, <1>2 DEF ToOrder, Books
<1>5. k.stage \in {"future", "unwindFuture", "closeFuture"}
  BY <1>1, <1>2 DEF Purpose, OrderStages, EntryStages, ExitStages
<1>6. k.stage # "closeFuture" => /\ k.setup \in Setups /\ OfSetup(k) /\ NothingOpen
                                 /\ k.setup \in attempts /\ Balance(c) <= 0
  <2> SUFFICES ASSUME k.stage # "closeFuture"
               PROVE  k.setup \in Setups /\ OfSetup(k) /\ NothingOpen /\ k.setup \in attempts
                      /\ Balance(c) <= 0
    OBVIOUS
  <2>1. EntryStep("record", k.stage) /\ k.stage \in EntryStages
    BY <1>5 DEF EntryStep, Ordering, EntryStages
  <2> QED BY <1>3, <1>4, <2>1 DEF PlaceOK, Sound, Book, BeforeOpen, SureOf, Ordering, NothingOpen
<1>7. k.stage # "closeFuture" => k.side = Toward(c)
  BY <1>4, <1>6, TowardIs DEF OfSetup
<1>8. /\ Balance(c) \in Int /\ Position(c) \in Int /\ Toward(c) # Opposite(Toward(c)) /\ Lot \in Nat
      /\ PrimaryLegs(c) = <<>> => Balance(c) = 0
  BY <1>3, <1>4, BalanceIs, OrdersAre, Holdings, TowardIs, LotAssumption DEF Stores
<1>9. /\ k.stage = "future" => (Untouched(c) => Position(c) = k.filled)
      /\ k.stage = "unwindFuture" =>
              PrimaryLegs(c) # <<>> /\ (Untouched(c) => Position(c) = k.qty - k.filled)
      /\ k.stage = "closeFuture" =>
              /\ k.qty <= Balance(c) /\ k.side = Toward(c)
              /\ Untouched(c) => Covers(Position(c) + k.filled, Balance(c))
  BY <1>3, <1>4 DEF Book, Ordered, AwaitedAt, Ordering
<1>10. OrderSide(k.stage, k.side) = IF k.stage = "future" THEN Toward(c) ELSE Opposite(Toward(c))
  BY <1>5, <1>7, <1>9 DEF OrderSide
<1>11. PrimaryLegs(c) # <<>> \/ k.stage = "future"
  <2>1. k.stage = "closeFuture" => Balance(c) # 0
    BY <1>2, <1>8, <1>9, LotAssumption DEF ToOrder
  <2> QED BY <1>5, <1>8, <1>9, <2>1
<1>12. /\ LegsOK(c)' /\ PrimaryLegs(c)' # <<>>
       /\ Balance(c)' = Balance(c) +
                 (IF k.result # "COMPLETE" THEN 0
                  ELSE IF OrderSide(k.stage, k.side) = Toward(c) THEN k.qty
                  ELSE IF OrderSide(k.stage, k.side) = Opposite(Toward(c)) THEN -k.qty ELSE 0)
  BY <1>2, <1>3, <1>4, <1>10, <1>11, RowAdds
<1>13. PICK b, pos : b = Balance(c)' /\ pos = Position(c)
  OBVIOUS
<1>14. b = IF k.result # "COMPLETE" THEN Balance(c)
           ELSE IF k.stage = "future" THEN Balance(c) + k.qty ELSE Balance(c) - k.qty
  BY <1>2, <1>5, <1>8, <1>10, <1>12, <1>13
<1>15. ASSUME Untouched(c), ~(k.stage = "future" /\ k.result # "COMPLETE" /\ k.filled > 0)
       PROVE  Covers(pos, b)
  <2>1. k.qty \in 1..Lot /\ (k.result = "COMPLETE" <=> k.filled = k.qty) /\ k.filled \in 0..k.qty
    BY <1>2 DEF ToOrder, Answered
  <2>2. CASE k.stage = "future"
    <3>1. k.qty = Lot /\ pos = k.filled /\ Balance(c) <= 0
      BY <1>2, <1>6, <1>9, <1>13, <1>15, <2>2 DEF ToOrder
    <3>2. Exact => Balance(c) = 0
      <4>1. "future" \notin PartialStages => Balance(c) = 0
        BY <1>4, <1>8, <3>1 DEF Sure
      <4>2. OwnContracts => Balance(c) = 0
        BY <1>3, <1>4, <1>8, <2>2 DEF SureOf, Ordering
      <4> QED BY <4>1, <4>2 DEF Exact
    <3>3. CASE k.result = "COMPLETE"
      BY <1>8, <1>14, <2>1, <2>2, <3>1, <3>2, <3>3 DEF Covers
    <3>4. CASE k.result # "COMPLETE"
      BY <1>8, <1>14, <1>15, <2>1, <2>2, <3>1, <3>2, <3>4 DEF Covers
    <3> QED BY <3>3, <3>4
  <2>3. CASE k.stage = "unwindFuture"
    <3>1. pos = k.qty - k.filled /\ Balance(c) <= 0 /\ "future" \in PartialStages
      BY <1>2, <1>6, <1>9, <1>13, <1>15, <2>3 DEF ToOrder
    <3>2. b <= 0 /\ b \in Int
      BY <1>2, <1>8, <1>14, <2>3, <3>1
    <3>3. Exact => k.filled = k.qty
      <4>1. Exact => k.result = "COMPLETE"
        BY <1>3, <2>3, <3>1 DEF Exact, SureOf, Ordering
      <4> QED BY <2>1, <4>1
    <3> QED BY <1>2, <2>1, <3>1, <3>2, <3>3 DEF Covers
  <2>4. CASE k.stage = "closeFuture"
    <3>1. k.qty <= Balance(c) /\ Covers(pos + k.filled, Balance(c)) /\ k.filled \in {0, k.qty}
      BY <1>2, <1>9, <1>13, <1>15, <2>4 DEF Answered
    <3>2. CASE k.result = "COMPLETE"
      <4>1. b = Balance(c) - k.filled /\ k.filled <= Balance(c)
        BY <1>14, <2>1, <2>4, <3>1, <3>2
      <4> QED BY <1>2, <1>8, <1>13, <3>1, <4>1 DEF Covers
    <3>3. CASE k.result # "COMPLETE"
      <4>1. b = Balance(c) /\ k.filled = 0
        BY <1>14, <2>1, <3>1, <3>3
      <4> QED BY <1>8, <1>13, <3>1, <4>1 DEF Covers
    <3> QED BY <3>2, <3>3
  <2> QED BY <1>5, <2>2, <2>3, <2>4
<1>16. \/ k.stage = "future" /\ k.result # "COMPLETE" /\ k.filled > 0
       \/ (Untouched(c) => Covers(Position(c), Balance(c)'))
  BY <1>13, <1>15 DEF Covers
<1> QED BY <1>4, <1>6, <1>9, <1>12, <1>13, <1>14, <1>16

LEMMA RecordBooks ==
    ASSUME "closeFuture" \notin PartialStages, OneDirection,
           SwingType, Solo, BasketType, Books, Sure, NEW a \in Actors, Record(a)
    PROVE  Books'
<1>1. PICK k, c : k = job[a] /\ c = k.contract
  OBVIOUS
<1>2. /\ pc[a] = "record" /\ UNCHANGED <<orders, faults, lost>> /\ JobOK(k)
      /\ k.stage \in OrderStages /\ ToOrder(k) /\ Answered(k)
      /\ k.qty \in Nat /\ k.filled \in Nat /\ RowOf(k) \in Leg
      /\ \A d \in Contracts :
            PrimaryLegs(d)' = IF Purpose(k.stage) = "primary" /\ k.contract = d
                                THEN Append(PrimaryLegs(d), RowOf(k)) ELSE PrimaryLegs(d)
      /\ Moves(a, FollowUp(k).step, FollowUp(k).job)
  BY <1>1, RecordIs
<1>3. Book("record", k) /\ Stores /\ \A d \in Contracts : LegsOK(d)
  BY <1>1, <1>2 DEF Books, BasketType
<1>4. c \in Contracts /\ k.contract = c
  BY <1>1, <1>2 DEF ToOrder
<1>5. PICK step, j : step = FollowUp(k).step /\ j = FollowUp(k).job
  OBVIOUS
<1>6. Moves(a, step, j)
  BY <1>2, <1>5
<1>7. \/ step = "place" /\ \E stage, qty : NextOrder(k, stage, qty) /\ j = Order(k, stage, qty)
      \/ NextPlace(k, step) /\ j = k
  BY <1>2, <1>5, FollowUpIs
<1>8. /\ \A d : Position(d)' = Position(d) /\ \A p : Net(p, d)' = Net(p, d)
      /\ \A d : Untouched(d)' <=> Untouched(d)
  BY <1>2, StandingSame, SameHoldingsMeans DEF Untouched
<1>9. ASSUME NEW d \in Contracts, Purpose(k.stage) # "primary" \/ d # c
      PROVE  PrimaryLegs(d)' = PrimaryLegs(d) /\ Balance(d)' = Balance(d) /\ LegsOK(d)'
  <2>1. PrimaryLegs(d)' = PrimaryLegs(d)
    BY <1>2, <1>4, <1>9
  <2> QED BY <1>3, <2>1 DEF Balance, LegsOK, Toward
<1>10. Purpose(k.stage) = "primary" =>
           /\ LegsOK(c)' /\ PrimaryLegs(c)' # <<>>
           /\ k.stage # "closeFuture" => Balance(c) <= 0
           /\ Balance(c)' = IF k.result # "COMPLETE" THEN Balance(c)
                            ELSE IF k.stage = "future" THEN Balance(c) + k.qty
                            ELSE Balance(c) - k.qty
           /\ \/ k.stage = "future" /\ k.result # "COMPLETE" /\ k.filled > 0
              \/ (Untouched(c) => Covers(Position(c), Balance(c)'))
  BY <1>1, RecordMeans
<1>11. \A d \in Contracts : LegsOK(d)'
  <2>1. ASSUME NEW d \in Contracts PROVE LegsOK(d)'
    <3>1. CASE Purpose(k.stage) = "primary" /\ d = c
      BY <1>10, <3>1
    <3>2. CASE ~(Purpose(k.stage) = "primary" /\ d = c)
      BY <1>9, <3>2
    <3> QED BY <3>1, <3>2
  <2> QED BY <2>1
<1>12. ASSUME NEW stage, NEW qty, NextOrder(k, stage, qty), j = Order(k, stage, qty), step = "place"
       PROVE  /\ j.stage = stage /\ j.qty = qty /\ j.contract = c /\ j.filled = 0
              /\ k.stage \in {"hedge", "future", "unwindFuture"}
              /\ k.stage = "future" => k.result # "COMPLETE"
  BY <1>2, <1>4, <1>12, OrderFields DEF NextOrder
<1>13. ASSUME NEW d \in Contracts, ~HandlesAt(step, j, d) PROVE Settled(d)'
  <2>1. CASE ~(Purpose(k.stage) = "primary" /\ d = c)
    <3>1. ~HandlesAt("record", k, d)
      BY <1>4, <2>1 DEF HandlesAt
    <3>2. \A b \in Actors : ~HandlesAt(pc[b], job[b], d)
      BY <1>1, <1>2, <3>1, AtOrder, NoPart DEF Ordering
    <3>3. Settled(d)
      BY <3>2 DEF Books
    <3> QED BY <1>8, <1>9, <2>1, <3>3 DEF Settled, Covers
  <2>2. CASE Purpose(k.stage) = "primary" /\ d = c
    <3>1. ~(k.stage = "future" /\ k.result # "COMPLETE" /\ k.filled > 0)
      <4> SUFFICES ASSUME k.stage = "future", k.result # "COMPLETE", k.filled > 0 PROVE FALSE
        OBVIOUS
      <4>1. ~NextPlace(k, step)
        BY DEF NextPlace
      <4>2. PICK stage, qty : NextOrder(k, stage, qty) /\ j = Order(k, stage, qty) /\ step = "place"
        BY <1>7, <4>1
      <4>3. stage = "unwindFuture"
        BY <4>2 DEF NextOrder
      <4>4. j.stage = "unwindFuture" /\ j.contract = c
        BY <1>12, <4>2, <4>3
      <4> QED BY <1>13, <2>2, <4>2, <4>4 DEF HandlesAt, Ordering, Purpose
    <3>2. Untouched(c) => Covers(Position(c), Balance(c)')
      BY <1>10, <2>2, <3>1
    <3> QED BY <1>8, <2>2, <3>2 DEF Settled, Covers
  <2> QED BY <2>1, <2>2
<1>14. ASSUME NEW stage, NEW qty, NextOrder(k, stage, qty), j = Order(k, stage, qty), step = "place"
       PROVE  Book(step, j)'
  <2>1. NothingOpen
    <3>1. EntryStep("record", k.stage)
      BY <1>12, <1>14 DEF EntryStep, Ordering, EntryStages
    <3> QED BY <1>3, <3>1 DEF Book, BeforeOpen
  <2>2. NothingOpen'
    <3>1. ASSUME NEW d \in Contracts PROVE Balance(d)' <= 0
      <4>1. Balance(d) <= 0 /\ Balance(d) \in Int
        BY <1>3, <2>1, BalanceIs DEF NothingOpen
      <4>2. CASE ~(Purpose(k.stage) = "primary" /\ d = c)
        BY <1>9, <4>1, <4>2
      <4>3. CASE Purpose(k.stage) = "primary" /\ d = c
        <5>1. Balance(c)' = IF k.result # "COMPLETE" THEN Balance(c)
                            ELSE IF k.stage = "future" THEN Balance(c) + k.qty
                            ELSE Balance(c) - k.qty
          BY <1>10, <4>3
        <5>2. Balance(c)' = Balance(c) \/ Balance(c)' = Balance(c) - k.qty
          BY <1>12, <1>14, <5>1
        <5> QED BY <1>2, <4>1, <4>3, <5>2
      <4> QED BY <4>2, <4>3
    <3> QED BY <3>1 DEF NothingOpen
  <2>3. Ordered(step, j)'
    <3>1. j.stage = stage /\ j.qty = qty /\ j.contract = c /\ AwaitedAt(step, j)' = 0
      BY <1>12, <1>14 DEF AwaitedAt
    <3>2. CASE stage = "future"
      <4>1. k.stage = "hedge" /\ k.filled = Lot
        BY <1>2, <1>14, <3>2 DEF NextOrder, ToOrder, Answered
      <4>2. Untouched(c) => Net("hedge", c) = Lot /\ Net("primary", c) = 0
        BY <1>3, <1>4, <4>1 DEF Book, Ordered, AwaitedAt, Ordering
      <4>3. Net("primary", c) = 0 => Position(c) = 0
        BY <1>3, <1>4, OrdersAre, Holdings DEF Stores
      <4> QED BY <1>8, <3>1, <3>2, <4>2, <4>3 DEF Ordered
    <3>3. CASE stage = "unwindFuture"
      <4>1. k.stage = "future" /\ qty = k.filled
        BY <1>14, <3>3 DEF NextOrder
      <4>2. Untouched(c) => Position(c) = k.filled
        BY <1>3, <1>4, <4>1 DEF Book, Ordered, AwaitedAt, Ordering
      <4>3. PrimaryLegs(c)' # <<>>
        BY <1>10, <4>1 DEF Purpose
      <4>4. qty - 0 = k.filled
        BY <1>2, <4>1
      <4> QED BY <1>8, <3>1, <3>3, <4>2, <4>3, <4>4 DEF Ordered
    <3>4. CASE stage \in {"unwindHedge", "dropHedge"}
      BY <3>1, <3>4 DEF Ordered
    <3> QED BY <1>14, <3>2, <3>3, <3>4 DEF NextOrder
  <2> QED BY <1>14, <2>2, <2>3 DEF Book
<1>15. ASSUME NextPlace(k, step), j = k PROVE Book(step, j)'
  <2>1. step \in {"settle", "hedgeLook", "exitCheck"}
        /\ (step = "settle" => k.stage \in EntryStages)
    BY <1>15 DEF NextPlace, EntryStages
  <2>2. ~BeforeOpen(step, j)
    BY <1>2, <1>15, <2>1 DEF BeforeOpen, EntryStep, Checking, Ordering, ToOrder
  <2> QED BY <2>1, <2>2 DEF Book, Ordering, BeforeOpen
<1>16. Book(step, j)'
  BY <1>7, <1>14, <1>15
<1>17. \A b \in Actors : b # a => ~Busy(b)
  BY <1>2, AtOrder DEF Ordering
<1> QED BY <1>6, <1>11, <1>13, <1>16, <1>17, BooksMove

(* What an order of an actor that ends was about leaves its contract       *)
(* touched, or settled.                                                    *)
LEMMA AbandonBooks ==
    ASSUME SwingType, Solo, BasketType, Books, Sure, Abandon(Actors), UNCHANGED <<orders, ledger>>
    PROVE  Books'
<1>1. \A a \in Actors : pc'[a] = "idle"
  BY AbandonAll
<1>2. Stores /\ Len(orders) \in Nat /\ DOMAIN orders = 1..Len(orders) /\ lost \subseteq lost'
  BY OrdersAre DEF BasketType, Stores, Abandon
<1>3. /\ \A d : Position(d)' = Position(d)
      /\ \A c : Untouched(c)' => Untouched(c)
      /\ \A c \in Contracts : Balance(c)' = Balance(c) /\ LegsOK(c)'
  BY <1>2, StandingSame, SameHoldingsMeans, RowsStand DEF Untouched, Books
<1>4. \A a \in Actors : Book(pc[a], job[a])'
  BY <1>1 DEF Book, BeforeOpen, EntryStep, Checking, Ordering
<1>5. ASSUME NEW c \in Contracts, Untouched(c)', NEW a \in Actors, HandlesAt(pc[a], job[a], c)
      PROVE  Covers(Position(c), Balance(c))
  <2>1. PICK s, k : s = pc[a] /\ k = job[a]
    OBVIOUS
  <2>2. s \in Ordering /\ k.contract = c /\ Purpose(k.stage) = "primary"
    BY <1>5, <2>1 DEF HandlesAt
  <2>3. Sound(s, k) /\ Book(s, k) /\ SureOf(s, k) /\ k.stage \in OrderStages /\ ToOrder(k)
    BY <2>1, <2>2, AtOrder DEF Books, Sure, BasketType, JobsSound, Sound
  <2>4. k.stage \in {"future", "unwindFuture", "closeFuture"}
    BY <2>2, <2>3 DEF Purpose, OrderStages, EntryStages, ExitStages
  <2>5. ~(s \in {"wait", "record"} /\ k.oid # 0)
    <3> SUFFICES ASSUME s \in {"wait", "record"}, k.oid # 0 PROVE FALSE
      OBVIOUS
    <3>1. k.oid \in lost'
      BY <2>1 DEF Abandon
    <3>2. orders[k.oid].contract = c
      BY <2>2, <2>3 DEF Sound, Placed, Answered, LastOrderDone
    <3> QED BY <1>5, <3>1, <3>2 DEF Untouched
  <2>6. ~(s = "place" /\ k.stage = "unwindFuture")
    <3> SUFFICES ASSUME s = "place", k.stage = "unwindFuture" PROVE FALSE
      OBVIOUS
    <3>1. Len(orders) \in lost'
      BY <2>1 DEF Abandon
    <3>2. orders[Len(orders)].contract = c
      BY <2>2, <2>3 DEF Sound, Unplaced, LastOrderDone
    <3> QED BY <1>5, <3>1, <3>2 DEF Untouched
  <2>7. s # "wait" /\ k.filled = 0
    <3>1. s # "wait"
      BY <1>2, <2>3, <2>5 DEF Sound, Placed
    <3>2. s = "place" => k.filled = 0
      BY <2>3 DEF Sound, Unplaced
    <3>3. s = "record" => k.filled = 0
      <4> SUFFICES ASSUME s = "record" PROVE k.filled = 0
        OBVIOUS
      <4>1. k.oid = 0
        BY <2>5
      <4>2. Answered(k)
        BY <2>3 DEF Sound
      <4>3. Len(orders) # k.oid \/ ~LastOrderDone(k.contract)
        BY <4>1 DEF LastOrderDone
      <4> QED BY <4>2, <4>3 DEF Answered
    <3> QED BY <2>2, <3>1, <3>2, <3>3 DEF Ordering
  <2>8. AwaitedAt(s, k) = 0
    BY <2>7 DEF AwaitedAt
  <2>9. Untouched(c) /\ Balance(c) \in Int /\ Position(c) \in Int /\ k.qty \in Nat /\ k.qty > 0
    <3>1. k.qty \in 1..Lot
      BY <2>3 DEF ToOrder
    <3>2. OrderList(orders)
      BY <1>2, OrdersAre DEF Stores
    <3> QED BY <1>2, <1>3, <1>5, <3>1, <3>2, BalanceIs, Holdings, LotAssumption
  <2>10. k.stage # "closeFuture" => Balance(c) <= 0
    <3>1. k.stage # "closeFuture" => BeforeOpen(s, k)
      BY <2>2, <2>4 DEF BeforeOpen, EntryStep, EntryStages, Ordering
    <3> QED BY <2>3, <3>1 DEF Book, NothingOpen
  <2>11. CASE k.stage = "future"
    <3>1. Position(c) = 0
      BY <2>2, <2>3, <2>8, <2>9, <2>11 DEF Book, Ordered
    <3> QED BY <2>9, <2>10, <2>11, <3>1 DEF Covers
  <2>12. CASE k.stage = "unwindFuture"
    <3>1. s = "record" /\ k.result # "COMPLETE"
      BY <2>2, <2>3, <2>6, <2>7, <2>9, <2>12 DEF Ordering, Sound, Answered
    <3>2. ~Exact
      BY <2>2, <2>3, <2>12, <3>1 DEF Exact, SureOf, ToOrder
    <3>3. Position(c) = k.qty - 0
      BY <2>2, <2>3, <2>8, <2>9, <2>12 DEF Book, Ordered
    <3> QED BY <2>9, <2>10, <2>12, <3>2, <3>3 DEF Covers
  <2>13. CASE k.stage = "closeFuture"
    <3>1. Covers(Position(c) + 0, Balance(c))
      BY <2>2, <2>3, <2>8, <2>9, <2>13 DEF Book, Ordered
    <3> QED BY <2>9, <3>1 DEF Covers
  <2> QED BY <2>4, <2>11, <2>12, <2>13
<1>6. ASSUME NEW c \in Contracts PROVE Settled(c)'
  <2>1. CASE \A a \in Actors : ~HandlesAt(pc[a], job[a], c)
    BY <1>3, <2>1 DEF Books, Settled, Covers
  <2>2. CASE \E a \in Actors : HandlesAt(pc[a], job[a], c)
    BY <1>3, <1>5, <2>2 DEF Settled, Covers
  <2> QED BY <2>1, <2>2
<1> QED BY <1>3, <1>4, <1>6 DEF Books

(* The order an actor goes away from no longer works; the one it goes to   *)
(* it awaits.                                                              *)
LEMMA AwaitedElsewhere ==
    ASSUME SwingType, Awaits, NEW a \in Actors, NEW step, NEW j, Moves(a, step, j), UNCHANGED lost,
           \A o \in DOMAIN orders' : orders'[o].status = "OPEN" =>
               \/ o \in DOMAIN orders /\ orders[o].status = "OPEN" /\ (pc[a] = "wait" => o # job[a].oid)
               \/ step = "wait" /\ j.oid = o
    PROVE  Awaits'
<1>1. /\ pc'[a] = step /\ job'[a] = j
      /\ \A b \in Actors : b # a => pc'[b] = pc[b] /\ job'[b] = job[b]
  BY Moved DEF SwingType, Moves
<1>2. ASSUME NEW o \in DOMAIN orders', orders'[o].status = "OPEN", o \notin lost
      PROVE  \E b \in Actors : pc'[b] = "wait" /\ job'[b].oid = o
  <2>1. CASE step = "wait" /\ j.oid = o
    BY <1>1, <2>1
  <2>2. CASE o \in DOMAIN orders /\ orders[o].status = "OPEN" /\ (pc[a] = "wait" => o # job[a].oid)
    <3>1. PICK b \in Actors : pc[b] = "wait" /\ job[b].oid = o
      BY <1>2, <2>2 DEF Awaits
    <3>2. b # a
      BY <2>2, <3>1
    <3> QED BY <1>1, <3>1, <3>2
  <2> QED BY <1>2, <2>1, <2>2
<1> QED BY <1>2 DEF Awaits

LEMMA BasketAwaits ==
    ASSUME SwingType, Solo, BasketType, Awaits, NEW a \in Actors, BasketStep(a)
    PROVE  Awaits'
<1>1. CASE PlaceAccepted(a)
  <2>1. PICK j : Moves(a, "wait", j) /\ j.oid = Len(orders) + 1
    BY <1>1, PlaceAcceptedIs
  <2>2. /\ pc[a] = "place" /\ UNCHANGED lost /\ DOMAIN orders = 1..Len(orders) /\ Len(orders) \in Nat
        /\ DOMAIN orders' = 1..(Len(orders) + 1) /\ \A o \in DOMAIN orders : orders'[o] = orders[o]
    BY <1>1, PlaceAcceptedIs DEF OrdersKept
  <2>3. \A o \in DOMAIN orders' : o \in DOMAIN orders \/ j.oid = o
    BY <2>1, <2>2
  <2> QED BY <2>1, <2>2, <2>3, AwaitedElsewhere
<1>2. CASE PlaceRaises(a)
  <2>1. PICK j : Moves(a, "record", j)
    BY <1>2, PlaceRaisesIs
  <2>2. pc[a] = "place" /\ UNCHANGED <<orders, lost>>
    BY <1>2, PlaceRaisesIs
  <2> QED BY <2>1, <2>2, AwaitedElsewhere
<1>3. CASE Filled(a)
  <2>1. PICK j : Moves(a, "record", j)
    BY <1>3, FilledIs
  <2>2. pc[a] = "wait" /\ UNCHANGED <<orders, lost>> /\ orders[job[a].oid].status # "OPEN"
    BY <1>3, FilledIs
  <2> QED BY <2>1, <2>2, AwaitedElsewhere
<1>4. CASE TimesOut(a)
  <2>1. PICK j : Moves(a, "record", j)
    BY <1>4, TimesOutIs
  <2>2. PICK x : x = job[a].oid
    OBVIOUS
  <2>3. /\ pc[a] = "wait" /\ UNCHANGED lost /\ DOMAIN orders' = DOMAIN orders
        /\ \A o \in DOMAIN orders : o # x => orders'[o] = orders[o]
        /\ orders'[x].status = "CANCELLED"
    BY <1>4, <2>2, TimesOutIs DEF OrdersKept
  <2> QED BY <2>1, <2>2, <2>3, AwaitedElsewhere
<1>5. CASE \/ Record(a) \/ EnterBasket(a) \/ RefuseBasket(a) \/ CloseFuture(a) \/ NothingToClose(a)
           \/ CloseHedge(a)
  <2>1. PICK step, j : Moves(a, step, j)
    BY BasketGoesOnwards DEF SwingType, Onwards
  <2>2. pc[a] # "wait" /\ UNCHANGED <<orders, lost>>
    BY <1>5 DEF Record, EnterBasket, RefuseBasket, CloseFuture, NothingToClose, CloseHedge
  <2> QED BY <2>1, <2>2, AwaitedElsewhere
<1> QED BY <1>1, <1>2, <1>3, <1>4, <1>5 DEF BasketStep, OrderStep

LEMMA AbandonAwaits ==
    ASSUME SwingType, BasketType, Awaits, Abandon(Actors), UNCHANGED orders
    PROVE  Awaits'
<1>1. ASSUME NEW a \in Actors, pc[a] = "wait" PROVE job[a].oid \in lost'
  <2>1. Sound(pc[a], job[a]) /\ orders \in Seq(BasketOrder)
    BY DEF BasketType, JobsSound, Stores
  <2>2. Placed(job[a])
    BY <1>1, <2>1 DEF Sound
  <2>3. job[a].oid # 0
    BY <2>2 DEF Placed
  <2> QED BY <1>1, <2>3 DEF Abandon
<1>2. lost \subseteq lost'
  BY DEF Abandon
<1> QED BY <1>1, <1>2 DEF Awaits

LEMMA StepAwaits ==
    ASSUME SwingType, DayInv, Solo, BasketType, Awaits, [Next]_vars
    PROVE  Awaits'
<1>1. ASSUME NEW a \in Actors, NEW step, NEW j, Strolls(a, step, j) PROVE Awaits'
  <2>1. Moves(a, step, j) /\ pc[a] # "wait" /\ UNCHANGED <<orders, lost>>
    BY <1>1 DEF Strolls, Ordering
  <2> QED BY <2>1, AwaitedElsewhere
<1>2. ASSUME NEW o \in DOMAIN orders, (\E n \in 1..Lot : Trade(o, n)) \/ Reject(o) PROVE Awaits'
  <2>1. AtBroker(o)
    BY <1>2, TradeAtBroker, RejectAtBroker DEF BasketType
  <2>2. /\ DOMAIN orders' = DOMAIN orders /\ \A x \in DOMAIN orders : x # o => orders'[x] = orders[x]
        /\ orders[o].status = "OPEN" /\ UNCHANGED <<pc, job, lost>>
    BY <2>1 DEF AtBroker, OrdersKept
  <2>3. \A x \in DOMAIN orders' : orders'[x].status = "OPEN" => x \in DOMAIN orders /\ orders[x].status = "OPEN"
    BY <2>2
  <2> QED BY <2>2, <2>3 DEF Awaits
<1>3. CASE SessionCut \/ Crash
  BY <1>3, AbandonAwaits DEF SessionCut, Crash
<1>4. CASE NewDay
  <2>1. Lapsed
    BY <1>4, NewDayLapses
  <2>2. DOMAIN orders' = DOMAIN orders /\ \A o \in DOMAIN orders : orders'[o].status # "OPEN"
    BY <2>1 DEF Lapsed, OrdersKept
  <2> QED BY <2>2 DEF Awaits
<1>5. CASE Standing
  BY <1>5 DEF Standing, Awaits
<1>6. ASSUME NEW a \in Actors, BasketStep(a) PROVE Awaits'
  BY <1>6, BasketAwaits
<1> QED BY <1>1, <1>2, <1>3, <1>4, <1>5, <1>6, StepKinds

-------------------------------------------------------------------------------
(* Over night, with nobody at work, the books stand.                       *)
LEMMA LapsedBooks ==
    ASSUME SwingType, BasketType, Books, Lapsed
    PROVE  Books'
<1>1. /\ Stores /\ UNCHANGED <<ledger, pc, job, lost>> /\ \A a \in Actors : pc[a] = "idle"
      /\ \A o \in DOMAIN orders : orders'[o].contract = orders[o].contract
  BY DEF Lapsed, BasketType, SameTerms
<1>2. SameHoldings /\ \A c : Untouched(c)' => Untouched(c)
  BY <1>1, LapsedSame, UntouchedStays
<1>3. \A c \in Contracts : LegsOK(c)' /\ (Settled(c) => Settled(c)')
  BY <1>1, <1>2, SettledStays
<1>4. \A c \in Contracts : Settled(c)
  BY <1>1 DEF Books, HandlesAt, Ordering
<1>5. \A a \in Actors : Book(pc[a], job[a])'
  BY <1>1 DEF Book, BeforeOpen, EntryStep, Checking, Ordering
<1> QED BY <1>3, <1>4, <1>5 DEF Books

LEMMA StandingBooks ==
    ASSUME SwingType, BasketType, Books, Standing
    PROVE  Books'
<1>1. UNCHANGED <<orders, ledger, lost, pc, job>>
  BY DEF Standing
<1>2. ASSUME NEW a \in Actors PROVE Book(pc[a], job[a])'
  <2>1. PICK s, k : s = pc[a] /\ k = job[a]
    OBVIOUS
  <2>2. Book(s, k) /\ (s \in Ordering => k.contract \in Contracts)
    BY <2>1 DEF Books, BasketType, JobsSound, Sound, ToOrder
  <2>3. Book(s, k)'
    BY <1>1, <2>2, BookStands
  <2> QED BY <1>1, <2>1, <2>3
<1>3. ASSUME NEW c \in Contracts, \A a \in Actors : ~HandlesAt(pc'[a], job'[a], c) PROVE Settled(c)'
  BY <1>1, <1>3, BookStands DEF Books
<1>4. \A c \in Contracts : LegsOK(c)'
  BY <1>1, BookStands DEF Books
<1> QED BY <1>2, <1>3, <1>4 DEF Books, HandlesAt

LEMMA StepBooks ==
    ASSUME "closeFuture" \notin PartialStages, OneDirection,
           SwingType, DayInv, Solo, BasketType, Books, Sure, Awaits, [Next]_vars
    PROVE  Books'
<1>1. ASSUME NEW a \in Actors, BasketStep(a) PROVE Books'
  BY <1>1, OrderBooks, RecordBooks, LookBooks DEF BasketStep, OrderStep
<1>2. ASSUME NEW o \in DOMAIN orders, (\E n \in 1..Lot : Trade(o, n)) \/ Reject(o) PROVE Books'
  <2>1. CASE Reject(o)
    <3>1. AtBroker(o) /\ orders'[o].filled = orders[o].filled /\ orders[o].filled = 0
      BY <2>1, RejectAtBroker DEF BasketType
    <3>2. orders'[o].filled = orders[o].filled + 0
      BY <3>1
    <3> QED BY <3>1, <3>2, BrokerBooks
  <2>2. ASSUME NEW n \in 1..Lot, Trade(o, n) PROVE Books'
    <3>1. AtBroker(o) /\ orders'[o].filled = orders[o].filled + n /\ n \in Nat
      BY <2>2, TradeAtBroker DEF BasketType
    <3> QED BY <3>1, BrokerBooks
  <2> QED BY <1>2, <2>1, <2>2
<1>3. CASE SessionCut \/ Crash
  BY <1>3, AbandonBooks DEF SessionCut, Crash
<1>4. CASE NewDay
  BY <1>4, NewDayLapses, LapsedBooks
<1> QED BY <1>1, <1>2, <1>3, <1>4, StrollsBooks, StandingBooks, StepKinds

(* Nothing ordered and nothing on record.                                  *)
LEMMA BooksInit ==
    ASSUME Init, SwingType
    PROVE  Books /\ Sure /\ Awaits
<1>1. /\ orders = <<>> /\ ledger = <<>> /\ \A a \in Actors : pc[a] = "idle"
  BY DEF Init, BasketInit
<1>2. Stores
  BY BasketInitHolds DEF BasketType
<1>3. OrderList(orders)
  BY <1>2, OrdersAre DEF Stores
<1>4. ASSUME NEW c \in Contracts PROVE PrimaryLegs(c) = <<>> /\ Balance(c) = 0 /\ Position(c) = 0
  <2>1. PrimaryLegs(c) = <<>>
    BY <1>1, PrimaryLegsAre, PrimaryOfNone
  <2>2. ASSUME NEW p, NEW s PROVE Traded(p, c, s) = 0
    <3>1. Matching(orders, p, c, s) = {}
      BY <1>1 DEF Matching
    <3>2. Total(Fills(orders), {}) = 0
      BY FS_EmptySet, TotalSplits
    <3> QED BY <1>3, <3>1, <3>2, FillsAdd, TradedIs
  <2> QED BY <1>2, <2>1, <2>2, BalanceIs DEF Position
<1>5. Books
  <2>1. \A c \in Contracts : LegsOK(c) /\ Settled(c)
    BY <1>4 DEF LegsOK, Settled, Covers
  <2>2. \A a \in Actors : Book(pc[a], job[a])
    BY <1>1 DEF Book, BeforeOpen, EntryStep, Checking, Ordering
  <2> QED BY <2>1, <2>2 DEF Books
<1>6. Sure
  BY <1>1, <1>4 DEF Sure, SureOf, Ordering
<1>7. Awaits
  BY <1>1 DEF Awaits
<1> QED BY <1>5, <1>6, <1>7

-------------------------------------------------------------------------------
(* What makes the books exact is kept by every step.                       *)

(* The part of it that is about the rows.                                  *)
SureRows ==
    /\ "future" \notin PartialStages => \A c \in Contracts : Balance(c) >= 0
    /\ OwnContracts => \A c \in Contracts :
                          PrimaryLegs(c) # <<>> => \E d \in attempts : d.contract = c

LEMMA RowsSure ==
    ASSUME UNCHANGED ledger, attempts \subseteq attempts', SureRows
    PROVE  SureRows'
BY RowsStand DEF SureRows

LEMMA SureOfStays ==
    ASSUME UNCHANGED <<orders, ledger, faults>>, attempts \subseteq attempts',
           NEW step, NEW k, SureOf(step, k)
    PROVE  SureOf(step, k)'
<1>1. PrimaryLegs(k.contract)' = PrimaryLegs(k.contract)
  BY DEF PrimaryLegs
<1> QED BY <1>1 DEF SureOf, OwnContracts

LEMMA SureOfNobody ==
    ASSUME NEW step, NEW k, step \notin Ordering, step \notin {"contract", "gate"}
    PROVE  SureOf(step, k)'
BY DEF SureOf, Ordering

(* A step of the one that is busy.                                         *)
LEMMA SureMoves ==
    ASSUME SwingType, NEW a \in Actors, NEW step, NEW j, Moves(a, step, j),
           \A b \in Actors : b # a => ~Busy(b), SureOf(step, j)', SureRows'
    PROVE  Sure'
<1>1. /\ pc'[a] = step /\ job'[a] = j
      /\ \A b \in Actors : b # a => pc'[b] = pc[b] /\ job'[b] = job[b]
  BY Moved DEF SwingType, Moves
<1>2. ASSUME NEW b \in Actors PROVE SureOf(pc[b], job[b])'
  <2>1. CASE b = a
    BY <1>1, <2>1
  <2>2. CASE b # a
    <3>1. pc[b] \notin Ordering /\ pc[b] \notin {"contract", "gate"}
      BY <2>2, NoPart DEF Checking
    <3>2. PICK s, k : s = pc[b] /\ k = job[b]
      OBVIOUS
    <3>3. SureOf(s, k)'
      BY <3>1, <3>2, SureOfNobody
    <3> QED BY <1>1, <2>2, <3>2, <3>3
  <2> QED BY <2>1, <2>2
<1> QED BY <1>2 DEF Sure, SureRows

LEMMA StrollsSure ==
    ASSUME SwingType, BasketType, Sure, NEW a \in Actors, NEW step, NEW j, Strolls(a, step, j)
    PROVE  Sure'
<1>1. /\ Moves(a, step, j) /\ Elsewhere(a, step, j) /\ UNCHANGED <<orders, ledger, faults>>
      /\ attempts \subseteq attempts' /\ attempts \in SUBSET Setups
  BY DEF Strolls, SwingType, StoreOK
<1>2. /\ pc'[a] = step /\ job'[a] = j
      /\ \A b \in Actors : b # a => pc'[b] = pc[b] /\ job'[b] = job[b]
  BY <1>1, Moved DEF SwingType, Moves
<1>3. SureOf(step, j)'
  <2>1. PICK s, k : s = pc[a] /\ k = job[a]
    OBVIOUS
  <2>2. SureOf(s, k) /\ Sound(s, k)
    BY <2>1 DEF Sure, BasketType, JobsSound
  <2>3. CASE step = "contract"
    <3>1. s = "attempt" /\ j = k /\ j.setup \in Setups /\ j.setup \notin attempts /\ j.setup \in attempts'
      BY <1>1, <2>1, <2>3 DEF Elsewhere, Nowhere
    <3>2. j.contract = j.setup.contract
      BY <2>2, <3>1 DEF Sound, OfSetup
    <3>3. OwnContracts => PrimaryLegs(j.contract) = <<>>
      BY <1>1, <3>1, <3>2 DEF Sure, OwnContracts, Contracts
    <3>4. PrimaryLegs(j.contract)' = PrimaryLegs(j.contract)
      BY <1>1 DEF PrimaryLegs
    <3> QED BY <2>3, <3>1, <3>3, <3>4 DEF SureOf, Ordering, OwnContracts
  <2>4. CASE step = "gate"
    <3>1. s = "contract" /\ j = k
      BY <1>1, <2>1, <2>4 DEF Elsewhere, Nowhere
    <3>2. SureOf("gate", j)
      BY <2>2, <3>1 DEF SureOf, Ordering
    <3> QED BY <1>1, <2>4, <3>2, SureOfStays
  <2>5. CASE step \notin {"contract", "gate"}
    <3>1. step \notin Ordering
      BY <1>1 DEF Elsewhere, Nowhere, Ordering
    <3> QED BY <2>5, <3>1, SureOfNobody
  <2> QED BY <2>3, <2>4, <2>5
<1>4. ASSUME NEW b \in Actors PROVE SureOf(pc[b], job[b])'
  <2>1. CASE b = a
    BY <1>2, <1>3, <2>1
  <2>2. CASE b # a
    <3>1. PICK s, k : s = pc[b] /\ k = job[b]
      OBVIOUS
    <3>2. SureOf(s, k)'
      BY <1>1, <3>1, SureOfStays DEF Sure
    <3> QED BY <1>2, <2>2, <3>1, <3>2
  <2> QED BY <2>1, <2>2
<1>5. SureRows'
  BY <1>1, RowsSure DEF Sure, SureRows
<1> QED BY <1>4, <1>5 DEF Sure, SureRows

LEMMA LookSure ==
    ASSUME SwingType, Solo, BasketType, Sure, UNCHANGED attempts, NEW a \in Actors,
           \/ EnterBasket(a) \/ RefuseBasket(a) \/ CloseFuture(a) \/ NothingToClose(a) \/ CloseHedge(a)
    PROVE  Sure'
<1> DEFINE k == job[a]
<1>1. UNCHANGED <<orders, ledger, faults>> /\ pc[a] \in {"gate", "exitLook", "hedgeLook"} /\ JobOK(k)
      /\ ActorsOK
  BY DEF EnterBasket, RefuseBasket, CloseFuture, NothingToClose, CloseHedge, SwingType, ActorsOK
<1>2. /\ SureRows' /\ \A b \in Actors : b # a => ~Busy(b)
  <2>1. Busy(a)
    BY <1>1, BusyAt
  <2> QED BY <1>1, <2>1, OneBusy, RowsSure DEF Sure, SureRows
<1>3. ASSUME NEW step, NEW j, GotoWith(a, step, j) \/ (Goto(a, step) /\ j = k), SureOf(step, j)
      PROVE  Sure'
  <2>1. Moves(a, step, j)
    BY <1>1, <1>3, Moved
  <2>2. SureOf(step, j)'
    BY <1>1, <1>3, SureOfStays
  <2> QED BY <1>2, <2>1, <2>2, SureMoves
<1>4. \A step, j : step \in {"settle", "exitCheck"} => SureOf(step, j)
  BY DEF SureOf, Ordering
<1>5. \A j : j.stage \in ExitStages => SureOf("place", j)
  BY DEF SureOf, ExitStages, EntryStages
<1>6. CASE EnterBasket(a)
  <2> DEFINE o == Order(k, "hedge", Lot)
             j == [o EXCEPT !.basket = Len(ledger) + 1]
  <2>1. o.setup = k.setup /\ o.contract = k.contract /\ o.stage = "hedge" /\ DOMAIN o = JobFields
    BY <1>1, OrderFields
  <2> HIDE DEF o
  <2>2. j.setup = k.setup /\ j.contract = k.contract /\ j.stage = "hedge"
    BY <2>1 DEF JobFields
  <2>3. pc[a] = "gate" /\ GotoWith(a, "place", j)
    BY <1>6 DEF EnterBasket, o
  <2> HIDE DEF j
  <2>4. k.setup \in attempts /\ (OwnContracts => PrimaryLegs(k.contract) = <<>>)
    BY <2>3 DEF Sure, SureOf
  <2>5. SureOf("place", j)
    BY <2>2, <2>4 DEF SureOf, EntryStages
  <2> QED BY <1>3, <2>3, <2>5
<1>7. CASE RefuseBasket(a) \/ NothingToClose(a)
  <2>1. \E step \in {"settle", "exitCheck"} : \E j : GotoWith(a, step, j)
    BY <1>7 DEF RefuseBasket, NothingToClose
  <2> QED BY <1>3, <1>4, <2>1
<1>8. CASE CloseFuture(a)
  <2>1. PICK c \in OpenContracts(k.setup.sym) :
             GotoWith(a, "place", [Order(k, "closeFuture", FirstOpen(c).qty)
                      EXCEPT !.contract = c, !.side = FirstOpen(c).side,
                             !.basket = FirstOpen(c).basket])
    BY <1>8 DEF CloseFuture
  <2> DEFINE o == Order(k, "closeFuture", FirstOpen(c).qty)
             j == [o EXCEPT !.contract = c, !.side = FirstOpen(c).side,
                            !.basket = FirstOpen(c).basket]
  <2>2. o.stage = "closeFuture" /\ DOMAIN o = JobFields
    BY <1>1, OrderFields
  <2>3. GotoWith(a, "place", j)
    BY <2>1
  <2> HIDE DEF o
  <2>4. j.stage = "closeFuture"
    BY <2>2 DEF JobFields
  <2> HIDE DEF j
  <2> QED BY <1>3, <1>5, <2>3, <2>4 DEF ExitStages
<1>9. CASE CloseHedge(a)
  <2>1. CASE Goto(a, "exitCheck")
    BY <1>3, <1>4, <2>1
  <2>2. ASSUME NEW q, GotoWith(a, "place", Order(k, "closeHedge", q)) PROVE Sure'
    <3> DEFINE o == Order(k, "closeHedge", q)
    <3>1. o.stage = "closeHedge"
      BY <1>1, OrderFields
    <3> HIDE DEF o
    <3> QED BY <1>3, <1>5, <2>2, <3>1 DEF o, ExitStages
  <2> QED BY <1>9, <2>1, <2>2 DEF CloseHedge
<1> QED BY <1>6, <1>7, <1>8, <1>9

(* An order goes on: what the faults and the answers have to say.          *)
FaultsSure(step, k) ==
    /\ MaxFaults <= 1 /\ step \in Ordering /\ k.stage = "unwindFuture"
          => /\ faults = MaxFaults
             /\ step = "wait" => orders[k.oid].status # "REJECTED"
             /\ step = "record" => k.result = "COMPLETE"
    /\ MaxFaults <= 1 /\ step = "record" /\ k.stage = "future" /\ k.filled \notin {0, k.qty}
          => faults = MaxFaults

LEMMA OrderGoesSure ==
    ASSUME SwingType, Solo, BasketType, Sure, UNCHANGED <<ledger, attempts>>, NEW a \in Actors,
           pc[a] \in Ordering, NEW step \in Ordering, NEW j, Moves(a, step, j), SameOrder(job[a], j),
           FaultsSure(step, j)'
    PROVE  Sure'
<1>1. PICK s, k : s = pc[a] /\ k = job[a]
  OBVIOUS
<1>2. SureOf(s, k) /\ s \in Ordering /\ SameOrder(k, j)
  BY <1>1 DEF Sure
<1>3. j.setup = k.setup /\ j.stage = k.stage /\ j.contract = k.contract
  BY <1>2 DEF SameOrder
<1>4. PrimaryLegs(j.contract)' = PrimaryLegs(k.contract)
  BY <1>3 DEF PrimaryLegs
<1>5. /\ k.stage \in EntryStages => k.setup \in attempts
      /\ OwnContracts /\ k.stage \in {"hedge", "future"} => PrimaryLegs(k.contract) = <<>>
  BY <1>2 DEF SureOf
<1>6. step \notin {"contract", "gate"}
  BY DEF Ordering
<1>7. SureOf(step, j)'
  BY <1>3, <1>4, <1>5, <1>6 DEF SureOf, FaultsSure, OwnContracts
<1>8. SureRows' /\ \A b \in Actors : b # a => ~Busy(b)
  BY AtOrder, RowsSure DEF Sure, SureRows
<1> QED BY <1>7, <1>8, SureMoves

LEMMA OrderSure ==
    ASSUME SwingType, Solo, BasketType, Sure, UNCHANGED attempts, NEW a \in Actors,
           PlaceAccepted(a) \/ PlaceRaises(a) \/ Filled(a) \/ TimesOut(a)
    PROVE  Sure'
<1>1. PICK s, k : s = pc[a] /\ k = job[a]
  OBVIOUS
<1>2. SureOf(s, k) /\ Sound(s, k) /\ faults \in 0..MaxFaults /\ MaxFaults \in Nat
  BY <1>1, LotAssumption DEF Sure, BasketType, JobsSound, Stores
<1>3. s \in Ordering => FaultsSure(s, k)
  BY <1>2 DEF SureOf, FaultsSure
<1>4. CASE PlaceAccepted(a)
  <2>1. PICK j : Moves(a, "wait", j) /\ SameOrder(k, j) /\ j.oid = Len(orders) + 1
    BY <1>1, <1>4, PlaceAcceptedIs
  <2>2. s = "place" /\ UNCHANGED <<ledger, faults>> /\ orders'[Len(orders) + 1].status = "OPEN"
    BY <1>1, <1>4, PlaceAcceptedIs
  <2>3. FaultsSure("wait", j)'
    BY <1>3, <2>1, <2>2 DEF FaultsSure, Ordering, SameOrder
  <2> QED BY <1>1, <2>1, <2>2, <2>3, OrderGoesSure DEF Ordering
<1>5. CASE PlaceRaises(a)
  <2>1. PICK j : Moves(a, "record", j) /\ SameOrder(k, j) /\ j.filled = k.filled
    BY <1>1, <1>5, PlaceRaisesIs
  <2>2. s = "place" /\ UNCHANGED ledger /\ faults < MaxFaults
    BY <1>1, <1>5, PlaceRaisesIs
  <2>3. k.filled = 0 /\ ~(MaxFaults <= 1 /\ k.stage = "unwindFuture")
    BY <1>2, <1>3, <2>2 DEF Sound, Unplaced, FaultsSure, Ordering
  <2>4. FaultsSure("record", j)'
    BY <2>1, <2>3 DEF FaultsSure, SameOrder
  <2> QED BY <1>1, <2>1, <2>2, <2>4, OrderGoesSure DEF Ordering
<1>6. CASE Filled(a)
  <2>0. PICK o : o = orders[k.oid]
    OBVIOUS
  <2>1. PICK j : /\ Moves(a, "record", j) /\ SameOrder(k, j) /\ j.result = o.status
                 /\ j.filled = o.filled
    BY <1>1, <1>6, <2>0, FilledIs
  <2>2. s = "wait" /\ UNCHANGED <<orders, ledger, faults>> /\ o.status # "OPEN"
    BY <1>1, <1>6, <2>0, FilledIs
  <2>3. o \in BasketOrder /\ Consistent(o) /\ o.status # "CANCELLED" /\ o.qty = k.qty
    BY <1>1, <2>0, <2>2, WaitingFor
  <2>4. o.status \in {"COMPLETE", "REJECTED"}
    BY <2>2, <2>3, OrderIs DEF Results
  <2>5. o.filled \in {0, k.qty}
    BY <2>3, <2>4 DEF Consistent
  <2>6. MaxFaults <= 1 /\ k.stage = "unwindFuture" => faults = MaxFaults /\ o.status = "COMPLETE"
    BY <1>3, <2>0, <2>2, <2>4 DEF FaultsSure, Ordering
  <2>7. FaultsSure("record", j)'
    BY <2>1, <2>2, <2>5, <2>6 DEF FaultsSure, SameOrder
  <2> QED BY <1>1, <2>1, <2>2, <2>7, OrderGoesSure DEF Ordering
<1>7. CASE TimesOut(a)
  <2>1. PICK j : Moves(a, "record", j) /\ SameOrder(k, j)
    BY <1>1, <1>7, TimesOutIs
  <2>2. s = "wait" /\ UNCHANGED ledger /\ faults < MaxFaults /\ faults' = faults + 1
    BY <1>1, <1>7, TimesOutIs
  <2>3. ~(MaxFaults <= 1 /\ k.stage = "unwindFuture")
    BY <1>2, <1>3, <2>2 DEF FaultsSure, Ordering
  <2>4. MaxFaults <= 1 => faults' = MaxFaults
    BY <1>2, <2>2
  <2>5. FaultsSure("record", j)'
    BY <2>1, <2>3, <2>4 DEF FaultsSure, SameOrder
  <2> QED BY <1>1, <2>1, <2>2, <2>5, OrderGoesSure DEF Ordering
<1> QED BY <1>4, <1>5, <1>6, <1>7

LEMMA RecordSure ==
    ASSUME "closeFuture" \notin PartialStages, OneDirection, UNCHANGED attempts,
           SwingType, Solo, BasketType, Books, Sure, NEW a \in Actors, Record(a)
    PROVE  Sure'
<1>1. PICK k, c : k = job[a] /\ c = k.contract
  OBVIOUS
<1>2. /\ pc[a] = "record" /\ UNCHANGED <<orders, faults, lost>> /\ JobOK(k)
      /\ k.stage \in OrderStages /\ ToOrder(k) /\ Answered(k)
      /\ k.qty \in Nat /\ k.filled \in Nat
      /\ \A d \in Contracts :
            PrimaryLegs(d)' = IF Purpose(k.stage) = "primary" /\ k.contract = d
                                THEN Append(PrimaryLegs(d), RowOf(k)) ELSE PrimaryLegs(d)
      /\ Moves(a, FollowUp(k).step, FollowUp(k).job)
  BY <1>1, RecordIs
<1>3. Book("record", k) /\ SureOf("record", k) /\ Sound("record", k) /\ Stores /\ SureRows
      /\ PlaceOK(a, "record", k)
  BY <1>1, <1>2 DEF Books, Sure, SureRows, BasketType, JobsSound, SwingType, ActorsOK
<1>4. c \in Contracts /\ k.contract = c
  BY <1>1, <1>2 DEF ToOrder
<1>5. PICK step, j : step = FollowUp(k).step /\ j = FollowUp(k).job
  OBVIOUS
<1>6. Moves(a, step, j)
  BY <1>2, <1>5
<1>7. \/ step = "place" /\ \E stage, qty : NextOrder(k, stage, qty) /\ j = Order(k, stage, qty)
      \/ NextPlace(k, step) /\ j = k
  BY <1>2, <1>5, FollowUpIs
<1>8. \A b \in Actors : b # a => ~Busy(b)
  BY <1>2, AtOrder DEF Ordering
<1>9. ASSUME NEW d \in Contracts, Purpose(k.stage) # "primary" \/ d # c
      PROVE  PrimaryLegs(d)' = PrimaryLegs(d) /\ Balance(d)' = Balance(d)
  <2>1. PrimaryLegs(d)' = PrimaryLegs(d)
    BY <1>2, <1>4, <1>9
  <2> QED BY <2>1 DEF Balance, Toward
<1>10. Purpose(k.stage) = "primary" =>
           /\ k.stage = "closeFuture" => k.qty <= Balance(c)
           /\ Balance(c)' = IF k.result # "COMPLETE" THEN Balance(c)
                            ELSE IF k.stage = "future" THEN Balance(c) + k.qty
                            ELSE Balance(c) - k.qty
  BY <1>1, RecordMeans
<1>11. Purpose(k.stage) = "primary" => k.stage \in {"future", "unwindFuture", "closeFuture"}
  BY <1>2 DEF Purpose, OrderStages, EntryStages, ExitStages
<1>12. Balance(c) \in Int /\ (PrimaryLegs(c) = <<>> => Balance(c) = 0)
  BY <1>3, <1>4, BalanceIs
<1>13. "future" \notin PartialStages => \A d \in Contracts : Balance(d)' >= 0
  <2> SUFFICES ASSUME "future" \notin PartialStages, NEW d \in Contracts PROVE Balance(d)' >= 0
    OBVIOUS
  <2>1. Balance(d) >= 0
    BY <1>3 DEF SureRows
  <2>2. CASE Purpose(k.stage) # "primary" \/ d # c
    BY <1>9, <2>1, <2>2
  <2>3. CASE Purpose(k.stage) = "primary" /\ d = c
    <3>1. k.stage # "unwindFuture"
      BY <1>2 DEF ToOrder
    <3> QED BY <1>2, <1>10, <1>11, <1>12, <2>1, <2>3, <3>1
  <2> QED BY <2>2, <2>3
<1>14. OwnContracts => \A d \in Contracts :
                          PrimaryLegs(d)' # <<>> => \E e \in attempts : e.contract = d
  <2> SUFFICES ASSUME OwnContracts, NEW d \in Contracts, PrimaryLegs(d)' # <<>>
               PROVE  \E e \in attempts : e.contract = d
    OBVIOUS
  <2>1. CASE PrimaryLegs(d) # <<>>
    BY <1>3, <2>1 DEF SureRows
  <2>2. CASE PrimaryLegs(d) = <<>>
    <3>1. Purpose(k.stage) = "primary" /\ d = c
      BY <1>9, <2>2
    <3>2. k.stage # "closeFuture"
      <4> SUFFICES ASSUME k.stage = "closeFuture" PROVE FALSE
        OBVIOUS
      <4>1. k.qty <= 0 /\ k.qty \in 1..Lot
        BY <1>2, <1>10, <1>12, <2>2, <3>1 DEF ToOrder
      <4> QED BY <4>1, LotAssumption
    <3>3. k.stage \in EntryStages
      BY <1>11, <3>1, <3>2 DEF EntryStages
    <3>4. k.setup \in attempts /\ OfSetup(k)
      BY <1>3, <3>3 DEF SureOf, Sound, EntryStep, Ordering
    <3> QED BY <1>4, <3>1, <3>4 DEF OfSetup
  <2> QED BY <2>1, <2>2
<1>15. SureRows'
  BY <1>13, <1>14 DEF SureRows, OwnContracts
<1>16. ASSUME NEW stage, NEW qty, NextOrder(k, stage, qty), j = Order(k, stage, qty), step = "place"
       PROVE  SureOf(step, j)'
  <2>1. j.stage = stage /\ j.contract = c /\ j.setup = k.setup
    BY <1>2, <1>4, <1>16, OrderFields
  <2>2. k.setup \in attempts
    <3>1. k.stage \in EntryStages
      BY <1>16 DEF NextOrder, EntryStages
    <3> QED BY <1>3, <3>1 DEF SureOf, Ordering
  <2>3. OwnContracts /\ stage \in {"hedge", "future"} => PrimaryLegs(c)' = <<>>
    <3> SUFFICES ASSUME OwnContracts, stage \in {"hedge", "future"} PROVE PrimaryLegs(c)' = <<>>
      OBVIOUS
    <3>1. k.stage = "hedge"
      BY <1>16 DEF NextOrder
    <3>2. PrimaryLegs(c) = <<>>
      BY <1>3, <1>4, <3>1 DEF SureOf, Ordering
    <3>3. Purpose(k.stage) # "primary"
      BY <3>1 DEF Purpose
    <3> QED BY <1>4, <1>9, <3>2, <3>3
  <2>4. MaxFaults <= 1 /\ stage = "unwindFuture" => faults' = MaxFaults
    <3> SUFFICES ASSUME MaxFaults <= 1, stage = "unwindFuture" PROVE faults = MaxFaults
      BY <1>2
    <3>1. k.stage = "future" /\ k.result # "COMPLETE" /\ k.filled > 0
      BY <1>16 DEF NextOrder
    <3>2. k.filled \notin {0, k.qty}
      BY <1>2, <3>1 DEF Answered
    <3> QED BY <1>3, <3>1, <3>2 DEF SureOf
  <2> QED BY <1>16, <2>1, <2>2, <2>3, <2>4 DEF SureOf, OwnContracts
<1>17. ASSUME NextPlace(k, step) PROVE SureOf(step, j)'
  <2>1. step \notin Ordering /\ step \notin {"contract", "gate"}
    BY <1>17 DEF NextPlace, Ordering
  <2> QED BY <2>1, SureOfNobody
<1>18. SureOf(step, j)'
  BY <1>7, <1>16, <1>17
<1> QED BY <1>6, <1>8, <1>15, <1>18, SureMoves

(* The broker trades, or rejects while faults are left.                    *)
LEMMA BrokerSure ==
    ASSUME BasketType, Sure, UNCHANGED attempts, NEW x, AtBroker(x),
           \/ UNCHANGED faults /\ orders'[x].status # "REJECTED"
           \/ faults < MaxFaults
    PROVE  Sure'
<1>1. /\ \A o \in DOMAIN orders : o # x => orders'[o] = orders[o]
      /\ UNCHANGED <<ledger, pc, job>> /\ faults \in 0..MaxFaults /\ MaxFaults \in Nat
      /\ Len(orders) \in Nat /\ DOMAIN orders = 1..Len(orders)
  BY LotAssumption DEF AtBroker, BasketType, Stores, OrdersKept
<1>2. SureRows'
  BY <1>1, RowsSure DEF Sure, SureRows
<1>3. ASSUME NEW a \in Actors PROVE SureOf(pc[a], job[a])'
  <2>1. PICK s, k : s = pc[a] /\ k = job[a]
    OBVIOUS
  <2>2. SureOf(s, k) /\ Sound(s, k) /\ pc'[a] = s /\ job'[a] = k
    BY <1>1, <2>1 DEF Sure, BasketType, JobsSound
  <2>3. PrimaryLegs(k.contract)' = PrimaryLegs(k.contract)
    BY <1>1 DEF PrimaryLegs
  <2>4. s = "wait" => k.oid \in DOMAIN orders
    BY <1>1, <2>2 DEF Sound, Placed
  <2>5. CASE UNCHANGED faults /\ orders'[x].status # "REJECTED"
    <3>1. s = "wait" /\ orders[k.oid].status # "REJECTED" => orders'[k.oid].status # "REJECTED"
      BY <1>1, <2>4, <2>5
    <3>2. SureOf(s, k)'
      BY <2>2, <2>3, <2>5, <3>1 DEF SureOf, OwnContracts, Ordering
    <3> QED BY <2>2, <3>2
  <2>6. CASE faults < MaxFaults
    <3>1. faults # MaxFaults
      BY <1>1, <2>6
    <3>2. SureOf(s, k)'
      BY <2>2, <2>3, <3>1 DEF SureOf, OwnContracts
    <3> QED BY <2>2, <3>2
  <2> QED BY <2>5, <2>6
<1> QED BY <1>2, <1>3 DEF Sure, SureRows

LEMMA IdleSure ==
    ASSUME Sure, UNCHANGED <<ledger, attempts>>, \A a \in Actors : pc'[a] = "idle"
    PROVE  Sure'
<1>1. SureRows'
  BY RowsSure DEF Sure, SureRows
<1>2. \A a \in Actors : SureOf(pc[a], job[a])'
  BY DEF SureOf, Ordering
<1> QED BY <1>1, <1>2 DEF Sure, SureRows

LEMMA StepSure ==
    ASSUME "closeFuture" \notin PartialStages, OneDirection,
           SwingType, DayInv, Solo, BasketType, Books, Sure, [Next]_vars
    PROVE  Sure'
<1>1. ASSUME NEW a \in Actors, BasketStep(a), UNCHANGED attempts PROVE Sure'
  BY <1>1, OrderSure, RecordSure, LookSure DEF BasketStep, OrderStep
<1>2. ASSUME NEW o \in DOMAIN orders, (\E n \in 1..Lot : Trade(o, n)) \/ Reject(o), UNCHANGED attempts
      PROVE  Sure'
  <2>1. CASE Reject(o)
    BY <1>2, <2>1, RejectAtBroker, BrokerSure DEF BasketType
  <2>2. ASSUME NEW n \in 1..Lot, Trade(o, n) PROVE Sure'
    <3>1. AtBroker(o) /\ UNCHANGED faults
      BY <2>2, TradeAtBroker DEF BasketType
    <3>2. orders'[o].status \in {"OPEN", "COMPLETE"}
      BY <2>2, TradeIs DEF BasketType, Stores
    <3> QED BY <1>2, <3>1, <3>2, BrokerSure
  <2> QED BY <1>2, <2>1, <2>2
<1>3. CASE SessionCut \/ Crash
  <2>1. UNCHANGED <<ledger, attempts>> /\ Abandon(Actors)
    BY <1>3 DEF SessionCut, Crash, recordVars
  <2> QED BY <2>1, AbandonAll, IdleSure
<1>4. CASE NewDay
  <2>1. UNCHANGED <<ledger, attempts>> /\ \A a \in Actors : pc'[a] = "idle"
    BY <1>4 DEF NewDay, recordVars
  <2> QED BY <2>1, IdleSure
<1>5. ASSUME Standing, UNCHANGED attempts PROVE Sure'
  <2>1. UNCHANGED <<orders, ledger, faults, pc, job>>
    BY <1>5 DEF Standing
  <2>2. SureRows'
    BY <1>5, <2>1, RowsSure DEF Sure, SureRows
  <2>3. ASSUME NEW a \in Actors PROVE SureOf(pc[a], job[a])'
    <3>1. PICK s, k : s = pc[a] /\ k = job[a]
      OBVIOUS
    <3>2. SureOf(s, k)'
      BY <1>5, <2>1, <3>1, SureOfStays DEF Sure
    <3> QED BY <2>1, <3>1, <3>2
  <2> QED BY <2>2, <2>3 DEF Sure, SureRows
<1>6. Setup \/ Begin => UNCHANGED attempts
  BY DEF Setup, Begin, recordVars
<1> QED BY <1>1, <1>2, <1>3, <1>4, <1>5, <1>6, StrollsSure, StepKinds DEF recordVars

-------------------------------------------------------------------------------
BooksInv == SwingInv /\ Books /\ Sure /\ Awaits

LEMMA BooksHold ==
    ASSUME "closeFuture" \notin PartialStages, OneDirection
    PROVE  Spec => []BooksInv
<1>1. Init => BooksInv
  BY SwingStarts, BooksInit DEF BooksInv, SwingInv
<1>2. BooksInv /\ [Next]_vars => BooksInv'
  <2> SUFFICES ASSUME BooksInv, [Next]_vars PROVE BooksInv'
    OBVIOUS
  <2>1. SwingInv'
    BY SwingGoesOn DEF BooksInv
  <2>2. Books' /\ Sure' /\ Awaits'
    BY StepBooks, StepSure, StepAwaits DEF BooksInv, SwingInv
  <2> QED BY <2>1, <2>2 DEF BooksInv
<1> QED BY <1>1, <1>2, PTL DEF Spec

(* Only a trade moves a position.                                          *)
LEMMA ActorsTradeNothing ==
    ASSUME SwingType, Solo, BasketType, NEW a \in Actors, BasketStep(a)
    PROVE  SameHoldings
<1>1. Stores
  BY DEF BasketType
<1>2. CASE PlaceAccepted(a)
  <2>1. /\ OrdersKept /\ Len(orders') = Len(orders) + 1
        /\ \A o \in DOMAIN orders : orders'[o] = orders[o]
        /\ orders'[Len(orders) + 1].filled = 0
    BY <1>2, PlaceAcceptedIs
  <2> QED BY <1>1, <2>1, NewOrderSame
<1>3. CASE TimesOut(a)
  <2>1. PICK x : x = job[a].oid
    OBVIOUS
  <2>2. /\ pc[a] = "wait" /\ OrdersKept /\ Len(orders') = Len(orders)
        /\ \A o \in DOMAIN orders : o # x => orders'[o] = orders[o]
        /\ SameTerms(orders[x], orders'[x]) /\ orders'[x].filled = orders[x].filled
    BY <1>3, <2>1, TimesOutIs
  <2>3. x \in DOMAIN orders /\ orders[x].filled \in Nat
    BY <2>1, <2>2, WaitingFor, OrderIs
  <2>4. orders'[x].filled = orders[x].filled + 0
    BY <2>2, <2>3
  <2> QED BY <1>1, <2>2, <2>3, <2>4, OneOrderFills, NoFillSame
<1>4. CASE ~(PlaceAccepted(a) \/ TimesOut(a))
  <2>1. UNCHANGED orders
    BY <1>4 DEF BasketStep, OrderStep, PlaceRaises, Filled, Record, EnterBasket, RefuseBasket,
                CloseFuture, NothingToClose, CloseHedge
  <2> QED BY <2>1, StandingSame
<1> QED BY <1>2, <1>3, <1>4

(* A trade that brings a position up is one of an entry's future.          *)
LEMMA TradeOpens ==
    ASSUME OneDirection, BooksInv, NEW x \in DOMAIN orders, NEW n \in 1..Lot, Trade(x, n),
           NEW c \in Contracts, Untouched(c), Net("primary", c) = 0, Net("primary", c)' # 0
    PROVE  Net("hedge", c) = Lot
<1>1. /\ AtBroker(x) /\ orders'[x].filled = orders[x].filled + n
      /\ orders[x].filled + n <= orders[x].qty /\ n \in Nat /\ n > 0 /\ Stores
  BY TradeAtBroker DEF BooksInv, SwingInv, BasketType
<1>2. /\ OrdersKept /\ Len(orders') = Len(orders)
      /\ \A o \in DOMAIN orders : o # x => orders'[o] = orders[o]
      /\ SameTerms(orders[x], orders'[x]) /\ orders[x].status = "OPEN"
  BY <1>1 DEF AtBroker
<1>3. FillsMore(x, n)
  BY <1>1, <1>2, OneOrderFills
<1>4. orders'[x].side \in Sides
  BY <1>1, <1>2, OrdersAre, OrderIs DEF SameTerms, Stores
<1>5. orders[x].purpose = "primary" /\ orders[x].contract = c
  <2>1. orders'[x].purpose = "primary" /\ orders'[x].contract = c
    BY <1>1, <1>3, <1>4, FillMoves
  <2> QED BY <1>2, <2>1 DEF SameTerms
<1>6. x \notin lost
  BY <1>5 DEF Untouched
<1>7. PICK a \in Actors : pc[a] = "wait" /\ job[a].oid = x
  BY <1>2, <1>6 DEF BooksInv, Awaits
<1>8. PICK k : k = job[a]
  OBVIOUS
<1>9. k.contract = c /\ Purpose(k.stage) = "primary" /\ k.stage \in OrderStages
      /\ orders[x].qty = k.qty /\ orders[x].filled \in 0..k.qty /\ ToOrder(k)
  BY <1>5, <1>7, <1>8, WaitingFor DEF BooksInv, SwingInv
<1>10. Ordered("wait", k)
  BY <1>7, <1>8 DEF BooksInv, Books, Book, Ordering
<1>11. AwaitedAt("wait", k) = orders[x].filled
  BY <1>7, <1>8 DEF AwaitedAt
<1>12. Position(c) = 0 /\ Balance(c) \in Int
  BY <1>1, OrdersAre, Holdings, BalanceIs DEF Stores
<1>13. k.qty \in Nat /\ orders[x].filled \in Nat
  BY <1>9, LotAssumption DEF ToOrder
<1>14. k.stage # "unwindFuture"
  <2> SUFFICES ASSUME k.stage = "unwindFuture" PROVE FALSE
    OBVIOUS
  <2>1. Position(c) = k.qty - orders[x].filled
    BY <1>9, <1>10, <1>11 DEF Ordered
  <2> QED BY <1>1, <1>9, <1>12, <1>13, <2>1
<1>15. k.stage # "closeFuture"
  <2> SUFFICES ASSUME k.stage = "closeFuture" PROVE FALSE
    OBVIOUS
  <2>1. k.qty <= Balance(c) /\ Position(c) + orders[x].filled >= Balance(c)
    BY <1>9, <1>10, <1>11 DEF Ordered, Covers
  <2> QED BY <1>1, <1>9, <1>12, <1>13, <2>1
<1>16. k.stage = "future"
  BY <1>9, <1>14, <1>15 DEF Purpose, OrderStages, EntryStages, ExitStages
<1> QED BY <1>9, <1>10, <1>16 DEF Ordered

(* A future is never opened without its protection.  A future is closed by *)
(* an order that fills whole or not at all, and is traded one way only.    *)
THEOREM ProtectionFirst ==
    ASSUME "closeFuture" \notin PartialStages, OneDirection
    PROVE  Spec => ProtectedBeforeOpened
<1> DEFINE Step == \A c \in Contracts : (Untouched(c) /\ Net("primary", c) = 0 /\ Net("primary", c)' # 0)
                                => Net("hedge", c) >= Lot
<1>1. BooksInv /\ [Next]_vars => [Step]_orders
  <2> SUFFICES ASSUME BooksInv, [Next]_vars PROVE [Step]_orders
    OBVIOUS
  <2>1. SwingType /\ DayInv /\ Solo /\ BasketType /\ Stores
    BY DEF BooksInv, SwingInv, BasketType
  <2>2. CASE SameHoldings
    BY <2>2, SameHoldingsMeans
  <2>3. ASSUME NEW a \in Actors, BasketStep(a) PROVE SameHoldings
    BY <2>1, <2>3, ActorsTradeNothing
  <2>4. CASE NewDay
    BY <2>1, <2>2, <2>4, NewDayLapses, LapsedSame
  <2>5. ASSUME NEW o \in DOMAIN orders, (\E n \in 1..Lot : Trade(o, n)) \/ Reject(o) PROVE Step
    <3>1. CASE Reject(o)
      <4>1. AtBroker(o) /\ orders'[o].filled = orders[o].filled /\ orders[o].filled = 0
        BY <2>1, <3>1, RejectAtBroker
      <4>2. /\ OrdersKept /\ Len(orders') = Len(orders) /\ orders'[o].filled = orders[o].filled + 0
            /\ \A p \in DOMAIN orders : p # o => orders'[p] = orders[p]
            /\ SameTerms(orders[o], orders'[o])
        BY <4>1 DEF AtBroker
      <4>3. SameHoldings
        BY <2>1, <4>2, OneOrderFills, NoFillSame
      <4> QED BY <4>3, SameHoldingsMeans
    <3>2. ASSUME NEW n \in 1..Lot, Trade(o, n) PROVE Step
      BY <3>2, TradeOpens, LotAssumption
    <3> QED BY <2>5, <3>1, <3>2
  <2>6. CASE UNCHANGED orders
    BY <2>6
  <2>7. SessionCut \/ Crash \/ Standing => UNCHANGED orders
    BY DEF SessionCut, Crash, Standing
  <2>8. \A a \in Actors : \A step, j : Strolls(a, step, j) => UNCHANGED orders
    BY DEF Strolls
  <2> QED BY <2>1, <2>2, <2>3, <2>4, <2>5, <2>6, <2>7, <2>8, StepKinds
<1>2. Spec => []BooksInv
  BY BooksHold
<1> QED BY <1>1, <1>2, PTL DEF Spec, ProtectedBeforeOpened

(* What the ledger takes to be open is the balance of its rows.            *)
LEMMA OnLedgerIs ==
    ASSUME Stores, NEW c \in Contracts, LegsOK(c)
    PROVE  OnLedger(c) = LET open == IF Balance(c) > 0 THEN Balance(c) ELSE 0
                         IN  IF Toward(c) = "BUY" THEN open ELSE -open
<1>1. /\ Balance(c) \in Int /\ PrimaryLegs(c) \in Seq(Leg) /\ Toward(c) \in {"BUY", "SELL"}
      /\ PrimaryLegs(c) = <<>> => Balance(c) = 0
  BY BalanceIs, TowardIs DEF Sides
<1>2. MapThenSumSet(LAMBDA i : OpenPrimary(c)[i], DOMAIN OpenPrimary(c)) =
         IF Balance(c) > 0 THEN Balance(c) ELSE 0
  BY OpenIffBalance DEF Total
<1>3. CASE PrimaryLegs(c) = <<>>
  <2>1. OnLedger(c) = 0
    BY ONLY <1>3 DEF OnLedger
  <2>2. Balance(c) = 0
    BY <1>1, <1>3
  <2>3. PICK open \in Int : open = 0
    OBVIOUS
  <2>4. -open = 0 - open
    OBVIOUS
  <2>5. 0 - open = 0 /\ ~(open > 0)
    BY <2>3
  <2> QED BY <2>1, <2>2, <2>3, <2>4, <2>5
<1>4. CASE PrimaryLegs(c) # <<>>
  <2>1. OpeningSide(PrimaryLegs(c)) = Toward(c)
    BY <1>4 DEF LegsOK, OpeningSide
  <2>2. OnLedger(c) = (IF Toward(c) = "BUY" THEN 1 ELSE -1) *
                         (IF Balance(c) > 0 THEN Balance(c) ELSE 0)
    BY <1>2, <1>4, <2>1 DEF OnLedger, Sign
  <2>3. PICK open \in Int : open = IF Balance(c) > 0 THEN Balance(c) ELSE 0
    BY <1>1
  <2>4. 1 * open = open /\ (-1) * open = -open
    OBVIOUS
  <2> QED BY <1>1, <2>2, <2>3, <2>4
<1> QED BY <1>3, <1>4

(* With nobody at work, what the account holds of a future is what the     *)
(* ledger says, direction included.                                        *)
THEOREM LedgerKnowsFutures ==
    ASSUME "closeFuture" \notin PartialStages, OneDirection, Exact
    PROVE  Spec => []FuturesOnLedger
<1>1. BooksInv => FuturesOnLedger
  <2> SUFFICES ASSUME BooksInv, AtRest, NEW c \in Contracts, Untouched(c)
               PROVE  Net("primary", c) = OnLedger(c)
    BY DEF FuturesOnLedger
  <2>1. Stores /\ LegsOK(c)
    BY DEF BooksInv, SwingInv, BasketType, Books
  <2>2. Settled(c)
    BY DEF BooksInv, Books, AtRest, HandlesAt, Ordering
  <2>3. Position(c) = IF Balance(c) > 0 THEN Balance(c) ELSE 0
    BY <2>2 DEF Settled, Covers
  <2>4. /\ Net("primary", c) \in Int
        /\ Position(c) = IF Toward(c) = "BUY" THEN Net("primary", c) ELSE -Net("primary", c)
    BY <2>1, OrdersAre, Holdings DEF Stores
  <2>5. OnLedger(c) = IF Toward(c) = "BUY" THEN Position(c) ELSE -Position(c)
    BY <2>1, <2>3, OnLedgerIs
  <2> QED BY <2>4, <2>5
<1> QED BY <1>1, BooksHold, PTL

-------------------------------------------------------------------------------
(* A future on the ledger has its row, and the row its watcher.            *)

FutureHasRow ==
    \A c \in Contracts : Balance(c) > 0 => \E d \in ActiveRows : d.contract = c

(* What a session goes on believing to be an entry has no future open.     *)
NothingFilled == phase = "session" /\ active.status = "entering" => NothingOpen

Watched == FutureHasRow /\ NothingFilled

(* Where a setup's future is open, its symbol has an open contract.        *)
LEMMA OpenUnderSymbol ==
    ASSUME Stores, NEW d \in Setups, LegsOK(d.contract), Balance(d.contract) > 0
    PROVE  d.contract \in Contracts /\ d.contract \in OpenContracts(d.sym)
<1>1. d.contract \in Contracts
  BY DEF Contracts
<1>2. DOMAIN OpenPrimary(d.contract) # {}
  BY <1>1, OpenIffBalance
<1> QED BY <1>1, <1>2 DEF OpenContracts

(* No step gives up the row of a future that is open.                      *)
LEMMA RowStaysActive ==
    ASSUME BooksInv, [Next]_vars, NEW d \in ActiveRows, Balance(d.contract) > 0
    PROVE  d \in ActiveRows'
<1>1. /\ d \in Setups /\ rows[d].status \in ActiveStatuses /\ rows \in [Setups -> Row]
      /\ d.contract \in Contracts
  BY DEF ActiveRows, BooksInv, SwingInv, SwingType, StoreOK, Contracts
<1>2. d.contract \in OpenContracts(d.sym) /\ ~NothingOpen
  <2>1. Stores /\ LegsOK(d.contract) /\ Balance(d.contract) \in Int
    BY <1>1, BalanceIs DEF BooksInv, SwingInv, BasketType, Books
  <2> QED BY <1>1, <2>1, OpenUnderSymbol DEF NothingOpen
<1>3. ASSUME NEW D, NEW status, SetStatus(D, status)
      PROVE  rows'[d].status = IF d \in D THEN status ELSE rows[d].status
  BY <1>1, <1>3 DEF SetStatus, Row
<1>4. rows'[d].status \in ActiveStatuses => d \in ActiveRows'
  BY <1>1 DEF ActiveRows
<1>5. CASE CreateEntering
  BY <1>1, <1>3, <1>4, <1>5 DEF CreateEntering, ActiveStatuses
<1>6. CASE Settle
  <2>1. PICK k : k = job["roll"]
    OBVIOUS
  <2>2. pc["roll"] = "settle" /\ "roll" \in Actors
    BY <1>6 DEF Settle, Actors
  <2>3. k.basket = 0 => NothingOpen
    BY <2>1, <2>2 DEF BooksInv, Books, Book, BeforeOpen, EntryStep
  <2>4. CASE k.basket # 0 /\ OpenContracts(k.setup.sym) # {}
    <3>1. SetStatus({k.setup}, "open")
      BY <1>6, <2>1, <2>4 DEF Settle
    <3> QED BY <1>1, <1>3, <1>4, <3>1 DEF ActiveStatuses
  <2>5. CASE ~(k.basket # 0 /\ OpenContracts(k.setup.sym) # {})
    <3>1. SetStatus({k.setup}, "rejected")
      BY <1>6, <2>1, <2>5 DEF Settle
    <3>2. d # k.setup
      BY <1>2, <2>3, <2>5
    <3> QED BY <1>1, <1>3, <1>4, <3>1, <3>2
  <2> QED BY <2>4, <2>5
<1>7. CASE Begin
  <2>1. CASE UNCHANGED rows
    BY <2>1 DEF ActiveRows
  <2>2. CASE SetStatus({active.setup}, "open")
    BY <1>1, <1>3, <1>4, <2>2 DEF ActiveStatuses
  <2>3. CASE SetStatus({active.setup}, "rejected") /\ OpenContracts(active.setup.sym) = {}
    BY <1>1, <1>2, <1>3, <1>4, <2>3
  <2> QED BY <1>7, <2>1, <2>2, <2>3 DEF Begin
<1>8. CASE Trail
  <2>1. rows'[d].status = rows[d].status
    BY <1>1, <1>8 DEF Trail, Row
  <2> QED BY <1>1, <1>4, <2>1
<1>9. ASSUME NEW a \in Actors, CloseRow(a) PROVE d \in ActiveRows'
  <2>1. PICK k : k = job[a]
    OBVIOUS
  <2>2. PICK D : D = {e \in Setups : e.sym = k.setup.sym /\ rows[e].status = "open"}
    OBVIOUS
  <2>3. OpenContracts(k.setup.sym) = {} /\ SetStatus(D, "closed")
    BY <1>9, <2>1, <2>2 DEF CloseRow
  <2>4. d \notin D
    BY <1>2, <2>2, <2>3
  <2> QED BY <1>1, <1>3, <1>4, <2>3, <2>4
<1>10. CASE UNCHANGED rows
  BY <1>10 DEF ActiveRows
<1> QED BY <1>5, <1>6, <1>7, <1>8, <1>9, <1>10, RowWriters

(* Only a row for an order that was answered changes the ledger.           *)
LEMMA LedgerWriters ==
    ASSUME SwingType, DayInv, [Next]_vars
    PROVE  \/ UNCHANGED ledger
           \/ \E a \in Actors : Record(a) /\ UNCHANGED <<recordVars, memoryVars, clockVars>>
<1>1. \A a \in Actors : \A step, j : Strolls(a, step, j) => UNCHANGED ledger
  BY DEF Strolls
<1>2. \A a \in Actors : BasketStep(a) => UNCHANGED ledger \/ Record(a)
  BY DEF BasketStep, OrderStep, PlaceAccepted, PlaceRaises, Filled, TimesOut, EnterBasket,
         RefuseBasket, CloseFuture, NothingToClose, CloseHedge
<1>3. (\E o \in DOMAIN orders : (\E n \in 1..Lot : Trade(o, n)) \/ Reject(o)) => UNCHANGED ledger
  BY DEF Trade, Reject
<1>4. SessionCut \/ Crash \/ NewDay \/ Standing => UNCHANGED ledger
  BY DEF SessionCut, Crash, NewDay, Standing
<1> QED BY <1>1, <1>2, <1>3, <1>4, StepKinds

(* An entry in memory comes out of a session, or into one that begins.     *)
LEMMA StillEntering ==
    ASSUME SwingType, [Next]_vars, phase' = "session", active'.status = "entering"
    PROVE  /\ active' = active
           /\ phase = "session" \/ (Begin /\ OpenContracts(active.setup.sym) = {})
<1>1. NoActive.status # "entering"
  BY DEF NoActive
<1>2. ASSUME NEW d, NEW best, active' = [setup |-> d, status |-> "open", best |-> best] PROVE FALSE
  BY <1>2
<1>3. ~Trail /\ ~Activate
  BY <1>2 DEF Trail, Activate
<1>4. ASSUME NEW a, ClearActive(a) PROVE FALSE
  BY <1>1, <1>4 DEF ClearActive
<1>5. ~Setup /\ ~SessionCut /\ ~Crash /\ ~NewDay
  BY DEF Setup, SessionCut, Crash, NewDay
<1>6. CASE Begin
  <2>1. ~(active' = [active EXCEPT !.status = "open"])
    <3>1. active \in [setup : Setups \cup {NoSetup}, status : {"none"} \cup ActiveStatuses,
                      best : Levels]
      BY DEF SwingType, StoreOK
    <3>2. [active EXCEPT !.status = "open"].status = "open"
      BY <3>1
    <3> QED BY <3>2
  <2>2. active' = active
    BY <1>1, <1>6, <2>1 DEF Begin
  <2>3. OpenContracts(active.setup.sym) = {}
    BY <1>6, <2>1, <2>2 DEF Begin
  <2> QED BY <1>6, <2>2, <2>3
<1>7. CASE ~Begin
  <2>1. UNCHANGED <<active, phase>>
    BY <1>3, <1>4, <1>5, <1>7 DEF Next, RollStep, ExitStep, CloseBucket, Choose, BrokerCheck,
       Attempt, Decline, CreateEntering, Settle, Finish, TickExit, RetryDue, TakeExitLock,
       ExitIncomplete, CloseRow, vars, memoryVars, clockVars
  <2> QED BY <2>1
<1> QED BY <1>6, <1>7

LEMMA RecordWatched ==
    ASSUME "closeFuture" \notin PartialStages, OneDirection, BooksInv, RowInv, Watched,
           NEW a \in Actors, Record(a), UNCHANGED <<recordVars, memoryVars, clockVars>>
    PROVE  Watched'
<1>1. PICK k : k = job[a]
  OBVIOUS
<1>2. /\ SwingType /\ Solo /\ BasketType /\ Stores /\ Books /\ Sure
  BY DEF BooksInv, SwingInv, BasketType
<1>3. /\ pc[a] = "record" /\ JobOK(k) /\ k.stage \in OrderStages /\ ToOrder(k) /\ k.qty \in Nat
      /\ k.contract \in Contracts
      /\ \A c \in Contracts :
            PrimaryLegs(c)' = IF Purpose(k.stage) = "primary" /\ k.contract = c
                                THEN Append(PrimaryLegs(c), RowOf(k)) ELSE PrimaryLegs(c)
  BY <1>1, <1>2, RecordIs DEF ToOrder
<1>4. ActiveRows' = ActiveRows /\ active' = active /\ phase' = phase
  BY DEF ActiveRows, recordVars, memoryVars, clockVars
<1>5. ASSUME NEW c \in Contracts, Balance(c)' > 0 PROVE \E d \in ActiveRows : d.contract = c
  <2>1. CASE Balance(c) > 0
    BY <2>1 DEF Watched, FutureHasRow
  <2>2. CASE ~(Balance(c) > 0)
    <3>1. Purpose(k.stage) = "primary" /\ k.contract = c
      <4> SUFFICES ASSUME ~(Purpose(k.stage) = "primary" /\ k.contract = c) PROVE FALSE
        OBVIOUS
      <4>1. PrimaryLegs(c)' = PrimaryLegs(c)
        BY <1>3
      <4>2. Balance(c)' = Balance(c)
        BY <4>1 DEF Balance, Toward
      <4> QED BY <1>5, <2>2, <4>2
    <3>2. /\ k.stage = "closeFuture" => k.qty <= Balance(c)
          /\ Balance(c)' = IF k.result # "COMPLETE" THEN Balance(c)
                           ELSE IF k.stage = "future" THEN Balance(c) + k.qty
                           ELSE Balance(c) - k.qty
      BY <1>1, <1>2, <3>1, RecordMeans
    <3>3. Balance(c) \in Int
      BY <1>2, BalanceIs
    <3>4. k.stage = "future"
      <4> SUFFICES ASSUME k.stage # "future" PROVE FALSE
        OBVIOUS
      <4>1. Balance(c)' <= Balance(c)
        BY <1>3, <3>2, <3>3
      <4> QED BY <1>3, <1>5, <2>2, <3>2, <3>3
    <3>5. a = "roll" /\ Entering /\ k.setup \in Setups
      BY <1>1, <1>2, <1>3, <3>4, AtOrder DEF Ordering, EntryStages
    <3>6. rows[k.setup].status = "entering"
      BY <1>1, <1>3, <3>5 DEF RowInv, EntryRow
    <3>7. k.setup \in ActiveRows
      BY <3>5, <3>6 DEF ActiveRows, ActiveStatuses
    <3>8. k.setup.contract = c
      <4>1. Sound("record", k)
        BY <1>1, <1>2, <1>3 DEF BasketType, JobsSound
      <4> QED BY <3>1, <3>4, <4>1 DEF Sound, EntryStep, EntryStages, Ordering, OfSetup
    <3> QED BY <3>7, <3>8
  <2> QED BY <2>1, <2>2
<1>6. active.status # "entering"
  <2>1. Gone(a) => active.status = "open"
    BY <1>2 DEF Solo
  <2>2. Entering => active.status = "none"
    BY <1>2 DEF Solo, FromNothing, NoActive
  <2>3. Gone(a) \/ Entering
    BY <1>1, <1>2, <1>3, AtOrder DEF Ordering, OrderStages
  <2> QED BY <2>1, <2>2, <2>3
<1>7. FutureHasRow'
  BY <1>4, <1>5 DEF FutureHasRow
<1>8. NothingFilled'
  BY <1>4, <1>6 DEF NothingFilled
<1> QED BY <1>7, <1>8 DEF Watched

LEMMA StepWatched ==
    ASSUME "closeFuture" \notin PartialStages, OneDirection, BooksInv, RowInv, Watched, [Next]_vars
    PROVE  Watched'
<1>1. SwingType /\ DayInv /\ Stores /\ \A c \in Contracts : LegsOK(c)
  BY DEF BooksInv, SwingInv, BasketType, Books
<1>2. CASE UNCHANGED ledger
  <2>1. /\ \A c \in Contracts : Balance(c)' = Balance(c)
        /\ NothingOpen' <=> NothingOpen
    BY <1>2, RowsStand
  <2>2. ASSUME NEW c \in Contracts, Balance(c)' > 0 PROVE \E d \in ActiveRows' : d.contract = c
    <3>1. Balance(c) > 0
      BY <2>1, <2>2
    <3>2. PICK d \in ActiveRows : d.contract = c
      BY <3>1 DEF Watched, FutureHasRow
    <3>3. d \in ActiveRows'
      BY <3>1, <3>2, RowStaysActive
    <3> QED BY <3>2, <3>3
  <2>3. FutureHasRow'
    BY <2>2 DEF FutureHasRow
  <2>4. ASSUME phase' = "session", active'.status = "entering" PROVE NothingOpen
    <3>1. /\ active' = active /\ active.status = "entering"
          /\ phase = "session" \/ (Begin /\ OpenContracts(active.setup.sym) = {})
      BY <1>1, <2>4, StillEntering
    <3>2. CASE phase = "session"
      BY <3>1, <3>2 DEF Watched, NothingFilled
    <3>3. CASE Begin /\ OpenContracts(active.setup.sym) = {}
      <4>1. phase = "loop" /\ OpenContracts(active.setup.sym) = {}
        BY <3>3 DEF Begin
      <4>2. \A d \in ActiveRows : d = active.setup
        BY <1>1, <4>1, AllIdle DEF DayInv, OnlyInSession, RowInv, RowInMind
      <4>3. ASSUME NEW c \in Contracts PROVE Balance(c) <= 0
        <5>1. ~(Balance(c) > 0)
          <6> SUFFICES ASSUME Balance(c) > 0 PROVE FALSE
            OBVIOUS
          <6>1. PICK d \in ActiveRows : d.contract = c
            BY DEF Watched, FutureHasRow
          <6>2. d \in Setups /\ d = active.setup
            BY <4>2 DEF ActiveRows
          <6>3. d.contract \in OpenContracts(d.sym)
            BY <1>1, <6>1, <6>2, OpenUnderSymbol
          <6> QED BY <4>1, <6>2, <6>3
        <5>2. Balance(c) \in Int
          BY <1>1, BalanceIs
        <5> QED BY <5>1, <5>2
      <4> QED BY <4>3 DEF NothingOpen
    <3> QED BY <3>1, <3>2, <3>3
  <2>5. NothingFilled'
    BY <2>1, <2>4 DEF NothingFilled
  <2> QED BY <2>3, <2>5 DEF Watched
<1> QED BY <1>1, <1>2, LedgerWriters, RecordWatched

(* A real future is always watched.  As long as no session ends in the     *)
(* middle of an entry, and where the rows say exactly what is held, the    *)
(* position in memory is open, and is that of the future.                  *)
THEOREM FuturesAreWatched ==
    ASSUME "closeFuture" \notin PartialStages, OneDirection, Exact, ~CutEntries
    PROVE  Spec => []FuturesWatched
<1>1. BooksInv /\ RowInv /\ Watched => FuturesWatched
  <2> SUFFICES ASSUME BooksInv, RowInv, Watched, AtRest, phase = "session",
                      NEW c \in Contracts, Net("primary", c) # 0, Untouched(c)
               PROVE  active.status = "open" /\ active.setup.contract = c
    BY DEF FuturesWatched
  <2>1. Stores /\ LegsOK(c) /\ SwingType
    BY DEF BooksInv, SwingInv, BasketType, Books
  <2>2. Position(c) = IF Balance(c) > 0 THEN Balance(c) ELSE 0
    <3>1. Settled(c)
      BY DEF BooksInv, Books, AtRest, HandlesAt, Ordering
    <3> QED BY <3>1 DEF Settled, Covers
  <2>3. Balance(c) > 0
    <3> SUFFICES ASSUME ~(Balance(c) > 0) PROVE FALSE
      OBVIOUS
    <3>1. PICK net \in Int : net = Net("primary", c)
      BY <2>1, OrdersAre, Holdings DEF Stores
    <3>2. 0 = IF Toward(c) = "BUY" THEN net ELSE -net
      BY <2>1, <2>2, <3>1, OrdersAre, Holdings DEF Stores
    <3> QED BY <3>1, <3>2
  <2>4. PICK d \in ActiveRows : d.contract = c
    BY <2>3 DEF Watched, FutureHasRow
  <2>5. ~Entering
    BY AllIdle DEF AtRest
  <2>6. d = active.setup /\ d \in Setups
    BY <2>4, <2>5 DEF RowInv, RowInMind, ActiveRows
  <2>7. active.status # "none"
    BY <2>1, <2>6, SetupAssumption DEF SwingType, StoreOK, NoActive
  <2>8. active.status # "entering"
    <3>1. ~NothingOpen
      BY <2>1, <2>3, BalanceIs DEF NothingOpen
    <3> QED BY <3>1 DEF Watched, NothingFilled
  <2> QED BY <2>1, <2>4, <2>6, <2>7, <2>8 DEF SwingType, StoreOK, ActiveStatuses
<1>2. Init => Watched
  <2> SUFFICES ASSUME Init PROVE Watched
    OBVIOUS
  <2>1. \A c \in Contracts : Balance(c) = 0
    <3>1. Stores /\ ledger = <<>>
      BY BasketInitHolds DEF Init, BasketInit, BasketType
    <3>2. \A c \in Contracts : PrimaryLegs(c) = <<>>
      BY <3>1, PrimaryLegsAre, PrimaryOfNone
    <3> QED BY <3>1, <3>2, BalanceIs
  <2> QED BY <2>1 DEF Watched, FutureHasRow, NothingFilled, NothingOpen
<1>3. BooksInv /\ RowInv /\ Watched /\ [Next]_vars => RowInv' /\ Watched'
  BY StepKeeps, StepWatched DEF BooksInv, SwingInv
<1>4. Spec => []BooksInv
  BY BooksHold
<1> QED BY <1>1, <1>2, <1>3, <1>4, InitHolds, PTL DEF Spec
==============================================================================
