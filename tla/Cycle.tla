------------------------------- MODULE Cycle --------------------------------
(***************************************************************************)
(* Month after month: survey, plan, apply and undo over one mailbox, with  *)
(* the promotions and the move log that outlive each run.  One process at  *)
(* a time runs (cron's runs hold a lock); it may be killed anywhere, and   *)
(* the owner's mail client is at work beside it.                           *)
(*                                                                         *)
(* Executor and Undo have the inside of apply and undo; here one item is   *)
(* one step with the outcomes they can have.  The plans of the last two    *)
(* runs are kept, so that `apply --run` and `undo --run` may name the one  *)
(* before the latest.                                                      *)
(***************************************************************************)
EXTENDS Planner

CONSTANTS
  Tree,            \* the folders of the archive
  FirstUid,        \* [Msgs -> Nat]: the UIDs in the inbox
  Recent,          \* the messages that are too recent at first
  MaxFaults,       \* bound: kills and refusals
  MaxUserSteps     \* bound: steps of the owner, and commands beside cron's

Nowhere == "nowhere"

ASSUME CycleAssumption ==
  /\ Tree \subseteq Folders \ {Source} /\ Nowhere \notin Folders
  /\ \A b \in Buckets : Flat[b] \in Tree /\ Sub[b] \in Tree
  /\ FirstUid \in [Msgs -> 1..Cardinality(Msgs)]
  /\ \A m, n \in Msgs : FirstUid[m] = FirstUid[n] => m = n
  /\ Recent \subseteq Msgs
  /\ MaxFaults \in Nat
  /\ MaxUserSteps \in Nat

States  == {"pending", "done", "skipped", "failed"}
Items   == [seq : Nat \ {0}, msg : Msgs, src : Folders, uid : Nat, dst : Folders, state : States]

VARIABLES
  place,        \* [Msgs -> Folders]
  uid,          \* [Msgs -> Nat]
  nextUid,      \* [Folders -> Nat]
  recent,       \* the messages too recent to archive
  kept,         \* flagged or deleted: the owner keeps them out of it
  promotions,   \* the promotions table
  lastMove,     \* [Msgs -> Folders or Nowhere]: dst of the last row in moves
  plans,        \* plan_items of the run before the latest, and of the latest
  pc,           \* where the process is
  chained,      \* the command is `run`: apply follows the plan
  toSurvey,     \* folders the survey has still to read
  seen,         \* its records
  fresh,        \* new promotions not yet recorded
  run,          \* the run that apply or undo works on
  undoLeft,     \* items undo has still to take back
  touched,      \* ghost: messages the owner has moved
  faults,       \* ghost
  userSteps     \* ghost

mailVars  == <<place, uid, nextUid, touched>>
ownerVars == <<recent, kept, userSteps>>
dbVars    == <<promotions, lastMove, plans>>
planVars  == <<chained, toSurvey, seen, fresh>>
vars == <<mailVars, ownerVars, dbVars, pc, planVars, run, undoLeft, faults>>

TypeOK ==
  /\ place \in [Msgs -> Folders]
  /\ uid \in [Msgs -> Nat] /\ nextUid \in [Folders -> Nat]
  /\ recent \in SUBSET Msgs /\ kept \in SUBSET Msgs /\ touched \in SUBSET Msgs
  /\ promotions \in SUBSET Promotable
  /\ lastMove \in [Msgs -> Folders \cup {Nowhere}]
  /\ plans \in [{1, 2} -> SUBSET Items]
  /\ pc \in {"idle", "survey", "promote", "save", "apply", "undo"}
  /\ chained \in BOOLEAN
  /\ toSurvey \in SUBSET Folders
  /\ seen \subseteq Sightings
  /\ fresh \in SUBSET Promotable
  /\ run \in {1, 2}
  /\ undoLeft \subseteq Items
  /\ faults \in 0..MaxFaults /\ userSteps \in 0..MaxUserSteps

Init ==
  /\ place = [m \in Msgs |-> Source]
  /\ uid = FirstUid
  /\ nextUid = [f \in Folders |-> IF f = Source THEN Cardinality(Msgs) + 1 ELSE 1]
  /\ recent = Recent /\ kept = {} /\ touched = {}
  /\ promotions = {} /\ lastMove = [m \in Msgs |-> Nowhere] /\ plans = <<{}, {}>>
  /\ pc = "idle" /\ chained = FALSE /\ toSurvey = {} /\ seen = {} /\ fresh = {}
  /\ run = 2 /\ undoLeft = {} /\ faults = 0 /\ userSteps = 0

MovesTo(m, f) ==
  /\ place' = [place EXCEPT ![m] = f]
  /\ uid' = [uid EXCEPT ![m] = nextUid[f]]
  /\ nextUid' = [nextUid EXCEPT ![f] = @ + 1]

Fault    == faults < MaxFaults /\ faults' = faults + 1
UserStep == userSteps < MaxUserSteps /\ userSteps' = userSteps + 1

-----------------------------------------------------------------------------
(* plan: survey, build_plan, record the promotions, save the plan.          *)

\* start_run gives the plan a run of its own.
Survey(c) ==
  /\ pc = "idle"
  /\ pc' = "survey" /\ chained' = c
  /\ plans' = <<plans[2], {}>>
  /\ toSurvey' = {Source} \cup Tree /\ seen' = {}
  /\ UNCHANGED <<mailVars, recent, kept, promotions, lastMove, fresh, run, undoLeft, faults>>

CronRuns      == Survey(TRUE) /\ UNCHANGED userSteps
OperatorPlans == Survey(FALSE) /\ UserStep

NextFolder(f) ==
  /\ f \in toSurvey
  /\ \/ f = Source
     \/ Source \notin toSurvey /\ \A g \in toSurvey : Rank[f] <= Rank[g]

SurveyFolder(f) ==
  /\ pc = "survey" /\ NextFolder(f)
  /\ toSurvey' = toSurvey \ {f}
  /\ seen' = seen \cup {[msg |-> m, folder |-> f, uid |-> uid[m],
                         eligible |-> m \notin recent \cup kept] :
                          m \in {n \in Msgs : place[n] = f}}
  /\ IF toSurvey' = {}
     THEN pc' = "promote" /\ fresh' = NewPromotions(seen', promotions)
     ELSE UNCHANGED <<pc, fresh>>
  /\ UNCHANGED <<mailVars, ownerVars, dbVars, chained, run, undoLeft, faults>>

\* Each promotion is a statement of its own.
RecordPromotion(b) ==
  /\ pc = "promote" /\ b \in fresh
  /\ promotions' = promotions \cup {b}
  /\ fresh' = fresh \ {b}
  /\ UNCHANGED <<mailVars, ownerVars, lastMove, plans, pc, chained, toSurvey, seen,
                 run, undoLeft, faults>>

PromotionsRecorded ==
  /\ pc = "promote" /\ fresh = {}
  /\ pc' = "save"
  /\ UNCHANGED <<mailVars, ownerVars, dbVars, planVars, run, undoLeft, faults>>

\* Mutant: the plan goes by what it counts, not by what was promoted before.
CountedNow == NewPromotions(seen, {})
\* build_plan's `promoted`: what it was told, and what it added.
Known == promotions

SavePlan ==
  /\ pc = "save"
  /\ plans' = <<plans[1], PlanItems(seen, Known)>>
  /\ pc' = IF chained THEN "apply" ELSE "idle"
  /\ run' = 2
  /\ toSurvey' = {} /\ seen' = {} /\ chained' = FALSE
  /\ UNCHANGED <<mailVars, ownerVars, promotions, lastMove, fresh, undoLeft, faults>>

-----------------------------------------------------------------------------
(* apply [--run r], item by item.                                           *)

Apply(r) ==
  /\ pc = "idle" /\ plans[r] # {}
  /\ UserStep
  /\ pc' = "apply" /\ run' = r
  /\ UNCHANGED <<mailVars, recent, kept, dbVars, planVars, undoLeft, faults>>

Pending == {i \in plans[run] : i.state = "pending"}
Turn(i) == i \in Pending /\ \A j \in Pending : i.seq <= j.seq

Marked(i, s) == plans' = [plans EXCEPT ![run] = (@ \ {i}) \cup {[i EXCEPT !.state = s]}]

InPlace(i)   == place[i.msg] = i.src /\ uid[i.msg] = i.uid
SkipsItem(i) == lastMove[i.msg] = i.dst \/ ~ InPlace(i)

Skip(i) ==
  /\ pc = "apply" /\ Turn(i) /\ SkipsItem(i)
  /\ Marked(i, "skipped")
  /\ UNCHANGED <<mailVars, ownerVars, promotions, lastMove, pc, planVars, run, undoLeft, faults>>

Move(i) ==
  /\ pc = "apply" /\ Turn(i) /\ ~ SkipsItem(i)
  /\ MovesTo(i.msg, i.dst) /\ UNCHANGED touched
  /\ \/ /\ Marked(i, "done")
        /\ lastMove' = [lastMove EXCEPT ![i.msg] = i.dst]
        /\ UNCHANGED <<pc, faults>>
     \/ /\ Fault /\ pc' = "idle"           \* killed before mark_done
        /\ UNCHANGED <<plans, lastMove>>
  /\ UNCHANGED <<ownerVars, promotions, planVars, run, undoLeft>>

Refused(i) ==
  /\ pc = "apply" /\ Turn(i) /\ ~ SkipsItem(i)
  /\ Fault
  /\ Marked(i, "failed")
  /\ UNCHANGED <<mailVars, ownerVars, promotions, lastMove, pc, planVars, run, undoLeft>>

Applied ==
  /\ pc = "apply" /\ Pending = {}
  /\ pc' = "idle"
  /\ UNCHANGED <<mailVars, ownerVars, dbVars, planVars, run, undoLeft, faults>>

-----------------------------------------------------------------------------
(* undo --run r: the moves logged under that run.                           *)

Undo(r) ==
  /\ pc = "idle"
  /\ UserStep
  /\ undoLeft' = {i \in plans[r] : i.state = "done"}
  /\ undoLeft' # {}
  /\ pc' = "undo" /\ run' = r
  /\ UNCHANGED <<mailVars, recent, kept, dbVars, planVars, faults>>

\* Mutant: undo moves the mail and logs nothing.
NoReversal(i) == lastMove
Reversed(i) == [lastMove EXCEPT ![i.msg] = i.src]

UndoItem(i) ==
  /\ pc = "undo" /\ i \in undoLeft
  /\ undoLeft' = undoLeft \ {i}
  /\ IF place[i.msg] = i.dst
     THEN /\ MovesTo(i.msg, i.src) /\ UNCHANGED touched
          /\ \/ lastMove' = Reversed(i) /\ UNCHANGED faults
             \/ Fault /\ UNCHANGED lastMove        \* moved, but not logged
     ELSE UNCHANGED <<mailVars, lastMove, faults>>
  /\ UNCHANGED <<ownerVars, promotions, plans, pc, planVars, run>>

Undone ==
  /\ pc = "undo" /\ undoLeft = {}
  /\ pc' = "idle"
  /\ UNCHANGED <<mailVars, ownerVars, dbVars, planVars, run, undoLeft, faults>>

-----------------------------------------------------------------------------
(* Kills, time and the owner.                                               *)

\* save_plan inserts row by row: what is there when the process dies stays.
Saved(n) == {i \in PlanItems(seen, Known) : i.seq <= n}

Killed ==
  /\ pc # "idle"
  /\ Fault
  /\ pc' = "idle"
  /\ IF pc = "save"
     THEN \E n \in 0..Cardinality(PlanItems(seen, Known)) : plans' = <<plans[1], Saved(n)>>
     ELSE UNCHANGED plans
  /\ chained' = FALSE /\ toSurvey' = {} /\ seen' = {} /\ fresh' = {} /\ undoLeft' = {}
  /\ UNCHANGED <<mailVars, ownerVars, promotions, lastMove, run>>

Ages(m) ==
  /\ m \in recent
  /\ recent' = recent \ {m}
  /\ UNCHANGED <<mailVars, kept, userSteps, dbVars, pc, planVars, run, undoLeft, faults>>

OwnerMoves(m, f) ==
  /\ f # place[m]
  /\ UserStep
  /\ MovesTo(m, f)
  /\ touched' = touched \cup {m}
  /\ UNCHANGED <<recent, kept, dbVars, pc, planVars, run, undoLeft, faults>>

OwnerKeeps(m) ==
  /\ UserStep
  /\ kept' = IF m \in kept THEN kept \ {m} ELSE kept \cup {m}
  /\ UNCHANGED <<mailVars, recent, dbVars, pc, planVars, run, undoLeft, faults>>

Plans == (\E f \in Folders : SurveyFolder(f)) \/ (\E b \in Promotable : RecordPromotion(b))
         \/ PromotionsRecorded \/ SavePlan
Applies == Applied \/ \E i \in plans[run] : Skip(i) \/ Move(i) \/ Refused(i)
Undoes  == Undone \/ \E i \in undoLeft : UndoItem(i)

Commands == CronRuns \/ OperatorPlans \/ \E r \in {1, 2} : Apply(r) \/ Undo(r)
OwnerOrTime == \E m \in Msgs : Ages(m) \/ OwnerKeeps(m) \/ \E f \in Folders : OwnerMoves(m, f)

Next == Commands \/ Plans \/ Applies \/ Undoes \/ Killed \/ OwnerOrTime

Spec == Init /\ [][Next]_vars

\* cron runs month after month, and a process that runs goes on.
FairSpec == Spec /\ SF_vars(CronRuns) /\ WF_vars(Plans \/ Applies \/ Undoes)

-----------------------------------------------------------------------------
(* Properties.                                                              *)

\* The ratchet holds: mail that was filed under a promoted sender is never
\* filed back under the domain, whatever counts, kills, undos and stale plans
\* come in between (planner.py 64-69, runner.py 153-154).
NeverDemoted ==
  [][\A m \in Msgs :
       pc = "apply" /\ place'[m] # place[m] /\ touched' = touched /\ m \notin touched =>
         place[m] # Sub[BucketOf[m]]]_vars

\* Promoted mail is united: when new mail joins a promoted folder, the mail the
\* archive held before is in it already (planner.py 90-91); without faults and
\* other commands than cron's.
NewMailJoinsLast ==
  [][\A m \in Msgs :
       /\ faults' = 0 /\ userSteps' = 0 /\ place[m] = Source
       /\ BucketOf[m] \in Promotable /\ place'[m] = Sub[BucketOf[m]]
       => \A n \in Msgs : BucketOf[n] = BucketOf[m] => place[n] # Flat[BucketOf[n]]]_vars

Due(m) == IF place[m] = Source THEN m \notin recent \cup kept ELSE place[m] \in Tree
Filed(m) == place[m] = Destination(m, promotions)

\* The log says that the message is where it belongs, and it is not: every plan
\* lists it and every apply skips it, and under a cap it takes the place of one
\* that could be moved.
Blocked(m) == Due(m) /\ ~ Filed(m) /\ lastMove[m] = Destination(m, promotions)

\* The log blocks no mail by itself: through promotions, backfills, stale plans
\* and complete undos, only a message the owner has moved, or a fault between a
\* move and its row, makes it say that a message is filed which is not
\* (already_moved, index.py 265-288).
LogBlocksNothing == \A m \in Msgs : Blocked(m) => m \in touched \/ faults > 0

\* Every message that is due comes to where it belongs, under a cap, after
\* kills, refusals, plans nobody applied, stale plans and undos, unless one is
\* blocked: the owner has dragged it back, or undo was cut short.
EveryMessageIsFiled ==
  \A m \in Msgs : Due(m) ~> (Filed(m) \/ ~ Due(m) \/ \E n \in Msgs : Blocked(n))

-----------------------------------------------------------------------------
(* Why the first three hold: an inductive invariant, with TypeOK.           *)

\* Where untouched mail may be: in the inbox, under its domain or, once its sender
\* is promoted, under the sender.
Earned(m, f) ==
  /\ f \in {Source, Flat[BucketOf[m]], Sub[BucketOf[m]]}
  /\ f = Sub[BucketOf[m]] => BucketOf[m] \in promotions \/ f = Flat[BucketOf[m]]

PlacesEarned ==
  \A m \in Msgs \ touched :
    /\ Earned(m, place[m])
    /\ \A r \in seen : r.msg = m => Earned(m, r.folder)

\* No plan takes such mail out from under a sender, now or when it was made.
PlansEarned ==
  \A p \in {1, 2} : \A i \in plans[p] :
    i.msg \notin touched =>
      /\ Earned(i.msg, i.src) /\ Earned(i.msg, i.dst)
      /\ i.src # Sub[BucketOf[i.msg]] /\ i.src # i.dst

\* Each part of the process has what it works on.
PhasesFit ==
  /\ IsFiniteSet(seen)
  /\ pc # "survey" => toSurvey = {}
  /\ pc \notin {"survey", "promote", "save"} => seen = {}
  /\ IF pc = "undo" THEN undoLeft \subseteq plans[run] ELSE undoLeft = {}

\* The last row of the log is where the mail is.
LogFollowsMail ==
  faults = 0 => \A m \in Msgs \ touched : lastMove[m] \in {Nowhere, place[m]}

\* Nothing but cron's runs, and all of them whole.
Calm == faults = 0 /\ userSteps = 0

\* The survey is then true, and complete for the folders read.
SurveyIsTrue ==
  Calm =>
    /\ touched = {} /\ pc # "undo" /\ run = 2
    /\ \A r \in seen : /\ r.folder = place[r.msg] /\ r.uid = uid[r.msg]
                       /\ r.folder \notin toSurvey
    /\ \A r, q \in seen : r.msg = q.msg => r = q
    /\ pc \in {"survey", "promote", "save"} =>
         \A m \in Msgs : place[m] \in ({Source} \cup Tree) \ toSurvey =>
                           \E r \in seen : r.msg = m

\* What is pending is where the plan says, and before new mail joins a promoted
\* sender the backfills to it are pending.
BackfillsAhead ==
  Calm /\ pc = "apply" =>
    /\ \A i \in Pending : InPlace(i) /\ i.src # i.dst /\ i.dst = Destination(i.msg, promotions)
    /\ \A i, j \in Pending : i.msg = j.msg => i = j
    /\ \A i \in Pending, n \in Msgs :
         /\ i.src = Source /\ BucketOf[i.msg] = BucketOf[n] /\ BucketOf[n] \in Promotable
         /\ i.dst = Sub[BucketOf[n]] /\ place[n] = Flat[BucketOf[n]]
         => \E j \in Pending : j.msg = n /\ j.seq < i.seq

CycleInv ==
  /\ TypeOK /\ PhasesFit /\ PlacesEarned /\ PlansEarned /\ LogFollowsMail
  /\ SurveyIsTrue /\ BackfillsAhead

=============================================================================
