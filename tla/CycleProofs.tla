---------------------------- MODULE CycleProofs ----------------------------
(***************************************************************************)
(* Proofs about Cycle, for any messages, folders, senders, cap, threshold  *)
(* and bounds: what Planner's operators return, CycleInv part by part, and *)
(* the ratchet, the log and the order of a month's moves.                  *)
(***************************************************************************)
EXTENDS Cycle, TLAPS, FiniteSetTheorems

-----------------------------------------------------------------------------
(* The planner.                                                             *)

LEMMA Destinations ==
  ASSUME NEW m \in Msgs, NEW P
  PROVE  /\ Destination(m, P) \in Folders /\ Destination(m, P) # Source
         /\ Destination(m, P) # Nowhere
         /\ BucketOf[m] \in P => Destination(m, P) = Sub[BucketOf[m]]
         /\ BucketOf[m] \notin P => Destination(m, P) = Flat[BucketOf[m]]
BY PlannerAssumption, CycleAssumption DEF PlannerAssumption, CycleAssumption, Destination

LEMMA MovesSeen ==
  ASSUME NEW S, NEW P, NEW r \in Moves(S, P)
  PROVE  r \in S /\ Destination(r.msg, P) # r.folder
BY DEF Moves, Misplaced, EligibleInbox, Archived

\* A move's place in the plan is a positive number, and one that comes before it has
\* a smaller one.
LEMMA Positions ==
  ASSUME NEW S \in SUBSET Sightings, IsFiniteSet(S), NEW P, NEW r
  PROVE  /\ IsFiniteSet({x \in Moves(S, P) : Before(x, r, P)})
         /\ Position(r, S, P) \in Nat \ {0}
<1>. DEFINE ahead == {x \in Moves(S, P) : Before(x, r, P)}
<1>1. ahead \in SUBSET S
  BY MovesSeen
<1>2. IsFiniteSet(ahead)
  BY <1>1, FS_Subset
<1>3. Cardinality(ahead) \in Nat
  BY <1>2, FS_CardinalityType
<1>4. Position(r, S, P) = 1 + Cardinality(ahead)
  BY DEF Position
<1>. QED BY <1>2, <1>3, <1>4

\* Each backfill comes before each move out of the inbox.
LEMMA BackfillsFirst ==
  ASSUME NEW S \in SUBSET Sightings, IsFiniteSet(S), NEW P,
         NEW q \in Moves(S, P), NEW r \in Moves(S, P), Backfill(q), ~ Backfill(r)
  PROVE  Position(q, S, P) < Position(r, S, P)
<1>. DEFINE before(y) == {x \in Moves(S, P) : Before(x, y, P)}
<1>1. ~ Before(q, q, P)
  <2>1. q \in Sightings /\ q.uid \in Nat
    BY MovesSeen DEF Sightings
  <2>2. Rank[Destination(q.msg, P)] \in Nat /\ Rank[q.folder] \in Nat
    BY <2>1, Destinations, PlannerAssumption DEF PlannerAssumption, Sightings
  <2>. QED BY <2>1, <2>2 DEF Before, SortsBefore
<1>2. Before(q, r, P)
  BY DEF Before
<1>3. \A x : Before(x, q, P) => Before(x, r, P)
  BY DEF Before
<1>4. before(q) \in SUBSET before(r) /\ q \in before(r) /\ q \notin before(q)
  BY <1>1, <1>2, <1>3
<1>5. IsFiniteSet(before(r)) /\ IsFiniteSet(before(q))
  BY Positions
<1>6. /\ Cardinality(before(q)) <= Cardinality(before(r))
      /\ Cardinality(before(q)) # Cardinality(before(r))
  BY <1>4, <1>5, FS_Subset
<1>7. Cardinality(before(q)) \in Nat /\ Cardinality(before(r)) \in Nat
  BY <1>5, FS_CardinalityType
<1>8. Cardinality(before(q)) < Cardinality(before(r))
  BY <1>6, <1>7
<1>9. Position(q, S, P) = 1 + Cardinality(before(q))
      /\ Position(r, S, P) = 1 + Cardinality(before(r))
  BY DEF Position
<1>. QED BY <1>7, <1>8, <1>9

\* What the plan lists was seen where it says, and is not where it belongs.
LEMMA PlannedItems ==
  ASSUME NEW S \in SUBSET Sightings, IsFiniteSet(S), NEW P, NEW i \in PlanItems(S, P)
  PROVE  /\ i \in Items /\ i.state = "pending" /\ i.src # i.dst
         /\ i.dst = Destination(i.msg, P)
         /\ \E r \in Moves(S, P) :
              /\ r \in S /\ i.msg = r.msg /\ i.src = r.folder /\ i.uid = r.uid
              /\ i.seq = Position(r, S, P) /\ (Cap = 0 \/ i.seq <= Cap)
<1>1. PICK r \in Moves(S, P) :
        /\ i = [seq |-> Position(r, S, P), msg |-> r.msg, src |-> r.folder,
                uid |-> r.uid, dst |-> Destination(r.msg, P), state |-> "pending"]
        /\ Cap = 0 \/ Position(r, S, P) <= Cap
  BY DEF PlanItems
<1>2. r \in S /\ Destination(r.msg, P) # r.folder
  BY MovesSeen
<1>3. r.msg \in Msgs /\ r.folder \in Folders /\ r.uid \in Nat
  BY <1>2 DEF Sightings
<1>4. Position(r, S, P) \in Nat \ {0} /\ Destination(r.msg, P) \in Folders
  BY <1>3, Positions, Destinations
<1>5. i \in Items
  BY <1>1, <1>3, <1>4 DEF Items, States
<1>. QED BY <1>1, <1>2, <1>5

\* A move within the cap is listed.
LEMMA MovesPlanned ==
  ASSUME NEW S, NEW P, NEW r \in Moves(S, P), Cap = 0 \/ Position(r, S, P) <= Cap
  PROVE  \E i \in PlanItems(S, P) : i.msg = r.msg /\ i.seq = Position(r, S, P)
<1>. DEFINE item == [seq |-> Position(r, S, P), msg |-> r.msg, src |-> r.folder,
                     uid |-> r.uid, dst |-> Destination(r.msg, P), state |-> "pending"]
<1>1. item \in PlanItems(S, P)
  BY DEF PlanItems
<1>2. item.msg = r.msg /\ item.seq = Position(r, S, P)
  OBVIOUS
<1>. QED BY <1>1, <1>2

\* One sighting of a message, one item.
LEMMA OneItemEach ==
  ASSUME NEW S, NEW P, \A r, q \in S : r.msg = q.msg => r = q,
         NEW i \in PlanItems(S, P), NEW j \in PlanItems(S, P), i.msg = j.msg
  PROVE  i = j
<1>. DEFINE item(r) == [seq |-> Position(r, S, P), msg |-> r.msg, src |-> r.folder,
                        uid |-> r.uid, dst |-> Destination(r.msg, P), state |-> "pending"]
<1>1. PICK r \in Moves(S, P) : i = item(r)
  BY DEF PlanItems
<1>2. PICK q \in Moves(S, P) : j = item(q)
  BY DEF PlanItems
<1>3. r.msg = q.msg
  BY <1>1, <1>2
<1>4. r = q
  BY <1>3, MovesSeen
<1>. QED BY <1>1, <1>2, <1>4

-----------------------------------------------------------------------------
(* Types and phases.                                                        *)

LEMMA TwoPlans ==
  ASSUME NEW A \in SUBSET Items, NEW B \in SUBSET Items
  PROVE  /\ <<A, B>> \in [{1, 2} -> SUBSET Items]
         /\ <<A, B>>[1] = A /\ <<A, B>>[2] = B
OBVIOUS

\* A verdict changes the state of its item and nothing else.
LEMMA MarkedPlans ==
  ASSUME plans \in [{1, 2} -> SUBSET Items], run \in {1, 2},
         NEW i \in plans[run], NEW s \in States, Marked(i, s)
  PROVE  /\ plans' \in [{1, 2} -> SUBSET Items]
         /\ \A p \in {1, 2} : \A j \in plans'[p] :
              \E k \in plans[p] : j.msg = k.msg /\ j.src = k.src /\ j.dst = k.dst
         /\ \A j \in plans'[run] : j \in plans[run] \ {i} \/ j.state = s
         /\ plans[run] \ {i} \subseteq plans'[run]
<1>. DEFINE marked == [i EXCEPT !.state = s]
<1>1. i \in Items
  OBVIOUS
<1>2. /\ marked \in Items /\ marked.state = s
      /\ marked.msg = i.msg /\ marked.src = i.src /\ marked.dst = i.dst
  BY <1>1 DEF Items
<1>3. plans' = [plans EXCEPT ![run] = (plans[run] \ {i}) \cup {marked}]
  BY DEF Marked
<1>. HIDE DEF marked
<1>4. /\ plans'[run] = (plans[run] \ {i}) \cup {marked}
      /\ \A p \in {1, 2} : p # run => plans'[p] = plans[p]
  BY <1>3
<1>5. plans' \in [{1, 2} -> SUBSET Items]
  BY <1>2, <1>3
<1>. QED BY <1>2, <1>4, <1>5

LEMMA PlanTyped ==
  ASSUME TypeOK, IsFiniteSet(seen)
  PROVE  PlanItems(seen, Known) \subseteq Items
<1>1. seen \in SUBSET Sightings
  BY DEF TypeOK
<1>. QED BY <1>1, PlannedItems

\* The mail in a folder, as the survey records it.
Sighted(f) == {[msg |-> m, folder |-> f, uid |-> uid[m], eligible |-> m \notin recent \cup kept] :
                 m \in {n \in Msgs : place[n] = f}}

LEMMA SightedMail ==
  ASSUME TypeOK, NEW f \in Folders
  PROVE  /\ Sighted(f) \subseteq Sightings /\ IsFiniteSet(Sighted(f))
         /\ \A r \in Sighted(f) : r.folder = f /\ place[r.msg] = f /\ r.uid = uid[r.msg]
         /\ \A r, q \in Sighted(f) : r.msg = q.msg => r = q
         /\ \A m \in Msgs : place[m] = f => \E r \in Sighted(f) : r.msg = m
<1>. DEFINE here == {n \in Msgs : place[n] = f}
            record(m) == [msg |-> m, folder |-> f, uid |-> uid[m],
                          eligible |-> m \notin recent \cup kept]
            records == [m \in here |-> record(m)]
<1>1. IsFiniteSet(here)
  BY PlannerAssumption, FS_Subset DEF PlannerAssumption
<1>2. Sighted(f) = {record(m) : m \in here}
  BY DEF Sighted
<1>3. records \in Surjection(here, Sighted(f))
  BY <1>2 DEF Surjection
<1>4. IsFiniteSet(Sighted(f))
  BY <1>1, <1>3, FS_Surjection
<1>5. \A m \in here : record(m) \in Sightings
  BY DEF TypeOK, Sightings
<1>6. Sighted(f) \subseteq Sightings
  BY <1>2, <1>5
<1>7. \A r \in Sighted(f) : \E m \in here : r = record(m)
  BY <1>2
<1>8. \A r \in Sighted(f) : r.folder = f /\ place[r.msg] = f /\ r.uid = uid[r.msg]
  BY <1>7
<1>9. \A r, q \in Sighted(f) : r.msg = q.msg => r = q
  BY <1>7
<1>10. \A m \in here : record(m) \in Sighted(f) /\ record(m).msg = m
  BY <1>2
<1>. QED BY <1>4, <1>6, <1>8, <1>9, <1>10

LEMMA MovesToTyped ==
  ASSUME TypeOK, NEW m \in Msgs, NEW f \in Folders, MovesTo(m, f)
  PROVE  /\ place' \in [Msgs -> Folders] /\ uid' \in [Msgs -> Nat]
         /\ nextUid' \in [Folders -> Nat]
         /\ place'[m] = f
         /\ \A n \in Msgs : n # m => place'[n] = place[n] /\ uid'[n] = uid[n]
BY DEF MovesTo, TypeOK

LEMMA Counters ==
  ASSUME TypeOK
  PROVE  /\ Fault => faults' \in 0..MaxFaults /\ faults' # 0
         /\ UserStep => userSteps' \in 0..MaxUserSteps /\ userSteps' # 0
         /\ faults \in Nat /\ userSteps \in Nat
BY CycleAssumption DEF CycleAssumption, TypeOK, Fault, UserStep

LEMMA InitTyped ==
  Init => TypeOK
<1>. SUFFICES ASSUME Init PROVE TypeOK
  OBVIOUS
<1>1. IsFiniteSet(Msgs) /\ Source \in Folders
  BY PlannerAssumption DEF PlannerAssumption
<1>2. Cardinality(Msgs) \in Nat
  BY <1>1, FS_CardinalityType
<1>3. uid \in [Msgs -> Nat] /\ nextUid \in [Folders -> Nat]
  BY <1>2, CycleAssumption DEF Init, CycleAssumption
<1>4. plans \in [{1, 2} -> SUBSET Items]
  BY TwoPlans DEF Init
<1>5. faults \in 0..MaxFaults /\ userSteps \in 0..MaxUserSteps
  BY CycleAssumption DEF Init, CycleAssumption
<1>6. recent \in SUBSET Msgs
  BY CycleAssumption DEF Init, CycleAssumption
<1>. QED BY <1>1, <1>3, <1>4, <1>5, <1>6 DEF Init, TypeOK

\* What a new set of promotions may hold.
LEMMA FreshTyped ==
  \A S, P : NewPromotions(S, P) \in SUBSET Promotable
BY DEF NewPromotions

LEMMA TypeStep ==
  ASSUME TypeOK, PhasesFit, Next
  PROVE  TypeOK'
<1>. USE DEF mailVars, ownerVars, dbVars, planVars
<1>1. ASSUME NEW c \in BOOLEAN, Survey(c),
             userSteps' \in 0..MaxUserSteps
      PROVE  TypeOK'
  <2>1. plans' \in [{1, 2} -> SUBSET Items]
    BY <1>1, TwoPlans DEF Survey, TypeOK
  <2>2. toSurvey' \in SUBSET Folders
    BY <1>1, PlannerAssumption, CycleAssumption DEF Survey, PlannerAssumption, CycleAssumption
  <2>. QED BY <1>1, <2>1, <2>2 DEF Survey, TypeOK
<1>2. CASE CronRuns \/ OperatorPlans
  <2>1. userSteps' \in 0..MaxUserSteps
    BY <1>2, Counters DEF CronRuns, OperatorPlans, TypeOK
  <2>. QED BY <1>1, <1>2, <2>1 DEF CronRuns, OperatorPlans
<1>3. ASSUME NEW r \in {1, 2}, Apply(r) PROVE TypeOK'
  BY <1>3, Counters DEF Apply, TypeOK
<1>4. ASSUME NEW r \in {1, 2}, Undo(r) PROVE TypeOK'
  BY <1>4, Counters DEF Undo, TypeOK
<1>5. ASSUME NEW f \in Folders, SurveyFolder(f) PROVE TypeOK'
  <2>1. seen' = seen \cup Sighted(f)
    BY <1>5 DEF SurveyFolder, Sighted
  <2>2. seen' \subseteq Sightings
    BY <2>1, SightedMail DEF TypeOK
  <2>3. fresh' \in SUBSET Promotable
    BY <1>5, FreshTyped DEF SurveyFolder, TypeOK
  <2>. QED BY <1>5, <2>2, <2>3 DEF SurveyFolder, TypeOK
<1>6. ASSUME NEW b \in Promotable, RecordPromotion(b) PROVE TypeOK'
  BY <1>6 DEF RecordPromotion, TypeOK
<1>7. CASE PromotionsRecorded \/ Applied \/ Undone
  BY <1>7 DEF PromotionsRecorded, Applied, Undone, TypeOK
<1>8. CASE SavePlan
  <2>1. PlanItems(seen, Known) \in SUBSET Items
    BY PlanTyped DEF PhasesFit
  <2>2. plans' \in [{1, 2} -> SUBSET Items]
    BY <1>8, <2>1, TwoPlans DEF SavePlan, TypeOK
  <2>. QED BY <1>8, <2>2 DEF SavePlan, TypeOK
<1>9. ASSUME NEW i \in plans[run], Skip(i) PROVE TypeOK'
  <2>1. plans' \in [{1, 2} -> SUBSET Items]
    BY <1>9, MarkedPlans DEF Skip, TypeOK, States
  <2>. QED BY <1>9, <2>1 DEF Skip, TypeOK
<1>10. ASSUME NEW i \in plans[run], Refused(i) PROVE TypeOK'
  <2>1. plans' \in [{1, 2} -> SUBSET Items]
    BY <1>10, MarkedPlans DEF Refused, TypeOK, States
  <2>. QED BY <1>10, <2>1, Counters DEF Refused, TypeOK
<1>11. ASSUME NEW i \in plans[run], Move(i) PROVE TypeOK'
  <2>1. i \in Items /\ i.msg \in Msgs /\ i.dst \in Folders
    BY DEF TypeOK, Items
  <2>2. /\ place' \in [Msgs -> Folders] /\ uid' \in [Msgs -> Nat]
        /\ nextUid' \in [Folders -> Nat]
    BY <1>11, <2>1, MovesToTyped DEF Move
  <2>3. plans' \in [{1, 2} -> SUBSET Items]
    BY <1>11, MarkedPlans DEF Move, TypeOK, States
  <2>4. lastMove' \in [Msgs -> Folders \cup {Nowhere}]
    BY <1>11, <2>1 DEF Move, TypeOK
  <2>5. faults' \in 0..MaxFaults /\ pc' \in {"apply", "idle"}
    BY <1>11, Counters DEF Move, TypeOK
  <2>. QED BY <1>11, <2>2, <2>3, <2>4, <2>5 DEF Move, TypeOK
<1>12. ASSUME NEW i \in undoLeft, UndoItem(i) PROVE TypeOK'
  <2>1. i \in Items /\ i.msg \in Msgs /\ i.src \in Folders
    BY DEF TypeOK, Items
  <2>2. /\ place' \in [Msgs -> Folders] /\ uid' \in [Msgs -> Nat]
        /\ nextUid' \in [Folders -> Nat]
    BY <1>12, <2>1, MovesToTyped DEF UndoItem, TypeOK
  <2>3. lastMove' \in [Msgs -> Folders \cup {Nowhere}]
    BY <1>12, <2>1 DEF UndoItem, Reversed, TypeOK
  <2>4. faults' \in 0..MaxFaults
    BY <1>12, Counters DEF UndoItem, TypeOK
  <2>. QED BY <1>12, <2>2, <2>3, <2>4 DEF UndoItem, TypeOK
<1>13. CASE Killed
  <2>1. PlanItems(seen, Known) \in SUBSET Items
    BY PlanTyped DEF PhasesFit
  <2>2. plans' \in [{1, 2} -> SUBSET Items]
    <3>1. CASE pc = "save"
      <4>1. PICK n : plans' = <<plans[1], Saved(n)>>
        BY <1>13, <3>1 DEF Killed
      <4>2. Saved(n) \in SUBSET Items /\ plans[1] \in SUBSET Items
        BY <2>1 DEF Saved, TypeOK
      <4>. QED BY <4>1, <4>2, TwoPlans
    <3>2. CASE pc # "save"
      BY <1>13, <3>2 DEF Killed, TypeOK
    <3>. QED BY <3>1, <3>2
  <2>3. faults' \in 0..MaxFaults
    BY <1>13, Counters DEF Killed
  <2>. QED BY <1>13, <2>2, <2>3 DEF Killed, TypeOK
<1>14. ASSUME NEW m \in Msgs, Ages(m) \/ OwnerKeeps(m) PROVE TypeOK'
  BY <1>14, Counters DEF Ages, OwnerKeeps, TypeOK
<1>15. ASSUME NEW m \in Msgs, NEW f \in Folders, OwnerMoves(m, f) PROVE TypeOK'
  BY <1>15, Counters, MovesToTyped DEF OwnerMoves, TypeOK
<1>. QED
  BY <1>2, <1>3, <1>4, <1>5, <1>6, <1>7, <1>8, <1>9, <1>10, <1>11, <1>12, <1>13, <1>14, <1>15
  DEF Next, Commands, Plans, Applies, Undoes, OwnerOrTime

LEMMA PhasesStep ==
  ASSUME TypeOK, PhasesFit, Next
  PROVE  PhasesFit'
<1>. USE DEF PhasesFit, mailVars, ownerVars, dbVars, planVars
<1>0. IsFiniteSet({})
  BY FS_EmptySet
<1>1. CASE CronRuns \/ OperatorPlans
  BY <1>0, <1>1 DEF CronRuns, OperatorPlans, Survey
<1>2. ASSUME NEW r \in {1, 2}, Apply(r) \/ Undo(r) PROVE PhasesFit'
  BY <1>2 DEF Apply, Undo
<1>3. ASSUME NEW f \in Folders, SurveyFolder(f) PROVE PhasesFit'
  <2>1. seen' = seen \cup Sighted(f)
    BY <1>3 DEF SurveyFolder, Sighted
  <2>2. IsFiniteSet(Sighted(f))
    BY SightedMail
  <2>3. IsFiniteSet(seen')
    BY <2>1, <2>2, FS_Union
  <2>. QED BY <1>3, <2>3 DEF SurveyFolder
<1>4. ASSUME NEW b \in Promotable, RecordPromotion(b) PROVE PhasesFit'
  BY <1>4 DEF RecordPromotion
<1>5. CASE PromotionsRecorded \/ Applied \/ Undone
  BY <1>5 DEF PromotionsRecorded, Applied, Undone
<1>6. CASE SavePlan \/ Killed
  BY <1>0, <1>6 DEF SavePlan, Killed
<1>7. ASSUME NEW i \in plans[run], Skip(i) \/ Move(i) \/ Refused(i) PROVE PhasesFit'
  BY <1>7 DEF Skip, Move, Refused
<1>8. ASSUME NEW i \in undoLeft, UndoItem(i) PROVE PhasesFit'
  BY <1>8 DEF UndoItem
<1>9. CASE OwnerOrTime
  BY <1>9 DEF OwnerOrTime, Ages, OwnerKeeps, OwnerMoves
<1>. QED
  BY <1>1, <1>2, <1>3, <1>4, <1>5, <1>6, <1>7, <1>8, <1>9
  DEF Next, Commands, Plans, Applies, Undoes

-----------------------------------------------------------------------------
(* The ratchet.                                                             *)

LEMMA EarnedStays ==
  ASSUME promotions \subseteq promotions'
  PROVE  \A m, f : Earned(m, f) => Earned(m, f)'
BY DEF Earned

LEMMA PlacesStep ==
  ASSUME TypeOK, PhasesFit, PlacesEarned, PlansEarned, Next
  PROVE  PlacesEarned'
<1>. USE DEF PlacesEarned, mailVars, ownerVars, dbVars, planVars
<1>1. ASSUME promotions \subseteq promotions', touched' = touched, place' = place,
             seen' \subseteq seen
      PROVE  PlacesEarned'
  BY <1>1, EarnedStays
<1>2. ASSUME UNCHANGED <<promotions, seen>>, touched \subseteq touched', NEW m \in Msgs, NEW f \in Folders,
             m \in touched' \/ Earned(m, f), MovesTo(m, f)
      PROVE  PlacesEarned'
  <2>1. place'[m] = f /\ \A n \in Msgs : n # m => place'[n] = place[n]
    BY <1>2, MovesToTyped
  <2>. QED BY <1>2, <2>1, EarnedStays
<1>3. CASE CronRuns \/ OperatorPlans
  BY <1>1, <1>3 DEF CronRuns, OperatorPlans, Survey
<1>4. ASSUME NEW r \in {1, 2}, Apply(r) \/ Undo(r) PROVE PlacesEarned'
  BY <1>1, <1>4 DEF Apply, Undo
<1>5. ASSUME NEW f \in Folders, SurveyFolder(f) PROVE PlacesEarned'
  <2>1. seen' = seen \cup Sighted(f) /\ UNCHANGED <<place, touched, promotions>>
    BY <1>5 DEF SurveyFolder, Sighted
  <2>2. \A r \in Sighted(f) : r.folder = place[r.msg]
    BY SightedMail
  <2>. QED BY <2>1, <2>2, EarnedStays
<1>6. ASSUME NEW b \in Promotable, RecordPromotion(b) PROVE PlacesEarned'
  BY <1>1, <1>6 DEF RecordPromotion
<1>7. CASE PromotionsRecorded \/ Applied \/ Undone \/ SavePlan \/ Killed
  BY <1>1, <1>7 DEF PromotionsRecorded, Applied, Undone, SavePlan, Killed
<1>8. ASSUME NEW i \in plans[run], Skip(i) \/ Refused(i) PROVE PlacesEarned'
  BY <1>1, <1>8 DEF Skip, Refused
<1>9. ASSUME NEW i \in plans[run], Move(i) PROVE PlacesEarned'
  <2>1. i.msg \in Msgs /\ i.dst \in Folders
    BY DEF TypeOK, Items
  <2>2. i.msg \in touched \/ Earned(i.msg, i.dst)
    BY DEF PlansEarned, TypeOK
  <2>. QED BY <1>2, <1>9, <2>1, <2>2 DEF Move
<1>10. ASSUME NEW i \in undoLeft, UndoItem(i) PROVE PlacesEarned'
  <2>1. i.msg \in Msgs /\ i.src \in Folders /\ i \in plans[run]
    BY <1>10 DEF TypeOK, Items, PhasesFit, UndoItem
  <2>2. i.msg \in touched \/ Earned(i.msg, i.src)
    BY <2>1 DEF PlansEarned, TypeOK
  <2>. QED BY <1>1, <1>2, <1>10, <2>1, <2>2 DEF UndoItem
<1>11. ASSUME NEW m \in Msgs, NEW f \in Folders, OwnerMoves(m, f) PROVE PlacesEarned'
  BY <1>2, <1>11 DEF OwnerMoves
<1>12. ASSUME NEW m \in Msgs, Ages(m) \/ OwnerKeeps(m) PROVE PlacesEarned'
  BY <1>1, <1>12 DEF Ages, OwnerKeeps
<1>. QED
  BY <1>3, <1>4, <1>5, <1>6, <1>7, <1>8, <1>9, <1>10, <1>11, <1>12
  DEF Next, Commands, Plans, Applies, Undoes, OwnerOrTime

\* A plan made of what the survey saw takes nothing out from under a sender.
LEMMA NewPlanEarned ==
  ASSUME TypeOK, PhasesFit, PlacesEarned, NEW i \in PlanItems(seen, Known), i.msg \notin touched
  PROVE  /\ Earned(i.msg, i.src) /\ Earned(i.msg, i.dst)
         /\ i.src # Sub[BucketOf[i.msg]] /\ i.src # i.dst
<1>1. seen \in SUBSET Sightings /\ IsFiniteSet(seen)
  BY DEF TypeOK, PhasesFit
<1>2. i \in Items /\ i.src # i.dst /\ i.dst = Destination(i.msg, promotions)
  BY <1>1, PlannedItems DEF Known
<1>3. \E r \in seen : r.msg = i.msg /\ r.folder = i.src
  BY <1>1, PlannedItems
<1>4. i.msg \in Msgs
  BY <1>2 DEF Items
<1>5. Earned(i.msg, i.src)
  BY <1>3, <1>4 DEF PlacesEarned
<1>6. /\ BucketOf[i.msg] \in promotions => i.dst = Sub[BucketOf[i.msg]]
      /\ BucketOf[i.msg] \notin promotions => i.dst = Flat[BucketOf[i.msg]]
  BY <1>2, <1>4, Destinations
<1>7. Earned(i.msg, i.dst)
  BY <1>6 DEF Earned
<1>8. i.src # Sub[BucketOf[i.msg]]
  BY <1>2, <1>5, <1>6 DEF Earned
<1>. QED BY <1>2, <1>5, <1>7, <1>8

LEMMA PlansStep ==
  ASSUME TypeOK, PhasesFit, PlacesEarned, PlansEarned, Next
  PROVE  PlansEarned'
<1>. USE DEF PlansEarned, mailVars, ownerVars, dbVars, planVars
<1>1. ASSUME promotions \subseteq promotions', touched \subseteq touched',
             \A p \in {1, 2} : \A j \in plans'[p] :
               \E q \in {1, 2} : \E k \in plans[q] :
                 j.msg = k.msg /\ j.src = k.src /\ j.dst = k.dst
      PROVE  PlansEarned'
  <2>1. SUFFICES ASSUME NEW p \in {1, 2}, NEW j \in plans'[p], j.msg \notin touched'
                 PROVE  /\ Earned(j.msg, j.src)' /\ Earned(j.msg, j.dst)'
                        /\ j.src # Sub[BucketOf[j.msg]] /\ j.src # j.dst
    OBVIOUS
  <2>2. \E q \in {1, 2} : \E k \in plans[q] :
          /\ j.msg = k.msg /\ j.src = k.src /\ j.dst = k.dst
          /\ k.msg \notin touched =>
               /\ Earned(k.msg, k.src) /\ Earned(k.msg, k.dst)
               /\ k.src # Sub[BucketOf[k.msg]] /\ k.src # k.dst
    BY <1>1
  <2>3. /\ Earned(j.msg, j.src) /\ Earned(j.msg, j.dst)
        /\ j.src # Sub[BucketOf[j.msg]] /\ j.src # j.dst
    BY <1>1, <2>1, <2>2
  <2>. QED BY <1>1, <2>3, EarnedStays
<1>2. ASSUME promotions \subseteq promotions', touched \subseteq touched', plans' = plans
      PROVE  PlansEarned'
  BY <1>1, <1>2
<1>3. ASSUME UNCHANGED <<promotions, touched>>, NEW A \in SUBSET PlanItems(seen, Known),
             plans' = <<plans[1], A>>
      PROVE  PlansEarned'
  <2>1. PlanItems(seen, Known) \in SUBSET Items
    BY PlanTyped DEF PhasesFit
  <2>2. plans'[1] = plans[1] /\ plans'[2] = A
    BY <1>3
  <2>3. \A i \in A : i.msg \notin touched =>
          /\ Earned(i.msg, i.src) /\ Earned(i.msg, i.dst)
          /\ i.src # Sub[BucketOf[i.msg]] /\ i.src # i.dst
    BY NewPlanEarned
  <2>. QED BY <1>3, <2>2, <2>3, EarnedStays
<1>4. CASE CronRuns \/ OperatorPlans
  <2>1. UNCHANGED <<promotions, touched>> /\ plans' = <<plans[2], {}>>
    BY <1>4 DEF CronRuns, OperatorPlans, Survey
  <2>2. plans'[1] = plans[2] /\ plans'[2] = {}
    BY <2>1
  <2>. QED BY <1>1, <2>1, <2>2
<1>5. ASSUME NEW r \in {1, 2}, Apply(r) \/ Undo(r) PROVE PlansEarned'
  BY <1>2, <1>5 DEF Apply, Undo
<1>6. ASSUME NEW f \in Folders, SurveyFolder(f) PROVE PlansEarned'
  BY <1>2, <1>6 DEF SurveyFolder
<1>7. ASSUME NEW b \in Promotable, RecordPromotion(b) PROVE PlansEarned'
  BY <1>2, <1>7 DEF RecordPromotion
<1>8. CASE PromotionsRecorded \/ Applied \/ Undone
  BY <1>2, <1>8 DEF PromotionsRecorded, Applied, Undone
<1>9. CASE SavePlan
  BY <1>3, <1>9 DEF SavePlan
<1>10. CASE Killed
  BY <1>2, <1>3, <1>10 DEF Killed, Saved
<1>11. ASSUME NEW i \in plans[run], NEW s \in States, Marked(i, s),
              UNCHANGED <<promotions, touched>>
       PROVE  PlansEarned'
  <2>1. \A p \in {1, 2} : \A j \in plans'[p] :
          \E k \in plans[p] : j.msg = k.msg /\ j.src = k.src /\ j.dst = k.dst
    BY <1>11, MarkedPlans DEF TypeOK
  <2>. QED BY <1>1, <1>11, <2>1
<1>12. ASSUME NEW i \in plans[run], Skip(i) \/ Move(i) \/ Refused(i) PROVE PlansEarned'
  BY <1>2, <1>11, <1>12 DEF Skip, Move, Refused, States
<1>13. ASSUME NEW i \in undoLeft, UndoItem(i) PROVE PlansEarned'
  BY <1>2, <1>13 DEF UndoItem
<1>14. CASE OwnerOrTime
  BY <1>2, <1>14 DEF OwnerOrTime, Ages, OwnerKeeps, OwnerMoves
<1>. QED
  BY <1>4, <1>5, <1>6, <1>7, <1>8, <1>9, <1>10, <1>12, <1>13, <1>14
  DEF Next, Commands, Plans, Applies, Undoes

-----------------------------------------------------------------------------
(* The log.                                                                 *)

LEMMA LogStep ==
  ASSUME TypeOK, LogFollowsMail, Next
  PROVE  LogFollowsMail'
<1>. USE DEF LogFollowsMail, mailVars, ownerVars, dbVars, planVars
<1>1. ASSUME UNCHANGED <<place, lastMove, touched>>, faults' = 0 => faults = 0
      PROVE  LogFollowsMail'
  BY <1>1
<1>2. ASSUME NEW m \in Msgs, NEW f \in Folders, MovesTo(m, f), touched \subseteq touched',
             faults' = 0 => faults = 0 /\ \/ lastMove' = [lastMove EXCEPT ![m] = f]
                                          \/ m \in touched' /\ lastMove' = lastMove
      PROVE  LogFollowsMail'
  <2>1. place'[m] = f /\ \A n \in Msgs : n # m => place'[n] = place[n]
    BY <1>2, MovesToTyped
  <2>. QED BY <1>2, <2>1 DEF TypeOK
<1>3. Fault => faults' # 0
  BY Counters
<1>4. CASE Commands
  BY <1>1, <1>4 DEF Commands, CronRuns, OperatorPlans, Survey, Apply, Undo
<1>5. CASE Plans
  BY <1>1, <1>5 DEF Plans, SurveyFolder, RecordPromotion, PromotionsRecorded, SavePlan
<1>6. CASE Applied \/ Undone \/ Killed
  BY <1>1, <1>3, <1>6 DEF Applied, Undone, Killed
<1>7. ASSUME NEW i \in plans[run], Skip(i) \/ Refused(i) PROVE LogFollowsMail'
  BY <1>1, <1>3, <1>7 DEF Skip, Refused
<1>8. ASSUME NEW i \in plans[run], Move(i) PROVE LogFollowsMail'
  <2>1. i.msg \in Msgs /\ i.dst \in Folders
    BY DEF TypeOK, Items
  <2>. QED BY <1>2, <1>3, <1>8, <2>1 DEF Move
<1>9. ASSUME NEW i \in undoLeft, UndoItem(i) PROVE LogFollowsMail'
  <2>1. i.msg \in Msgs /\ i.src \in Folders
    BY DEF TypeOK, Items
  <2>. QED BY <1>1, <1>2, <1>3, <1>9, <2>1 DEF UndoItem, Reversed
<1>10. ASSUME NEW m \in Msgs, NEW f \in Folders, OwnerMoves(m, f) PROVE LogFollowsMail'
  BY <1>2, <1>10 DEF OwnerMoves
<1>11. ASSUME NEW m \in Msgs, Ages(m) \/ OwnerKeeps(m) PROVE LogFollowsMail'
  BY <1>1, <1>11 DEF Ages, OwnerKeeps
<1>. QED
  BY <1>4, <1>5, <1>6, <1>7, <1>8, <1>9, <1>10, <1>11 DEF Next, Applies, Undoes, OwnerOrTime

-----------------------------------------------------------------------------
(* Calm months.                                                             *)

\* Where nothing has failed and nobody has interfered, the step is one of these.
LEMMA CalmSteps ==
  ASSUME TypeOK, SurveyIsTrue, Next, Calm'
  PROVE  /\ Calm /\ touched = {} /\ pc # "undo" /\ run = 2
         /\ \/ Survey(TRUE)
            \/ \E f \in Folders : SurveyFolder(f)
            \/ \E b \in Promotable : RecordPromotion(b)
            \/ PromotionsRecorded \/ SavePlan \/ Applied
            \/ \E i \in plans[run] : Skip(i)
            \/ \E i \in plans[run] : Move(i) /\ Marked(i, "done") /\ pc' = pc
            \/ \E m \in Msgs : Ages(m)
<1>. USE DEF mailVars, ownerVars, dbVars, planVars
<1>1. ~ Fault /\ ~ UserStep
  BY Counters DEF Calm
<1>2. ASSUME userSteps' = userSteps \/ UserStep, faults' = faults \/ Fault PROVE Calm
  BY <1>1, <1>2 DEF Calm
<1>3. CASE CronRuns
  BY <1>2, <1>3 DEF CronRuns, Survey, SurveyIsTrue
<1>4. CASE OperatorPlans \/ \E r \in {1, 2} : Apply(r) \/ Undo(r)
  BY <1>1, <1>4 DEF OperatorPlans, Apply, Undo
<1>5. CASE Plans
  BY <1>2, <1>5 DEF Plans, SurveyFolder, RecordPromotion, PromotionsRecorded, SavePlan, SurveyIsTrue
<1>6. CASE Applied
  BY <1>2, <1>6 DEF Applied, SurveyIsTrue
<1>7. ASSUME NEW i \in plans[run], Skip(i)
      PROVE  Calm /\ touched = {} /\ pc # "undo" /\ run = 2
  BY <1>2, <1>7 DEF Skip, SurveyIsTrue
<1>8. ASSUME NEW i \in plans[run], Move(i)
      PROVE  /\ Calm /\ touched = {} /\ pc # "undo" /\ run = 2
             /\ Marked(i, "done") /\ pc' = pc
  BY <1>1, <1>2, <1>8 DEF Move, SurveyIsTrue
<1>9. ASSUME NEW i \in plans[run], Refused(i) PROVE FALSE
  BY <1>1, <1>9 DEF Refused
<1>10. CASE Undoes
  <2>1. pc = "undo" /\ UNCHANGED userSteps /\ (faults' = faults \/ Fault)
    BY <1>10 DEF Undoes, Undone, UndoItem
  <2>. QED BY <1>2, <2>1 DEF SurveyIsTrue
<1>11. CASE Killed
  BY <1>1, <1>11 DEF Killed
<1>12. ASSUME NEW m \in Msgs, Ages(m)
       PROVE  Calm /\ touched = {} /\ pc # "undo" /\ run = 2
  BY <1>2, <1>12 DEF Ages, SurveyIsTrue
<1>13. ASSUME NEW m \in Msgs, OwnerKeeps(m) \/ \E f \in Folders : OwnerMoves(m, f) PROVE FALSE
  BY <1>1, <1>13 DEF OwnerKeeps, OwnerMoves
<1>. QED
  BY <1>3, <1>4, <1>5, <1>6, <1>7, <1>8, <1>9, <1>10, <1>11, <1>12, <1>13
  DEF Next, Commands, Plans, Applies, OwnerOrTime

LEMMA SurveyStep ==
  ASSUME TypeOK, PhasesFit, SurveyIsTrue, Next
  PROVE  SurveyIsTrue'
<1>. USE DEF mailVars, ownerVars, dbVars, planVars
<1>. SUFFICES ASSUME Calm' PROVE SurveyIsTrue'
  BY DEF SurveyIsTrue
<1>0. Calm /\ touched = {} /\ pc # "undo" /\ run = 2
  BY CalmSteps
<1>1. CASE Survey(TRUE)
  BY <1>0, <1>1 DEF Survey, SurveyIsTrue
<1>2. ASSUME NEW f \in Folders, SurveyFolder(f) PROVE SurveyIsTrue'
  <2>1. /\ seen' = seen \cup Sighted(f) /\ f \in toSurvey /\ toSurvey' = toSurvey \ {f}
        /\ UNCHANGED <<place, uid, touched, run>> /\ pc = "survey"
        /\ pc' \in {"survey", "promote"}
    BY <1>2 DEF SurveyFolder, Sighted, NextFolder
  <2>2. \A r \in seen : /\ r.folder = place[r.msg] /\ r.uid = uid[r.msg]
                        /\ r.folder \notin toSurvey
    BY <1>0 DEF SurveyIsTrue
  <2>3. \A r \in Sighted(f) : r.folder = f /\ place[r.msg] = f /\ r.uid = uid[r.msg]
    BY SightedMail
  <2>4. \A r \in seen' : /\ r.folder = place'[r.msg] /\ r.uid = uid'[r.msg]
                         /\ r.folder \notin toSurvey'
    BY <2>1, <2>2, <2>3
  <2>5. \A r \in seen, q \in Sighted(f) : r.msg # q.msg
    BY <2>1, <2>2, <2>3
  <2>6. \A r, q \in seen' : r.msg = q.msg => r = q
    BY <1>0, <2>1, <2>5, SightedMail DEF SurveyIsTrue
  <2>7. \A m \in Msgs : place'[m] \in ({Source} \cup Tree) \ toSurvey' =>
                          \E r \in seen' : r.msg = m
    <3>. SUFFICES ASSUME NEW m \in Msgs, place[m] \in ({Source} \cup Tree) \ toSurvey'
                  PROVE  \E r \in seen' : r.msg = m
      BY <2>1
    <3>1. CASE place[m] = f
      BY <2>1, <3>1, SightedMail
    <3>2. CASE place[m] # f
      BY <1>0, <2>1, <3>2 DEF SurveyIsTrue
    <3>. QED BY <3>1, <3>2
  <2>8. touched' = {} /\ pc' # "undo" /\ run' = 2
    BY <1>0, <2>1
  <2>. QED BY <2>4, <2>6, <2>7, <2>8 DEF SurveyIsTrue
<1>3. ASSUME UNCHANGED <<place, uid, touched, run, seen, toSurvey>>, pc' # "undo",
             pc' \in {"survey", "promote", "save"} => pc \in {"survey", "promote", "save"}
      PROVE  SurveyIsTrue'
  BY <1>0, <1>3 DEF SurveyIsTrue
<1>4. ASSUME seen' = {}, touched' = touched, run' = 2, pc' \in {"idle", "apply"}
      PROVE  SurveyIsTrue'
  BY <1>0, <1>4 DEF SurveyIsTrue
<1>5. ASSUME NEW b \in Promotable, RecordPromotion(b) PROVE SurveyIsTrue'
  BY <1>3, <1>5 DEF RecordPromotion
<1>6. CASE PromotionsRecorded \/ Applied
  BY <1>0, <1>3, <1>6 DEF PromotionsRecorded, Applied
<1>7. CASE SavePlan
  BY <1>4, <1>7 DEF SavePlan
<1>8. ASSUME NEW i \in plans[run], Skip(i) PROVE SurveyIsTrue'
  BY <1>3, <1>8 DEF Skip
<1>9. ASSUME NEW i \in plans[run], Move(i), pc' = pc PROVE SurveyIsTrue'
  BY <1>0, <1>4, <1>9 DEF Move, PhasesFit
<1>10. ASSUME NEW m \in Msgs, Ages(m) PROVE SurveyIsTrue'
  BY <1>0, <1>3, <1>10 DEF Ages
<1>. QED BY <1>1, <1>2, <1>5, <1>6, <1>7, <1>8, <1>9, <1>10, CalmSteps

\* A plan made of a true survey: what it moves is in place, and in front of new mail
\* for a promoted sender stands the mail that sender has elsewhere.
LEMMA TruePlan ==
  ASSUME TypeOK, PhasesFit, SurveyIsTrue, Calm, pc = "save"
  PROVE  /\ \A i \in PlanItems(seen, promotions) :
              InPlace(i) /\ i.src # i.dst /\ i.dst = Destination(i.msg, promotions)
         /\ \A i, j \in PlanItems(seen, promotions) : i.msg = j.msg => i = j
         /\ \A i \in PlanItems(seen, promotions), n \in Msgs :
              /\ i.src = Source /\ BucketOf[i.msg] = BucketOf[n] /\ BucketOf[n] \in Promotable
              /\ i.dst = Sub[BucketOf[n]] /\ place[n] = Flat[BucketOf[n]]
              => \E j \in PlanItems(seen, promotions) : j.msg = n /\ j.seq < i.seq
<1>1. /\ seen \in SUBSET Sightings /\ IsFiniteSet(seen) /\ toSurvey = {}
      /\ \A r \in seen : r.folder = place[r.msg] /\ r.uid = uid[r.msg]
      /\ \A r, q \in seen : r.msg = q.msg => r = q
      /\ \A m \in Msgs : place[m] \in {Source} \cup Tree => \E r \in seen : r.msg = m
  BY DEF TypeOK, PhasesFit, SurveyIsTrue
<1>2. ASSUME NEW i \in PlanItems(seen, promotions)
      PROVE  InPlace(i) /\ i.src # i.dst /\ i.dst = Destination(i.msg, promotions)
  BY <1>1, PlannedItems DEF InPlace
<1>3. \A i, j \in PlanItems(seen, promotions) : i.msg = j.msg => i = j
  BY <1>1, OneItemEach
<1>4. ASSUME NEW i \in PlanItems(seen, promotions), NEW n \in Msgs,
             i.src = Source, BucketOf[i.msg] = BucketOf[n], BucketOf[n] \in Promotable,
             i.dst = Sub[BucketOf[n]], place[n] = Flat[BucketOf[n]]
      PROVE  \E j \in PlanItems(seen, promotions) : j.msg = n /\ j.seq < i.seq
  <2>1. PICK r \in Moves(seen, promotions) :
          /\ r \in seen /\ i.msg = r.msg /\ i.src = r.folder
          /\ i.seq = Position(r, seen, promotions) /\ (Cap = 0 \/ i.seq <= Cap)
    BY <1>1, PlannedItems
  <2>2. i.msg \in Msgs /\ i.dst = Destination(i.msg, promotions)
    BY <1>1, PlannedItems DEF Items
  <2>3. BucketOf[n] \in Buckets /\ Flat[BucketOf[n]] # Sub[BucketOf[n]]
        /\ Flat[BucketOf[n]] # Source
    BY <1>4, PlannerAssumption DEF PlannerAssumption
  <2>4. BucketOf[n] \in promotions
    BY <1>4, <2>2, <2>3, Destinations
  <2>5. Destination(n, promotions) = Sub[BucketOf[n]]
    BY <2>4, Destinations
  <2>6. place[n] \in Tree
    BY <1>4, <2>3, CycleAssumption DEF CycleAssumption
  <2>7. PICK q \in seen : q.msg = n
    BY <1>1, <2>6
  <2>8. q.folder = Flat[BucketOf[n]]
    BY <1>1, <1>4, <2>7
  <2>9. q \in Moves(seen, promotions) /\ Backfill(q) /\ ~ Backfill(r)
    BY <1>4, <2>1, <2>3, <2>5, <2>7, <2>8 DEF Moves, Misplaced, Archived, Backfill
  <2>10. Position(q, seen, promotions) < i.seq
    BY <1>1, <2>1, <2>9, BackfillsFirst
  <2>11. Position(q, seen, promotions) \in Nat /\ i.seq \in Nat /\ Cap \in Nat
    <3>1. Position(q, seen, promotions) \in Nat \ {0} /\ Position(r, seen, promotions) \in Nat \ {0}
      BY <1>1, Positions
    <3>. QED BY <2>1, <3>1, PlannerAssumption DEF PlannerAssumption
  <2>12. Cap = 0 \/ Position(q, seen, promotions) <= Cap
    BY <2>1, <2>10, <2>11
  <2>. QED BY <2>7, <2>9, <2>10, <2>12, MovesPlanned
<1>. QED BY <1>2, <1>3, <1>4

LEMMA BackfillsStep ==
  ASSUME TypeOK, PhasesFit, LogFollowsMail, SurveyIsTrue, BackfillsAhead, Next
  PROVE  BackfillsAhead'
<1>. USE DEF mailVars, ownerVars, dbVars, planVars
<1>. SUFFICES ASSUME Calm', pc' = "apply" PROVE BackfillsAhead'
  BY DEF BackfillsAhead
<1>0. Calm /\ touched = {} /\ run = 2
  BY CalmSteps
<1>1. CASE SavePlan
  <2>1. plans' = <<plans[1], PlanItems(seen, promotions)>> /\ run' = 2 /\ pc = "save"
        /\ UNCHANGED <<place, uid, promotions>>
    BY <1>1 DEF SavePlan, Known
  <2>2. plans'[run'] = PlanItems(seen, promotions)
    BY <2>1
  <2>3. \A i \in PlanItems(seen, promotions) : i.state = "pending"
    BY PlannedItems DEF TypeOK, PhasesFit
  <2>4. Pending' = PlanItems(seen, promotions)
    BY <2>2, <2>3 DEF Pending
  <2>. QED BY <1>0, <2>1, <2>4, TruePlan DEF BackfillsAhead, InPlace
<1>2. ASSUME NEW i \in plans[run], pc = "apply", Turn(i)
      PROVE  /\ InPlace(i) /\ i \in Pending /\ i \in Items
             /\ i.dst = Destination(i.msg, promotions) /\ i.src # i.dst
  BY <1>0, <1>2 DEF BackfillsAhead, Turn, TypeOK
<1>3. ASSUME NEW i \in plans[run], Skip(i) PROVE FALSE
  <2>1. InPlace(i) /\ i.msg \in Msgs /\ i.dst \in Folders /\ i.dst # i.src
    BY <1>2, <1>3 DEF Skip, Items
  <2>2. lastMove[i.msg] \in {Nowhere, place[i.msg]} /\ place[i.msg] = i.src
    BY <1>0, <2>1 DEF Calm, LogFollowsMail, InPlace
  <2>3. i.dst # Nowhere
    BY <2>1, CycleAssumption DEF CycleAssumption
  <2>. QED BY <1>3, <2>1, <2>2, <2>3 DEF Skip, SkipsItem
<1>4. ASSUME NEW i \in plans[run], Move(i), Marked(i, "done"), pc' = pc PROVE BackfillsAhead'
  <2>1. /\ i \in Pending /\ i \in Items /\ i.msg \in Msgs /\ i.dst \in Folders
        /\ i.dst = Destination(i.msg, promotions) /\ pc = "apply"
    BY <1>2, <1>4 DEF Move, Items
  <2>2. /\ place'[i.msg] = i.dst
        /\ \A n \in Msgs : n # i.msg => place'[n] = place[n] /\ uid'[n] = uid[n]
    BY <1>4, <2>1, MovesToTyped DEF Move
  <2>3. UNCHANGED <<promotions, run>>
    BY <1>4 DEF Move
  <2>4. /\ \A j \in plans'[run] : j \in plans[run] \ {i} \/ j.state = "done"
        /\ plans[run] \ {i} \subseteq plans'[run]
    BY <1>4, MarkedPlans DEF TypeOK, States
  <2>5. Pending' = Pending \ {i}
    BY <2>3, <2>4 DEF Pending
  <2>6. \A j \in Pending : j # i => j.msg # i.msg
    BY <1>0, <2>1 DEF BackfillsAhead
  <2>7. \A j \in Pending : j.msg \in Msgs
    BY DEF Pending, TypeOK, Items
  <2>8. \A j \in Pending' : InPlace(j)' /\ j.src # j.dst /\ j.dst = Destination(j.msg, promotions)'
    BY <1>0, <2>1, <2>2, <2>3, <2>5, <2>6, <2>7 DEF BackfillsAhead, InPlace, Destination
  <2>9. \A j, k \in Pending' : j.msg = k.msg => j = k
    BY <1>0, <2>1, <2>5 DEF BackfillsAhead
  <2>10. ASSUME NEW k \in Pending', NEW n \in Msgs,
                k.src = Source, BucketOf[k.msg] = BucketOf[n], BucketOf[n] \in Promotable,
                k.dst = Sub[BucketOf[n]], place'[n] = Flat[BucketOf[n]]
         PROVE  \E j \in Pending' : j.msg = n /\ j.seq < k.seq
    <3>1. k \in Pending /\ k.dst = Destination(k.msg, promotions)
      BY <1>0, <2>1, <2>5, <2>10 DEF BackfillsAhead
    <3>2. n # i.msg
      <4>. SUFFICES ASSUME n = i.msg PROVE FALSE
        OBVIOUS
      <4>1. Destination(k.msg, promotions) = Destination(i.msg, promotions)
        BY <2>10 DEF Destination
      <4>2. i.dst = Flat[BucketOf[n]]
        BY <2>2, <2>10
      <4>3. Flat[BucketOf[n]] # Sub[BucketOf[n]]
        BY <2>10, PlannerAssumption DEF PlannerAssumption
      <4>. QED BY <2>1, <2>10, <3>1, <4>1, <4>2, <4>3
    <3>3. place[n] = Flat[BucketOf[n]]
      BY <2>2, <2>10, <3>2
    <3>4. PICK j \in Pending : j.msg = n /\ j.seq < k.seq
      BY <1>0, <2>1, <2>10, <3>1, <3>3 DEF BackfillsAhead
    <3>. QED BY <2>5, <3>2, <3>4
  <2>. QED BY <2>8, <2>9, <2>10 DEF BackfillsAhead
<1>5. ASSUME NEW m \in Msgs, Ages(m) PROVE BackfillsAhead'
  BY <1>0, <1>5 DEF Ages, BackfillsAhead, Pending, InPlace
<1>6. CASE Survey(TRUE) \/ PromotionsRecorded \/ Applied
  BY <1>6 DEF Survey, PromotionsRecorded, Applied
<1>7. ASSUME NEW f \in Folders, SurveyFolder(f) PROVE FALSE
  BY <1>7 DEF SurveyFolder
<1>8. ASSUME NEW b \in Promotable, RecordPromotion(b) PROVE FALSE
  BY <1>8 DEF RecordPromotion
<1>. QED BY <1>1, <1>3, <1>4, <1>5, <1>6, <1>7, <1>8, CalmSteps

-----------------------------------------------------------------------------
(* The theorems.                                                            *)

\* The parts hold at the start and at every step: types, phases, what mail has
\* earned its place, and a calm month's survey and plan (runner.py 57-170).
THEOREM CycleInvariance ==
  Spec => []CycleInv
<1>1. Init => CycleInv
  <2>. SUFFICES ASSUME Init PROVE CycleInv
    OBVIOUS
  <2>1. TypeOK
    BY InitTyped
  <2>2. IsFiniteSet(seen) /\ PhasesFit
    BY FS_EmptySet DEF Init, PhasesFit
  <2>3. PlansEarned
    BY DEF Init, PlansEarned
  <2>4. PlacesEarned
    <3>1. \A m \in Msgs : Flat[BucketOf[m]] # Source /\ Sub[BucketOf[m]] # Source
      BY PlannerAssumption DEF PlannerAssumption
    <3>. QED BY <3>1 DEF Init, PlacesEarned, Earned
  <2>. QED BY <2>1, <2>2, <2>3, <2>4
       DEF Init, CycleInv, LogFollowsMail, SurveyIsTrue, BackfillsAhead
<1>2. CycleInv /\ [Next]_vars => CycleInv'
  <2>. SUFFICES ASSUME CycleInv, [Next]_vars PROVE CycleInv'
    OBVIOUS
  <2>1. CASE Next
    BY <2>1, TypeStep, PhasesStep, PlacesStep, PlansStep, LogStep, SurveyStep, BackfillsStep
    DEF CycleInv
  <2>2. CASE UNCHANGED vars
    BY <2>2 DEF vars, mailVars, ownerVars, dbVars, planVars, CycleInv, TypeOK, PhasesFit,
                PlacesEarned, PlansEarned, Earned, LogFollowsMail, SurveyIsTrue, Calm,
                BackfillsAhead, Pending, InPlace, Destination
  <2>. QED BY <2>1, <2>2
<1>. QED BY <1>1, <1>2, PTL DEF Spec

\* Every reachable state is well typed; in particular only senders of kind `domain`
\* are ever promoted (planner.py 64-69).
THEOREM CycleTypeCorrect ==
  Spec => []TypeOK
<1>1. CycleInv => TypeOK
  BY DEF CycleInv
<1>. QED BY <1>1, CycleInvariance, PTL

\* Mail filed under a promoted sender is never filed back under the domain, through
\* kills, undos and stale plans (planner.py 64-69, runner.py 153-154).
THEOREM RatchetHolds ==
  Spec => NeverDemoted
<1>. DEFINE Kept == \A m \in Msgs :
                      pc = "apply" /\ place'[m] # place[m] /\ touched' = touched /\ m \notin touched
                        => place[m] # Sub[BucketOf[m]]
<1>. USE DEF mailVars, ownerVars, dbVars, planVars
<1>1. ASSUME CycleInv, Next PROVE Kept
  <2>. SUFFICES ASSUME NEW m \in Msgs, pc = "apply", place'[m] # place[m],
                       touched' = touched, m \notin touched
                PROVE  place[m] # Sub[BucketOf[m]]
    OBVIOUS
  <2>1. ASSUME NEW i \in plans[run], Move(i) PROVE place[m] # Sub[BucketOf[m]]
    <3>1. i.msg \in Msgs /\ i.dst \in Folders /\ run \in {1, 2}
      BY <1>1 DEF CycleInv, TypeOK, Items
    <3>2. m = i.msg
      BY <1>1, <2>1, <3>1, MovesToTyped DEF Move, CycleInv
    <3>3. place[m] = i.src
      BY <2>1, <3>2 DEF Move, SkipsItem, InPlace
    <3>. QED BY <1>1, <3>1, <3>2, <3>3 DEF CycleInv, PlansEarned
  <2>2. ASSUME NEW n \in Msgs, NEW f \in Folders, OwnerMoves(n, f) PROVE FALSE
    <3>1. m = n
      BY <1>1, <2>2, MovesToTyped DEF OwnerMoves, CycleInv
    <3>. QED BY <2>2, <3>1 DEF OwnerMoves
  <2>3. CASE Commands \/ Plans \/ Undoes
    BY <2>3 DEF Commands, CronRuns, OperatorPlans, Survey, Apply, Undo, Plans, SurveyFolder,
                RecordPromotion, PromotionsRecorded, SavePlan, Undoes, Undone, UndoItem
  <2>4. CASE Applied \/ Killed \/ \E i \in plans[run] : Skip(i) \/ Refused(i)
    BY <2>4 DEF Applied, Killed, Skip, Refused
  <2>5. CASE \E n \in Msgs : Ages(n) \/ OwnerKeeps(n)
    BY <2>5 DEF Ages, OwnerKeeps
  <2>. QED BY <1>1, <2>1, <2>2, <2>3, <2>4, <2>5 DEF Next, Applies, OwnerOrTime
<1>2. CycleInv /\ [Next]_vars => [Kept]_vars
  BY <1>1
<1>. QED BY <1>2, CycleInvariance, PTL DEF Spec, NeverDemoted

\* Without faults, the log never says of a message nobody has moved that it is filed
\* when it is not (already_moved, index.py 265-288).
THEOREM LogIsNoObstacle ==
  Spec => []LogBlocksNothing
<1>1. CycleInv => LogBlocksNothing
  <2>. SUFFICES ASSUME CycleInv, NEW m \in Msgs, Blocked(m), m \notin touched, ~ (faults > 0)
                PROVE  FALSE
    BY DEF LogBlocksNothing
  <2>1. faults = 0
    BY Counters DEF CycleInv
  <2>2. lastMove[m] \in {Nowhere, place[m]}
    BY <2>1 DEF CycleInv, LogFollowsMail
  <2>3. Destination(m, promotions) # Nowhere
    BY Destinations
  <2>. QED BY <2>2, <2>3 DEF Blocked, Filed
<1>. QED BY <1>1, CycleInvariance, PTL

\* In calm months new mail joins a promoted folder only when the older mail of the
\* sender is in it, whatever the cap cuts off (planner.py 90-106).
THEOREM BackfillsComeFirst ==
  Spec => NewMailJoinsLast
<1>. DEFINE Last == \A m \in Msgs :
       /\ faults' = 0 /\ userSteps' = 0 /\ place[m] = Source
       /\ BucketOf[m] \in Promotable /\ place'[m] = Sub[BucketOf[m]]
       => \A n \in Msgs : BucketOf[n] = BucketOf[m] => place[n] # Flat[BucketOf[n]]
<1>. USE DEF mailVars, ownerVars, dbVars, planVars
<1>1. ASSUME CycleInv, Next PROVE Last
  <2>. SUFFICES ASSUME NEW m \in Msgs, Calm', place[m] = Source, BucketOf[m] \in Promotable,
                       place'[m] = Sub[BucketOf[m]], NEW n \in Msgs, BucketOf[n] = BucketOf[m],
                       place[n] = Flat[BucketOf[n]]
                PROVE  FALSE
    BY DEF Calm
  <2>1. place'[m] # place[m]
    BY PlannerAssumption DEF PlannerAssumption
  <2>2. Calm
    BY <1>1, CalmSteps DEF CycleInv
  <2>3. PICK i \in plans[run] : Move(i)
    BY <1>1, <2>1, CalmSteps
    DEF CycleInv, Survey, SurveyFolder, RecordPromotion, PromotionsRecorded, SavePlan, Applied,
        Skip, Ages
  <2>4. i \in Items /\ i.msg \in Msgs /\ i.dst \in Folders
    BY <1>1, <2>3 DEF CycleInv, TypeOK, Items
  <2>5. m = i.msg /\ place'[m] = i.dst
    BY <1>1, <2>1, <2>3, <2>4, MovesToTyped DEF Move, CycleInv
  <2>6. i.src = Source /\ i \in Pending /\ pc = "apply"
    BY <2>3, <2>5 DEF Move, SkipsItem, InPlace, Turn
  <2>7. PICK j \in Pending : j.msg = n /\ j.seq < i.seq
    BY <1>1, <2>2, <2>5, <2>6 DEF CycleInv, BackfillsAhead
  <2>8. i.seq <= j.seq
    BY <2>3 DEF Move, Turn
  <2>9. i.seq \in Nat /\ j.seq \in Nat
    BY <1>1, <2>4 DEF CycleInv, TypeOK, Pending, Items
  <2>. QED BY <2>7, <2>8, <2>9
<1>2. CycleInv /\ [Next]_vars => [Last]_vars
  BY <1>1
<1>. QED BY <1>2, CycleInvariance, PTL DEF Spec, NewMailJoinsLast

=============================================================================
