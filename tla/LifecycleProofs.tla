-------------------------- MODULE LifecycleProofs ---------------------------
(***************************************************************************)
(* Proofs about Lifecycle, for any number of runs, plans, minutes, suffix  *)
(* lists and deaths.                                                       *)
(*                                                                         *)
(* The steps of LifeNext are taken by kind: a command opens a row          *)
(* (BeginsRow), finishes the row it is on (ClosesRow), leaves the tables   *)
(* and itself as they are (Aside), or is one of the rest by its name.      *)
(* LifeInv is proved part by part over these kinds.                        *)
(***************************************************************************)
EXTENDS Lifecycle, PlanLedgerProofs, FiniteSetTheorems, SequenceTheorems

RunRows == [mode : Modes, status : Statuses, list : 0..limit.lists]

BeginsRow ==
  \E c \in {"plan", "run", "undo", "rebuild"}, mode \in Modes, target \in Nat :
    Begins(c, mode, target) /\ (mode = "plan" <=> c \in {"plan", "run"})

ClosesRow ==
  /\ proc.at \in {"close", "apply", "undo", "rebuild"}
  /\ \E s \in {"ok", "failed", "completed_with_failures"} :
       /\ Closes(proc.run, s)
       /\ s = "completed_with_failures" =>
            proc.at = "apply" /\ proc.failed /\ Pending(proc.run) = {}

Aside == UNCHANGED <<tables, proc, retention, lastList, ghosts>>

Applying == \E r \in Nat, named \in BOOLEAN : Apply(r, named) /\ (named \/ r = Len(runs))

LEMMA Bounds ==
  ASSUME limit \in Limits
  PROVE  /\ limit.runs \in Nat /\ limit.minutes \in Nat \ {0}
         /\ limit.lists \in Nat \ {0} /\ limit.deaths \in Nat
         /\ 1..limit.runs \subseteq Runs
BY LifecycleAssumption DEF LifecycleAssumption

LEMMA RunRowsTyped ==
  ASSUME LifeTypeOK
  PROVE  /\ runs \in Seq(RunRows) /\ Len(runs) \in Nat /\ DOMAIN runs = 1..Len(runs)
         /\ \A r \in DOMAIN runs : runs[r] \in RunRows
<1>1. runs \in Seq(RunRows)
  BY DEF LifeTypeOK, RunRows
<1>. QED BY <1>1

\* To finish a row changes its status and nothing else.
LEMMA FinishedRow ==
  ASSUME LifeTypeOK, NEW r \in DOMAIN runs, NEW s \in Statuses
  PROVE  /\ Finished(r, s) \in Seq(RunRows) /\ Len(Finished(r, s)) = Len(runs)
         /\ DOMAIN Finished(r, s) = DOMAIN runs
         /\ Finished(r, s)[r].status = s
         /\ \A q \in DOMAIN runs : /\ q # r => Finished(r, s)[q] = runs[q]
                                   /\ Finished(r, s)[q].list = runs[q].list
<1>. DEFINE row == [runs[r] EXCEPT !.status = s]
<1>1. runs \in Seq(RunRows) /\ runs[r] \in RunRows /\ r \in 1..Len(runs)
  BY RunRowsTyped
<1>2. row \in RunRows /\ row.status = s /\ row.list = runs[r].list
  BY <1>1 DEF RunRows
<1>3. Finished(r, s) = [runs EXCEPT ![r] = row]
  BY DEF Finished
<1>. HIDE DEF row
<1>4. [runs EXCEPT ![r] = row] \in Seq(RunRows)
  BY <1>1, <1>2, ExceptSeq
<1>5. /\ Len([runs EXCEPT ![r] = row]) = Len(runs)
      /\ \A j \in 1..Len(runs) : [runs EXCEPT ![r] = row][j] = IF j = r THEN row ELSE runs[j]
  BY <1>1, <1>2, ExceptSeq
<1>6. DOMAIN [runs EXCEPT ![r] = row] = 1..Len(runs)
  BY <1>4, <1>5
<1>. QED BY <1>1, <1>2, <1>3, <1>4, <1>5, <1>6

LEMMA MovesCounted ==
  ASSUME LifeTypeOK, NEW r
  PROVE  Cardinality(MovesOf(r)) \in Nat
<1>1. Len(moves) \in Nat
  BY DEF LifeTypeOK, LedgerTypeOK
<1>2. IsFiniteSet(1..Len(moves))
  BY <1>1, FS_Interval
<1>3. MovesOf(r) \in SUBSET (1..Len(moves))
  BY DEF MovesOf
<1>4. IsFiniteSet(MovesOf(r))
  BY <1>2, <1>3, FS_Subset
<1>. QED BY <1>4, FS_CardinalityType

\* Every step is of one of these kinds.
LEMMA StepKinds ==
  ASSUME LifeTypeOK, ProcInPlace, LifeNext
  PROVE  \/ BeginsRow \/ ClosesRow \/ Applying \/ Aside \/ SavePlan \/ Fatal \/ Dies
         \/ \E i \in Items, v \in Verdicts : JudgeItem(i, v)
         \/ \E v \in Verdicts : Reverse(v)
<1>1. Len(runs) \in Nat /\ \A r \in DOMAIN runs : r \in Nat
  BY RunRowsTyped
<1>2. CASE Plan \/ Run \/ Rebuild
  BY <1>2 DEF Plan, Run, Rebuild, BeginsRow, Modes
<1>3. CASE \E r \in Runs : Undo(r)
  BY <1>1, <1>3 DEF Undo, BeginsRow, Modes
<1>4. CASE FinishPlan \/ FinishRebuild
  BY <1>4 DEF FinishPlan, FinishRebuild, ClosesRow
<1>5. CASE FinishUndo
  BY <1>5 DEF FinishUndo, ClosesRow
<1>6. CASE FinishApply
  BY <1>6 DEF FinishApply, ClosesRow
<1>7. CASE ApplyLatest
  BY <1>1, <1>7 DEF ApplyLatest, LatestRun, Applying
<1>8. CASE ApplyNamed
  <2>1. PICK r \in Runs : Apply(r, TRUE)
    BY <1>8 DEF ApplyNamed
  <2>2. r \in Nat
    BY <1>1, <2>1 DEF Apply
  <2>. QED BY <2>1, <2>2 DEF Applying
<1>9. CASE UndoNothing \/ Look \/ Check
  BY <1>9 DEF UndoNothing, Look, Check, Aside
<1>10. CASE Tick \/ PutBack \/ Revendor
  BY <1>10 DEF Tick, PutBack, Revendor, Aside, listVars, logVars
<1>. QED
  BY <1>2, <1>3, <1>4, <1>5, <1>6, <1>7, <1>8, <1>9, <1>10
  DEF LifeNext, Plans, Applies, Undoes, Others

\* A row that is opened stands behind all others, and the process is on it.
LEMMA BegunRow ==
  ASSUME LifeTypeOK, ProcInPlace, BeginsRow
  PROVE  /\ proc.at = "idle"
         /\ runs' \in Seq(RunRows) /\ Len(runs') = Len(runs) + 1 /\ Len(runs') <= limit.runs
         /\ DOMAIN runs' = 1..Len(runs) + 1
         /\ \A r \in DOMAIN runs : r \in DOMAIN runs' /\ runs'[r] = runs[r]
         /\ runs'[Len(runs) + 1].status = "running" /\ runs'[Len(runs) + 1].list = bundled
         /\ proc'.at \in {"survey", "undo", "rebuild"}
         /\ proc'.cmd \in {"plan", "run", "undo", "rebuild"}
         /\ proc'.at = "survey" <=> proc'.cmd \in {"plan", "run"}
         /\ proc'.run = Len(runs) + 1 /\ proc'.active = 0 /\ proc'.failed = FALSE
         /\ proc'.named = FALSE /\ proc'.target \in Nat /\ proc'.left \in Nat
         /\ proc' \in [at : Steps, cmd : Commands, run : Nat, active : Nat, named : BOOLEAN,
                       target : Nat, left : Nat, failed : BOOLEAN]
         /\ lastList' = bundled /\ checked' = "none"
         /\ logs' = Opened
         /\ UNCHANGED <<planned, ledgerVars, bundled, clock, retention, putBack, ghosts>>
<1>1. PICK c \in {"plan", "run", "undo", "rebuild"}, mode \in Modes, target \in Nat :
        Begins(c, mode, target) /\ (mode = "plan" <=> c \in {"plan", "run"})
  BY DEF BeginsRow
<1>. DEFINE row == [mode |-> mode, status |-> "running", list |-> bundled]
<1>2. /\ runs \in Seq(RunRows) /\ Len(runs) \in Nat /\ DOMAIN runs = 1..Len(runs)
      /\ row \in RunRows
  BY RunRowsTyped DEF LifeTypeOK, RunRows, Statuses
<1>3. runs' = Append(runs, row) /\ Len(runs) < limit.runs /\ limit.runs \in Nat
  BY <1>1, Bounds DEF Begins, StartRun, Stamp, ProcInPlace
<1>4. row.status = "running" /\ row.list = bundled
  OBVIOUS
<1>. HIDE DEF row
<1>5. /\ runs' \in Seq(RunRows) /\ Len(runs') = Len(runs) + 1 /\ DOMAIN runs' = 1..Len(runs) + 1
      /\ \A r \in DOMAIN runs : r \in DOMAIN runs' /\ runs'[r] = runs[r]
      /\ runs'[Len(runs) + 1] = row
  BY <1>2, <1>3
<1>6. Cardinality(MovesOf(target)) \in Nat
  BY MovesCounted
<1>7. proc' = [at |-> IF mode = "plan" THEN "survey" ELSE c, cmd |-> c, run |-> Len(runs) + 1,
               active |-> 0, named |-> FALSE, target |-> target,
               left |-> Cardinality(MovesOf(target)), failed |-> FALSE]
  BY <1>1 DEF Begins, Idle
<1>8. proc' \in [at : Steps, cmd : Commands, run : Nat, active : Nat, named : BOOLEAN,
                 target : Nat, left : Nat, failed : BOOLEAN]
  BY <1>1, <1>2, <1>6, <1>7 DEF Steps, Commands
<1>9. /\ proc.at = "idle" /\ lastList' = bundled /\ checked' = "none"
      /\ logs' = Opened
      /\ UNCHANGED <<planned, ledgerVars, bundled, clock, retention, putBack, ghosts>>
  BY <1>1 DEF Begins, Opens, StartRun
<1>10. /\ proc'.at \in {"survey", "undo", "rebuild"}
       /\ proc'.cmd \in {"plan", "run", "undo", "rebuild"}
       /\ proc'.at = "survey" <=> proc'.cmd \in {"plan", "run"}
  BY <1>1, <1>7
<1>. QED BY <1>2, <1>3, <1>4, <1>5, <1>6, <1>7, <1>8, <1>9, <1>10

\* The process at rest.
LEMMA AtRest ==
  /\ Idle \in [at : Steps, cmd : Commands, run : Nat, active : Nat, named : BOOLEAN,
               target : Nat, left : Nat, failed : BOOLEAN]
  /\ Idle.at = "idle" /\ Idle.active = 0 /\ Idle.run = 0 /\ Idle.left = 0
BY DEF Idle, Steps, Commands

\* A way out finishes the row in hand.
LEMMA ClosedRow ==
  ASSUME LifeTypeOK, ProcInPlace, ClosesRow
  PROVE  /\ proc.run \in DOMAIN runs /\ proc' = Idle
         /\ runs' \in Seq(RunRows) /\ Len(runs') = Len(runs) /\ DOMAIN runs' = DOMAIN runs
         /\ \A q \in DOMAIN runs : /\ q # proc.run => runs'[q] = runs[q]
                                   /\ runs'[q].list = runs[q].list
         /\ runs'[proc.run].status \in {"ok", "failed", "completed_with_failures"}
         /\ runs'[proc.run].status = "completed_with_failures" =>
              proc.at = "apply" /\ proc.failed /\ Pending(proc.run) = {}
         /\ logs' = Kept(logs)
         /\ UNCHANGED <<planned, ledgerVars, listVars, clock, retention, ever, first, putBack, ghosts>>
<1>1. PICK s \in {"ok", "failed", "completed_with_failures"} :
        /\ Closes(proc.run, s)
        /\ s = "completed_with_failures" =>
             proc.at = "apply" /\ proc.failed /\ Pending(proc.run) = {}
  BY DEF ClosesRow
<1>2. proc.run \in DOMAIN runs
  BY DEF ClosesRow, ProcInPlace
<1>3. s \in Statuses
  BY DEF Statuses
<1>4. runs' = Finished(proc.run, s)
  BY <1>1 DEF Closes
<1>. QED BY <1>1, <1>2, <1>3, <1>4, FinishedRow DEF Closes

\* A FatalError closes the row that main remembers, or none.
LEMMA FatalRow ==
  ASSUME LifeTypeOK, ProcInPlace, Fatal
  PROVE  /\ proc' = Idle
         /\ runs' \in Seq(RunRows) /\ Len(runs') = Len(runs) /\ DOMAIN runs' = DOMAIN runs
         /\ \A q \in DOMAIN runs : /\ q # proc.active => runs'[q] = runs[q]
                                   /\ runs'[q].list = runs[q].list
                                   /\ q = proc.active => runs'[q].status = "aborted"
         /\ UNCHANGED <<planned, ledgerVars, logVars, listVars, ghosts>>
<1>1. runs \in Seq(RunRows) /\ DOMAIN runs = 1..Len(runs)
  BY RunRowsTyped
<1>2. CASE proc.active = 0
  BY <1>1, <1>2 DEF Fatal
<1>3. CASE proc.active # 0
  <2>1. proc.active \in DOMAIN runs
    BY <1>3 DEF ProcInPlace
  <2>2. "aborted" \in Statuses
    BY DEF Statuses
  <2>3. runs' = Finished(proc.active, "aborted")
    BY <1>3 DEF Fatal, AbortStatus
  <2>. QED BY <2>1, <2>2, <2>3, FinishedRow DEF Fatal
<1>. QED BY <1>2, <1>3

-----------------------------------------------------------------------------
(* Types, and the place of the process.                                     *)

LEMMA ProcInPlaceStep ==
  ASSUME LifeTypeOK, ProcInPlace, LifeNext
  PROVE  ProcInPlace'
<1>. USE DEF ProcInPlace
<1>1. CASE BeginsRow
  <2>1. Len(runs) \in Nat
    BY RunRowsTyped
  <2>2. proc'.run = Len(runs) + 1 /\ DOMAIN runs' = 1..Len(runs) + 1
    BY <1>1, BegunRow
  <2>4. proc'.active = 0 /\ proc'.at \in {"survey", "undo", "rebuild"}
    BY <1>1, BegunRow
  <2>3. /\ proc' \in [at : Steps, cmd : Commands, run : Nat, active : Nat, named : BOOLEAN,
                      target : Nat, left : Nat, failed : BOOLEAN]
        /\ Len(runs') <= limit'.runs /\ UNCHANGED <<limit, retention, deaths>>
    BY <1>1, BegunRow DEF ghosts
  <2>. QED BY <2>1, <2>2, <2>3, <2>4
<1>2. CASE ClosesRow
  BY <1>2, ClosedRow, AtRest DEF ghosts
<1>3. CASE Fatal
  BY <1>3, FatalRow, AtRest DEF ghosts, logVars
<1>4. CASE Applying
  <2>1. PICK r \in Nat, named \in BOOLEAN : Apply(r, named)
    BY <1>4 DEF Applying
  <2>2. proc' = [at |-> "apply", cmd |-> "apply", run |-> r, active |-> r, named |-> named,
                 target |-> 0, left |-> 0, failed |-> FALSE]
    BY <2>1 DEF Apply, Idle
  <2>3. proc' \in [at : Steps, cmd : Commands, run : Nat, active : Nat, named : BOOLEAN,
                   target : Nat, left : Nat, failed : BOOLEAN]
    BY <2>2 DEF Steps, Commands
  <2>4. proc'.at = "apply" /\ proc'.run = r /\ proc'.active = r
    BY <2>2
  <2>. QED BY <2>1, <2>3, <2>4 DEF Apply, tables, ghosts
<1>5. CASE Aside
  BY <1>5 DEF Aside, tables, ghosts
<1>6. CASE SavePlan
  <2>1. proc' = [proc EXCEPT !.at = IF proc.cmd = "run" THEN "apply" ELSE "close",
                             !.active = proc.run]
    BY <1>6 DEF SavePlan, ActiveRun
  <2>. QED BY <1>6, <2>1 DEF SavePlan, logVars, ghosts, Steps
<1>7. CASE Dies
  BY <1>7, AtRest DEF Dies, logVars
<1>8. ASSUME NEW i \in Items, NEW v \in Verdicts, JudgeItem(i, v) PROVE ProcInPlace'
  <2>1. proc' = [proc EXCEPT !.failed = @ \/ v = "failed"]
    BY <1>8 DEF JudgeItem
  <2>2. proc'.failed \in BOOLEAN
    BY <2>1
  <2>. QED BY <1>8, <2>1, <2>2 DEF JudgeItem, logVars, ghosts
<1>9. ASSUME NEW v \in Verdicts, Reverse(v) PROVE ProcInPlace'
  <2>1. proc' = [proc EXCEPT !.left = @ - 1, !.failed = @ \/ v = "failed"]
    BY <1>9 DEF Reverse
  <2>2. proc'.failed \in BOOLEAN
    BY <2>1
  <2>3. proc'.left \in Nat
    BY <1>9, <2>1 DEF Reverse
  <2>4. proc' \in [at : Steps, cmd : Commands, run : Nat, active : Nat, named : BOOLEAN,
                   target : Nat, left : Nat, failed : BOOLEAN]
    BY <2>1, <2>2, <2>3
  <2>5. proc'.at = proc.at /\ proc'.run = proc.run /\ proc'.active = proc.active
    BY <2>1
  <2>. QED BY <1>9, <2>4, <2>5 DEF Reverse, logVars, ghosts
<1>. QED BY <1>1, <1>2, <1>3, <1>4, <1>5, <1>6, <1>7, <1>8, <1>9, StepKinds

-----------------------------------------------------------------------------
(* The pairs of log files.                                                  *)

LEMMA LeastOf ==
  ASSUME NEW S \in SUBSET Nat, NEW m \in S, \A s \in S : m <= s
  PROVE  Min(S) = m
<1>1. \A x \in S : (\A s \in S : x <= s) => x = m
  OBVIOUS
<1>. QED BY <1>1 DEF Min

LEMMA GreatestOf ==
  ASSUME NEW S \in SUBSET Nat, NEW m \in S, \A s \in S : s <= m
  PROVE  Max(S) = m
<1>1. \A x \in S : (\A s \in S : x >= s) => x = m
  OBVIOUS
<1>2. m \in S /\ \A s \in S : m >= s
  OBVIOUS
<1>. QED BY <1>1, <1>2 DEF Max

\* prune keeps both ends, and everything if it is to keep no runs at all.
LEMMA KeptEnds ==
  ASSUME retention \in Nat, NEW S \in SUBSET Nat, NEW m \in S, \A s \in S : m <= s
  PROVE  /\ Kept(S) \subseteq S /\ m \in Kept(S)
         /\ \A x \in S : (\A s \in S : s <= x) => x \in Kept(S)
         /\ retention = 0 => Kept(S) = S
<1>1. Min(S) = m
  BY LeastOf
<1>2. Kept(S) = S \/ Kept(S) = Newest(S) \cup {m}
  BY <1>1 DEF Kept
<1>3. Newest(S) \subseteq S
  BY DEF Newest
<1>4. retention = 0 => Newest(S) = S
  BY DEF Newest
<1>5. ASSUME NEW x \in S, \A s \in S : s <= x PROVE x \in Newest(S)
  <2>0. x \in Nat /\ \A t \in S : t \in Nat /\ t <= x
    BY <1>5
  <2>3. \A t \in S : ~ (t > x)
    BY <2>0
  <2>1. {t \in S : t > x} = {}
    BY <2>3, Zenon
  <2>2. Cardinality({t \in S : t > x}) = 0
    BY <2>1, FS_EmptySet
  <2>. QED BY <2>2, <1>4, <1>5 DEF Newest
<1>. QED BY <1>2, <1>3, <1>4, <1>5

\* A command that starts adds its minute at neither end or at one of them.
LEMMA OpenedEnds ==
  ASSUME LifeTypeOK, ProcInPlace, EndsKept
  PROVE  /\ \E m \in Opened : \A s \in ever \cup {clock} : m <= s
         /\ ~ putBack => \E m \in Opened : m <= clock /\ \A s \in ever \cup {clock} : s <= m
         /\ retention = 0 => Opened = ever \cup {clock}
         /\ Opened \subseteq ever \cup {clock} /\ ever \cup {clock} \subseteq 1..limit.minutes
<1>1. /\ limit.minutes \in Nat /\ clock \in 1..limit.minutes /\ ever \subseteq 1..limit.minutes
      /\ logs \subseteq ever
  BY Bounds DEF ProcInPlace, LifeTypeOK
<1>2. CASE ever = {}
  <2>1. logs = {}
    BY <1>1, <1>2
  <2>2. Opened = {clock} /\ ever \cup {clock} = {clock}
    BY <1>2, <2>1 DEF Opened
  <2>. QED BY <1>1, <2>2
<1>3. CASE ever # {}
  <2>1. PICK m \in logs : \A s \in ever : m <= s
    BY <1>3 DEF EndsKept
  <2>2. \E l \in Opened : \A s \in ever \cup {clock} : l <= s
    <3>1. CASE m <= clock
      BY <1>1, <2>1, <3>1 DEF Opened
    <3>2. CASE ~ (m <= clock)
      BY <1>1, <2>1, <3>2 DEF Opened
    <3>. QED BY <3>1, <3>2
  <2>3. ~ putBack => clock \in Opened /\ \A s \in ever \cup {clock} : s <= clock
    BY <1>1, <1>3 DEF EndsKept, Opened
  <2>4. clock <= clock
    BY <1>1
  <2>. QED BY <1>1, <2>2, <2>3, <2>4 DEF EndsKept, Opened
<1>. QED BY <1>2, <1>3

\* What the log files are after a step: as they were, with the minute of a command,
\* or pruned.
LEMMA LogsStep ==
  ASSUME LifeTypeOK, ProcInPlace, EndsKept, LifeNext
  PROVE  /\ EndsKept' /\ logs' \subseteq ever' /\ ever' \subseteq 1..limit.minutes
         /\ clock' \in 1..limit.minutes
<1>. DEFINE Goal == /\ EndsKept' /\ logs' \subseteq ever' /\ ever' \subseteq 1..limit.minutes
                    /\ clock' \in 1..limit.minutes
<1>1. /\ limit.minutes \in Nat /\ clock \in 1..limit.minutes /\ ever \subseteq 1..limit.minutes
      /\ logs \subseteq ever /\ retention \in Nat
  BY Bounds, LifecycleAssumption DEF ProcInPlace, LifeTypeOK, LifecycleAssumption
<1>2. ASSUME UNCHANGED logVars PROVE Goal
  BY <1>1, <1>2 DEF logVars, EndsKept
<1>3. ASSUME logs' = Opened, ever' = ever \cup {clock}, UNCHANGED <<clock, retention, putBack>>
      PROVE  Goal
  BY <1>1, <1>3, OpenedEnds DEF EndsKept
<1>4. ASSUME logs' = Kept(Opened), ever' = ever \cup {clock},
             UNCHANGED <<clock, retention, putBack>>
      PROVE  Goal
  <2>1. PICK m \in Opened : \A s \in ever \cup {clock} : m <= s
    BY OpenedEnds
  <2>2. Opened \in SUBSET Nat /\ \A s \in Opened : m <= s
    <3>1. Opened \subseteq ever \cup {clock} /\ ever \cup {clock} \subseteq 1..limit.minutes
      BY OpenedEnds
    <3>. QED BY <1>1, <2>1, <3>1
  <2>3. /\ Kept(Opened) \subseteq Opened /\ m \in Kept(Opened)
        /\ \A x \in Opened : (\A s \in Opened : s <= x) => x \in Kept(Opened)
        /\ retention = 0 => Kept(Opened) = Opened
    BY <1>1, <2>2, KeptEnds
  <2>4. ~ putBack => \E l \in Kept(Opened) : l <= clock /\ \A s \in ever \cup {clock} : s <= l
    BY <2>3, OpenedEnds
  <2>5. EndsKept'
    BY <1>4, <2>1, <2>3, <2>4, OpenedEnds DEF EndsKept
  <2>. QED BY <1>1, <1>4, <2>3, <2>5, OpenedEnds
<1>5. ASSUME logs' = Kept(logs), UNCHANGED <<clock, retention, ever, first, putBack>> PROVE Goal
  <2>1. CASE ever = {}
    <3>1. logs = {}
      BY <1>1, <2>1
    <3>2. Cardinality(logs) = 0 /\ 0 <= retention
      BY <1>1, <3>1, FS_EmptySet
    <3>3. logs' = logs
      BY <1>5, <3>2 DEF Kept
    <3>. QED BY <1>2, <1>5, <3>3 DEF logVars
  <2>2. CASE ever # {}
    <3>1. PICK m \in logs : \A s \in ever : m <= s
      BY <2>2 DEF EndsKept
    <3>2. logs \in SUBSET Nat /\ \A s \in logs : m <= s
      BY <1>1, <3>1
    <3>3. /\ Kept(logs) \subseteq logs /\ m \in Kept(logs)
          /\ \A x \in logs : (\A s \in logs : s <= x) => x \in Kept(logs)
          /\ retention = 0 => Kept(logs) = logs
      BY <1>1, <3>1, <3>2, KeptEnds
    <3>4. ~ putBack => \E l \in Kept(logs) : l <= clock /\ \A s \in ever : s <= l
      BY <1>1, <2>2, <3>3 DEF EndsKept
    <3>5. EndsKept'
      BY <1>5, <2>2, <3>1, <3>3, <3>4 DEF EndsKept
    <3>. QED BY <1>1, <1>5, <3>3, <3>5
  <2>. QED BY <2>1, <2>2
<1>6. CASE Tick
  BY <1>1, <1>6 DEF Tick, EndsKept
<1>7. CASE PutBack
  BY <1>1, <1>7 DEF PutBack, EndsKept
<1>8. CASE Revendor \/ SavePlan \/ Fatal \/ Dies
  BY <1>2, <1>8 DEF Revendor, SavePlan, Fatal, Dies
<1>9. CASE Plan \/ Run \/ Rebuild \/ \E r \in Runs : Undo(r)
  BY <1>3, <1>9 DEF Plan, Run, Rebuild, Undo, Begins, Opens
<1>10. CASE ApplyLatest \/ ApplyNamed
  BY <1>3, <1>10 DEF ApplyLatest, ApplyNamed, Apply, Opens
<1>11. CASE Look \/ Check
  BY <1>3, <1>11 DEF Look, Check, Opens
<1>12. CASE UndoNothing
  BY <1>4, <1>12 DEF UndoNothing, Opens
<1>13. CASE FinishPlan \/ FinishApply \/ FinishUndo \/ FinishRebuild
  BY <1>5, <1>13 DEF FinishPlan, FinishApply, FinishUndo, FinishRebuild, Closes
<1>14. ASSUME NEW i \in Items, NEW v \in Verdicts, JudgeItem(i, v) PROVE Goal
  BY <1>2, <1>14 DEF JudgeItem
<1>15. ASSUME NEW v \in Verdicts, Reverse(v) PROVE Goal
  BY <1>2, <1>15 DEF Reverse
<1>. QED
  BY <1>6, <1>7, <1>8, <1>9, <1>10, <1>11, <1>12, <1>13, <1>14, <1>15
  DEF LifeNext, Plans, Applies, Undoes, Others

\* The stamp of the first pair is set once, by the first command there is.
LEMMA FirstStep ==
  ASSUME LifeTypeOK, ProcInPlace, EndsKept, FirstIsLowest, LifeNext
  PROVE  /\ FirstIsLowest'
         /\ IF ever' = {} THEN first' = 0 ELSE first' \in ever'
<1>. DEFINE Goal == /\ FirstIsLowest'
                    /\ IF ever' = {} THEN first' = 0 ELSE first' \in ever'
<1>1. /\ limit.minutes \in Nat /\ clock \in 1..limit.minutes /\ ever \subseteq 1..limit.minutes
      /\ IF ever = {} THEN first = 0 ELSE first \in ever
  BY Bounds DEF ProcInPlace, LifeTypeOK
<1>2. ASSUME UNCHANGED <<ever, first>>, putBack => putBack' PROVE Goal
  BY <1>1, <1>2 DEF FirstIsLowest
<1>3. ASSUME Opens, putBack' = putBack PROVE Goal
  <2>1. ever' = ever \cup {clock} /\ first' = IF ever = {} THEN clock ELSE first
    BY <1>3 DEF Opens
  <2>2. CASE ever = {}
    BY <1>1, <1>3, <2>1, <2>2 DEF FirstIsLowest
  <2>3. CASE ever # {}
    <3>1. first \in ever /\ first' = first
      BY <1>1, <2>1, <2>3
    <3>2. ~ putBack => \E m \in logs : m <= clock /\ \A s \in ever : s <= m
      BY <2>3 DEF EndsKept
    <3>3. logs \subseteq ever
      BY DEF LifeTypeOK
    <3>4. ~ putBack => first <= clock
      BY <1>1, <3>1, <3>2, <3>3
    <3>. QED BY <1>3, <2>1, <3>1, <3>4 DEF FirstIsLowest
  <2>. QED BY <2>2, <2>3
<1>4. CASE Plan \/ Run \/ Rebuild \/ \E r \in Runs : Undo(r)
  BY <1>3, <1>4 DEF Plan, Run, Rebuild, Undo, Begins
<1>5. CASE ApplyLatest \/ ApplyNamed \/ Look \/ Check \/ UndoNothing
  BY <1>3, <1>5 DEF ApplyLatest, ApplyNamed, Apply, Look, Check, UndoNothing
<1>6. CASE FinishPlan \/ FinishApply \/ FinishUndo \/ FinishRebuild
  BY <1>2, <1>6 DEF FinishPlan, FinishApply, FinishUndo, FinishRebuild, Closes
<1>7. CASE Tick \/ PutBack
  BY <1>2, <1>7 DEF Tick, PutBack
<1>8. CASE Revendor \/ SavePlan \/ Fatal \/ Dies
  BY <1>2, <1>8 DEF Revendor, SavePlan, Fatal, Dies, logVars
<1>9. ASSUME NEW i \in Items, NEW v \in Verdicts, JudgeItem(i, v) PROVE Goal
  BY <1>2, <1>9 DEF JudgeItem, logVars
<1>10. ASSUME NEW v \in Verdicts, Reverse(v) PROVE Goal
  BY <1>2, <1>10 DEF Reverse, logVars
<1>. QED
  BY <1>4, <1>5, <1>6, <1>7, <1>8, <1>9, <1>10
  DEF LifeNext, Plans, Applies, Undoes, Others

-----------------------------------------------------------------------------
(* The tables: types, and the log of moves against the plans.               *)

\* Undo's row names no item.
LEMMA ReversalRow ==
  ASSUME LifeTypeOK, ProcInPlace, LogAgreesWithPlan, NEW v \in Verdicts, Reverse(v)
  PROVE  /\ LedgerTypeOK' /\ LogAgreesWithPlan' /\ fate' = fate
         /\ \A n \in 1..Len(moves) : n \in 1..Len(moves') /\ moves'[n] = moves[n]
<1>. DEFINE row == [run |-> proc.run, item |-> 0]
<1>1. proc.run \in Runs
  <2>1. proc.run \in 1..Len(runs) /\ Len(runs) <= limit.runs /\ Len(runs) \in Nat
    BY RunRowsTyped DEF ProcInPlace, Reverse
  <2>2. limit.runs \in Nat /\ 1..limit.runs \subseteq Runs
    BY Bounds DEF ProcInPlace
  <2>. QED BY <2>1, <2>2
<1>2. row \in Rows /\ row.item = 0
  BY <1>1, LifecycleAssumption DEF LifecycleAssumption
<1>3. moves' = IF v = "done" THEN Append(moves, row) ELSE moves
  BY DEF Reverse
<1>4. fate' = fate /\ fate \in [Items -> Verdicts \cup {"pending"}] /\ moves \in Seq(Rows)
  BY DEF Reverse, LifeTypeOK, LedgerTypeOK
<1>. HIDE DEF row
<1>5. CASE v = "done"
  <2>1. /\ moves' \in Seq(Rows) /\ Len(moves) \in Nat /\ Len(moves') = Len(moves) + 1
        /\ moves'[Len(moves) + 1] = row
        /\ \A n \in 1..Len(moves) : moves'[n] = moves[n]
    BY <1>2, <1>3, <1>4, <1>5
  <2>2. \A i \in Items : i # 0
    BY LedgerAssumption DEF LedgerAssumption
  <2>3. \A i \in Items : RowsOf(i)' = RowsOf(i)
    BY <1>2, <2>1, <2>2 DEF RowsOf
  <2>. QED BY <1>4, <2>1, <2>3 DEF LedgerTypeOK, LogAgreesWithPlan
<1>6. CASE v # "done"
  BY <1>3, <1>4, <1>6 DEF LedgerTypeOK, LogAgreesWithPlan, RowsOf
<1>. QED BY <1>5, <1>6

\* The ledger keeps PlanLedger's promises, with reversals among its rows.
LEMMA LedgerStep ==
  ASSUME LifeTypeOK, ProcInPlace, LogAgreesWithPlan, [LifeNext]_lifeVars
  PROVE  /\ LedgerTypeOK' /\ LogAgreesWithPlan'
         /\ \A n \in 1..Len(moves) : n \in 1..Len(moves') /\ moves'[n] = moves[n]
         /\ \A i \in Items : fate[i] # "pending" => fate'[i] = fate[i]
<1>1. LedgerTypeOK
  BY DEF LifeTypeOK
<1>2. ASSUME UNCHANGED ledgerVars
      PROVE  /\ LedgerTypeOK' /\ LogAgreesWithPlan' /\ moves' = moves
             /\ fate' = fate
  BY <1>1, <1>2 DEF ledgerVars, LedgerTypeOK, LogAgreesWithPlan, RowsOf
<1>3. CASE BeginsRow
  BY <1>2, <1>3, BegunRow
<1>4. CASE ClosesRow
  BY <1>2, <1>4, ClosedRow
<1>5. CASE Fatal
  BY <1>2, <1>5, FatalRow
<1>6. CASE Applying \/ Aside \/ SavePlan \/ Dies \/ UNCHANGED lifeVars
  BY <1>2, <1>6 DEF Applying, Apply, Aside, SavePlan, Dies, tables, lifeVars
<1>7. ASSUME NEW i \in Items, NEW v \in Verdicts, JudgeItem(i, v)
      PROVE  /\ LedgerTypeOK' /\ LogAgreesWithPlan'
             /\ \A n \in 1..Len(moves) : n \in 1..Len(moves') /\ moves'[n] = moves[n]
             /\ \A j \in Items : fate[j] # "pending" => fate'[j] = fate[j]
  <2>1. Settle(i, v)
    BY <1>7 DEF JudgeItem
  <2>. QED BY <1>1, <2>1, SettleTyped, SettleAgrees, SettleUnwritesNothing
<1>8. ASSUME NEW v \in Verdicts, Reverse(v)
      PROVE  /\ LedgerTypeOK' /\ LogAgreesWithPlan' /\ fate' = fate
             /\ \A n \in 1..Len(moves) : n \in 1..Len(moves') /\ moves'[n] = moves[n]
  BY <1>8, ReversalRow
<1>. QED BY <1>3, <1>4, <1>5, <1>6, <1>7, <1>8, StepKinds

\* What save_plan has written, whole or in part, is of the row in hand.
LEMMA SavedItems ==
  ASSUME NEW n \in Items \cup {0}, planned \subseteq Items
  PROVE  /\ Saved(n) \subseteq Items /\ planned \subseteq Saved(n)
         /\ \A i \in Saved(n) : i \in planned \/ Entry[i].run = proc.run
BY DEF Saved

LEMMA PlannedStep ==
  ASSUME LifeTypeOK, ProcInPlace, LifeNext
  PROVE  planned' \subseteq {i \in Items : Entry[i].run \in DOMAIN runs'}
<1>1. planned \subseteq Items /\ \A i \in planned : Entry[i].run \in DOMAIN runs
  BY DEF LifeTypeOK
<1>2. CASE BeginsRow
  BY <1>1, <1>2, BegunRow
<1>3. CASE ClosesRow
  BY <1>1, <1>3, ClosedRow
<1>4. CASE Fatal
  BY <1>1, <1>4, FatalRow
<1>5. ASSUME NEW n \in Items \cup {0}, planned' = Saved(n), proc.at = "survey", runs' = runs
      PROVE  planned' \subseteq {i \in Items : Entry[i].run \in DOMAIN runs'}
  BY <1>1, <1>5, SavedItems DEF ProcInPlace
<1>6. ASSUME UNCHANGED <<runs, planned>>
      PROVE  planned' \subseteq {i \in Items : Entry[i].run \in DOMAIN runs'}
  BY <1>1, <1>6
<1>7. CASE SavePlan
  BY <1>5, <1>7 DEF SavePlan
<1>8. CASE Dies
  BY <1>5, <1>6, <1>8 DEF Dies
<1>9. CASE Applying \/ Aside
  BY <1>6, <1>9 DEF Applying, Apply, Aside, tables
<1>10. ASSUME NEW i \in Items, NEW v \in Verdicts, JudgeItem(i, v)
       PROVE  planned' \subseteq {j \in Items : Entry[j].run \in DOMAIN runs'}
  BY <1>6, <1>10 DEF JudgeItem
<1>11. ASSUME NEW v \in Verdicts, Reverse(v)
       PROVE  planned' \subseteq {j \in Items : Entry[j].run \in DOMAIN runs'}
  BY <1>6, <1>11 DEF Reverse
<1>. QED BY <1>2, <1>3, <1>4, <1>7, <1>8, <1>9, <1>10, <1>11, StepKinds

LEMMA RunsStep ==
  ASSUME LifeTypeOK, ProcInPlace, LifeNext
  PROVE  /\ runs' \in Seq(RunRows) /\ limit' = limit
         /\ bundled' \in 1..limit.lists /\ lastList' \in 0..limit.lists
         /\ checked' \in {"none", "quiet", "warned"}
<1>. DEFINE Goal == /\ runs' \in Seq(RunRows) /\ limit' = limit
                    /\ bundled' \in 1..limit.lists /\ lastList' \in 0..limit.lists
                    /\ checked' \in {"none", "quiet", "warned"}
<1>1. /\ runs \in Seq(RunRows) /\ limit.lists \in Nat
      /\ bundled \in 1..limit.lists /\ lastList \in 0..limit.lists
      /\ checked \in {"none", "quiet", "warned"}
  BY RunRowsTyped, Bounds DEF LifeTypeOK, ProcInPlace
<1>2. CASE BeginsRow
  BY <1>1, <1>2, BegunRow DEF ghosts
<1>3. CASE ClosesRow
  BY <1>1, <1>3, ClosedRow DEF ghosts, listVars
<1>4. CASE Fatal
  BY <1>1, <1>4, FatalRow DEF ghosts, listVars
<1>5. CASE SavePlan \/ Dies
  BY <1>1, <1>5 DEF SavePlan, Dies, ghosts, listVars
<1>6. CASE ApplyLatest \/ ApplyNamed \/ UndoNothing \/ Look \/ Check
  BY <1>1, <1>6 DEF ApplyLatest, ApplyNamed, Apply, UndoNothing, Look, Check, tables, ghosts
<1>7. CASE Tick \/ PutBack \/ Revendor
  BY <1>1, <1>7 DEF Tick, PutBack, Revendor, tables, ghosts, listVars
<1>8. ASSUME NEW i \in Items, NEW v \in Verdicts, JudgeItem(i, v) PROVE Goal
  BY <1>1, <1>8 DEF JudgeItem, ghosts, listVars
<1>9. ASSUME NEW v \in Verdicts, Reverse(v) PROVE Goal
  BY <1>1, <1>9 DEF Reverse, ghosts, listVars
<1>10. CASE Plan \/ Run \/ Rebuild \/ \E r \in Runs : Undo(r)
  <2>1. BeginsRow
    BY <1>10, RunRowsTyped DEF Plan, Run, Rebuild, Undo, BeginsRow, Modes
  <2>. QED BY <1>2, <2>1
<1>11. CASE FinishPlan \/ FinishApply \/ FinishUndo \/ FinishRebuild
  <2>1. ClosesRow
    BY <1>11 DEF FinishPlan, FinishApply, FinishUndo, FinishRebuild, ClosesRow
  <2>. QED BY <1>3, <2>1
<1>. QED
  BY <1>4, <1>5, <1>6, <1>7, <1>8, <1>9, <1>10, <1>11
  DEF LifeNext, Plans, Applies, Undoes, Others

LEMMA LifeTypeStep ==
  ASSUME LifeTypeOK, ProcInPlace, LogAgreesWithPlan, EndsKept, FirstIsLowest, LifeNext
  PROVE  LifeTypeOK'
<1>1. LedgerTypeOK'
  BY LedgerStep
<1>2. /\ runs' \in Seq(RunRows) /\ limit' = limit
      /\ bundled' \in 1..limit.lists /\ lastList' \in 0..limit.lists
      /\ checked' \in {"none", "quiet", "warned"}
  BY RunsStep
<1>3. planned' \subseteq {i \in Items : Entry[i].run \in DOMAIN runs'}
  BY PlannedStep
<1>4. logs' \subseteq ever' /\ ever' \subseteq 1..limit.minutes /\ clock' \in 1..limit.minutes
  BY LogsStep
<1>8. IF ever' = {} THEN first' = 0 ELSE first' \in ever'
  BY FirstStep
<1>5. ProcInPlace'
  BY ProcInPlaceStep
<1>6. Len(runs') \in Nat /\ DOMAIN runs' = 1..Len(runs')
  BY <1>2
<1>7. /\ proc'.at \in Steps /\ proc'.run \in 0..Len(runs') /\ proc'.active \in 0..Len(runs')
      /\ proc'.left \in Nat
  <2>1. /\ proc' \in [at : Steps, cmd : Commands, run : Nat, active : Nat, named : BOOLEAN,
                      target : Nat, left : Nat, failed : BOOLEAN]
        /\ proc'.run \in IF proc'.at = "idle" THEN {0} ELSE DOMAIN runs'
        /\ proc'.active = IF proc'.at \in {"close", "apply"} THEN proc'.run ELSE 0
    BY <1>5 DEF ProcInPlace
  <2>. QED BY <1>6, <2>1
<1>. QED BY <1>1, <1>2, <1>3, <1>4, <1>7, <1>8 DEF LifeTypeOK, RunRows, Steps

-----------------------------------------------------------------------------
(* The row in hand, and what the plans and the rows say of each other.      *)

\* What a step does to the process, where it is not at rest before or after.
LEMMA SavePlanProc ==
  ASSUME ProcInPlace, SavePlan
  PROVE  /\ proc'.at = IF proc.cmd = "run" THEN "apply" ELSE "close"
         /\ proc'.active = proc.run /\ proc'.run = proc.run /\ proc'.cmd = proc.cmd
         /\ proc'.named = proc.named /\ proc'.failed = proc.failed
BY DEF SavePlan, ActiveRun, ProcInPlace

LEMMA JudgeProc ==
  ASSUME ProcInPlace, NEW i \in Items, NEW v \in Verdicts, JudgeItem(i, v)
  PROVE  /\ proc'.at = proc.at /\ proc'.run = proc.run /\ proc'.cmd = proc.cmd
         /\ proc'.active = proc.active /\ proc'.named = proc.named
         /\ proc'.failed <=> proc.failed \/ v = "failed"
<1>1. proc' = [proc EXCEPT !.failed = @ \/ v = "failed"]
  BY DEF JudgeItem
<1>2. proc'.failed <=> proc.failed \/ v = "failed"
  BY <1>1 DEF ProcInPlace
<1>. QED BY <1>1, <1>2 DEF ProcInPlace

LEMMA ReverseProc ==
  ASSUME ProcInPlace, NEW v \in Verdicts, Reverse(v)
  PROVE  /\ proc'.at = proc.at /\ proc'.run = proc.run /\ proc'.cmd = proc.cmd
         /\ proc'.active = proc.active /\ proc'.named = proc.named
BY DEF Reverse, ProcInPlace

LEMMA ApplyProc ==
  ASSUME NEW r, NEW named \in BOOLEAN, Apply(r, named)
  PROVE  /\ proc'.at = "apply" /\ proc'.cmd = "apply" /\ proc'.run = r /\ proc'.active = r
         /\ proc'.failed = FALSE
         /\ proc.at = "idle" /\ r \in DOMAIN runs
         /\ UNCHANGED <<runs, planned, ledgerVars, lastList, deaths>>
         /\ proc'.named = named
<1>1. proc' = [at |-> "apply", cmd |-> "apply", run |-> r, active |-> r, named |-> named,
               target |-> 0, left |-> 0, failed |-> FALSE]
  BY DEF Apply, Idle
<1>2. proc'.at = "apply" /\ proc'.cmd = "apply" /\ proc'.run = r /\ proc'.active = r
  BY <1>1
<1>3. proc'.failed = FALSE
  BY <1>1
<1>4. proc'.named = named
  BY <1>1
<1>5. /\ proc.at = "idle" /\ r \in DOMAIN runs
      /\ UNCHANGED <<runs, planned, ledgerVars, lastList, deaths>>
  BY DEF Apply, Opens, tables, ghosts
<1>. QED BY <1>2, <1>3, <1>4, <1>5

LEMMA RowInHandStep ==
  ASSUME LifeTypeOK, ProcInPlace, RowInHand, CommandFits, LifeNext
  PROVE  RowInHand' /\ CommandFits'
<1>. USE DEF RowInHand, CommandFits
<1>1. CASE BeginsRow
  <2>1. Len(runs) \in Nat
    BY RunRowsTyped
  <2>2. /\ proc'.run = Len(runs) + 1 /\ Len(runs') = Len(runs) + 1
        /\ runs'[Len(runs) + 1].status = "running"
    BY <1>1, BegunRow
  <2>3. /\ proc'.at \in {"survey", "undo", "rebuild"}
        /\ proc'.at = "survey" <=> proc'.cmd \in {"plan", "run"}
    BY <1>1, BegunRow
  <2>. QED BY <2>2, <2>3
<1>2. CASE ClosesRow
  BY <1>2, ClosedRow, AtRest
<1>3. CASE Fatal
  BY <1>3, FatalRow, AtRest
<1>4. CASE Dies
  BY <1>4, AtRest DEF Dies
<1>5. CASE Applying
  <2>1. PICK r \in Nat, named \in BOOLEAN : Apply(r, named) /\ (named \/ r = Len(runs))
    BY <1>5 DEF Applying
  <2>2. proc'.at = "apply" /\ proc'.cmd = "apply" /\ proc'.run = r /\ runs' = runs
    BY <2>1, ApplyProc
  <2>3. proc'.named = named
    BY <2>1, ApplyProc
  <2>. QED BY <2>1, <2>2, <2>3
<1>6. CASE Aside
  BY <1>6 DEF Aside, tables
<1>7. CASE SavePlan
  <2>1. proc.at = "survey" /\ runs' = runs
    BY <1>7 DEF SavePlan
  <2>. QED BY <1>7, <2>1, SavePlanProc
<1>8. ASSUME NEW i \in Items, NEW v \in Verdicts, JudgeItem(i, v) PROVE RowInHand' /\ CommandFits'
  <2>1. runs' = runs
    BY <1>8 DEF JudgeItem
  <2>. QED BY <1>8, <2>1, JudgeProc
<1>9. ASSUME NEW v \in Verdicts, Reverse(v) PROVE RowInHand' /\ CommandFits'
  <2>1. runs' = runs
    BY <1>9 DEF Reverse
  <2>. QED BY <1>9, <2>1, ReverseProc
<1>. QED BY <1>1, <1>2, <1>3, <1>4, <1>5, <1>6, <1>7, <1>8, <1>9, StepKinds

LEMMA OpenPlansStep ==
  ASSUME LifeTypeOK, ProcInPlace, RowInHand, OpenPlansInHand, LifeNext
  PROVE  OpenPlansInHand'
<1>. USE DEF OpenPlansInHand
<1>1. /\ DOMAIN runs = 1..Len(runs) /\ Len(runs) \in Nat
      /\ \A i \in planned : i \in Items /\ Entry[i].run \in DOMAIN runs
  BY RunRowsTyped DEF LifeTypeOK
<1>2. ASSUME planned' = planned PROVE \A r : PlanOf(r)' = PlanOf(r)
  BY <1>2 DEF PlanOf
<1>3. CASE BeginsRow
  <2>1. PlanOf(Len(runs) + 1) = {}
    BY <1>1 DEF PlanOf
  <2>2. /\ proc.active = 0 /\ proc'.active = 0 /\ planned' = planned /\ deaths' = deaths
        /\ DOMAIN runs' = 1..Len(runs) + 1
        /\ \A r \in DOMAIN runs : runs'[r] = runs[r]
    BY <1>3, BegunRow DEF ProcInPlace, ghosts
  <2>3. DOMAIN runs' = DOMAIN runs \cup {Len(runs) + 1}
    BY <1>1, <2>2
  <2>. QED BY <1>2, <2>1, <2>2, <2>3
<1>4. CASE ClosesRow
  <2>1. /\ planned' = planned /\ deaths' = deaths /\ DOMAIN runs' = DOMAIN runs
        /\ runs'[proc.run].status # "running"
        /\ \A q \in DOMAIN runs : q # proc.run => runs'[q] = runs[q]
    BY <1>4, ClosedRow DEF ghosts
  <2>2. proc.active \in {0, proc.run} /\ 0 \notin DOMAIN runs
    BY <1>1 DEF ProcInPlace
  <2>. QED BY <1>2, <2>1, <2>2
<1>5. CASE Fatal
  <2>1. /\ planned' = planned /\ deaths' = deaths /\ DOMAIN runs' = DOMAIN runs
        /\ \A q \in DOMAIN runs : /\ q # proc.active => runs'[q] = runs[q]
                                  /\ q = proc.active => runs'[q].status = "aborted"
    BY <1>5, FatalRow DEF ghosts
  <2>. QED BY <1>2, <2>1
<1>6. CASE Dies
  BY <1>6 DEF Dies, ProcInPlace
<1>7. CASE Applying
  <2>1. PICK r \in Nat, named \in BOOLEAN : Apply(r, named)
    BY <1>7 DEF Applying
  <2>2. proc.at = "idle" /\ UNCHANGED <<runs, planned, deaths>>
    BY <2>1, ApplyProc
  <2>3. proc.active = 0 /\ 0 \notin DOMAIN runs
    BY <1>1, <2>2 DEF ProcInPlace
  <2>. QED BY <1>2, <2>2, <2>3
<1>8. CASE Aside
  BY <1>2, <1>8 DEF Aside, tables, ghosts
<1>9. CASE SavePlan
  <2>1. proc.at = "survey" /\ UNCHANGED <<runs, deaths>>
    BY <1>9 DEF SavePlan, ghosts
  <2>2. proc.active = 0 /\ 0 \notin DOMAIN runs /\ proc'.active = proc.run
    BY <1>1, <1>9, <2>1, SavePlanProc DEF ProcInPlace
  <2>3. PICK n \in Items \cup {0} : planned' = Saved(n)
    BY <1>9 DEF SavePlan
  <2>4. \A r : r # proc.run => PlanOf(r)' = PlanOf(r)
    BY <2>3, SavedItems, <1>1 DEF PlanOf
  <2>. QED BY <2>1, <2>2, <2>4
<1>10. ASSUME NEW i \in Items, NEW v \in Verdicts, JudgeItem(i, v) PROVE OpenPlansInHand'
  <2>1. UNCHANGED <<runs, planned, deaths>>
    BY <1>10 DEF JudgeItem, ghosts
  <2>. QED BY <1>2, <1>10, <2>1, JudgeProc
<1>11. ASSUME NEW v \in Verdicts, Reverse(v) PROVE OpenPlansInHand'
  <2>1. UNCHANGED <<runs, planned, deaths>>
    BY <1>11 DEF Reverse, ghosts
  <2>. QED BY <1>2, <1>11, <2>1, ReverseProc
<1>. QED
  BY <1>3, <1>4, <1>5, <1>6, <1>7, <1>8, <1>9, <1>10, <1>11, StepKinds

\* Where rows and plans are as they were, verdicts being final, what the rows say of
\* failures stands.
LEMMA RecordsStand ==
  ASSUME LifeTypeOK, FailuresAreOnRecord, DOMAIN runs' = DOMAIN runs,
         \A i \in Items : fate[i] # "pending" => fate'[i] = fate[i],
         \A r \in DOMAIN runs :
           runs'[r].status = "completed_with_failures" =>
             runs[r].status = "completed_with_failures" /\ PlanOf(r)' = PlanOf(r)
  PROVE  FailuresAreOnRecord'
<1>1. \A r : PlanOf(r) \subseteq Items
  BY DEF LifeTypeOK, PlanOf
<1>. QED BY <1>1 DEF FailuresAreOnRecord

LEMMA OnRecordStep ==
  ASSUME LifeTypeOK, ProcInPlace, LogAgreesWithPlan, RowInHand, CommandFits, FailuresInPlan,
         FailuresAreOnRecord, LifeNext
  PROVE  FailuresAreOnRecord'
<1>1. \A i \in Items : fate[i] # "pending" => fate'[i] = fate[i]
  BY LedgerStep
<1>2. DOMAIN runs = 1..Len(runs) /\ Len(runs) \in Nat /\ planned \subseteq Items
  BY RunRowsTyped DEF LifeTypeOK
<1>3. ASSUME planned' = planned PROVE \A r : PlanOf(r)' = PlanOf(r)
  BY <1>3 DEF PlanOf
<1>4. ASSUME UNCHANGED <<runs, planned>> PROVE FailuresAreOnRecord'
  BY <1>1, <1>3, <1>4, RecordsStand
<1>5. ASSUME NEW n \in Items \cup {0}, planned' = Saved(n), proc.at = "survey", runs' = runs
      PROVE  FailuresAreOnRecord'
  <2>1. runs[proc.run].status = "running"
    BY <1>5 DEF RowInHand, CommandFits
  <2>2. \A r : r # proc.run => PlanOf(r)' = PlanOf(r)
    BY <1>2, <1>5, SavedItems DEF PlanOf
  <2>. QED BY <1>1, <1>5, <2>1, <2>2, RecordsStand
<1>6. CASE BeginsRow
  <2>1. /\ planned' = planned /\ fate' = fate /\ DOMAIN runs' = 1..Len(runs) + 1
        /\ \A r \in DOMAIN runs : runs'[r] = runs[r]
        /\ runs'[Len(runs) + 1].status = "running"
    BY <1>6, BegunRow DEF ledgerVars
  <2>2. DOMAIN runs' = DOMAIN runs \cup {Len(runs) + 1}
    BY <1>2, <2>1
  <2>. QED BY <1>3, <2>1, <2>2 DEF FailuresAreOnRecord
<1>7. CASE ClosesRow
  <2>1. /\ planned' = planned /\ fate' = fate /\ DOMAIN runs' = DOMAIN runs
        /\ \A q \in DOMAIN runs : q # proc.run => runs'[q] = runs[q]
        /\ runs'[proc.run].status = "completed_with_failures" =>
             proc.at = "apply" /\ proc.failed /\ Pending(proc.run) = {}
    BY <1>7, ClosedRow DEF ledgerVars
  <2>2. proc.at = "apply" /\ proc.failed /\ Pending(proc.run) = {} =>
          /\ \A i \in PlanOf(proc.run) : fate[i] # "pending"
          /\ \E i \in PlanOf(proc.run) : fate[i] = "failed"
    BY DEF FailuresInPlan, Pending, Unsettled
  <2>. QED BY <1>3, <2>1, <2>2 DEF FailuresAreOnRecord
<1>8. CASE Fatal
  <2>1. /\ planned' = planned /\ fate' = fate /\ DOMAIN runs' = DOMAIN runs
        /\ \A q \in DOMAIN runs : /\ q # proc.active => runs'[q] = runs[q]
                                  /\ q = proc.active => runs'[q].status = "aborted"
    BY <1>8, FatalRow DEF ledgerVars
  <2>. QED BY <1>1, <1>3, <2>1, RecordsStand
<1>9. CASE SavePlan
  BY <1>5, <1>9 DEF SavePlan
<1>10. CASE Dies
  BY <1>4, <1>5, <1>10 DEF Dies
<1>11. CASE Applying \/ Aside
  BY <1>4, <1>11 DEF Applying, Apply, Aside, tables
<1>12. ASSUME NEW i \in Items, NEW v \in Verdicts, JudgeItem(i, v) PROVE FailuresAreOnRecord'
  BY <1>4, <1>12 DEF JudgeItem
<1>13. ASSUME NEW v \in Verdicts, Reverse(v) PROVE FailuresAreOnRecord'
  BY <1>4, <1>13 DEF Reverse
<1>. QED BY <1>6, <1>7, <1>8, <1>9, <1>10, <1>11, <1>12, <1>13, StepKinds

LEMMA FailuresStep ==
  ASSUME LifeTypeOK, ProcInPlace, LogAgreesWithPlan, CommandFits, FailuresInPlan, LifeNext
  PROVE  FailuresInPlan'
<1>. USE DEF FailuresInPlan
<1>1. /\ planned \subseteq Items
      /\ \A i \in Items : fate[i] # "pending" => fate'[i] = fate[i]
  BY LedgerStep DEF LifeTypeOK
<1>2. CASE BeginsRow
  <2>1. proc'.failed = FALSE
    BY <1>2, BegunRow
  <2>2. proc'.at # "apply"
    BY <1>2, BegunRow
  <2>. QED BY <2>1, <2>2
<1>3. CASE ClosesRow \/ Fatal \/ Dies
  BY <1>3, ClosedRow, FatalRow, AtRest DEF Dies
<1>4. CASE Applying
  <2>1. PICK r \in Nat, named \in BOOLEAN : Apply(r, named)
    BY <1>4 DEF Applying
  <2>2. proc'.at = "apply" /\ proc'.failed = FALSE
    BY <2>1, ApplyProc
  <2>. QED BY <2>2
<1>5. CASE Aside
  BY <1>5 DEF Aside, tables, ledgerVars, PlanOf
<1>6. CASE SavePlan
  <2>1. proc'.failed = proc.failed /\ proc.at = "survey"
    BY <1>6, SavePlanProc DEF SavePlan
  <2>. QED BY <2>1
<1>7. ASSUME NEW i \in Items, NEW v \in Verdicts, JudgeItem(i, v) PROVE FailuresInPlan'
  <2>1. /\ proc.at = "apply" /\ i \in PlanOf(proc.run) /\ planned' = planned
        /\ fate[i] = "pending" /\ fate' = [fate EXCEPT ![i] = v] /\ fate'[i] = v
    BY <1>7 DEF JudgeItem, Pending, Settle, Unsettled, LifeTypeOK, LedgerTypeOK
  <2>2. proc'.run = proc.run /\ proc'.at = "apply"
    BY <1>7, <2>1, JudgeProc
  <2>3. PlanOf(proc.run)' = PlanOf(proc.run)
    BY <2>1, <2>2 DEF PlanOf
  <2>4. \A j \in PlanOf(proc.run) : fate[j] = "failed" => fate'[j] = "failed"
    BY <1>1 DEF PlanOf
  <2>5. proc'.failed => proc.failed \/ v = "failed"
    BY <1>7, JudgeProc
  <2>. QED BY <2>1, <2>2, <2>3, <2>4, <2>5
<1>8. ASSUME NEW v \in Verdicts, Reverse(v) PROVE FailuresInPlan'
  <2>1. proc'.at = "undo"
    BY <1>8, ReverseProc DEF Reverse
  <2>. QED BY <2>1
<1>. QED BY <1>2, <1>3, <1>4, <1>5, <1>6, <1>7, <1>8, StepKinds

LEMMA LastListStep ==
  ASSUME LifeTypeOK, ProcInPlace, LastListStamped, LifeNext
  PROVE  LastListStamped'
<1>. USE DEF LastListStamped, LastPsl
<1>1. /\ runs \in Seq(RunRows) /\ DOMAIN runs = 1..Len(runs) /\ Len(runs) \in Nat
      /\ runs = <<>> <=> Len(runs) = 0
  BY RunRowsTyped
<1>2. ASSUME UNCHANGED <<runs, lastList>> PROVE LastListStamped'
  BY <1>2
<1>3. ASSUME lastList' = lastList, runs' \in Seq(RunRows), Len(runs') = Len(runs),
             \A q \in DOMAIN runs : runs'[q].list = runs[q].list
      PROVE  LastListStamped'
  <2>1. runs' = <<>> <=> Len(runs') = 0
    BY <1>3
  <2>. QED BY <1>1, <1>3, <2>1
<1>4. CASE BeginsRow
  <2>1. /\ runs' \in Seq(RunRows) /\ Len(runs') = Len(runs) + 1
        /\ runs'[Len(runs) + 1].list = bundled /\ lastList' = bundled
    BY <1>4, BegunRow
  <2>2. runs' # <<>>
    BY <1>1, <2>1
  <2>. QED BY <2>1, <2>2
<1>5. CASE ClosesRow
  <2>1. /\ lastList' = lastList /\ runs' \in Seq(RunRows) /\ Len(runs') = Len(runs)
        /\ \A q \in DOMAIN runs : runs'[q].list = runs[q].list
    BY <1>5, ClosedRow DEF listVars
  <2>. QED BY <1>3, <2>1
<1>6. CASE Fatal
  <2>1. /\ lastList' = lastList /\ runs' \in Seq(RunRows) /\ Len(runs') = Len(runs)
        /\ \A q \in DOMAIN runs : runs'[q].list = runs[q].list
    BY <1>6, FatalRow DEF listVars
  <2>. QED BY <1>3, <2>1
<1>7. CASE Applying \/ Aside \/ SavePlan \/ Dies
  BY <1>2, <1>7 DEF Applying, Apply, Aside, SavePlan, Dies, tables, listVars
<1>8. ASSUME NEW i \in Items, NEW v \in Verdicts, JudgeItem(i, v) PROVE LastListStamped'
  BY <1>2, <1>8 DEF JudgeItem, listVars
<1>9. ASSUME NEW v \in Verdicts, Reverse(v) PROVE LastListStamped'
  BY <1>2, <1>9 DEF Reverse, listVars
<1>. QED BY <1>4, <1>5, <1>6, <1>7, <1>8, <1>9, StepKinds

LEMMA DriftStep ==
  ASSUME LifeTypeOK, ProcInPlace, LastListStamped, DriftIsSeen, LifeNext
  PROVE  DriftIsSeen'
<1>. USE DEF DriftIsSeen
<1>1. ASSUME checked' = "none" PROVE DriftIsSeen'
  BY <1>1
<1>2. ASSUME UNCHANGED <<checked, lastList, bundled>> PROVE DriftIsSeen'
  BY <1>2
<1>3. CASE Check
  <2>1. /\ checked' = IF lastList # 0 /\ lastList # bundled THEN "warned" ELSE "quiet"
        /\ UNCHANGED <<lastList, bundled>>
    BY <1>3 DEF Check, LastListStamped
  <2>. QED BY <2>1
<1>4. CASE Plan \/ Run \/ Rebuild \/ \E r \in Runs : Undo(r)
  BY <1>1, <1>4 DEF Plan, Run, Rebuild, Undo, Begins
<1>5. CASE ApplyLatest \/ ApplyNamed \/ UndoNothing \/ Look \/ Revendor
  BY <1>1, <1>5 DEF ApplyLatest, ApplyNamed, Apply, UndoNothing, Look, Revendor
<1>6. CASE FinishPlan \/ FinishApply \/ FinishUndo \/ FinishRebuild
  BY <1>2, <1>6 DEF FinishPlan, FinishApply, FinishUndo, FinishRebuild, Closes, listVars
<1>7. CASE SavePlan \/ Fatal \/ Dies \/ Tick \/ PutBack
  BY <1>2, <1>7 DEF SavePlan, Fatal, Dies, Tick, PutBack, listVars
<1>8. ASSUME NEW i \in Items, NEW v \in Verdicts, JudgeItem(i, v) PROVE DriftIsSeen'
  BY <1>2, <1>8 DEF JudgeItem, listVars
<1>9. ASSUME NEW v \in Verdicts, Reverse(v) PROVE DriftIsSeen'
  BY <1>2, <1>9 DEF Reverse, listVars
<1>. QED
  BY <1>3, <1>4, <1>5, <1>6, <1>7, <1>8, <1>9 DEF LifeNext, Plans, Applies, Undoes, Others

-----------------------------------------------------------------------------
(* The theorems.                                                            *)

LEMMA LifeInvInit ==
  LifeInit => LifeInv
<1>. SUFFICES ASSUME LifeInit PROVE LifeInv
  OBVIOUS
<1>1. limit \in Limits /\ limit.lists \in Nat \ {0} /\ limit.minutes \in Nat \ {0}
      /\ limit.runs \in Nat
  BY Bounds DEF LifeInit
<1>2. LedgerTypeOK /\ LogAgreesWithPlan
  BY EmptyLogAgrees DEF LifeInit
<1>3. runs = <<>> /\ Len(runs) = 0 /\ DOMAIN runs = {} /\ runs \in Seq(RunRows)
  BY DEF LifeInit
<1>4. LifeTypeOK
  BY <1>1, <1>2, <1>3, AtRest DEF LifeInit, LifeTypeOK, RunRows
<1>5. ProcInPlace
  BY <1>1, <1>3, AtRest DEF LifeInit, ProcInPlace
<1>6. RowInHand /\ CommandFits /\ FailuresInPlan
  BY AtRest DEF LifeInit, RowInHand, CommandFits, FailuresInPlan
<1>7. OpenPlansInHand /\ FailuresAreOnRecord
  BY <1>3 DEF OpenPlansInHand, FailuresAreOnRecord
<1>8. LastListStamped /\ DriftIsSeen /\ EndsKept /\ FirstIsLowest
  BY DEF LifeInit, LastListStamped, LastPsl, DriftIsSeen, EndsKept, FirstIsLowest
<1>. QED BY <1>2, <1>4, <1>5, <1>6, <1>7, <1>8 DEF LifeInv

LEMMA LifeInvStutter ==
  ASSUME LifeInv, UNCHANGED lifeVars
  PROVE  LifeInv'
<1>. USE DEF LifeInv, lifeVars, tables, ledgerVars, logVars, listVars, ghosts
<1>1. LifeTypeOK' /\ LogAgreesWithPlan'
  BY DEF LifeTypeOK, LedgerTypeOK, LogAgreesWithPlan, RowsOf
<1>2. ProcInPlace' /\ RowInHand' /\ CommandFits'
  BY DEF ProcInPlace, RowInHand, CommandFits
<1>3. OpenPlansInHand' /\ FailuresInPlan' /\ FailuresAreOnRecord'
  BY DEF OpenPlansInHand, FailuresInPlan, FailuresAreOnRecord, PlanOf
<1>4. LastListStamped' /\ DriftIsSeen' /\ EndsKept' /\ FirstIsLowest'
  BY DEF LastListStamped, LastPsl, DriftIsSeen, EndsKept, FirstIsLowest
<1>. QED BY <1>1, <1>2, <1>3, <1>4

\* Rows, plans, process and log files fit together after any commands, failures and
\* deaths (cli.py 135-272).
THEOREM LifeInvariance ==
  LifeSpec => []LifeInv
<1>1. LifeInv /\ LifeNext => LifeInv'
  BY LifeTypeStep, LedgerStep, ProcInPlaceStep, RowInHandStep, OpenPlansStep, FailuresStep,
     OnRecordStep, LastListStep, DriftStep, LogsStep, FirstStep
  DEF LifeInv
<1>2. LifeInv /\ [LifeNext]_lifeVars => LifeInv'
  BY <1>1, LifeInvStutter
<1>. QED BY <1>2, LifeInvInit, PTL DEF LifeSpec

\* Every reachable state is well typed, for any bounds.
THEOREM LifeTypeCorrect ==
  LifeSpec => []LifeTypeOK
<1>1. LifeInv => LifeTypeOK
  BY DEF LifeInv
<1>. QED BY <1>1, LifeInvariance, PTL

\* The log agrees with the plans of all runs, through undos and deaths
\* (index.py 219-247, 294-302).
THEOREM CommandsKeepLogInStep ==
  LifeSpec => []LogAgreesWithPlan
<1>1. LifeInv => LogAgreesWithPlan
  BY DEF LifeInv
<1>. QED BY <1>1, LifeInvariance, PTL

\* No command takes a row out of the log, or a verdict back.
THEOREM CommandsUnwriteNothing ==
  LifeSpec => NothingIsUnwritten
<1>1. LifeInv /\ [LifeNext]_lifeVars =>
        [ /\ \A n \in 1..Len(moves) : n \in 1..Len(moves') /\ moves'[n] = moves[n]
          /\ \A i \in Items : fate[i] # "pending" => fate'[i] = fate[i] ]_ledgerVars
  BY LedgerStep DEF LifeInv
<1>. QED BY <1>1, LifeInvariance, PTL DEF LifeSpec, NothingIsUnwritten

\* A FatalError leaves no run open whose plan is saved (cli.py 247-253).
THEOREM FatalClosesPlans ==
  LifeSpec => []FatalLeavesNoPlanOpen
<1>1. LifeInv => FatalLeavesNoPlanOpen
  <2>. SUFFICES ASSUME LifeInv PROVE FatalLeavesNoPlanOpen
    OBVIOUS
  <2>1. 0 \notin DOMAIN runs
    BY RunRowsTyped DEF LifeInv
  <2>. QED BY <2>1 DEF LifeInv, ProcInPlace, OpenPlansInHand, FatalLeavesNoPlanOpen
<1>. QED BY <1>1, LifeInvariance, PTL

\* What a row says of failures is true, and stays true (cli.py 207-208).
THEOREM RecordedFailuresAreReal ==
  LifeSpec => []FailuresAreOnRecord
<1>1. LifeInv => FailuresAreOnRecord
  BY DEF LifeInv
<1>. QED BY <1>1, LifeInvariance, PTL

\* check warns exactly when the list is not that of the last run (recovery.py 38-42).
THEOREM CheckSeesDrift ==
  LifeSpec => []DriftIsSeen
<1>1. LifeInv => DriftIsSeen
  BY DEF LifeInv
<1>. QED BY <1>1, LifeInvariance, PTL

\* Unless the clock was put back, prune leaves the first and the last pair of log
\* files; the pair of the lowest stamp stays in any case (runlog.py 190-205).
THEOREM EndsOfLogsStay ==
  LifeSpec => []LogsKept
<1>1. LifeInv => LogsKept
  <2>. SUFFICES ASSUME LifeInv PROVE LogsKept
    OBVIOUS
  <2>1. EndsKept /\ logs \subseteq ever /\ ever \in SUBSET Nat
    BY Bounds DEF LifeInv, LifeTypeOK, ProcInPlace
  <2>2. ever # {} => Min(ever) \in logs
    BY <2>1, LeastOf DEF EndsKept
  <2>3. ever # {} /\ ~ putBack => Max(ever) \in logs
    BY <2>1, GreatestOf DEF EndsKept
  <2>4. ever # {} => first \in ever
    BY DEF LifeInv, LifeTypeOK
  <2>5. ever # {} /\ ~ putBack => Min(ever) = first
    BY <2>1, <2>4, LeastOf DEF LifeInv, FirstIsLowest
  <2>. QED BY <2>1, <2>2, <2>3, <2>5 DEF EndsKept, LogsKept
<1>. QED BY <1>1, LifeInvariance, PTL

\* What is pending in a plan that another run has followed is carried out only if
\* the operator names it (cli.py 125-131, 195-202).
THEOREM OldPlansRest ==
  LifeSpec => SupersededPlanRests
<1>. DEFINE Rest == \A i \in Items :
                      fate'[i] # fate[i] => proc.named \/ Entry[i].run = Len(runs)
<1>1. ASSUME LifeInv, LifeNext PROVE Rest
  <2>. USE DEF LifeInv
  <2>1. CASE BeginsRow
    BY <1>1, <2>1, BegunRow DEF ledgerVars
  <2>2. CASE ClosesRow \/ Fatal
    BY <1>1, <2>2, ClosedRow, FatalRow DEF ledgerVars
  <2>3. CASE Applying \/ Aside \/ SavePlan \/ Dies
    BY <2>3 DEF Applying, Apply, Aside, SavePlan, Dies, tables, ledgerVars
  <2>4. ASSUME NEW i \in Items, NEW v \in Verdicts, JudgeItem(i, v) PROVE Rest
    <3>1. /\ proc.at = "apply" /\ Entry[i].run = proc.run /\ fate' = [fate EXCEPT ![i] = v]
          /\ fate \in [Items -> Verdicts \cup {"pending"}]
      BY <1>1, <2>4 DEF JudgeItem, Pending, PlanOf, Settle, LifeTypeOK, LedgerTypeOK
    <3>2. \A j \in Items : fate'[j] # fate[j] => j = i
      BY <3>1
    <3>3. proc.named \/ proc.run = Len(runs)
      BY <1>1, <3>1 DEF RowInHand
    <3>. QED BY <3>1, <3>2, <3>3
  <2>5. ASSUME NEW v \in Verdicts, Reverse(v) PROVE Rest
    BY <2>5 DEF Reverse
  <2>. QED BY <1>1, <2>1, <2>2, <2>3, <2>4, <2>5, StepKinds
<1>2. LifeInv /\ [LifeNext]_lifeVars => [Rest]_lifeVars
  BY <1>1
<1>. QED BY <1>2, LifeInvariance, PTL DEF LifeSpec, SupersededPlanRests

=============================================================================
