----------------------------- MODULE Lifecycle ------------------------------
(***************************************************************************)
(* Commands one after another: what cli.main leaves in the runs table, in  *)
(* the plans, in the move log and in log/, and what the next command makes *)
(* of it.  One process runs at a time and may die anywhere.                *)
(*                                                                         *)
(* A run's row is opened by start_run and completed by finish_run; `apply` *)
(* opens none, it works on the row of the plan.  Verdicts are PlanLedger's *)
(* (Executor has the inside of apply, Undo that of undo).                  *)
(***************************************************************************)
EXTENDS PlanLedger, FiniteSets, FiniteSetsExt

CONSTANTS
  Runs,         \* run_ids, of plans and others
  Retentions,   \* the values of logging.retention_runs
  Limits        \* bounds, as records: how many rows of the runs table, minutes in
                \* which a command starts, suffix lists, and deaths

ASSUME LifecycleAssumption ==
  /\ Runs \subseteq Nat \ {0}
  /\ Retentions \subseteq Nat
  /\ Limits \subseteq [runs : Nat, minutes : Nat \ {0}, lists : Nat \ {0}, deaths : Nat]
  /\ \A l \in Limits : 1..l.runs \subseteq Runs
  /\ Items \subseteq Nat
  /\ \A i \in Items : Entry[i].run \in Runs
  /\ \A r \in Runs : [run |-> r, item |-> 0] \in Rows

Modes    == {"plan", "undo", "rebuild-index"}
Statuses == {"running", "ok", "aborted", "completed_with_failures", "failed"}
Idle     == [at |-> "idle", cmd |-> "none", run |-> 0, active |-> 0, named |-> FALSE,
             target |-> 0, left |-> 0, failed |-> FALSE]

VARIABLES
  runs,        \* the runs table, by run_id: mode, status, psl_version
  planned,     \* the rows of plan_items
  proc,        \* the process: where it is, its command, its run, active_run, ...
  bundled,     \* the version of the bundled public suffix list
  checked,     \* what the last command was, if `check`: quiet or warned
  clock,       \* local time, in minutes
  logs,        \* the stamps of the pairs of files in log/
  retention,   \* logging.retention_runs
  lastList,    \* ghost: the list at the last start_run; 0 before the first
  ever,        \* ghost: every stamp a pair was opened under
  first,       \* ghost: the stamp of the very first pair; 0 before it is written
  putBack,     \* ghost: the clock has been put back
  deaths,      \* ghost: kills, lost connections, exceptions nobody catches
  limit        \* ghost: the bounds of this behaviour

tables   == <<runs, planned, ledgerVars>>
logVars  == <<clock, logs, retention, ever, first, putBack>>
listVars == <<bundled, checked, lastList>>
ghosts   == <<deaths, limit>>
lifeVars == <<tables, proc, logVars, listVars, ghosts>>

LifeTypeOK ==
  /\ LedgerTypeOK
  /\ runs \in Seq([mode : Modes, status : Statuses, list : 0..limit.lists])
  /\ planned \subseteq {i \in Items : Entry[i].run \in DOMAIN runs}
  /\ proc.at \in {"idle", "survey", "close", "apply", "undo", "rebuild"}
  /\ proc.run \in 0..Len(runs) /\ proc.active \in 0..Len(runs) /\ proc.left \in Nat
  /\ bundled \in 1..limit.lists /\ lastList \in 0..limit.lists
  /\ checked \in {"none", "quiet", "warned"}
  /\ clock \in 1..limit.minutes /\ logs \subseteq ever /\ ever \subseteq 1..limit.minutes
  /\ IF ever = {} THEN first = 0 ELSE first \in ever

LifeInit ==
  /\ Init
  /\ runs = <<>> /\ planned = {} /\ proc = Idle
  /\ bundled = 1 /\ checked = "none" /\ lastList = 0
  /\ clock = 1 /\ logs = {} /\ ever = {} /\ first = 0 /\ putBack = FALSE
  /\ retention \in Retentions
  /\ deaths = 0 /\ limit \in Limits

-----------------------------------------------------------------------------
(* Rows, log files, and how a command begins and ends.                      *)

PlanOf(r)  == {i \in planned : Entry[i].run = r}
Pending(r) == {i \in PlanOf(r) : Unsettled(i)}
MovesOf(r) == {n \in 1..Len(moves) : moves[n].run = r}

\* Mutant: undo and rebuild leave the version blank.
PlanOnly(mode) == IF mode = "plan" THEN bundled ELSE 0
Stamp(mode) == bundled

StartRun(mode) ==
  /\ Len(runs) < limit.runs
  /\ runs' = Append(runs, [mode |-> mode, status |-> "running", list |-> Stamp(mode)])
  /\ lastList' = bundled

Finished(r, s) == [runs EXCEPT ![r].status = s]

\* prune: stamps[-N:] and stamps[0]; with N = 0, stamps[-0:] is every stamp.
Newest(S) ==
  IF retention = 0 THEN S ELSE {s \in S : Cardinality({t \in S : t > s}) < retention}
\* Mutant: the baseline is not kept.
NewestOnly(S) == IF Cardinality(S) <= retention THEN S ELSE Newest(S)
Kept(S) == IF Cardinality(S) <= retention THEN S ELSE Newest(S) \cup {Min(S)}

Opened == logs \cup {clock}
Opens ==
  /\ proc.at = "idle"
  /\ ever' = ever \cup {clock}
  /\ first' = IF ever = {} THEN clock ELSE first

\* A command that opens a run row of its own.
Begins(c, mode, target) ==
  /\ Opens /\ logs' = Opened
  /\ StartRun(mode)
  /\ proc' = [Idle EXCEPT !.at = IF mode = "plan" THEN "survey" ELSE c, !.cmd = c,
                          !.run = Len(runs) + 1, !.target = target,
                          !.left = Cardinality(MovesOf(target))]
  /\ checked' = "none"
  /\ UNCHANGED <<planned, ledgerVars, bundled, clock, retention, putBack, ghosts>>

\* The way out that finishes a row and prunes the logs.
Closes(r, s) ==
  /\ runs' = Finished(r, s)
  /\ logs' = Kept(logs)
  /\ proc' = Idle
  /\ UNCHANGED <<planned, ledgerVars, listVars, clock, retention, ever, first, putBack, ghosts>>

-----------------------------------------------------------------------------
(* plan, run and run --dry-run.  Until do_plan returns, main does not know  *)
(* the run it is in.                                                        *)

\* "plan" stands for run --dry-run too.
Plan == Begins("plan", "plan", 0)
Run  == Begins("run", "plan", 0)

\* Mutant: main does not remember the run.
Forgets(r) == 0
ActiveRun(r) == r

\* The first rows of the plan that was made: all of them, unless it dies.
Saved(n) == planned \cup {i \in Items : Entry[i].run = proc.run /\ i <= n}

SavePlan ==
  /\ proc.at = "survey"
  /\ \E n \in Items \cup {0} : planned' = Saved(n)
  /\ proc' = [proc EXCEPT !.at = IF proc.cmd = "run" THEN "apply" ELSE "close",
                          !.active = ActiveRun(proc.run)]
  /\ UNCHANGED <<runs, ledgerVars, logVars, listVars, ghosts>>

FinishPlan == proc.at = "close" /\ Closes(proc.run, "ok")

-----------------------------------------------------------------------------
(* apply [--run r].                                                         *)

\* Mutant: the last run that has a plan.
LatestPlan == Max({0} \cup {r \in DOMAIN runs : runs[r].mode = "plan"})
LatestRun == Len(runs)

Apply(r, named) ==
  /\ Opens /\ logs' = Opened
  /\ r \in DOMAIN runs
  /\ proc' = [Idle EXCEPT !.at = "apply", !.cmd = "apply", !.run = r, !.active = r,
                          !.named = named]
  /\ checked' = "none"
  /\ UNCHANGED <<tables, bundled, lastList, clock, retention, putBack, ghosts>>

ApplyLatest == Apply(LatestRun, FALSE)
ApplyNamed  == \E r \in Runs : Apply(r, TRUE)

JudgeItem(i, v) ==
  /\ proc.at = "apply" /\ i \in Pending(proc.run)
  /\ Settle(i, v)
  /\ proc' = [proc EXCEPT !.failed = @ \/ v = "failed"]
  /\ UNCHANGED <<runs, planned, logVars, listVars, ghosts>>

FinishApply ==
  /\ proc.at = "apply" /\ Pending(proc.run) = {}
  /\ proc.cmd = "apply" => PlanOf(proc.run) # {}
  /\ Closes(proc.run, IF proc.failed THEN "completed_with_failures" ELSE "ok")

-----------------------------------------------------------------------------
(* undo --run r, and rebuild-index.                                         *)

Undo(r) == r \in DOMAIN runs /\ MovesOf(r) # {} /\ Begins("undo", "undo", r)

UndoNothing ==
  /\ Opens /\ logs' = Kept(Opened)
  /\ checked' = "none"
  /\ UNCHANGED <<tables, proc, bundled, lastList, clock, retention, putBack, ghosts>>

\* One move: taken back, refused by the server, or no longer there.
Reverse(v) ==
  /\ proc.at = "undo" /\ proc.left > 0
  /\ moves' = IF v = "done" THEN Append(moves, [run |-> proc.run, item |-> 0]) ELSE moves
  /\ proc' = [proc EXCEPT !.left = @ - 1, !.failed = @ \/ v = "failed"]
  /\ UNCHANGED <<runs, planned, fate, logVars, listVars, ghosts>>

FinishUndo == /\ proc.at = "undo" /\ proc.left = 0
              /\ Closes(proc.run, IF proc.failed THEN "failed" ELSE "ok")

Rebuild       == Begins("rebuild", "rebuild-index", 0)
FinishRebuild == proc.at = "rebuild" /\ Closes(proc.run, "ok")

-----------------------------------------------------------------------------
(* Commands that only look, and those that fail before they do anything:    *)
(* what remains is a pair of log files.                                     *)

Look ==
  /\ Opens /\ logs' = Opened
  /\ checked' = "none"
  /\ UNCHANGED <<tables, proc, bundled, lastList, clock, retention, putBack, ghosts>>

LastPsl == IF runs = <<>> THEN 0 ELSE runs[Len(runs)].list

Check ==
  /\ Opens /\ logs' = Opened
  /\ checked' = IF LastPsl # 0 /\ LastPsl # bundled THEN "warned" ELSE "quiet"
  /\ UNCHANGED <<tables, proc, bundled, lastList, clock, retention, putBack, ghosts>>

-----------------------------------------------------------------------------
(* The ways out that finish nothing, or not as planned.                     *)

\* Mutant: an apply that was cut short says how far it came.
ByFailures == IF proc.failed THEN "completed_with_failures" ELSE "aborted"
AbortStatus == "aborted"

\* FatalError: active_run is closed, any other row is left as it is.
Fatal ==
  /\ proc.at \in {"survey", "apply", "undo", "rebuild"}
  /\ runs' = IF proc.active # 0 THEN Finished(proc.active, AbortStatus) ELSE runs
  /\ proc' = Idle
  /\ UNCHANGED <<planned, ledgerVars, logVars, listVars, ghosts>>

\* A kill, a TransientError, a traceback.  save_plan inserts row by row.
Dies ==
  /\ proc.at # "idle" /\ deaths < limit.deaths
  /\ deaths' = deaths + 1
  /\ IF proc.at = "survey" THEN \E n \in Items \cup {0} : planned' = Saved(n)
                           ELSE UNCHANGED planned
  /\ proc' = Idle
  /\ UNCHANGED <<runs, ledgerVars, logVars, listVars, limit>>

Tick ==
  /\ proc.at = "idle" /\ clock < limit.minutes
  /\ clock' = clock + 1
  /\ UNCHANGED <<tables, proc, logs, retention, ever, first, putBack, listVars, ghosts>>

PutBack ==
  /\ proc.at = "idle" /\ clock > 1 /\ ~ putBack
  /\ clock' = clock - 1 /\ putBack' = TRUE
  /\ UNCHANGED <<tables, proc, logs, retention, ever, first, listVars, ghosts>>

Revendor ==
  /\ proc.at = "idle" /\ bundled < limit.lists
  /\ bundled' = bundled + 1 /\ checked' = "none"
  /\ UNCHANGED <<tables, proc, lastList, logVars, ghosts>>

Plans   == Plan \/ Run \/ SavePlan \/ FinishPlan
Applies == ApplyLatest \/ ApplyNamed \/ FinishApply
           \/ \E i \in Items, v \in Verdicts : JudgeItem(i, v)
Undoes  == (\E r \in Runs : Undo(r)) \/ UndoNothing \/ FinishUndo
           \/ \E v \in Verdicts : Reverse(v)
Others  == Rebuild \/ FinishRebuild \/ Look \/ Check

LifeNext == Plans \/ Applies \/ Undoes \/ Others \/ Fatal \/ Dies
            \/ Tick \/ PutBack \/ Revendor

LifeSpec == LifeInit /\ [][LifeNext]_lifeVars

-----------------------------------------------------------------------------
(* Properties.                                                              *)

\* README.md 188-189: "a run row is opened by start_run and completed in place when
\* the run ends, and a finished row is never rewritten afterward".  An `apply`, with
\* or without --run, finishes again whatever row it takes (cli.py 202-210, 254).
FinishedRowsStay ==
  [][\A r \in DOMAIN runs : runs[r].status # "running" => runs'[r] = runs[r]]_lifeVars

\* A FatalError leaves no run open whose plan is saved, so that `status` does
\* not show as running what `apply --run` has to resume (cli.py 247-253).  A row
\* that stays `running` without a death is a survey's, an undo's or a rebuild's.
FatalLeavesNoPlanOpen ==
  deaths = 0 /\ proc.at = "idle" =>
    \A r \in DOMAIN runs : runs[r].status = "running" => PlanOf(r) = {}

\* A row that says completed_with_failures is that of a run with nothing left to
\* do and something that failed, after any commands since (cli.py 207-208).
FailuresAreOnRecord ==
  \A r \in DOMAIN runs :
    runs[r].status = "completed_with_failures" =>
      /\ \A i \in PlanOf(r) : fate[i] # "pending"
      /\ \E i \in PlanOf(r) : fate[i] = "failed"

\* A plan is laid to rest by whatever run comes after it: what is pending in it
\* is not carried out behind the back of a newer plan, an undo or a rebuild,
\* unless the operator names it (_latest_run, cli.py 125-131).
SupersededPlanRests ==
  [][\A i \in Items :
       fate'[i] # fate[i] => proc.named \/ Entry[i].run = Len(runs)]_lifeVars

\* check tells of a public suffix list that changed since the last run, whatever
\* command that was (recovery.py 38-42, runner.py 98-106).
DriftIsSeen == checked # "none" => (checked = "warned" <=> lastList \notin {0, bundled})

\* Unless the clock was put back, prune leaves the very first pair and the latest,
\* however few runs are retained; put back or not, the pair of the lowest stamp;
\* and a retention of 0 keeps all (runlog.py 190-205).  README.md 181-183 says the
\* first half without the condition: but prune takes the lowest stamp for the first,
\* and once the clock was put back that may be another pair's.
LogsKept ==
  /\ ever # {} /\ ~ putBack => first \in logs /\ Max(ever) \in logs
  /\ ever # {} => Min(ever) \in logs
  /\ retention = 0 => logs = ever

-----------------------------------------------------------------------------
(* Why they hold: an inductive invariant, with LifeTypeOK and the log's     *)
(* agreement with the plans.                                                *)

Steps    == {"idle", "survey", "close", "apply", "undo", "rebuild"}
Commands == {"none", "plan", "run", "apply", "undo", "rebuild"}

ProcInPlace ==
  /\ limit \in Limits /\ retention \in Retentions /\ deaths \in Nat
  /\ Len(runs) <= limit.runs
  /\ proc \in [at : Steps, cmd : Commands, run : Nat, active : Nat, named : BOOLEAN,
               target : Nat, left : Nat, failed : BOOLEAN]
  /\ proc.run \in IF proc.at = "idle" THEN {0} ELSE DOMAIN runs
  /\ proc.active = IF proc.at \in {"close", "apply"} THEN proc.run ELSE 0

\* A command other than `apply` works on a row it has opened and not finished, and
\* only `apply --run` works on any row but the last.
RowInHand ==
  proc.at # "idle" =>
    /\ proc.cmd # "apply" => runs[proc.run].status = "running"
    /\ ~ proc.named => proc.run = Len(runs)

\* A command in its survey is a `plan` or `run`, one that closes its plan is `plan`.
CommandFits ==
  /\ proc.at = "survey" => proc.cmd \in {"plan", "run"}
  /\ proc.at = "close" => proc.cmd = "plan"

\* An open row with a plan is the one main remembers.
OpenPlansInHand ==
  deaths = 0 => \A r \in DOMAIN runs :
                  runs[r].status = "running" /\ PlanOf(r) # {} => r = proc.active

\* A process that knows of a failure has it in its plan.
FailuresInPlan ==
  /\ proc.at \in {"survey", "close"} => ~ proc.failed
  /\ proc.at = "apply" /\ proc.failed => \E i \in PlanOf(proc.run) : fate[i] = "failed"

LastListStamped == lastList = LastPsl

\* The pair of the lowest stamp is there, and the last if the clock was left alone.
EndsKept ==
  /\ ever # {} => \E m \in logs : \A s \in ever : m <= s
  /\ ever # {} /\ ~ putBack => \E m \in logs : m <= clock /\ \A s \in ever : s <= m
  /\ retention = 0 => logs = ever

\* The first pair has the lowest stamp if the clock was left alone.
FirstIsLowest == ~ putBack => \A s \in ever : first <= s

LifeInv ==
  /\ LifeTypeOK /\ LogAgreesWithPlan
  /\ ProcInPlace /\ RowInHand /\ CommandFits
  /\ OpenPlansInHand /\ FailuresInPlan /\ FailuresAreOnRecord
  /\ LastListStamped /\ DriftIsSeen /\ EndsKept /\ FirstIsLowest

=============================================================================
