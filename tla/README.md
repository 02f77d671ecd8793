# MailGoNizer in TLA+

MailGoNizer archives an IMAP inbox into a tree of folders by year and sender.
Once a month (cron, or by hand) it surveys the inbox and the archive, plans
moves, and carries them out; `undo` takes a run back. It works on mail that
its owner reads with another client at the same time, over connections that
drop, against servers whose commands are not transactions, and it remembers
what it did in an SQLite file. These modules model what is hard about that:
which mail the survey sees and how it is classified, which mail may move, what
the log and the runs table know after a failure, and whether all mail comes to
its place in the end.

File names below are relative to `lib/mailgonizer/`.

## The system and its components

| Component | State it keeps | Operations | Modelled in |
|---|---|---|---|
| executor (`executor.py`) | the walk over the plan: group, batch, attempt, validated folders | `execute`, `_move_with_retry`, `move_individually` | `Executor` |
| IMAP mailbox (`imap.py`) | connection, selected folder with its UIDNEXT | connect, select, message_count, fetch_headers with the windowed search, ensure_folder, fetch_identity, list_uids, move (MOVE, or COPY + STORE + EXPUNGE with rollback) | `Executor`, `Undo`, `Survey` |
| the server and the owner (external) | messages, flags, UIDs, UIDNEXT, UIDVALIDITY | commands, message by message; the owner expunges, flags, moves; folders are renumbered | `MailServer` |
| index (`index.py`) | `plan_items`, `moves`, `promotions`, `runs`, the `messages` cache | start_run, finish_run, last_run, save_plan, mark_done / failed / skipped, append_move, already_moved, record_promotion, upsert_messages, clear_cache | `Executor`, `Undo`, `Cycle`, `Lifecycle`, `Survey`; its promise in `PlanLedger` |
| planner (`planner.py`) | none (pure) | eligibility, counting, promotion, destination, order, cap | `Planner` |
| runner (`runner.py`) | none between calls | survey, classify, do_plan, do_apply, do_check | `Survey`, `Cycle`, `Lifecycle` |
| recovery (`recovery.py`) | none between calls | undo_run, rebuild_index; export | `Undo`, `Cycle`, `Survey`, `Lifecycle` |
| command line (`cli.py`) | `active_run` | every command, with its exit paths | `Lifecycle`; the inside of apply and undo in `Executor`, `Undo` |
| dates, psl, sender (`dates.py`, `psl.py`, `sender.py`) | none (pure); the bundled suffix list | resolve_date, public_suffix, registrable_domain, derive_sender | `Classify` |
| run log (`runlog.py`) | pairs of files in `log/` | open, prune | `Lifecycle` |
| records, config | none | keys and types; reading settings | as constants (see "Not modelled") |
| cron wrapper (`bin/mailgonizer-cron`) | a lock | single instance | as the assumption that one process runs |

How they interact. The command line opens the index and connects; `plan`
calls survey, build_plan, record_promotion and save_plan; `apply` calls
execute, which reads `plan_items`, asks the server to confirm each message,
calls `Mailbox.move` and writes one verdict per item. Every SQL statement
commits by itself, only `mark_done` groups two. `undo` reads `moves`, finds the
messages in their destination folders, moves them back and appends reversals.
The next plan reads `promotions`; the next apply reads the last row of `moves`
of each message (`already_moved`). `check` and `apply` without `--run` read the
last row of `runs`, whatever command made it. The mailbox is shared with the
owner's client, the index and `log/` outlive the process.

What is hard.

- A UID means a message only as long as the folder keeps its UIDVALIDITY. A
  dropped connection in the middle of a move is the moment when it may not.
- A command moves messages one after another. It may be refused, or its
  answer be lost, when some of them have been moved.
- The mailbox and the index cannot change in one step. A kill in between leaves
  them apart, and what the code does next depends on which was first.
- The fallback for servers without MOVE has three commands and a rollback.
- Plans are stale: made on Monday, applied on Friday, or resumed a month later.
- Promotions are for ever, counts are not.
- The survey takes hours, in windows of UIDs and chunks of headers, while mail
  comes and goes.
- Classification depends on the day and on the bundled suffix list, and both
  change between runs; the cache and the runs table remember the earlier ones.
- One table of runs serves commands of four kinds, and commands that name no run
  take the last row.

What makes each part correct.

- executor: only planned mail leaves its place; no mail is lost; a recorded
  move has happened; a skip means the mail is where it should be; one refused
  message fails alone; a completed run leaves nothing pending; it ends.
- index: the log and the plan's verdicts agree; nothing is ever unwritten.
- undo: it takes home what the run has moved and nothing else; a logged
  reversal has happened; a refused message is counted and costs no other.
- planner, runner: what is promoted stays so; backfills precede archives; a
  cap delays and never starves; the log does not block what is still to move.
- survey: mail nobody touches is read exactly once, and the sweep ends.
- classification: suffixes are the published ones; only time that overtakes a
  date may change a year.
- command line: a row that speaks of failures is right; an unfinished plan is not
  taken up by accident; a changed suffix list is seen by check; the baseline log
  survives as long as the clock is not put back.

## Modules

| Module | What it is |
|---|---|
| `MailServer` | the server and the owner: slots (folder, UID), one command on one message, renumbering, the owner's steps. External: modelled from how `imap.py` calls it |
| `Executor` | `apply`: execute with the parts of imap.py, index.py and cli.py it calls. Extends `MailServer` |
| `PlanLedger` | abstract: what the index promises about one plan. `Executor` is shown to implement it (`LedgerKept`) |
| `Undo` | `undo_run`, step by step, on the same server. Extends `MailServer` |
| `Planner` | `build_plan` as operators over a survey |
| `Cycle` | month after month: survey, plan, apply, undo, kills, the owner, with one step per item. Extends `Planner` |
| `Lifecycle` | commands one after another: the runs table, `active_run`, plans, the move log, log files, suffix list versions. Extends `PlanLedger` |
| `Classify` | `resolve_date`, `PublicSuffixList` and `derive_sender` as operators, and the published suffix algorithm as their reference |
| `Survey` | the sweep of the mailbox, classify and the cache, as `plan` and `rebuild-index` share them. Extends `MailServer` and `Classify` |
| `MCExecutor`, `MCUndo`, `MCCycle`, `MCLifecycle`, `MCSurvey` | instances for TLC |
| `MailServerProofs` | lemmas about slots, UIDs and what each command on one message leaves of the mailbox; used by the proofs about `Executor` and `Undo` |
| `ExecutorProofs`, `CustodyProofs` | theorems about `Executor`: its inductive invariant and the ledger; then that no mail is lost and that the log is true |
| `PlanLedgerProofs`, `UndoProofs`, `LifecycleProofs`, `CycleProofs`, `SurveyProofs` | theorems about the module each is named after |

### MailServer

A message is its `msg_key`, a slot is a pair of folder and UID; `box` says which
message a slot holds, `deleted` which slots carry `\Deleted`. `MoveOne` and
`CopyOne` give a message the next UID of the new folder; a UID that names
nothing is passed over without an error, as RFC 3501 has it, and the retry of a
half-done MOVE depends on that. `Renumber` permutes the messages of a folder
over the UIDs it has given out and raises UIDVALIDITY: the same integers name
other mail. The owner expunges, flags and moves any message at any time; the
ghost `touched` remembers which, so that properties can speak of the mail he
has left alone.

### Executor

One action per step of the code between two points where something else can
happen. `Start` is main connecting and reading what is pending; `OpenGroup` is
the head of the loop over groups with the UIDVALIDITY check; `EnsureFolder`;
`TakeBatch` with the `already_moved` filter; `FetchIdentity` with the three ways
an item can go; `Send` and `CopyContinues` put a command on the wire. The server
then works on it message by message (`ServerMoves`, `ServerCopies`) or at once
(`ServerFlags`, `ServerExpunges`) and answers, or refuses. `MoveReturns` and
`MoveRaises` are what `Mailbox.move` makes of the answer; `Reconnect` is the
retry with its second UIDVALIDITY check; `trying` is the state of
`move_individually`. `Record` writes one verdict: the code decides a batch and
writes item by item, so `verdict` holds what is decided and not yet written, and
a kill loses it. The ways out are `Finish` (0 or 2 failures), `Abort`
(FatalError, the run is closed as aborted), `ReconnectUnreachable`
(TransientError, nothing is closed), `Traceback` (what nobody catches on a
connection that is gone) and `Crash` (a kill, or a NO to SELECT or FETCH, which
nobody catches either). After each the process is idle and may be started again on the same
plan: that is a resumed apply.

`selected` stands for both the cached `Mailbox._selected` and the server's
state: the code answers from the cache, so a select on a dead connection
succeeds when the folder is the current one.

### PlanLedger

Two variables: the verdicts and the log. An item is pending until it gets one
final verdict, and the log gains its row in the same step exactly when that is
`done`. `Executor` implements it with the identity on both variables; every
step but `Record` stutters.

### Undo

`ListUids` selects a destination folder and reads its UIDs (the windowed search
is one step), `FetchChunk` fills `byKey` (the dict `by_key`, so that of two UIDs
with one key the later stays), `Locate` splits the rows into found and not at
destination, then `OpenHome`, `TakeBatch`, `Send`, the server, and
`move_individually` on an error. `Record` appends a reversal or counts a
failure. Unlike apply, undo does not retry, does not check UIDVALIDITY after
the select and leaves its run row open on every exit but the last.

### Planner and Cycle

A bucket is (year, domain, local), or what takes its place for lists and
unknown senders; `Flat` and `Sub` are the two values of `archive_path` for it. A
survey is a set of sightings. `Count`, `NewPromotions`, `Destination`, `Moves`,
`Position` and `PlanItems` follow `build_plan`; the position of an item is
counted in the sort order, which is backfills first and then destination,
folder and UID, and the cap keeps the positions up to it.

`Cycle` composes it with abstractions of apply and undo (one step per
item, with the outcomes `Executor` has: moved, moved but not logged, skipped,
refused; what undo finds refused stays where it is, as what a kill leaves of an
undo does) so that several months fit in a model. Folders are surveyed
one by one while the owner moves mail, promotions are recorded one by one, a
kill leaves any prefix of a plan, and the last two plans may be applied or
undone by name.

### Lifecycle

The variables are what one command leaves to the next: `runs` (mode, status,
psl_version), `planned` (which rows of `plan_items` exist), the verdicts and the
move log of `PlanLedger`, the stamps of the files in `log/`. `proc` is the one
process: where it is in its command, the run it works on, and `active`, main's
`active_run`, which is set only when do_plan has returned, or at the start of
`apply`. `Begins` opens the files and a row; `Closes` finishes the row and
prunes; `Fatal` is the FatalError handler, which closes `active` and nothing
else; `Dies` is everything that closes nothing. A verdict is `PlanLedger`'s
`Settle` in one step. `Look` stands for every command that opens a log and ends:
status, show-plan, export-index, a failed connect, an unsafe server. `ghosts`
hold bounds; `lastList`, `ever`, `first` and `putBack` remember what the
properties compare with.

### Classify and Survey

A host is a sequence of labels, a suffix list a set of lines, a message's headers
a record of parsed values or `Nothing`. `ExceptionAt` and `RuleAt` are the two
loops of `public_suffix`; `Claimed` is the order Date, Received from the last
up; `IsSane` the window; `Usable` the order From, Sender, Return-Path.
`PublishedSuffix` is written from publicsuffix.org's description instead, for
comparison.

In `Survey` a command counts all folders (`Count`, which leaves the last one
selected), then for each selects (`Select`, by the cache when there is one
folder), searches (`SearchWindow` by window, or `SearchAll` on a server that
reports no UIDNEXT), fetches chunk by chunk, and at the end classifies and
upserts. `plan` takes its `now` at its beginning, `rebuild-index` after the
sweep (`Now`). `Upserted(n)` is the table after n records, since each row commits
by itself; `Fails` may stop there. SEARCH answers in the server's order
(`SetToSeq`), and FETCH is keyed by UID. What `plan` does afterwards is in `Cycle`.

## What the runs show

Passing runs:

| Run | Instance | Properties |
|---|---|---|
| `apply_move` | MOVE server; backfills out of two folders, so that the plan returns to a folder after another one, for a batch of two of which the server refuses one message; logs of earlier runs, an undo among them; a second copy of a planned message; 1 fault, 1 kill, 1 step of the owner | `OnlyPlannedMailLeaves`, `SkippedMailIsFiled`, `LogIsComplete`, `LedgerKept`, `IInv` |
| `apply_copy` | server without MOVE; two batches of one group, one message the server refuses for good; 1 fault, 1 kill, 1 step of the owner; fairness | `NothingLost`, `RecordedMoveIsReal`, `Custody`, `OnlyPlannedMailLeaves`, `BlameIsIndividual`, `ClosedMeansResolved`, `InvocationEnds`, `EveryItemSettles` |
| `lifecycle` | up to three runs of any kind in any order, two of them with plans, three items; deaths, four minutes with the clock put back once, two suffix lists, retention of 0, 1 and 2 (in three combinations of limits) | `FatalLeavesNoPlanOpen`, `FailuresAreOnRecord`, `SupersededPlanRests`, `DriftIsSeen`, `LogsKept`, `LogAgreesWithPlan`, `NothingIsUnwritten`, `LifeInv` |
| `survey` | two folders with gaps in their UIDs, or one, with and without UIDNEXT, windows and chunks of two, up to 2 steps of the owner and arrivals; a plan and a rebuild over four days and two lists; every suffix list of up to three of eight rules against 30 hosts; 1 fault; fairness | `EachReadOnce`, `SweepEnds`, `RebuildIsFresh`, `YearIsSettled`, `SuffixAsPublished`, `SurveyInv` |
| `undo` | five rows, two of them two copies of one key; two folders to empty, one of them with mail for two homes and one with other mail; a refused message or none; 1 fault or kill, 1 step of the owner; any number of repetitions; fairness | `TakesHomeWhatWasMoved`, `ReversalIsReal`, `RefusalBlocksNoNeighbour`, `RefusalStrandsNoRun`, `RunIsReversed`, `UndoEnds`, `IInv` |
| `cycle` | three messages, two of a sender that gets promoted once the second is old enough, one of another sender of the domain; a cap of one move per run; 1 fault or kill, 1 step of the owner or extra command; fairness | `NeverDemoted`, `NewMailJoinsLast`, `LogBlocksNothing`, `EveryMessageIsFiled`, `CycleInv` |

`IInv`, `CycleInv`, `LifeInv`, `SurveyInv` and `Custody` are the inductive invariants of the
proofs, with the type invariant of their module among their conjuncts. Here TLC
looks for a reachable state that refutes them, before and beside the proof.

What the main ones mean:

- `OnlyPlannedMailLeaves`: a slot the tool empties is named by an item that is
  still pending, and holds that item's message. It takes both UIDVALIDITY checks,
  the identity fetch and the named EXPUNGE to make it true; leaving out any of
  them is one of the mutants. The owner may flag other mail `\Deleted` between
  STORE and EXPUNGE.
- `SkippedMailIsFiled`: skipping is no way to lose mail. "Vanished" and "already
  moved" are claims about the destination.
- `NothingLost`: through COPY, STORE, EXPUNGE, rollback, kills and retries there
  is always an unflagged copy.
- `RecordedMoveIsReal`, `LogIsComplete`: the log and the mailbox agree in both
  directions; the second only without faults (run `interrupted_run`).
- `ClosedMeansResolved`: the `break` after a lost UIDVALIDITY and the
  `continue`s of the loop leave no item behind.
- `LedgerKept`: `Spec => PlanLedger!Spec`, with `PlanLedger`'s two properties as
  the consequence.
- `RunIsReversed`: an undo that ends with `ok` has reversed each row (`Reversed`):
  it was skipped and its folder holds no copy, or its message is back in its source
  folder and its destination has fewer copies than the run has rows for it; none if
  the row is the only one. Of two copies with one key undo takes one home and
  reports both rows moved (`by_key` has one UID per key): the other one is left, and
  a second undo finds it.
- `RefusalBlocksNoNeighbour`: without faults, an undo that has ended has reversed
  in this sense every row whose message the server does not refuse, though it
  shared a batch with one that is, and has brought none home that the log still
  blocks. A neighbour that is never tried violates it.
- `FatalLeavesNoPlanOpen`: a FatalError leaves no row `running` that has a saved
  plan. The rows of a survey, an undo or a rebuild that failed do stay
  `running`, without a kill, because main does not know them. Nothing is claimed
  of a finished row afterwards: apply rewrites it (run `finished_row`).
- `FailuresAreOnRecord`: `completed_with_failures` means nothing pending and
  something failed, also many commands later. (`ok` does not mean that much: it
  is what `plan` writes, and what a killed apply leaves; no property forbids it.)
- `SupersededPlanRests`: an older plan is carried out only by name.
- `DriftIsSeen`: `check` warns exactly when the last row of any mode was made
  under another list. Any command with a row ends the warning, also an undo; that
  is permitted here, though no plan was made under the new list.
- `LogsKept`: the very first pair of log files and the latest survive every prune,
  unless the clock was put back; then it is the pair with the lowest stamp that
  does, and the first need not. README.md:181-183 exempts "the very first log pair
  ever written" without a condition; but with a log opened at minute 2, the clock
  put back, one opened at 1 and one at 3, and a retention of 1, prune keeps 3 and 1
  and deletes the first pair. Stamps are local time, so the hour in which summer time
  ends is such a case. The baseline is the first pair of files,
  which after the documented first steps is that of `check` and not, as
  first-run.md:113-115 has it, that of the first run.
- `EachReadOnce`: windows, chunks and UIDs that answer nothing neither lose nor
  repeat mail that nobody touches; no UID is read twice in any case. The first
  edge counted wrong breaks it.
- `RebuildIsFresh`: `plan` keeps year and sender of rows it finds, so the cache
  ages; a rebuild is what makes it today's.
- `YearIsSettled`: a year changes only when a header that was ahead of the clock
  no longer is. Such a message is filed twice; no other is.
- `SuffixAsPublished`: two loops that stop at the first match are the published
  rule of the longest match, with exceptions, wildcards and comments.
- `NeverDemoted`: no plan files a message of a promoted sender back under the
  domain, also not an older plan applied late.
- `LogBlocksNothing`: the last row of the log names the place where a message
  belongs while it is elsewhere only if the owner has moved it, or a fault came
  between a move and its row.
- `EveryMessageIsFiled`: every message that is due comes to where it belongs in
  the end. The exception is mail the log blocks: such a message is planned by
  every run and skipped by every apply, and under a cap it takes the place of
  another. With a cap of one, it stops everything; the property says so.

Runs that show a disagreement between the code and its documentation:

| Run | Claim | What happens |
|---|---|---|
| `transient_exit` | cli.py:32 "nothing was changed" | a batch is moved, the next one loses its connection, the reconnect fails: the message is printed after moves were made, and the run stays `running` |
| `interrupted_run` | README.md:126 "an interrupted run loses nothing" | kill after the server's MOVE, before mark_done: the message is moved and the log does not know; the resumed apply records `vanished`, undo cannot bring it back |
| `copy_retry` | imap.py:369-375 the rollback lets the retry start from the state it expects | the copy stays in the destination; the retry copies a second time |
| `deleted_mail` | README.md:28 "never moves `\Deleted` mail" | the owner flags a message after the plan was made; fetch_identity confirms it |
| `finished_row` | README.md:188-189 "a finished row is never rewritten afterward" | `rebuild-index` finishes its row as `ok`; `apply` without `--run` takes that row, finds no plan items and rewrites it to `aborted`. Apply of a plan rewrites the row that `plan` has finished in the same way |
| `undo_interrupted` | index.py:276-279 reversed mail is free to be archived again | kill or lost answer between undo's MOVE and append_move: the message is back in the inbox and blocked for good |

None of them loses a message. They are statements about the code as it is; the
properties of the passing runs are stated so that they hold with them. Two more
differences have no run of their own: that of `LogsKept` above, and README.md:248-250,
which says that a changed UIDVALIDITY aborts the run, where the code fails the
folder's items and goes on (executor.py:59-75, 129-135), as `Executor` does.

### Bounds, and why they are enough

Every unbounded counter has a named bound: `MaxUid`, `MaxFaults`,
`MaxUserSteps`, `MaxCrashes`. `MaxUid` is large enough in every run that no
server ever runs out of UIDs. (In `apply_move`, folders have 3 UIDs
given at most, and get an arrival by the tool and one by the owner; the states of
`apply_copy` are the same with two UIDs more.)

- One fault and one kill together reach each point between two steps of the
  code twice: once in the invocation where they strike and once in the resumed
  one. Blame (batch, retry, one by one) needs no fault: the refused message fails
  the batch and its retry, and the fault may come on top.
- Two attempts are the least with a retry, and the attempts are alike.
- `apply_move` has groups of one message, with a database write between any two
  moves, and a batch of two for partial effects. In `apply_copy`, three items give a
  group with a batch behind the current one.
- Renumbering rotates the first three UIDs: a planned UID then names other mail,
  planned or not, or nothing. In the other runs it is any permutation of them.
- In `cycle`, two messages are enough to pass a threshold of one, a cap of one
  is where starvation would start, and the sort order has backfills into a folder
  that sorts after the inbox's own destination.
- In `undo`, two rows with one key and two copies are the least where `by_key`
  forgets one; they share a batch. An undo may be repeated without bound.
- In `lifecycle`, three rows are a plan, what supersedes it and what comes after;
  minutes and lists are given to behaviours with fewer runs, since files and list
  versions do not interact with verdicts.
- In `survey`, windows of two over UIDs 1 to 4 have an empty window, a full one and
  an edge at UIDNEXT; chunks of two split the three UIDs that can be found. The
  parts that do not interact (days, lists, a busy mailbox) start from mailboxes
  of their own (`Starts`). Two labels and four levels let a wildcard, an
  exception and two rules match one host.

The proofs below have none of these bounds.

### Fairness

`apply_copy`: the operator or cron runs apply again (`WF(Start)`); a process
that can take a step takes one, and so does a server with a command to carry
out. Faults, kills and the owner's steps are bounded, not fair. README.md
(126-132) asks the operator to resume. `undo` needs no repetition: only the
process and the server go on. `cycle` has cron's monthly run as strong
fairness, since another command may hold the process when cron's turn comes, as
the lock of the wrapper does; messages need not get old. `survey` asks only that
the process goes on (`WF(Work)`): mail may keep arriving.

## What is proved

For every value of the constants and every bound: any plan, mailbox, folders,
history, batch size, number of attempts, of faults, kills, months and steps of
the owner. tlapm checks each proof to the last leaf.

| Theorem | States | |
|---|---|---|
| **`ExecutorProofs`** | | |
| `Invariance`, `TypeCorrect` | `IInv`, `TypeOK` | types, session, UIDs, batch and items fit together |
| `PlannedMailOnly` | `OnlyPlannedMailLeaves` | apply empties no slot but a pending item's |
| `CompletedRunIsResolved` | `ClosedMeansResolved` | a completed run has nothing pending |
| `ImplementsLedger` | `LedgerKept` | `Executor` implements `PlanLedger` |
| `ApplyKeepsLogInStep`, `ApplyUnwritesNothing` | | the ledger's two properties, for apply |
| **`CustodyProofs`** | | |
| `CustodyHolds`, `NoMailIsLost` | `Custody`, `NothingLost` | COPY, STORE, EXPUNGE and rollback lose no mail |
| `ReceiptsHold`, `RecordedMovesAreReal` | `RecordedMoveIsReal` | what the log records as moved has moved |
| `FilingHolds`, `SkipsAreFiled` | `SkippedMailIsFiled` | skipped mail is at its destination |
| `FaultlessHolds`, `BadMessageFailsAlone` | `BlameIsIndividual` | only a refused message fails |
| `LogKnowsEveryMove` | `LogIsComplete` | without faults the log misses no move |
| **`UndoProofs`** | | |
| `UndoInvariance`, `UndoTypeCorrect` | `IInv`, `TypeOK` | folder, rows and `by_key` fit together |
| `UndoTakesOnlyItsOwn` | `TakesHomeWhatWasMoved` | undo takes what the run moved, and takes it home |
| `DeedsHold`, `ReversalsAreReal` | `ReversalIsReal` | a logged reversal has happened |
| `AccountHolds`, `UndoneIsReversed` | `RunIsReversed` | an undo that says `ok` has reversed each row |
| `CalmHolds`, `RefusalIsNoStop` | `RefusalStrandsNoRun` | only refused messages fail, and a refusal leaves no row `running` |
| `NeighboursAreFree` | `RefusalBlocksNoNeighbour` | without faults every row is reversed but those of refused messages |
| **`LifecycleProofs`** | | |
| `LifeInvariance`, `LifeTypeCorrect` | `LifeInv`, `LifeTypeOK` | rows, plans, process, log and files fit together |
| `CommandsKeepLogInStep`, `CommandsUnwriteNothing` | `LogAgreesWithPlan`, `NothingIsUnwritten` | the ledger's two properties, over all commands |
| `OldPlansRest` | `SupersededPlanRests` | who may change an older plan |
| `FatalClosesPlans`, `RecordedFailuresAreReal` | `FatalLeavesNoPlanOpen`, `FailuresAreOnRecord` | what a row's status says is so |
| `CheckSeesDrift`, `EndsOfLogsStay` | `DriftIsSeen`, `LogsKept` | check's warning; which logs prune leaves, clock put back or not |
| **`CycleProofs`** | | |
| `CycleInvariance`, `CycleTypeCorrect` | `CycleInv`, `TypeOK` | mail, plans, log, survey and process fit together |
| `RatchetHolds` | `NeverDemoted` | no apply takes mail out of a promoted folder |
| `LogIsNoObstacle` | `LogBlocksNothing` | without faults the log blocks only what the owner moved |
| `BackfillsComeFirst` | `NewMailJoinsLast` | old mail comes to a promoted folder before new mail |
| **`SurveyProofs`** | | |
| `SurveyInvariance`, `SurveyTypeCorrect` | `SurveyInv`, `SurveyTypeOK` | windows, chunks and records fit together |
| `ReadOnce` | `EachReadOnce` | mail that stays is read once, no UID twice |
| `RebuildsAreFresh` | `RebuildIsFresh` | a rebuilt cache is today's, and complete |
| `YearsSettle` | `YearIsSettled` | when a message's year may change |
| `SuffixesAsPublished` | `SuffixAsPublished` | the two lookups are the published algorithm |
| **`PlanLedgerProofs`** | | |
| `LogAgreement`, `LogIsAppendOnly` | `LogAgreesWithPlan`, `NothingIsUnwritten` | the abstract promise |

### Assumptions

They stand beside the constants, and TLC evaluates them in every run.

- A plan's slots are distinct, a move has two different folders
  (`PlanAssumption`), and one message has one destination in a plan: `build_plan`
  takes the destination from the message's sender, promotions and year
  (planner.py:83-86). The plan was drawn from the mailbox it is first applied to
  (`LayoutAssumption`).
- Rows of earlier runs are rows (`HistoryAssumption`); renumberings are
  permutations (`ServerAssumption`); what a server refuses is mail (`Poison` and
  each of `Refusals` are sets of keys).
- In `Cycle`, there are finitely many messages, and `Nowhere`, the log's answer
  for a message without a row, is no folder. In `Lifecycle`, runs are numbers
  and limits are numbers.
- In `Survey`, the folders of the sweep are distinct and there is one at least
  (runner.py:64-70), a header is missing or a number, and a suffix list is
  well formed: a wildcard is the leftmost label of its rule and in no exception.
  The bundled list has no other rule (`public_suffix_list.dat`), and psl.py's
  lookup of `"*." + rest` would find no other. A label of a host is not `*`.

Four theorems of the mailbox have a hypothesis of their own, because what they
say is false without it. Each is stated next to the property, and the MC modules
`ASSUME` it of their instances:

- `SkipsAreFiled` needs `HistoryIsTrue`: the log's last row for a planned message
  tells of mail that is still there. If the owner has dragged a message back to
  the inbox, `already_moved` skips it although it is not filed; that is what the
  code means to do (index.py:265-275).
- `ReversalsAreReal` needs `OneHomePerKey`: no key was moved from two folders.
  `by_key` has one UID for each key (recovery.py:63-67), so of two copies that came
  from two folders undo takes one to one home and, after a kill between the move
  and its row, a second apply and a second undo may log a reversal to a folder
  that nothing returned to (recovery.py:105).
- `UndoneIsReversed` needs `NoOtherCopies`: before undo, the destination holds no
  more copies of a key than the run has rows for it. Otherwise undo may take home
  a copy the run has not moved, and leave its own. And it needs `OneHomePerKey`:
  otherwise the one UID of a key goes to one home, and the other row is reported
  moved as well.
- `NeighboursAreFree` needs both, and `RunIsTrue`: the mail the log names is there
  when undo begins. Otherwise its rows were false before.

### The arguments

None of the properties is inductive. Each invariant is built in layers, and each
layer is proved with the help of those before it: one lemma per conjunct, one step
per kind of action.

**Apply.** `IInv`:

1. `Typed`: the types, `SessionInPlace` (from a group's opening on the session is
   on its source folder) and `RetryIsAllowed`. They need each other: a command
   can only be said to act on slots if the session has a folder selected.
2. `Mailbox`: `UidsAreFresh` (nothing at or above UIDNEXT, planned UIDs below) and
   `PlanStands` (in a folder that has kept its UIDVALIDITY a planned UID names the
   planned message or nothing). They do not mention the process at all, so they
   survive whatever it does; what each command leaves of the mailbox is the lemma
   `MailSteps`.
3. `Placed`: an item is to do, in the batch, judged or written, never two of these.
   Without it, a stale entry could be moved again after its verdict.
4. `BatchStands`: what was confirmed holds as long as the session lives, also where
   the UIDVALIDITY of the plan does not. It is true because a renumbering ends
   the session and only `Reconnect` makes a new one, which compares.
5. `NoItemForgotten`: a pending item of a running invocation is to do, in the batch
   or judged.

`PlannedMailOnly` is then one look at each action that empties a slot;
`CompletedRunIsResolved` follows from 3 and 5 at `Finish`; `ImplementsLedger` from
3, since `Record` is the one step that touches the ledger and a judged item is
pending. The theorems of `PlanLedgerProofs` carry over through the refinement,
once the ledger's assumptions are shown to hold for apply (`LedgerConstants`).

On top of `IInv`, `Custody` says why no mail is lost: each message has a slot that
is not flagged and that the command in progress will not reach. The rollback and
the order COPY, STORE, EXPUNGE keep it; the commands that follow COPY are only
sent when COPY has reached every message (`CommandsInOrder`). `Receipts` says what
each command has achieved for the messages it has reached, and that an unmoved
planned message is in its place or at its destination (`Whereabouts`): so a retry
may take a UID that names nothing for moved, and `done` is true. `Filing` adds the
log of earlier runs; it needs one destination per key, since `already_moved` asks
for the last row of a key. `Faultless` is about behaviours without faults: the
session lives, a `NO` comes only for a batch with a refused message in it, and a
message that has left its folder is in the log or in hand.

**Undo.** `IInv` has the folder and the rows in hand (`SessionInPlace`,
`RowsInPlace`) and `ByKeyStands`: while the session lives, a UID in `by_key` names
its message or nothing, and no two keys have one UID. `TakesHomeWhatWasMoved` is a
consequence. `Deeds` follows each row: found means there or taken home, sent means
taken or still to take, moved and logged mean taken. `Calm` is undo without faults:
the line holds, and a message tried alone fails only if the server refuses it
(`OnlyPoisonIsRefused`, `FailedIsPoison`). `Account` sees with its help that no row
is forgotten between the folders and batches: each is to do, skipped because it is
not there, taken home, or given up (`Answer`). `ReadSoFar` is the part about chunks
of UIDs. That what is answered is `Reversed` is then counting: a key with as many
copies as rows, one of them taken, leaves fewer.

**Commands.** Every command does one of three things to the runs table: opens a
row, closes one, or leaves it alone (`BeginsRow`, `ClosesRow`, `Aside` in the
proofs). `LifeInv` says what `active_run` and the process know of the row they
work on (`RowInHand`, `OpenPlansInHand`, `FailuresInPlan`), that the lowest
stamp of the log files, which may be put back below all earlier ones with the
clock, is among the files (`EndsKept`), and that it is the first pair's as long as
the clock was not put back (`FirstIsLowest`).

**Months.** `Earned(m, f)` says that a message may be in a folder: in its sender's
only if the sender is promoted. It can only become true, as promotions are for
ever; `PlacesEarned` and `PlansEarned` say it of mail, sightings and plans, also of
plans made before a promotion, and `RatchetHolds` is their consequence.
`LogFollowsMail` is the log without faults. For `BackfillsComeFirst`, the survey
must be true and complete (`SurveyIsTrue`), so that the plan holds every backfill
with a smaller position than any mail that joins (`MovesPlanned`, and `Position`
counts a strict subset), the cap cuts from the end, and apply takes the smallest
pending item (`BackfillsAhead`).

**Sweep.** `NothingMissed` says of each folder that is done that its mail has been
read; of the folder in hand, that mail below the next window is among the UIDs
found, and that UIDNEXT, as it was known at the select, is above all mail that
was there at that time: what is not touched cannot have come later. `NothingTwice`
says that a UID is to be fetched, or read, or neither, since windows do not overlap
and chunks take UIDs away. `RecordsAreTrue` ties the records to the mailbox while
it changes, for `RebuildsAreFresh`. For `SuffixesAsPublished`, a rule matches a
host exactly when one of the two lookups finds it where it begins (`RuleMatch`), so
that the first label at which something is found belongs to the longest rule
(`Longest`). That a set of numbers has a lowest one (`Lowest`) is what the windows,
the chunks and the two loops stand on.

### Model-checked only

- All liveness (`InvocationEnds`, `EveryItemSettles`, `UndoEnds`,
  `EveryMessageIsFiled`, `SweepEnds`): the prover has neither fairness nor ENABLED.
  The first two are checked on a server without MOVE, which has the longer retries.
- The properties of the violation runs, which are false.

## Not modelled, and why

- A command that the server carries out after the connection was declared dead:
  a dropped connection stops the command where it is. A first connect that fails
  changes nothing and is left out.
- Two processes on one index. Cron's runs hold a lock; a run by hand beside one
  is not guarded by the code, and the README does not speak of it.
- Folder creation beyond its failing (`EnsureFolder`, `OpenHome`), subscriptions,
  capabilities and the delimiter (constants; an unsafe server is `Look`), the
  `folders` table, which nothing reads, progress and the text of logs.
- `Undo` on a server without MOVE; the fallback is in `Executor`. UIDVALIDITY does
  not change in `Survey`: what a stale plan meets is in `Executor`.
- A `source.folder` that lies inside `archive.root`, which load_config does not
  refuse and which would be swept twice.
- `compute_msg_key`: one key per message. A plan may name one key twice.
- Parsing: addresses, List-Id brackets, RFC 5322 dates and time zones, and the
  escaping of names (`escape_component`). The planner sees the bucket and its two
  folders; two senders may share a folder there.
- `config.py`: no state; what it admits are the assumptions on constants. It
  admits a negative `max_moves_per_run`, which the planner's slice takes for a
  number of moves to drop; `Planner` assumes a natural number.
- `init` and `install.sh`; what `status`, `show-plan` and `export-index` print.

## Plan

Done, in this order: `MailServer`, `Executor`, `PlanLedger`; their proofs; `Undo`;
`Planner`, `Cycle`; `Lifecycle`; `Classify`, `Survey`; copies of one key in `Undo`;
the proofs about custody and the log in `Executor`, and about `Undo`, `Lifecycle`,
`Cycle` and `Survey`.

Next:

1. Abstract specifications, with their refinements proved as `LedgerKept` is: a
   ledger of reversals that `Undo` implements (each row gets one outcome, and the
   log a row exactly when a message was taken home), and the runs table as
   `Lifecycle` keeps it for one command.
2. `Cycle` takes one item per step where `Executor` takes a batch through several
   commands: state what a step of `Cycle` promises and show it of `Executor`.
3. Lemmas about `Planner` on its own: the cut of a capped plan is a prefix in the
   order of the plan, and a plan names each message once.
