------------------------------ MODULE Executor ------------------------------
(***************************************************************************)
(* `mailgonizer apply`: lib/mailgonizer/executor.py carrying out one saved *)
(* plan, with the parts of imap.py, index.py and cli.py it calls.          *)
(*                                                                         *)
(* Three parties share the state.  The process walks the plan group by     *)
(* group and batch by batch, and may be killed anywhere.  The SQLite index *)
(* survives it; every statement commits by itself, so each verdict on an   *)
(* item is a step of its own (Record).  The server carries out one command *)
(* at a time, one message after another, and its answer is another step:   *)
(* between the two the connection may drop, the folder may be renumbered   *)
(* and the owner may act (MailServer).                                     *)
(***************************************************************************)
EXTENDS MailServer, Sequences

CONSTANTS
  NoFolder,        \* what a session that has selected nothing has selected
  Items,           \* plan_items.seq of the run
  Plan,            \* [Items -> [key, src, uid, dst]]
  SurveyValidity,  \* [Folders -> Nat]: src_uidvalidity, one value per folder
  Layouts,         \* the mailboxes [box, nextUid] the plan may have been drawn from
  Histories,       \* the move logs earlier runs may have left
  Poison,          \* the keys the server refuses to move or copy
  HasMove,         \* the server advertises MOVE; otherwise UIDPLUS
  BatchSize,       \* execution.batch_size
  Attempts,        \* max(1, execution.connect_retries)
  MaxCrashes       \* bound: kills of the process

Verdicts == {"done", "already_moved", "vanished", "identity_mismatch",
             "uidvalidity_changed", "move_failed"}
Failures == {"uidvalidity_changed", "move_failed"}     \* state = 'failed'
Skips    == {"already_moved", "vanished", "identity_mismatch"}
Fates    == Verdicts \cup {"pending"}

Row(i)  == [item |-> i, key |-> Plan[i].key, src |-> Plan[i].src, dst |-> Plan[i].dst]
Slot(i) == <<Plan[i].src, Plan[i].uid>>
Rows    == [item : Items \cup {0}, key : Keys, src : Folders, dst : Folders]

\* build_plan gives a message one destination, also where it sees two copies of
\* it (planner.py 83-86).
ASSUME PlanAssumption ==
  /\ NoFolder \notin Folders
  /\ Items \subseteq Nat \ {0}
  /\ IsFiniteSet(Items)
  /\ Plan \in [Items -> [key : Keys, src : Folders, uid : Uids, dst : Folders]]
  /\ \A i \in Items : Plan[i].dst # Plan[i].src
  /\ \A i, j \in Items : Slot(i) = Slot(j) => i = j
  /\ \A i, j \in Items : Plan[i].key = Plan[j].key => Plan[i].dst = Plan[j].dst
  /\ Poison \subseteq Keys
  /\ SurveyValidity \in [Folders -> Nat]
  /\ BatchSize \in Nat \ {0}
  /\ Attempts \in Nat \ {0}
  /\ MaxCrashes \in Nat
  /\ HasMove \in BOOLEAN

\* What a survey saw: every planned message in its slot, no UID from UIDNEXT up.
ASSUME LayoutAssumption ==
  \A l \in Layouts :
    /\ l.box \in [Slots -> Keys \cup {NoKey}]
    /\ l.nextUid \in [Folders -> 1..(MaxUid + 1)]
    /\ \A i \in Items : l.box[Slot(i)] = Plan[i].key
    /\ \A s \in Slots : s[2] >= l.nextUid[s[1]] => l.box[s] = NoKey

\* Item 0 stands for the items of earlier runs.
ASSUME HistoryAssumption ==
  Histories \subseteq {h \in Seq(Rows) : \A n \in 1..Len(h) : h[n].item = 0}

VARIABLES
  fate,        \* plan_items.state, with the error that tells the causes apart
  moves,       \* the moves table
  status,      \* runs.status of this run
  conn,        \* the connection is up
  selected,    \* Mailbox._selected, which is also what the server has selected
  pc,          \* where execute() is
  todo,        \* pending items not yet taken into a batch
  group,       \* <<src, dst>> of the current group
  validated,   \* execute()'s dict of that name
  batch,       \* `batch`, then `live`, then `confirmed`
  attempt,     \* _move_with_retry's loop variable
  trying,      \* move_individually: the UIDs not yet tried; {} when not in it
  command,     \* the last IMAP command of Mailbox.move
  wire,        \* none, sent, ok or no: how far that command is
  left,        \* the items that command has still to reach
  verdict,     \* decided, not yet written to the index
  anyFailed,   \* failed > 0
  report,      \* how the last invocation ended
  relocated,   \* ghost: this invocation has changed the mailbox
  crashes      \* ghost: kills so far

dbVars      == <<fate, moves, status>>
sessionVars == <<conn, selected>>
moveVars    == <<attempt, trying, command, wire, left>>
procVars    == <<pc, todo, group, validated, batch, verdict, anyFailed, report>>
ghostVars   == <<relocated, crashes>>
vars == <<serverVars, dbVars, sessionVars, moveVars, procVars, ghostVars>>

NoGroup   == <<NoFolder, NoFolder>>
Undecided == [i \in Items |-> "pending"]

TypeOK ==
  /\ ServerTypeOK
  /\ fate \in [Items -> Fates]
  /\ moves \in Seq(Rows)
  /\ status \in {"running", "ok", "completed_with_failures", "aborted"}
  /\ conn \in BOOLEAN
  /\ selected \in Folders \cup {NoFolder}
  /\ pc \in {"idle", "group", "ensure", "filter", "fetch", "send", "await", "retry"}
  /\ todo \in SUBSET Items
  /\ group \in (Folders \X Folders) \cup {NoGroup}
  /\ validated \in [Folders -> {"unseen", "valid", "void"}]
  /\ batch \in SUBSET Items
  /\ attempt \in 1..Attempts
  /\ trying \in SUBSET Items
  /\ command \in {"MOVE", "COPY", "STORE", "EXPUNGE", "ROLLBACK"}
  /\ wire \in {"none", "sent", "ok", "no"}
  /\ left \in SUBSET Items
  /\ verdict \in [Items -> Fates]
  /\ anyFailed \in BOOLEAN
  /\ report \in {"none", "ok", "failures", "aborted", "transient", "traceback", "killed"}
  /\ relocated \in BOOLEAN
  /\ crashes \in 0..MaxCrashes

-----------------------------------------------------------------------------
(* The plan as execute() walks it.                                          *)

Pending == {i \in Items : fate[i] = "pending"}       \* index.pending_items

GroupOf(i)  == <<Plan[i].src, Plan[i].dst>>
Src         == group[1]
Dst         == group[2]
First(i, S) == i \in S /\ \A j \in S : i <= j
InGroup(g, S) == {i \in S : GroupOf(i) = g}
Rest        == InGroup(group, todo)           \* group[start + size:]

\* The next batch_size items of the group, in plan order.
IsBatch(b, S) ==
  /\ b \subseteq S
  /\ \A i \in b, j \in S \ b : i < j
  /\ \/ Cardinality(b) = BatchSize
     \/ b = S /\ Cardinality(S) < BatchSize

Settled == verdict = Undecided                \* nothing waits to be written
Judge(S, v) == verdict' = [i \in Items |-> IF i \in S THEN v ELSE verdict[i]]

AfterBatch(t) == IF InGroup(group, t) = {} THEN "group" ELSE "filter"

\* index.already_moved: only the key's most recent row counts.
LastRow(k, n) == /\ n \in 1..Len(moves)
                 /\ moves[n].key = k
                 /\ \A m \in (n + 1)..Len(moves) : moves[m].key # k
\* Mutant: any row of the key counts, not only the last one.
EverMoved(k, d) == \E n \in 1..Len(moves) : moves[n].key = k /\ moves[n].dst = d
AlreadyMoved(k, d) == \E n \in 1..Len(moves) : LastRow(k, n) /\ moves[n].dst = d

UidsStillValid(f) == validity[f] = SurveyValidity[f]

-----------------------------------------------------------------------------
(* One invocation begins and ends.                                          *)

Init ==
  /\ \E l \in Layouts : box = l.box /\ nextUid = l.nextUid
  /\ deleted = {} /\ validity = SurveyValidity
  /\ touched = {} /\ faults = 0 /\ userSteps = 0
  /\ fate = Undecided /\ moves \in Histories /\ status \in {"running", "ok"}
  /\ conn = FALSE /\ selected = NoFolder
  /\ pc = "idle" /\ todo = {} /\ group = NoGroup
  /\ validated = [f \in Folders |-> "unseen"]
  /\ batch = {} /\ attempt = 1 /\ trying = {}
  /\ command = "MOVE" /\ wire = "none" /\ left = {}
  /\ verdict = Undecided /\ anyFailed = FALSE /\ report = "none"
  /\ relocated = FALSE /\ crashes = 0

\* cli.main connects, do_apply calls execute, execute reads what is pending.
Start ==
  /\ pc = "idle"
  /\ pc' = "group"
  /\ todo' = Pending
  /\ conn' = TRUE
  /\ anyFailed' = FALSE /\ report' = "none" /\ relocated' = FALSE
  /\ UNCHANGED <<serverVars, dbVars, selected, moveVars, group, validated,
                 batch, verdict, crashes>>

\* The process ends; what it held in memory goes, the index and the mail stay.
Quit(r) ==
  /\ pc' = "idle" /\ report' = r
  /\ todo' = {} /\ group' = NoGroup /\ batch' = {} /\ verdict' = Undecided
  /\ validated' = [f \in Folders |-> "unseen"]
  /\ attempt' = 1 /\ trying' = {}
  /\ command' = "MOVE" /\ wire' = "none" /\ left' = {}
  /\ conn' = FALSE /\ selected' = NoFolder
  /\ UNCHANGED anyFailed

Finish ==
  /\ pc = "group" /\ Settled /\ todo = {}
  /\ status' = IF anyFailed THEN "completed_with_failures" ELSE "ok"
  /\ Quit(IF anyFailed THEN "failures" ELSE "ok")
  /\ UNCHANGED <<serverVars, fate, moves, ghostVars>>

\* One verdict reaches the index: mark_done, mark_failed or mark_skipped.
\* move_individually hands its results back only when it has tried them all.
\* Mutant: the row is written for every verdict.
LogEveryVerdict(i, v) == Append(moves, Row(i))
LogMove(i, v) == IF v = "done" THEN Append(moves, Row(i)) ELSE moves

Record(i) ==
  /\ trying = {}
  /\ First(i, {j \in Items : verdict[j] # "pending"})
  /\ fate' = [fate EXCEPT ![i] = verdict[i]]
  /\ moves' = LogMove(i, verdict[i])
  /\ anyFailed' = (anyFailed \/ verdict[i] \in Failures)
  /\ verdict' = [verdict EXCEPT ![i] = "pending"]
  /\ UNCHANGED <<serverVars, status, sessionVars, moveVars, pc, todo, group,
                 validated, batch, report, ghostVars>>

-----------------------------------------------------------------------------
(* From the group to the confirmed batch.                                   *)

\* The plan is void for the folder: each of these items fails.
\* Mutant: `continue` without _fail_items.
ForgetItems(S) == UNCHANGED verdict
FailItems(S) == Judge(S, "uidvalidity_changed")

\* Mailbox.select answers from its cache when the folder is the current one.
Select(f) == (selected = f \/ conn) /\ selected' = f

OpenGroup(i) ==
  /\ pc = "group" /\ Settled
  /\ First(i, todo)
  /\ group' = GroupOf(i)
  /\ LET f    == Plan[i].src
         fine == IF validated[f] = "unseen" THEN UidsStillValid(f)
                                            ELSE validated[f] = "valid"
         mine == InGroup(GroupOf(i), todo)
     IN /\ Select(f)
        /\ validated' = [validated EXCEPT ![f] = IF fine THEN "valid" ELSE "void"]
        /\ FailItems(IF fine THEN {} ELSE mine)
        /\ todo' = IF fine THEN todo ELSE todo \ mine
        /\ pc' = IF fine THEN "ensure" ELSE "group"
  /\ UNCHANGED <<serverVars, dbVars, conn, moveVars, batch, anyFailed, report, ghostVars>>

EnsureFolder ==
  /\ pc = "ensure" /\ conn
  /\ pc' = "filter"
  /\ UNCHANGED <<serverVars, dbVars, sessionVars, moveVars, todo, group, validated,
                 batch, verdict, anyFailed, report, ghostVars>>

TakeBatch ==
  /\ pc = "filter" /\ Settled
  /\ \E b \in SUBSET Rest :
       LET live == {i \in b : ~ AlreadyMoved(Plan[i].key, Plan[i].dst)}
       IN /\ IsBatch(b, Rest)
          /\ todo' = todo \ b
          /\ batch' = live
          /\ Judge(b \ live, "already_moved")
          /\ pc' = IF live = {} THEN AfterBatch(todo \ b) ELSE "fetch"
  /\ UNCHANGED <<serverVars, dbVars, sessionVars, moveVars, group, validated,
                 anyFailed, report, ghostVars>>

\* A command names UIDs; the server looks them up in the selected folder.
At(i) == <<selected, Plan[i].uid>>

Vanished(i)  == ~ Occupied(At(i))
\* Mutant: whatever answers to the UID is taken for the planned message.
AnyMessage(i) == Occupied(At(i))
Confirmed(i) == box[At(i)] = Plan[i].key

FetchIdentity ==
  /\ pc = "fetch" /\ Settled /\ conn
  /\ batch' = {i \in batch : Confirmed(i)}
  /\ verdict' = [i \in Items |-> IF i \notin batch \/ Confirmed(i) THEN "pending"
                                 ELSE IF Vanished(i) THEN "vanished"
                                 ELSE "identity_mismatch"]
  /\ pc' = IF batch' = {} THEN AfterBatch(todo) ELSE "send"
  /\ attempt' = 1
  /\ UNCHANGED <<serverVars, dbVars, sessionVars, trying, command, wire, left,
                 todo, group, validated, anyFailed, report, ghostVars>>

-----------------------------------------------------------------------------
(* Mailbox.move: one UID MOVE, or COPY, STORE +FLAGS \Deleted, UID EXPUNGE. *)

Target == IF trying = {} THEN batch ELSE {i \in trying : First(i, trying)}

\* Mutant: the fallback flags the source before it has copied it.
FlagFirst == IF HasMove THEN "MOVE" ELSE "STORE"
FirstCommand == IF HasMove THEN "MOVE" ELSE "COPY"

Send ==
  /\ pc = "send"
  /\ Settled \/ trying # {}
  /\ pc' = "await"
  /\ command' = FirstCommand
  /\ wire' = "sent"
  /\ left' = Target
  /\ UNCHANGED <<serverVars, dbVars, sessionVars, attempt, trying, todo, group,
                 validated, batch, verdict, anyFailed, report, ghostVars>>

Serving(c) == pc = "await" /\ wire = "sent" /\ conn /\ command = c
Refused(i) == box[At(i)] \in Poison

\* The rest of the state stands still while the server works.
ClientWaits == UNCHANGED <<validity, touched, userSteps, dbVars, sessionVars, attempt,
                           trying, command, procVars, crashes>>

Reached(i) == /\ First(i, left)
              /\ left' = left \ {i}
              /\ wire' = IF left = {i} THEN "ok" ELSE "sent"
              /\ relocated' = (relocated \/ Occupied(At(i)))

ServerMoves(i) ==
  /\ Serving("MOVE") /\ ~ Refused(i)
  /\ Reached(i)
  /\ MoveOne(At(i), Dst)
  /\ ClientWaits /\ UNCHANGED faults

\* COPY is all or nothing (RFC 3501, 6.4.7): a refusal precedes any effect.
ServerCopies(i) ==
  /\ Serving("COPY") /\ \A j \in Target : ~ Refused(j)
  /\ Reached(i)
  /\ CopyOne(At(i), Dst)
  /\ ClientWaits /\ UNCHANGED faults

TargetSlots == {At(i) : i \in Target}

ServerFlags ==
  /\ Serving("STORE") \/ Serving("ROLLBACK")
  /\ deleted' = IF command = "STORE"
                THEN deleted \cup {s \in TargetSlots : Occupied(s)}
                ELSE deleted \ TargetSlots
  /\ wire' = "ok" /\ relocated' = TRUE
  /\ ClientWaits /\ UNCHANGED <<box, nextUid, faults, left>>

\* UID EXPUNGE names its messages.
\* Mutant: a bare EXPUNGE takes every \Deleted message of the folder.
BareExpunge == {s \in Slots : s[1] = selected}
ExpungeNames == TargetSlots

ServerExpunges ==
  /\ Serving("EXPUNGE")
  /\ ExpungeSlots(ExpungeNames)
  /\ wire' = "ok" /\ relocated' = TRUE
  /\ ClientWaits /\ UNCHANGED <<faults, left>>

Untouched == command = "COPY" => left = Target

ServerRefusesPoison ==
  /\ Serving(command)
  /\ \/ command = "MOVE" /\ \E i \in left : First(i, left) /\ Refused(i)
     \/ command = "COPY" /\ Untouched /\ \E i \in left : Refused(i)
  /\ wire' = "no"
  /\ ClientWaits /\ UNCHANGED <<mailVars, faults, left, relocated>>

ServerRefuses ==
  /\ Serving(command) /\ Untouched
  /\ Fault
  /\ wire' = "no"
  /\ ClientWaits /\ UNCHANGED <<mailVars, left, relocated>>

-----------------------------------------------------------------------------
(* The answer, or its absence, reaches Mailbox.move.                        *)

NextCommand == [COPY |-> "STORE", STORE |-> "EXPUNGE"]

CopyContinues ==
  /\ pc = "await" /\ wire = "ok" /\ command \in {"COPY", "STORE"}
  /\ command' = NextCommand[command]
  /\ wire' = "sent" /\ left' = {}
  /\ UNCHANGED <<serverVars, dbVars, sessionVars, attempt, trying, procVars, ghostVars>>

RollBackFlag ==
  /\ pc = "await" /\ command = "EXPUNGE"
  /\ wire = "no" /\ conn
  /\ command' = "ROLLBACK" /\ wire' = "sent"
  /\ UNCHANGED <<serverVars, dbVars, sessionVars, attempt, trying, left, procVars, ghostVars>>

\* move() returned (v = "done") or raised TransientError (v = "move_failed")
\* while move_individually was trying one message.
OneTried(v) ==
  /\ trying # {}
  /\ trying' = trying \ Target
  /\ Judge(Target, v)
  /\ pc' = IF trying' = {} THEN AfterBatch(todo) ELSE "send"
  /\ batch' = IF trying' = {} THEN {} ELSE batch
  /\ UNCHANGED attempt

\* What Mailbox.move returns after.
\* Mutant: the fallback never expunges.
FlagSuffices == {"MOVE", "STORE"}
LastCommands == {"MOVE", "EXPUNGE"}

NoCommand == command' = "MOVE" /\ wire' = "none" /\ left' = {}

MoveReturns ==
  /\ pc = "await" /\ wire = "ok" /\ command \in LastCommands
  /\ NoCommand
  /\ \/ OneTried("done")
     \/ /\ trying = {}
        /\ Judge(batch, "done")
        /\ batch' = {} /\ pc' = AfterBatch(todo)
        /\ UNCHANGED <<trying, attempt>>
  /\ UNCHANGED <<serverVars, dbVars, sessionVars, todo, group, validated, anyFailed,
                 report, ghostVars>>

AttemptsRemain == attempt < Attempts

\* The batch goes to move_individually.
\* Mutant: the whole batch fails for the one message that was refused.
FailWholeBatch == /\ Judge(batch, "move_failed")
                  /\ batch' = {} /\ pc' = AfterBatch(todo)
                  /\ UNCHANGED trying
AfterLastAttempt == /\ trying' = batch
                    /\ pc' = "send"
                    /\ UNCHANGED <<batch, verdict>>

\* imaplib raised: a NO answer, or the connection went while it waited.
MoveRaises ==
  /\ pc = "await"
  /\ \/ ~ conn
     \/ wire = "no" /\ command # "EXPUNGE"
     \/ wire = "ok" /\ command = "ROLLBACK"
  /\ NoCommand
  /\ \/ OneTried("move_failed")
     \/ /\ trying = {} /\ AttemptsRemain
        /\ pc' = "retry"
        /\ UNCHANGED <<trying, attempt, batch, verdict>>
     \/ /\ trying = {} /\ ~ AttemptsRemain
        /\ AfterLastAttempt
        /\ UNCHANGED attempt
  /\ UNCHANGED <<serverVars, dbVars, sessionVars, todo, group, validated, anyFailed,
                 report, ghostVars>>

\* Mutant: the retry re-selects the folder and compares nothing.
ReselectOnly(f) == TRUE
StillTheSurveyedFolder(f) == UidsStillValid(f)

\* What uidvalidity_lost fails, and what is left of the plan after `break`.
\* Mutant: the confirmed batch alone is failed.
LostBatchOnly == batch
Lost == batch \cup Rest

\* Mutant: the loop never counts.
SameAttempt == attempt
NextAttempt == attempt + 1

\* A new connection; the folder must still be the one the plan was drawn from.
Reconnect ==
  /\ pc = "retry"
  /\ conn' = TRUE /\ selected' = Src
  /\ IF StillTheSurveyedFolder(Src)
     THEN /\ pc' = "send" /\ attempt' = NextAttempt
          /\ UNCHANGED <<validated, todo, batch, verdict>>
     ELSE /\ pc' = "group" /\ attempt' = 1
          /\ validated' = [validated EXCEPT ![Src] = "void"]
          /\ Judge(Lost, "uidvalidity_changed")
          /\ todo' = todo \ Rest
          /\ batch' = {}
  /\ UNCHANGED <<serverVars, dbVars, trying, command, wire, left, group, anyFailed,
                 report, ghostVars>>

-----------------------------------------------------------------------------
(* Ways out that leave work behind.                                         *)

\* reconnect() raised TransientError: main reports it and closes nothing.
ReconnectUnreachable ==
  /\ pc = "retry"
  /\ Fault
  /\ Quit("transient")
  /\ UNCHANGED <<mailVars, validity, touched, userSteps, dbVars, ghostVars>>

\* FatalError, from a refused login, a folder that cannot be made or a FETCH
\* answer without the headers: main closes the run as aborted.
Abort ==
  /\ \/ pc = "retry"
     \/ pc \in {"ensure", "fetch"} /\ Settled /\ conn
  /\ Fault
  /\ status' = "aborted"
  /\ Quit("aborted")
  /\ UNCHANGED <<mailVars, validity, touched, userSteps, fate, moves, ghostVars>>

\* An exception nobody catches: an IMAPClientError outside Mailbox.move, or a
\* socket timeout inside it.  The run stays as it was.
Traceback ==
  /\ ~ conn
  /\ \/ pc = "group" /\ Settled /\ \E i \in todo : First(i, todo) /\ Plan[i].src # selected
     \/ pc = "ensure"
     \/ pc = "fetch" /\ Settled
     \/ pc = "await"
  /\ Quit("traceback")
  /\ UNCHANGED <<serverVars, dbVars, ghostVars>>

\* A kill, and what ends the process the same way on a connection that stands: a NO
\* to SELECT or FETCH, which nobody catches.
Crash ==
  /\ pc # "idle" /\ crashes < MaxCrashes
  /\ crashes' = crashes + 1
  /\ Quit("killed")
  /\ UNCHANGED <<serverVars, dbVars, relocated>>

-----------------------------------------------------------------------------
(* The environment.                                                         *)

Drop ==
  /\ conn /\ Fault
  /\ conn' = FALSE
  /\ UNCHANGED <<mailVars, validity, touched, userSteps, dbVars, selected, moveVars,
                 procVars, ghostVars>>

\* A server that renumbers a folder ends the sessions that have it selected.
Renumbered(f) ==
  /\ Renumber(f)
  /\ conn' = (conn /\ selected # f)
  /\ UNCHANGED <<dbVars, selected, moveVars, procVars, ghostVars>>

Owner ==
  /\ OwnerStep
  /\ UNCHANGED <<dbVars, sessionVars, moveVars, procVars, ghostVars>>

ServerWorks ==
  \/ \E i \in Items : ServerMoves(i) \/ ServerCopies(i)
  \/ ServerFlags \/ ServerExpunges \/ ServerRefusesPoison

ProcessWorks ==
  \/ Finish \/ EnsureFolder \/ TakeBatch \/ FetchIdentity \/ Send
  \/ CopyContinues \/ RollBackFlag \/ MoveReturns \/ MoveRaises \/ Reconnect
  \/ \E i \in Items : Record(i) \/ OpenGroup(i)

Mishap ==
  \/ ServerRefuses \/ ReconnectUnreachable \/ Abort \/ Crash \/ Drop
  \/ \E f \in Folders : Renumbered(f)

Next == Start \/ ProcessWorks \/ ServerWorks \/ Traceback \/ Mishap \/ Owner

Spec == Init /\ [][Next]_vars

\* The process and the server keep going, and the operator (or cron) runs
\* `apply` again.  Faults, kills and the owner's steps are bounded, not fair.
FairSpec == Spec /\ WF_vars(Start) /\ WF_vars(ServerWorks) /\ WF_vars(ProcessWorks \/ Traceback)

-----------------------------------------------------------------------------
(* What keeps the state together; ExecutorProofs shows that it is inductive. *)

InMove == {"send", "await", "retry"}

\* UIDNEXT is above every message and every planned UID.
UidsAreFresh ==
  /\ NothingAhead
  /\ \A i \in Items : Plan[i].uid < nextUid[Plan[i].src]

\* As long as a folder keeps its UIDVALIDITY, a planned UID names the planned
\* message or nothing.
PlanStands ==
  /\ \A f \in Folders : validity[f] >= SurveyValidity[f]
  /\ \A i \in Items : UidsStillValid(Plan[i].src) => box[Slot(i)] \in {Plan[i].key, NoKey}

\* From the group's opening on, the session is on its source folder.
SessionInPlace ==
  pc \in InMove \cup {"ensure", "filter", "fetch"} =>
    group \in Folders \X Folders /\ selected = Src

\* A reconnection is always followed by one more attempt that is allowed.
RetryIsAllowed == pc = "retry" => attempt < Attempts

\* What was confirmed in a session holds until that session ends, even where
\* the UIDVALIDITY of the plan does not.
BatchStands ==
  /\ \A i \in batch : GroupOf(i) = group
  /\ pc \in InMove /\ conn => \A i \in batch : box[Slot(i)] \in {Plan[i].key, NoKey}

\* Each item is in one place: to do, in the batch, judged or written.
ItemsInOnePlace ==
  /\ todo \cap batch = {}
  /\ pc \notin InMove \cup {"fetch"} => batch = {}
  /\ trying \subseteq batch
  /\ trying # {} => pc \in {"send", "await"}
  /\ left \subseteq batch
  /\ pc # "await" => left = {}
  /\ pc = "idle" => verdict = Undecided
  /\ \A i \in Items :
       /\ i \in todo \cup batch => fate[i] = "pending"
       /\ verdict[i] # "pending" =>
            fate[i] = "pending" /\ i \notin todo /\ i \notin trying
            /\ (trying = {} => i \notin batch)

\* No pending item drops out of an invocation that runs.
NoItemForgotten ==
  /\ pc # "idle" =>
       /\ report = "none"
       /\ \A i \in Items : fate[i] = "pending" => i \in todo \cup batch \/ verdict[i] # "pending"
  /\ trying # {} => \A i \in batch \ trying : verdict[i] # "pending"

IInv == /\ TypeOK /\ SessionInPlace /\ RetryIsAllowed
        /\ UidsAreFresh /\ PlanStands /\ BatchStands /\ ItemsInOnePlace
        /\ NoItemForgotten

-----------------------------------------------------------------------------
(* Why no message is lost, and why the log is true; also inductive, together *)
(* with IInv.                                                               *)

\* The messages of the mailbox that was surveyed.  The log may know others.
Mail == {k \in Keys : \A l \in Layouts : \E s \in Slots : l.box[s] = k}

\* What COPY has reached, and STORE and EXPUNGE are about to take away.
Doomed == IF pc = "await" /\ conn /\ command \in {"COPY", "STORE", "EXPUNGE"}
          THEN {At(i) : i \in Target \ left} ELSE {}

\* \Deleted is on messages only.
FlagsOnMail == \A s \in deleted : Occupied(s)

\* A command that succeeded has reached every message, and the next one of the
\* fallback follows only then.
CommandsInOrder ==
  pc = "await" =>
    /\ left \subseteq Target
    /\ command \in {"STORE", "EXPUNGE"} => left = {}
    /\ command \in {"MOVE", "COPY"} /\ wire = "ok" => left = {}

\* Each message is somewhere the command in progress will not reach.
KeptElsewhere == \A k \in Mail \ touched : \E s \in Slots \ (deleted \cup Doomed) : box[s] = k

Custody == FlagsOnMail /\ CommandsInOrder /\ KeptElsewhere

Arrived(i)  == Plan[i].key \notin touched => Holds(Plan[i].dst, Plan[i].key)
Gone(i)     == Plan[i].key \notin touched /\ UidsStillValid(Plan[i].src) => ~ Occupied(Slot(i))
InPlace(i)  == box[Slot(i)] = Plan[i].key

\* A planned message is in its place or in its new folder; a confirmed one even
\* where the UIDVALIDITY of the plan does not hold.
Whereabouts ==
  /\ \A i \in Items : UidsStillValid(Plan[i].src) => InPlace(i) \/ Arrived(i)
  /\ pc \in InMove /\ conn => \A i \in batch : InPlace(i) \/ Arrived(i)

\* What each command has achieved for the messages it has reached.
CommandsAchieve ==
  pc = "await" =>
    /\ \A i \in Target \ left :
         /\ Arrived(i)
         /\ command = "MOVE" => Gone(i)
         /\ command = "EXPUNGE" /\ wire = "ok" => Gone(i)
    /\ conn /\ (command = "EXPUNGE" \/ (command = "STORE" /\ wire = "ok")) =>
         \A i \in Target :
           Plan[i].key \notin touched /\ Occupied(Slot(i)) => Slot(i) \in deleted

\* A `done` that is decided or written is true.
DoneIsTrue ==
  \A i \in Items : fate[i] = "done" \/ verdict[i] = "done" => Arrived(i) /\ Gone(i)

Receipts == Whereabouts /\ CommandsAchieve /\ DoneIsTrue

\* An earlier run's row for a planned message tells of mail that is still there.
HistoryIsTrue ==
  \A h \in Histories, l \in Layouts, i \in Items : \A n \in 1..Len(h) :
    /\ h[n].key = Plan[i].key /\ h[n].dst = Plan[i].dst
    /\ \A m \in (n + 1)..Len(h) : h[m].key # Plan[i].key
    => \E u \in Uids : l.box[<<Plan[i].dst, u>>] = Plan[i].key

\* What is skipped, or will be because of the log, is in its new folder.
Filing ==
  \A i \in Items :
    /\ AlreadyMoved(Plan[i].key, Plan[i].dst) => Arrived(i)
    /\ (fate[i] \in Skips \/ verdict[i] \in Skips) /\ UidsStillValid(Plan[i].src) => Arrived(i)

\* A command goes out with nothing left to write; one message after another,
\* each attempt is a success or a failure.
OneByOne ==
  /\ pc \in {"await", "retry"} /\ trying = {} => Settled
  /\ trying # {} => \A i \in Items : verdict[i] \in {"pending", "done", "move_failed"}

\* Moved, but the log does not say so yet.
InHand(j) == (j \in batch /\ pc \in InMove) \/ verdict[j] = "done"

\* While nothing goes wrong, a command fails for a message that the server
\* refuses, and such a message stays where it is.
RefusalsOnly ==
  /\ validity = SurveyValidity
  /\ pc # "idle" => conn
  /\ pc = "await" =>
       /\ command # "ROLLBACK"
       /\ wire = "no" => command # "EXPUNGE" /\ \E i \in Target : Plan[i].key \in Poison
       /\ command # "MOVE" => \A i \in Target \ left : box[Slot(i)] \notin Poison
  /\ \A i \in Items :
       /\ fate[i] = "move_failed" \/ verdict[i] = "move_failed" => Plan[i].key \in Poison
       /\ Plan[i].key \in Poison \ touched => Holds(Plan[i].src, Plan[i].key)

\* What has left its folder is in the log or about to be entered.
LogIsCurrent ==
  \A i \in Items : Plan[i].key \notin touched =>
    \/ Holds(Plan[i].src, Plan[i].key)
    \/ AlreadyMoved(Plan[i].key, Plan[i].dst)
    \/ \E j \in Items : Plan[j].key = Plan[i].key /\ InHand(j)

Faultless == OneByOne /\ (faults = 0 => RefusalsOnly /\ (crashes = 0 => LogIsCurrent))

-----------------------------------------------------------------------------
(* Properties.                                                              *)

ToolStep == userSteps' = userSteps /\ validity' = validity

\* The one thing this tool must not do is move mail nobody planned to move
\* (executor.py 129, 223-226).  Whenever it empties a slot, that slot is the one
\* a still pending item names and holds that item's message: across retries,
\* reconnections, renumbered folders, resumed runs and bare expunges.
OnlyPlannedMailLeaves ==
  [][ToolStep =>
       \A s \in Slots : Occupied(s) /\ box'[s] # box[s] =>
         \E i \in Items : Slot(i) = s /\ fate[i] = "pending" /\ Plan[i].key = box[s]]_vars

\* No interruption loses mail: a message the owner has left alone is always
\* somewhere in the mailbox without \Deleted, even when the process dies
\* between COPY, STORE and EXPUNGE (imap.py 364-377).
NothingLost ==
  \A k \in Mail \ touched : \E s \in Slots \ deleted : box[s] = k

\* A move the log records has happened: the message is in its new folder and
\* its old slot is empty, however many attempts that took (index.py 219-224).
RecordedMoveIsReal ==
  \A i \in Items : fate[i] = "done" /\ Plan[i].key \notin touched =>
    /\ Holds(Plan[i].dst, Plan[i].key)
    /\ UidsStillValid(Plan[i].src) => ~ Occupied(Slot(i))

\* A skip is no loss: unless the owner or a renumbering stepped in, an item
\* skipped as moved or vanished is in the folder it was meant for, and a
\* message undo brought back is archived again (index.py 265-279).
SkippedMailIsFiled ==
  \A i \in Items :
    fate[i] \in Skips /\ Plan[i].key \notin touched /\ UidsStillValid(Plan[i].src) =>
      Holds(Plan[i].dst, Plan[i].key)

\* One bad message costs one message: without a fault, only a message that the
\* server itself refuses ends up failed (executor.py 137-141).
BlameIsIndividual ==
  \A i \in Items : fate[i] = "move_failed" /\ faults = 0 => Plan[i].key \in Poison

\* A run that completes, with failures or without, has given every item its
\* verdict; no early `break` or `continue` leaves one behind (executor.py 60-67,
\* 125-135).
ClosedMeansResolved == report \in {"ok", "failures"} => Pending = {}

Unlogged(i) ==
  /\ Plan[i].key \notin touched
  /\ ~ Holds(Plan[i].src, Plan[i].key)
  /\ ~ AlreadyMoved(Plan[i].key, Plan[i].dst)

\* Without a fault or a kill, the log knows every message that was moved once
\* the process is at rest, also the neighbours of a message the server refused.
LogIsComplete ==
  pc = "idle" /\ faults = 0 /\ crashes = 0 => ~ \E i \in Items : Unlogged(i)

\* README.md 126: "Moves are recorded in an append-only log as they happen, so
\* an interrupted run loses nothing."
InterruptedRunLosesNothing == pc = "idle" => ~ \E i \in Items : Unlogged(i)

\* cli.py 32: "transient failure, nothing was changed - safe to retry".
TransientChangedNothing == report = "transient" => ~ relocated

\* imap.py 370-375: the flag is rolled back lest "a retry COPYs them to the
\* destination a second time", "so the retry starts from the state it expects".
RetryFindsNoCopy ==
  [][command = "ROLLBACK" /\ wire = "ok" /\ MoveRaises =>
       \A i \in Target : Plan[i].key \notin touched => ~ Holds(Dst, Plan[i].key)]_vars

\* README.md 28: the tool "never moves \Deleted mail".  What the last look
\* before a move confirms does not carry the flag.
NeverMovesDeleted ==
  [][pc = "fetch" /\ pc' = "send" => \A i \in batch' : At(i) \notin deleted]_vars

\* Every invocation ends by itself, whatever fails.
InvocationEnds == pc # "idle" ~> pc = "idle"

\* Every item comes to a verdict if apply is run again after each interruption.
EveryItemSettles == \A i \in Items : fate[i] = "pending" ~> fate[i] # "pending"

\* The index keeps the promise of PlanLedger.
Ledger == INSTANCE PlanLedger WITH Entry <- [i \in Items |-> Row(i)]
LedgerKept == Ledger!Spec

=============================================================================
