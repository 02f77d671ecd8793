-------------------------------- MODULE Undo --------------------------------
(***************************************************************************)
(* `mailgonizer undo --run N`: recovery.undo_run taking the moves of one   *)
(* run back, folder by folder.  A message is found by recomputing its      *)
(* msg_key over the destination folder; the reversal is appended to the    *)
(* move log after the batch was moved.  Mailbox.move is one UID MOVE here: *)
(* Executor has the fallback for servers without it.  Unlike apply, undo   *)
(* neither retries nor reconnects, and it may be called again at any time. *)
(***************************************************************************)
EXTENDS MailServer, Sequences

CONSTANTS
  NoFolder,      \* what a session that has selected nothing has selected
  Run,           \* index.moves_for_run: the rows [key, src, dst] of run N
  Layouts,       \* the mailboxes [box, nextUid] that undo may find
  Refusals,      \* the sets of keys the server may refuse to move
  BatchSize      \* execution.batch_size

Rows    == 1..Len(Run)                \* a row of the run, by its position
Entries == [key : Keys, src : Folders, dst : Folders]
Reversal(r) == [key |-> Run[r].key, src |-> Run[r].dst, dst |-> Run[r].src]

ASSUME UndoAssumption ==
  /\ NoFolder \notin Folders
  /\ Run \in Seq(Entries)
  /\ \A r \in Rows : Run[r].src # Run[r].dst
  /\ \A q, r \in Rows : Run[q].key = Run[r].key => Run[q].dst = Run[r].dst
  /\ Refusals \subseteq SUBSET Keys
  /\ BatchSize \in Nat \ {0}
  /\ \A l \in Layouts :
       /\ l.box \in [Slots -> Keys \cup {NoKey}]
       /\ l.nextUid \in [Folders -> 1..(MaxUid + 1)]
       /\ \A s \in Slots : s[2] >= l.nextUid[s[1]] => l.box[s] = NoKey

VARIABLES
  moves,       \* the moves table: the run's rows, then the reversals
  status,      \* runs.status of the last reversal run; none before the first
  conn,        \* the connection is up
  folder,      \* the destination folder being emptied, and selected
  pc,          \* where undo_run is
  rest,        \* rows of the folders that come later in by_dst
  group,       \* rows of this folder
  unread,      \* UIDs listed, whose identity is not fetched yet
  byKey,       \* by_key; 0 where the key is missing
  back,        \* back_to: rows located, not yet in a batch
  home,        \* src_folder of back_to that is being served
  batch,       \* rows of the current batch that are not recorded
  trying,      \* move_individually: rows not yet tried
  wire,        \* none, sent, ok or no: how far the MOVE is
  left,        \* UIDs it has still to reach
  results,     \* [Uids -> none, moved or failed]
  skipped,     \* rows this invocation has not found
  failed,      \* failed > 0
  report,      \* how the last invocation ended
  poison       \* the keys the server refuses to move, once and for all

logVars     == <<moves, status>>
sessionVars == <<conn, folder>>
findVars    == <<rest, group, unread, byKey>>
moveVars    == <<trying, wire, left, results>>
countVars   == <<skipped, failed, report, poison>>
vars == <<serverVars, logVars, sessionVars, pc, findVars, back, home, batch, moveVars, countVars>>

NoUid    == [k \in Keys |-> 0]
NoResult == [u \in Uids |-> "none"]

TypeOK ==
  /\ ServerTypeOK
  /\ moves \in Seq(Entries)
  /\ status \in {"none", "running", "ok", "failed"}
  /\ conn \in BOOLEAN
  /\ folder \in Folders \cup {NoFolder}
  /\ pc \in {"idle", "folder", "identify", "home", "batch", "send", "await", "record"}
  /\ rest \in SUBSET Rows /\ group \in SUBSET Rows /\ back \in SUBSET Rows
  /\ batch \in SUBSET Rows /\ trying \in SUBSET Rows /\ skipped \in SUBSET Rows
  /\ unread \in SUBSET Uids /\ left \in SUBSET Uids
  /\ byKey \in [Keys -> Uids \cup {0}]
  /\ home \in Folders \cup {NoFolder}
  /\ wire \in {"none", "sent", "ok", "no"}
  /\ results \in [Uids -> {"none", "moved", "failed"}]
  /\ failed \in BOOLEAN
  /\ report \in {"none", "ok", "fatal", "transient", "traceback", "killed"}
  /\ poison \in Refusals

-----------------------------------------------------------------------------

First(r, S) == r \in S /\ \A q \in S : r <= q

\* The next batch_size elements of S.
IsBatch(b, S) ==
  /\ b \subseteq S
  /\ \A r \in b, q \in S \ b : r < q
  /\ \/ Cardinality(b) = BatchSize
     \/ b = S /\ Cardinality(S) < BatchSize

\* The messages of a folder that the search lists.
Live(f) == {u \in Uids : Occupied(<<f, u>>)}

UidOf(r) == byKey[Run[r].key]

LastEntry(k, n) == /\ n \in 1..Len(moves)
                   /\ moves[n].key = k
                   /\ \A m \in (n + 1)..Len(moves) : moves[m].key # k
AlreadyMoved(k, d) == \E n \in 1..Len(moves) : LastEntry(k, n) /\ moves[n].dst = d

Init ==
  /\ \E l \in Layouts : box = l.box /\ nextUid = l.nextUid
  /\ deleted = {} /\ validity = [f \in Folders |-> 1]
  /\ touched = {} /\ faults = 0 /\ userSteps = 0
  /\ moves = Run /\ status = "none"
  /\ conn = FALSE /\ folder = NoFolder /\ pc = "idle"
  /\ rest = {} /\ group = {} /\ unread = {} /\ byKey = NoUid
  /\ back = {} /\ home = NoFolder /\ batch = {}
  /\ trying = {} /\ wire = "none" /\ left = {} /\ results = NoResult
  /\ skipped = {} /\ failed = FALSE /\ report = "none"
  /\ poison \in Refusals

\* main connects, undo_run opens its own run row.
Start ==
  /\ pc = "idle"
  /\ pc' = "folder" /\ conn' = TRUE
  /\ status' = "running"
  /\ rest' = Rows
  /\ skipped' = {} /\ failed' = FALSE /\ report' = "none"
  /\ UNCHANGED <<serverVars, moves, folder, group, unread, byKey, back, home,
                 batch, moveVars, poison>>

Quit(r) ==
  /\ pc' = "idle" /\ report' = r
  /\ conn' = FALSE /\ folder' = NoFolder
  /\ rest' = {} /\ group' = {} /\ unread' = {} /\ byKey' = NoUid
  /\ back' = {} /\ home' = NoFolder /\ batch' = {}
  /\ trying' = {} /\ wire' = "none" /\ left' = {} /\ results' = NoResult
  /\ UNCHANGED <<skipped, failed, poison>>

Finish ==
  /\ pc = "folder" /\ rest = {}
  /\ status' = IF failed THEN "failed" ELSE "ok"
  /\ Quit("ok")
  /\ UNCHANGED <<serverVars, moves>>

-----------------------------------------------------------------------------
(* Finding the messages of one destination folder.                          *)

\* Mutant: by_key is not emptied between two folders.
KeysSoFar == byKey
NoKeysYet == NoUid

ListUids(r) ==
  /\ pc = "folder" /\ First(r, rest) /\ conn
  /\ pc' = "identify"
  /\ folder' = Run[r].dst
  /\ group' = {q \in rest : Run[q].dst = Run[r].dst}
  /\ rest' = rest \ group'
  /\ unread' = Live(folder')
  /\ byKey' = NoKeysYet
  /\ UNCHANGED <<serverVars, logVars, conn, back, home, batch, moveVars, countVars>>

\* One chunk of fetch_identity; of two UIDs with one key the later one stays.
FetchChunk ==
  /\ pc = "identify" /\ unread # {} /\ conn
  /\ \E b \in SUBSET unread :
       LET found(k) == {u \in b : box[<<folder, u>>] = k}
       IN /\ IsBatch(b, unread)
          /\ unread' = unread \ b
          /\ byKey' = [k \in Keys |->
                         IF found(k) = {} THEN byKey[k]
                         ELSE CHOOSE u \in found(k) : \A v \in found(k) : v <= u]
  /\ UNCHANGED <<serverVars, logVars, sessionVars, pc, rest, group, back, home,
                 batch, moveVars, countVars>>

Locate ==
  /\ pc = "identify" /\ unread = {}
  /\ pc' = "home"
  /\ back' = {r \in group : UidOf(r) # 0}
  /\ skipped' = skipped \cup (group \ back')
  /\ UNCHANGED <<serverVars, logVars, sessionVars, findVars, home, batch, moveVars,
                 failed, report, poison>>

-----------------------------------------------------------------------------
(* Moving them back, one source folder after the other.                     *)

FolderDone ==
  /\ pc = "home" /\ back = {}
  /\ pc' = "folder"
  /\ UNCHANGED <<serverVars, logVars, sessionVars, findVars, back, home, batch,
                 moveVars, countVars>>

\* ensure_folder(src_folder)
OpenHome(r) ==
  /\ pc = "home" /\ First(r, back) /\ conn
  /\ pc' = "batch"
  /\ home' = Run[r].src
  /\ UNCHANGED <<serverVars, logVars, sessionVars, findVars, back, batch,
                 moveVars, countVars>>

Mine == {r \in back : Run[r].src = home}

TakeBatch ==
  /\ pc = "batch"
  /\ \E b \in SUBSET Mine :
       /\ IsBatch(b, Mine)
       /\ batch' = b
       /\ back' = back \ b
       /\ pc' = IF b = {} THEN "home" ELSE "send"
  /\ UNCHANGED <<serverVars, logVars, sessionVars, findVars, home, moveVars, countVars>>

Target == IF trying = {} THEN batch ELSE {r \in trying : First(r, trying)}

Send ==
  /\ pc = "send"
  /\ pc' = "await" /\ wire' = "sent"
  /\ left' = {UidOf(r) : r \in Target}
  /\ UNCHANGED <<serverVars, logVars, sessionVars, findVars, back, home, batch,
                 trying, results, countVars>>

Serving == pc = "await" /\ wire = "sent" /\ conn
At(u) == <<folder, u>>

ClientWaits == UNCHANGED <<validity, touched, userSteps, logVars, sessionVars, pc, findVars,
                           back, home, batch, trying, results, countVars>>

ServerMoves(u) ==
  /\ Serving /\ First(u, left) /\ box[At(u)] \notin poison
  /\ MoveOne(At(u), home)
  /\ left' = left \ {u}
  /\ wire' = IF left = {u} THEN "ok" ELSE "sent"
  /\ ClientWaits /\ UNCHANGED faults

ServerRefuses ==
  /\ Serving
  /\ \/ /\ \E u \in left : First(u, left) /\ box[At(u)] \in poison
        /\ UNCHANGED faults
     \/ Fault
  /\ wire' = "no"
  /\ ClientWaits /\ UNCHANGED <<mailVars, left>>

\* Mutant: a message that fails is tried again.
TryAgain  == trying
TriedOnce == trying \ Target

\* The answer to move(), or to one step of move_individually.
Answered(v) ==
  /\ wire' = "none" /\ left' = {}
  /\ results' = [u \in Uids |-> IF \E r \in Target : UidOf(r) = u THEN v ELSE results[u]]
  /\ trying' = TriedOnce
  /\ pc' = IF trying' = {} THEN "record" ELSE "send"

MoveReturns ==
  /\ pc = "await" /\ wire = "ok"
  /\ Answered("moved")
  /\ UNCHANGED <<serverVars, logVars, sessionVars, findVars, back, home, batch, countVars>>

Raised == pc = "await" /\ (wire = "no" \/ ~ conn)

\* The batch goes to move_individually.
\* Mutant: the batch fails as a whole.
FailBatch   == Answered("failed")
OneAtATime  == /\ trying' = batch /\ pc' = "send"
               /\ wire' = "none" /\ left' = {} /\ UNCHANGED results

MoveRaises ==
  /\ Raised
  /\ \/ trying = {} /\ OneAtATime
     \/ trying # {} /\ Answered("failed")
  /\ UNCHANGED <<serverVars, logVars, sessionVars, findVars, back, home, batch, countVars>>

\* append_move for what was moved.
\* Mutant: every row of the batch is logged.
LogAll(r) == Append(moves, Reversal(r))
LogReversal(r) == IF results[UidOf(r)] = "moved" THEN Append(moves, Reversal(r)) ELSE moves

\* Mutant: a failure is logged and not counted.
NotCounted(r) == failed
Counted(r) == failed \/ results[UidOf(r)] = "failed"

Record(r) ==
  /\ pc = "record" /\ First(r, batch)
  /\ moves' = LogReversal(r)
  /\ failed' = Counted(r)
  /\ batch' = batch \ {r}
  /\ pc' = IF batch' = {} THEN "batch" ELSE "record"
  /\ results' = IF batch' = {} THEN NoResult ELSE results
  /\ UNCHANGED <<serverVars, status, sessionVars, findVars, back, home, trying, wire, left,
                 skipped, report, poison>>

-----------------------------------------------------------------------------
(* Ways out that leave work behind, and the environment.                    *)

\* FatalError: a folder that cannot be made, a FETCH answer without headers.
\* main has no active_run for undo, so the reversal run stays `running`.
Abort ==
  /\ pc \in {"identify", "home"} /\ conn
  /\ Fault
  /\ Quit("fatal")
  /\ UNCHANGED <<mailVars, validity, touched, userSteps, logVars>>

\* An exception nobody catches, on a connection that is gone.
\* Mutant: a refusal is not caught either.
RefusalToo == ~ conn \/ wire = "no"
Uncaught == ~ conn

Traceback ==
  /\ Uncaught
  /\ pc \in {"folder", "identify", "home", "await"}
  /\ pc = "folder" => rest # {}
  /\ pc = "identify" => unread # {}
  /\ pc = "home" => back # {}
  /\ Quit("traceback")
  /\ UNCHANGED <<serverVars, logVars>>

\* A kill, and what ends the process the same way on a connection that stands: a NO
\* to SELECT, SEARCH or FETCH, which nobody catches.
Crash ==
  /\ pc # "idle"
  /\ Fault
  /\ Quit("killed")
  /\ UNCHANGED <<mailVars, validity, touched, userSteps, logVars>>

Drop ==
  /\ conn /\ Fault
  /\ conn' = FALSE
  /\ UNCHANGED <<mailVars, validity, touched, userSteps, logVars, folder, pc, findVars,
                 back, home, batch, moveVars, countVars>>

Renumbered(f) ==
  /\ Renumber(f)
  /\ conn' = (conn /\ folder # f)
  /\ UNCHANGED <<logVars, folder, pc, findVars, back, home, batch, moveVars, countVars>>

Owner ==
  /\ OwnerStep
  /\ UNCHANGED <<logVars, sessionVars, pc, findVars, back, home, batch, moveVars, countVars>>

ProcessWorks ==
  \/ Finish \/ FetchChunk \/ Locate \/ FolderDone \/ TakeBatch \/ Send
  \/ MoveReturns \/ MoveRaises
  \/ \E r \in Rows : ListUids(r) \/ OpenHome(r) \/ Record(r)

ServerWorks == (\E u \in Uids : ServerMoves(u)) \/ (faults' = faults /\ ServerRefuses)

Mishap == ServerRefuses \/ Abort \/ Crash \/ Drop \/ \E f \in Folders : Renumbered(f)

Next == Start \/ ProcessWorks \/ ServerWorks \/ Traceback \/ Mishap \/ Owner

Spec == Init /\ [][Next]_vars
FairSpec == Spec /\ WF_vars(ServerWorks) /\ WF_vars(ProcessWorks \/ Traceback)

-----------------------------------------------------------------------------
(* What keeps the state together; UndoProofs shows that it is inductive.    *)

\* An open folder is selected, and its mail has a folder to go to.
SessionInPlace ==
  /\ pc = "idle" => ~ conn
  /\ pc = "idle" \/ folder = NoFolder => byKey = NoUid
  /\ pc \notin {"idle", "folder"} => folder \in Folders
  /\ pc \in {"batch", "send", "await", "record"} => home \in Folders

\* Each row is in one place, and was found in the folder it is moved out of.
RowsInPlace ==
  /\ back \cup batch \subseteq group
  /\ trying \subseteq batch
  /\ \A r \in group : Run[r].dst = folder
  /\ \A r \in back \cup batch : UidOf(r) # 0
  /\ \A r \in batch : Run[r].src = home
  /\ pc \in {"idle", "folder", "identify"} => back = {}
  /\ pc \notin {"send", "await", "record"} => batch = {} /\ results = NoResult
  /\ trying # {} => pc \in {"send", "await"}
  /\ left \subseteq {UidOf(r) : r \in Target}
  /\ wire = "ok" => left = {}
  /\ pc # "await" => wire = "none" /\ left = {}

\* As long as the session lives, a UID in by_key names its message or nothing.
ByKeyStands ==
  /\ \A k \in Keys : byKey[k] # 0 => byKey[k] < nextUid[folder] /\ byKey[k] \notin unread
  /\ \A j, k \in Keys : byKey[j] = byKey[k] /\ byKey[j] # 0 => j = k
  /\ conn => \A k \in Keys : byKey[k] # 0 => box[<<folder, byKey[k]>>] \in {k, NoKey}

IInv == TypeOK /\ NothingAhead /\ SessionInPlace /\ RowsInPlace /\ ByKeyStands

-----------------------------------------------------------------------------
(* Why the reversals are true; inductive together with IInv.                *)

Copies(f, k) == Cardinality({u \in Uids : box[<<f, u>>] = k})
Twins(r) == {q \in Rows : Run[q].key = Run[r].key /\ Run[q].dst = Run[r].dst}

\* The rows of one message name one folder it came from.
OneHomePerKey == \A q, r \in Rows : Run[q].key = Run[r].key => Run[q].src = Run[r].src

\* The mailbox that undo finds holds what the run has moved, and no other copy
\* of it in that folder.
RunIsTrue == \A l \in Layouts, r \in Rows : \E u \in Uids : l.box[<<Run[r].dst, u>>] = Run[r].key
NoOtherCopies ==
  \A l \in Layouts, r \in Rows :
    Cardinality({u \in Uids : l.box[<<Run[r].dst, u>>] = Run[r].key}) <= Cardinality(Twins(r))

\* One copy at least of the row's message has come home.
TakenHome(r) ==
  Run[r].key \notin touched =>
    /\ OneHomePerKey => Holds(Run[r].src, Run[r].key)
    /\ NoOtherCopies => Copies(Run[r].dst, Run[r].key) < Cardinality(Twins(r))

InFolder(r) == box[<<folder, UidOf(r)>>] = Run[r].key

\* Undo brings no copy to where it takes mail from.
NoNewCopies ==
  NoOtherCopies =>
    \A r \in Rows : Run[r].key \notin touched =>
      Copies(Run[r].dst, Run[r].key) <= Cardinality(Twins(r))

\* What was found is there or was taken home; what is reported moved was.
FoundIsThere == conn => \A r \in group : UidOf(r) # 0 => InFolder(r) \/ TakenHome(r)
SentIsTaken  == pc = "await" => \A r \in Target : UidOf(r) \in left \/ TakenHome(r)
MovedIsTaken == \A r \in batch : results[UidOf(r)] = "moved" => TakenHome(r)
LoggedIsTaken ==
  \A n \in (Len(Run) + 1)..Len(moves) : \E r \in Rows : moves[n] = Reversal(r) /\ TakenHome(r)

Deeds == NoNewCopies /\ FoundIsThere /\ SentIsTaken /\ MovedIsTaken /\ LoggedIsTaken

\* Moved or still to be moved, and not logged yet.
InHand(q) ==
  \/ results[UidOf(q)] = "moved"
  \/ q \in trying
  \/ trying = {} /\ pc \in {"send", "await"}

\* Every row is still to do, skipped because nothing was there, taken home, or given
\* up: without faults only because the server refuses that very message.
Missing(r) == Run[r].key \notin touched => ~ Holds(Run[r].dst, Run[r].key)
ToDo(r) == r \in rest \cup back \cup batch \/ (pc = "identify" /\ r \in group)
ReadSoFar ==
  pc = "identify" /\ (conn \/ unread = {}) =>
    \A r \in group, u \in Uids :
      Run[r].key \notin touched /\ box[<<folder, u>>] = Run[r].key => u \in unread \/ UidOf(r) # 0
SkippedIsMissing == \A r \in skipped : Missing(r)
BatchIsAnswered  == \A q \in batch : results[UidOf(q)] = "failed" \/ InHand(q)
GivenUp(r) == failed /\ (faults = 0 => Run[r].key \in poison)
Answer(r)  == r \in skipped \/ TakenHome(r) \/ GivenUp(r)
NoneForgotten == pc # "idle" => \A r \in Rows : ToDo(r) \/ Answer(r)
StatusIsTrue ==
  status \in {"ok", "failed"} =>
    /\ pc = "idle" /\ (status = "ok" => ~ failed)
    /\ \A r \in Rows : Answer(r)

Account == ReadSoFar /\ SkippedIsMissing /\ BatchIsAnswered /\ NoneForgotten /\ StatusIsTrue

\* Gone from where the log says it is.
Unrecorded(r) ==
  /\ Run[r].key \notin touched
  /\ ~ Holds(Run[r].dst, Run[r].key)
  /\ AlreadyMoved(Run[r].key, Run[r].dst)

\* Without faults the connection holds, a message tried alone fails where it is, and
\* only if the server refuses it, and what has left its folder is about to be logged.
LineHolds ==
  /\ faults = 0 /\ pc # "idle" => conn
  /\ faults = 0 /\ pc = "idle" => status # "running"
RefusedIsThere ==
  faults = 0 /\ pc = "await" /\ wire = "no" /\ trying # {} =>
    \A r \in Target : Run[r].key \in touched \/ InFolder(r)
OnlyPoisonIsRefused ==
  faults = 0 /\ pc = "await" /\ wire = "no" /\ trying # {} =>
    \A r \in Target : Run[r].key \in poison
FailedIsPoison ==
  faults = 0 => \A q \in batch : results[UidOf(q)] = "failed" => Run[q].key \in poison
MovedIsInHand ==
  faults = 0 /\ RunIsTrue =>
    \A r \in Rows : Unrecorded(r) => \E q \in batch : Run[q].key = Run[r].key /\ InHand(q)

Calm == LineHolds /\ RefusedIsThere /\ OnlyPoisonIsRefused /\ FailedIsPoison /\ MovedIsInHand

-----------------------------------------------------------------------------
(* Properties.                                                              *)

ToolStep == userSteps' = userSteps /\ validity' = validity

\* Undo takes nothing but what the run has moved, and takes it home: a slot it
\* empties is in the folder a row of the run names and holds that row's message,
\* which arrives where the row says it came from (recovery.py 48-76).
TakesHomeWhatWasMoved ==
  [][ToolStep =>
       \A s \in Slots : Occupied(s) /\ box'[s] # box[s] =>
         \E r \in Rows : /\ Run[r].dst = s[1] /\ Run[r].key = box[s]
                         /\ box'[Put(s, Run[r].src)] = box[s]]_vars

\* A reversal in the log has happened: the message is back where the reversal
\* says (recovery.py 104-106), also if the MOVE's answer was lost.
ReversalIsReal ==
  \A n \in (Len(Run) + 1)..Len(moves) :
    moves[n].key \notin touched => Holds(moves[n].dst, moves[n].key)

\* index.py 276-279: "a message undo has reversed back to the inbox ... is free
\* to be re-archived to that same destination later".
Blocked(r) ==
  /\ Run[r].key \notin touched
  /\ Holds(Run[r].src, Run[r].key) /\ ~ Holds(Run[r].dst, Run[r].key)
  /\ AlreadyMoved(Run[r].key, Run[r].dst)
ReversedMailIsFree == pc = "idle" => ~ \E r \in Rows : Blocked(r)

\* Where a row's message is once it was reversed.  Of two copies with one key,
\* which by_key takes for one (recovery.py 63), one at least has come home, and both
\* rows count as reversed; a row that was skipped has no copy at its destination.
Reversed(r) ==
  /\ Copies(Run[r].dst, Run[r].key) < Cardinality(Twins(r))
  /\ r \in skipped \/ Twins(r) = {r} => ~ Holds(Run[r].dst, Run[r].key)
  /\ r \notin skipped => Holds(Run[r].src, Run[r].key)

\* Without faults an undo that has ended has reversed every message that the server
\* does not refuse, whatever it refused beside it, and none that it brought home is
\* kept from being archived again: the others of a batch are moved and logged before
\* the refusal or one at a time after it (recovery.py 84-106).
RefusalBlocksNoNeighbour ==
  faults = 0 /\ pc = "idle" =>
    \A r \in Rows :
      /\ ~ Blocked(r)
      /\ status # "none" /\ Run[r].key \notin touched \cup poison => Reversed(r)

\* recovery.py 85-86: "A per-item NO must not become an uncaught traceback that
\* strands this reversal run at status='running' forever."
RefusalStrandsNoRun ==
  pc = "idle" /\ faults = 0 => status # "running"

\* recovery.py 25: "Reverse a run's moves".  An undo that reports no failure has
\* reversed every row of the run, also after refusals, faults and repeated calls.
RunIsReversed ==
  status = "ok" => \A r \in Rows : Run[r].key \notin touched => Reversed(r)

\* Undo ends by itself.
UndoEnds == pc # "idle" ~> pc = "idle"

=============================================================================
