--------------------------- MODULE ExecutorProofs ---------------------------
(***************************************************************************)
(* Proofs about Executor, for every plan, mailbox, history and bound.      *)
(*                                                                         *)
(* IInv is proved in layers: the types with the place of the session, then *)
(* the mailbox (UidsAreFresh, PlanStands), then the batch.                 *)
(***************************************************************************)
EXTENDS Executor, MailServerProofs, TLAPS

Typed == TypeOK /\ SessionInPlace /\ RetryIsAllowed

LEMMA QuitTypes ==
  ASSUME TypeOK, NEW r \in {"ok", "failures", "aborted", "transient", "traceback", "killed"},
         Quit(r)
  PROVE  /\ conn' \in BOOLEAN
         /\ selected' \in Folders \cup {NoFolder}
         /\ pc' = "idle"
         /\ todo' \in SUBSET Items
         /\ group' \in (Folders \X Folders) \cup {NoGroup}
         /\ validated' \in [Folders -> {"unseen", "valid", "void"}]
         /\ batch' \in SUBSET Items
         /\ attempt' \in 1..Attempts
         /\ trying' \in SUBSET Items
         /\ command' \in {"MOVE", "COPY", "STORE", "EXPUNGE", "ROLLBACK"}
         /\ wire' \in {"none", "sent", "ok", "no"}
         /\ left' \in SUBSET Items
         /\ verdict' \in [Items -> Fates]
         /\ anyFailed' \in BOOLEAN
         /\ report' \in {"none", "ok", "failures", "aborted", "transient", "traceback", "killed"}
<1>1. 1 \in 1..Attempts
  BY PlanAssumption DEF PlanAssumption
<1>2. Undecided \in [Items -> Fates]
  BY DEF Undecided, Fates
<1>3. [f \in Folders |-> "unseen"] \in [Folders -> {"unseen", "valid", "void"}]
  OBVIOUS
<1>. QED BY <1>1, <1>2, <1>3 DEF Quit, TypeOK

LEMMA Places ==
  ASSUME Typed, pc \in InMove \cup {"ensure", "filter", "fetch"}
  PROVE  /\ Src \in Folders /\ Dst \in Folders
         /\ \A i \in Items : At(i) \in Slots
BY PlanAssumption
   DEF PlanAssumption, Typed, SessionInPlace, Src, Dst, At, Slots

LEMMA JudgeTypes ==
  ASSUME TypeOK, NEW S, NEW v \in Verdicts, Judge(S, v)
  PROVE  verdict' \in [Items -> Fates]
BY DEF Judge, TypeOK, Fates

LEMMA TriedTypes ==
  ASSUME TypeOK, NEW v \in Verdicts, OneTried(v)
  PROVE  /\ trying' \in SUBSET Items
         /\ batch' \in SUBSET Items
         /\ verdict' \in [Items -> Fates]
         /\ pc' \in {"group", "filter", "send"}
         /\ pc' = "send" \/ trying' = {}
         /\ attempt' = attempt
BY JudgeTypes DEF OneTried, AfterBatch, Fates, TypeOK

LEMMA TypedStep ==
  ASSUME Typed, [Next]_vars
  PROVE  Typed'
<1>. USE DEF Typed, TypeOK, SessionInPlace, RetryIsAllowed, InMove, Src
<1>1. CASE Start
  BY <1>1 DEF Start, Pending, serverVars, dbVars, sessionVars, moveVars, procVars, ghostVars, ServerTypeOK
<1>2. CASE Finish
  BY <1>2, QuitTypes DEF Finish, serverVars, dbVars, sessionVars, moveVars, procVars, ghostVars, ServerTypeOK
<1>3. CASE EnsureFolder
  BY <1>3 DEF EnsureFolder, serverVars, dbVars, sessionVars, moveVars, procVars, ghostVars, ServerTypeOK
<1>4. CASE TakeBatch
  BY <1>4 DEF TakeBatch, Judge, Fates, Verdicts, AfterBatch, IsBatch, Rest, InGroup, serverVars, dbVars, sessionVars, moveVars, procVars, ghostVars, ServerTypeOK
<1>5. CASE FetchIdentity
  <2>1. attempt' \in 1..Attempts
    BY <1>5, PlanAssumption DEF PlanAssumption, FetchIdentity
  <2>2. verdict' \in [Items -> Fates]
    BY <1>5 DEF FetchIdentity, Fates, Verdicts
  <2>3. batch' \in SUBSET Items /\ pc' \in {"group", "filter", "send"}
    BY <1>5 DEF FetchIdentity, AfterBatch
  <2>. QED BY <1>5, <2>1, <2>2, <2>3 DEF FetchIdentity, serverVars, dbVars, sessionVars, moveVars, procVars, ghostVars, ServerTypeOK
<1>6. CASE Send
  BY <1>6 DEF Send, FirstCommand, Target, serverVars, dbVars, sessionVars, moveVars, procVars, ghostVars, ServerTypeOK
<1>7. CASE CopyContinues
  BY <1>7 DEF CopyContinues, NextCommand, serverVars, dbVars, sessionVars, moveVars, procVars, ghostVars, ServerTypeOK
<1>8. CASE RollBackFlag
  BY <1>8 DEF RollBackFlag, serverVars, dbVars, sessionVars, moveVars, procVars, ghostVars, ServerTypeOK
<1>9. CASE MoveReturns
  <2>1. CASE OneTried("done")
    <3>. QED BY <1>9, <2>1, TriedTypes DEF MoveReturns, NoCommand, Verdicts, serverVars, dbVars, sessionVars, moveVars, procVars, ghostVars, ServerTypeOK
  <2>2. CASE trying = {} /\ Judge(batch, "done") /\ batch' = {}
             /\ pc' = AfterBatch(todo) /\ UNCHANGED <<trying, attempt>>
    <3>1. verdict' \in [Items -> Fates]
      BY <2>2, JudgeTypes DEF Verdicts
    <3>. QED BY <1>9, <2>2, <3>1 DEF MoveReturns, NoCommand, AfterBatch, serverVars, dbVars, sessionVars, moveVars, procVars, ghostVars, ServerTypeOK
  <2>. QED BY <1>9, <2>1, <2>2 DEF MoveReturns
<1>10. CASE MoveRaises
  <2>1. CASE OneTried("move_failed")
    <3>. QED BY <1>10, <2>1, TriedTypes DEF MoveRaises, NoCommand, Verdicts, serverVars, dbVars, sessionVars, moveVars, procVars, ghostVars, ServerTypeOK
  <2>2. CASE trying = {} /\ AttemptsRemain /\ pc' = "retry"
             /\ UNCHANGED <<trying, attempt, batch, verdict>>
    <3>. QED BY <1>10, <2>2 DEF MoveRaises, NoCommand, AttemptsRemain, serverVars, dbVars, sessionVars, moveVars, procVars, ghostVars, ServerTypeOK
  <2>3. CASE trying = {} /\ ~ AttemptsRemain /\ AfterLastAttempt /\ UNCHANGED attempt
    <3>. QED BY <1>10, <2>3 DEF MoveRaises, NoCommand, AfterLastAttempt, serverVars, dbVars, sessionVars, moveVars, procVars, ghostVars, ServerTypeOK
  <2>. QED BY <1>10, <2>1, <2>2, <2>3 DEF MoveRaises
<1>11. CASE Reconnect
  <2>. USE <1>11 DEF Reconnect, StillTheSurveyedFolder
  <2>1. group \in Folders \X Folders
    OBVIOUS
  <2>2. attempt' \in 1..Attempts
    BY PlanAssumption DEF PlanAssumption, NextAttempt
  <2>3. verdict' \in [Items -> Fates]
    BY JudgeTypes DEF Verdicts
  <2>4. validated' \in [Folders -> {"unseen", "valid", "void"}]
    BY <2>1
  <2>5. todo' \in SUBSET Items /\ batch' \in SUBSET Items /\ pc' \in {"send", "group"}
    OBVIOUS
  <2>. QED BY <2>1, <2>2, <2>3, <2>4, <2>5 DEF serverVars, dbVars, sessionVars, moveVars, procVars, ghostVars, ServerTypeOK
<1>12. CASE Traceback
  BY <1>12, QuitTypes DEF Traceback, serverVars, dbVars, sessionVars, moveVars, procVars, ghostVars, ServerTypeOK
<1>13. CASE ServerRefuses
  BY <1>13, FaultTypes DEF ServerRefuses, ClientWaits, serverVars, dbVars, sessionVars, moveVars, procVars, ghostVars, mailVars, ServerTypeOK
<1>14. CASE ServerRefusesPoison
  BY <1>14 DEF ServerRefusesPoison, ClientWaits, serverVars, dbVars, sessionVars, moveVars, procVars, ghostVars, mailVars, ServerTypeOK
<1>15. CASE ReconnectUnreachable
  BY <1>15, QuitTypes, FaultTypes DEF ReconnectUnreachable, serverVars, dbVars, sessionVars, moveVars, procVars, ghostVars, mailVars, ServerTypeOK
<1>16. CASE Abort
  BY <1>16, QuitTypes, FaultTypes DEF Abort, serverVars, dbVars, sessionVars, moveVars, procVars, ghostVars, mailVars, ServerTypeOK
<1>17. CASE Crash
  <2>1. crashes' \in 0..MaxCrashes
    BY <1>17, PlanAssumption DEF PlanAssumption, Crash
  <2>. QED BY <1>17, <2>1, QuitTypes DEF Crash, serverVars, dbVars, sessionVars, moveVars, procVars, ghostVars, ServerTypeOK
<1>18. CASE Drop
  <2>1. ServerTypeOK'
    BY <1>18, FaultTypes DEF Drop, mailVars, ServerTypeOK
  <2>2. conn' \in BOOLEAN
    BY <1>18, Zenon DEF Drop
  <2>3. UNCHANGED <<dbVars, selected, moveVars, procVars, ghostVars>>
    BY <1>18 DEF Drop
  <2>. QED BY <2>1, <2>2, <2>3 DEF dbVars, moveVars, procVars, ghostVars
<1>19. ASSUME NEW f \in Folders, Renumbered(f) PROVE Typed'
  BY <1>19, RenumberTypes DEF Renumbered, serverVars, dbVars, sessionVars, moveVars, procVars, ghostVars, ServerTypeOK
<1>20. CASE Owner
  <2>1. ServerTypeOK'
    BY <1>20, OwnerTypes DEF Owner
  <2>. QED BY <1>20, <2>1 DEF Owner, serverVars, dbVars, sessionVars, moveVars, procVars, ghostVars
<1>21. CASE ServerFlags
  <2>1. deleted' \in SUBSET Slots
    BY <1>21, Places DEF ServerFlags, Serving, TargetSlots, Occupied, Target, ServerTypeOK
  <2>. QED BY <1>21, <2>1 DEF ServerFlags, ClientWaits, serverVars, dbVars, sessionVars, moveVars, procVars, ghostVars, mailVars, ServerTypeOK
<1>22. CASE ServerExpunges
  BY <1>22 DEF ServerExpunges, ExpungeSlots, ClientWaits, serverVars, dbVars, sessionVars, moveVars, procVars, ghostVars, mailVars, ServerTypeOK
<1>23. ASSUME NEW i \in Items, ServerMoves(i) PROVE Typed'
  <2>1. pc = "await" /\ At(i) \in Slots /\ Dst \in Folders /\ MoveOne(At(i), Dst)
    BY <1>23, Places DEF ServerMoves, Serving
  <2>2. ServerTypeOK'
    BY <1>23, <2>1, MoveTypes DEF ServerMoves, ClientWaits, ServerTypeOK
  <2>3. left' \in SUBSET Items /\ wire' \in {"sent", "ok"} /\ relocated' \in BOOLEAN
    BY <1>23 DEF ServerMoves, Reached, Occupied
  <2>. QED BY <1>23, <2>2, <2>3 DEF ServerMoves, ClientWaits, serverVars, dbVars, sessionVars, moveVars, procVars, ghostVars
<1>24. ASSUME NEW i \in Items, ServerCopies(i) PROVE Typed'
  <2>1. pc = "await" /\ At(i) \in Slots /\ Dst \in Folders /\ CopyOne(At(i), Dst)
    BY <1>24, Places DEF ServerCopies, Serving
  <2>2. ServerTypeOK'
    BY <1>24, <2>1, CopyTypes DEF ServerCopies, ClientWaits, ServerTypeOK
  <2>3. left' \in SUBSET Items /\ wire' \in {"sent", "ok"} /\ relocated' \in BOOLEAN
    BY <1>24 DEF ServerCopies, Reached, Occupied
  <2>. QED BY <1>24, <2>2, <2>3 DEF ServerCopies, ClientWaits, serverVars, dbVars, sessionVars, moveVars, procVars, ghostVars
<1>25. ASSUME NEW i \in Items, Record(i) PROVE Typed'
  <2>1. Row(i) \in Rows
    BY PlanAssumption DEF PlanAssumption, Row, Rows
  <2>2. moves' \in Seq(Rows)
    BY <1>25, <2>1 DEF Record, LogMove
  <2>3. fate' \in [Items -> Fates] /\ verdict' \in [Items -> Fates]
    BY <1>25 DEF Record, Fates
  <2>4. anyFailed' \in BOOLEAN
    BY <1>25 DEF Record
  <2>. QED BY <1>25, <2>2, <2>3, <2>4 DEF Record, serverVars, dbVars, sessionVars, moveVars, procVars, ghostVars, ServerTypeOK
<1>26. ASSUME NEW i \in Items, OpenGroup(i) PROVE Typed'
  <2>1. Plan[i].src \in Folders /\ Plan[i].dst \in Folders
    BY PlanAssumption DEF PlanAssumption
  <2>2. verdict' \in [Items -> Fates]
    BY <1>26, JudgeTypes DEF OpenGroup, FailItems, Verdicts
  <2>3. group' = <<Plan[i].src, Plan[i].dst>> /\ selected' = Plan[i].src
    BY <1>26 DEF OpenGroup, Select, GroupOf
  <2>4. todo' \in SUBSET Items /\ pc' \in {"ensure", "group"}
    BY <1>26 DEF OpenGroup
  <2>5. validated' \in [Folders -> {"unseen", "valid", "void"}]
    BY <1>26, <2>1 DEF OpenGroup
  <2>6. UNCHANGED <<serverVars, dbVars, conn, moveVars, batch, anyFailed, report, ghostVars>>
    BY <1>26 DEF OpenGroup
  <2>7. TypeOK'
    <3>1. ServerTypeOK'
      BY <2>6 DEF serverVars, ServerTypeOK
    <3>2. selected' \in Folders /\ group' \in Folders \X Folders
      BY <2>1, <2>3
    <3>3. UNCHANGED <<fate, moves, status, conn, attempt, trying, command, wire, left,
                      batch, anyFailed, report, relocated, crashes>>
      BY <2>6 DEF dbVars, moveVars, ghostVars
    <3>. QED BY <2>2, <2>4, <2>5, <3>1, <3>2, <3>3
  <2>8. SessionInPlace' /\ RetryIsAllowed'
    BY <2>1, <2>3, <2>4 DEF Src
  <2>. QED BY <2>7, <2>8
<1>27. CASE UNCHANGED vars
  BY <1>27 DEF vars, serverVars, dbVars, sessionVars, moveVars, procVars, ghostVars, ServerTypeOK
<1>. QED
  BY <1>1, <1>2, <1>3, <1>4, <1>5, <1>6, <1>7, <1>8, <1>9, <1>10, <1>11, <1>12, <1>13,
     <1>14, <1>15, <1>16, <1>17, <1>18, <1>19, <1>20, <1>21, <1>22, <1>23, <1>24, <1>25,
     <1>26, <1>27
  DEF Next, ProcessWorks, ServerWorks, Mishap

LEMMA Typing == Spec => []Typed
<1>1. Init => Typed
  <2>. SUFFICES ASSUME Init PROVE Typed
    OBVIOUS
  <2>1. ServerTypeOK
    <3>1. PICK l \in Layouts : box = l.box /\ nextUid = l.nextUid
      BY DEF Init
    <3>2. box \in [Slots -> Keys \cup {NoKey}] /\ nextUid \in [Folders -> 1..(MaxUid + 1)]
      BY <3>1, LayoutAssumption DEF LayoutAssumption
    <3>3. validity \in [Folders -> Nat] /\ deleted \in SUBSET Slots /\ touched \in SUBSET Keys
      BY PlanAssumption DEF PlanAssumption, Init
    <3>4. faults \in 0..MaxFaults /\ userSteps \in 0..MaxUserSteps
      BY ServerAssumption DEF ServerAssumption, Init
    <3>. QED BY <3>2, <3>3, <3>4 DEF ServerTypeOK
  <2>2. moves \in Seq(Rows)
    BY HistoryAssumption DEF HistoryAssumption, Init
  <2>3. attempt \in 1..Attempts /\ crashes \in 0..MaxCrashes
    BY PlanAssumption DEF PlanAssumption, Init
  <2>4. fate \in [Items -> Fates] /\ verdict \in [Items -> Fates]
    BY DEF Init, Undecided, Fates
  <2>. QED BY <2>1, <2>2, <2>3, <2>4 DEF Init, Typed, TypeOK, SessionInPlace, RetryIsAllowed, InMove
<1>2. Typed /\ [Next]_vars => Typed'
  BY TypedStep
<1>. QED BY <1>1, <1>2, PTL DEF Spec

-----------------------------------------------------------------------------
(* The mailbox: every step keeps its UIDs or renumbers a folder.            *)

\* Of all steps, only a renumbering makes a UID name another message.
LEMMA MailSteps ==
  ASSUME Typed, UidsAreFresh, [Next]_vars
  PROVE  Keeps \/ \E f \in Folders : Renumbered(f)
<1>1. ServerTypeOK /\ NothingAhead
  BY DEF Typed, TypeOK, UidsAreFresh, NothingAhead
<1>2. CASE UNCHANGED <<box, nextUid, validity>>
  BY <1>1, <1>2, StillKeeps
<1>3. ASSUME NEW i \in Items, ServerMoves(i) PROVE Keeps
  <2>1. pc = "await" /\ At(i) \in Slots /\ Dst \in Folders /\ MoveOne(At(i), Dst)
    BY <1>3, Places DEF ServerMoves, Serving, InMove
  <2>. QED BY <1>1, <1>3, <2>1, MoveKeeps DEF ServerMoves, ClientWaits
<1>4. ASSUME NEW i \in Items, ServerCopies(i) PROVE Keeps
  <2>1. pc = "await" /\ At(i) \in Slots /\ Dst \in Folders /\ CopyOne(At(i), Dst)
    BY <1>4, Places DEF ServerCopies, Serving, InMove
  <2>. QED BY <1>1, <1>4, <2>1, CopyKeeps DEF ServerCopies, ClientWaits
<1>5. CASE ServerExpunges
  BY <1>1, <1>5, EmptyingKeeps DEF ServerExpunges, ExpungeSlots, ClientWaits
<1>6. CASE Owner
  BY <1>1, <1>6, OwnerKeeps DEF Owner
<1>7. Start \/ ProcessWorks \/ Traceback \/ ServerFlags \/ ServerRefusesPoison
        \/ ServerRefuses \/ ReconnectUnreachable \/ Abort \/ Crash \/ Drop
        \/ UNCHANGED vars => UNCHANGED <<box, nextUid, validity>>
  BY DEF Start, ProcessWorks, Traceback, ServerFlags, ServerRefusesPoison, ServerRefuses,
         ReconnectUnreachable, Abort, Crash, Drop, Finish, EnsureFolder, TakeBatch,
         FetchIdentity, Send, CopyContinues, RollBackFlag, MoveReturns, MoveRaises,
         Reconnect, Record, OpenGroup, ClientWaits, mailVars, serverVars, vars
<1>. QED BY <1>2, <1>3, <1>4, <1>5, <1>6, <1>7 DEF Next, ServerWorks, Mishap

Mailbox == UidsAreFresh /\ PlanStands

LEMMA Bounds ==
  /\ MaxUid \in Nat /\ MaxUid >= 1
  /\ \A u \in Uids : u \in Nat /\ u >= 1 /\ u <= MaxUid
  /\ \A f \in Folders : SurveyValidity[f] \in Nat
BY PlanAssumption, ServerAssumption DEF PlanAssumption, ServerAssumption, Uids

LEMMA PlannedSlots ==
  /\ \A i \in Items : /\ Slot(i) \in Slots /\ Plan[i].key \in Keys
                      /\ Plan[i].src \in Folders /\ Plan[i].uid \in Uids
                      /\ Slot(i)[1] = Plan[i].src /\ Slot(i)[2] = Plan[i].uid
  /\ \A t \in Slots : t[1] \in Folders /\ t[2] \in Uids /\ t[2] \in Nat /\ t = <<t[1], t[2]>>
BY PlanAssumption, ServerAssumption DEF PlanAssumption, ServerAssumption, Slot, Slots, Uids

LEMMA RenumberingKeepsFresh ==
  ASSUME Typed, Mailbox, NEW f \in Folders, Renumbered(f)
  PROVE  /\ nextUid' = nextUid
         /\ validity' = [validity EXCEPT ![f] = @ + 1]
         /\ \A s \in Slots : s[1] # f => box'[s] = box[s]
         /\ NothingAhead'
BY RenumberKeepsUids DEF Renumbered, Typed, TypeOK, Mailbox, UidsAreFresh, NothingAhead

LEMMA MailboxStep ==
  ASSUME Typed, Mailbox, [Next]_vars
  PROVE  Mailbox'
<1>. USE DEF Typed, TypeOK, ServerTypeOK
<1>1. CASE Keeps
  <2>1. \A i \in Items : Plan[i].uid < nextUid'[Plan[i].src]
    <3>1. ASSUME NEW i \in Items PROVE Plan[i].uid < nextUid'[Plan[i].src]
      <4>1. /\ Plan[i].uid < nextUid[Plan[i].src]
            /\ nextUid'[Plan[i].src] >= nextUid[Plan[i].src]
            /\ nextUid[Plan[i].src] \in Nat
            /\ Plan[i].uid \in Nat
        BY <1>1, PlannedSlots, ServerAssumption
           DEF ServerAssumption, Keeps, Mailbox, UidsAreFresh, NothingAhead, Uids
      <4>2. nextUid'[Plan[i].src] \in Nat
        <5>1. Typed'
          BY TypedStep
        <5>2. nextUid' \in [Folders -> 1..(MaxUid + 1)]
          BY <5>1
        <5>. QED BY <5>2, PlannedSlots, Bounds
      <4>. QED BY <4>1, <4>2
    <3>. QED BY <3>1
  <2>2. UidsAreFresh'
    BY <1>1, <2>1 DEF Keeps, UidsAreFresh, NothingAhead
  <2>3. PlanStands'
    BY <1>1, PlannedSlots DEF Keeps, Mailbox, UidsAreFresh, NothingAhead, PlanStands, UidsStillValid
  <2>. QED BY <2>2, <2>3 DEF Mailbox
<1>2. ASSUME NEW f \in Folders, Renumbered(f) PROVE Mailbox'
  <2>1. UidsAreFresh'
    BY <1>2, RenumberingKeepsFresh DEF Mailbox, UidsAreFresh, NothingAhead
  <2>2. ASSUME NEW g \in Folders PROVE validity'[g] >= SurveyValidity[g]
    <3>1. validity[g] \in Nat /\ validity[g] >= SurveyValidity[g] /\ SurveyValidity[g] \in Nat
      BY Bounds DEF Mailbox, PlanStands
    <3>2. validity' = [validity EXCEPT ![f] = @ + 1]
      BY <1>2, RenumberingKeepsFresh
    <3>3. validity'[g] = validity[g] \/ validity'[g] = validity[g] + 1
      BY <3>2
    <3>. QED BY <3>1, <3>3
  <2>3. ASSUME NEW i \in Items, UidsStillValid(Plan[i].src)'
        PROVE  box'[Slot(i)] \in {Plan[i].key, NoKey}
    <3>1. Plan[i].src # f
      <4>1. validity'[f] = validity[f] + 1
        BY <1>2, RenumberingKeepsFresh
      <4>2. validity[f] \in Nat /\ validity[f] >= SurveyValidity[f] /\ SurveyValidity[f] \in Nat
        BY Bounds DEF Mailbox, PlanStands
      <4>. QED BY <2>3, <4>1, <4>2 DEF UidsStillValid
    <3>2. validity'[Plan[i].src] = validity[Plan[i].src]
      BY <1>2, <3>1, RenumberingKeepsFresh, PlannedSlots
    <3>3. box'[Slot(i)] = box[Slot(i)]
      BY <1>2, <3>1, RenumberingKeepsFresh, PlannedSlots
    <3>. QED BY <2>3, <3>2, <3>3 DEF Mailbox, PlanStands, UidsStillValid
  <2>. QED BY <2>1, <2>2, <2>3 DEF Mailbox, PlanStands
<1>. QED BY <1>1, <1>2, MailSteps DEF Mailbox

LEMMA MailboxHolds == Spec => []Mailbox
<1>1. Init => Mailbox
  <2>. SUFFICES ASSUME Init PROVE Mailbox
    OBVIOUS
  <2>1. PICK l \in Layouts : box = l.box /\ nextUid = l.nextUid
    BY DEF Init
  <2>2. /\ box \in [Slots -> Keys \cup {NoKey}]
        /\ nextUid \in [Folders -> 1..(MaxUid + 1)]
        /\ \A i \in Items : box[Slot(i)] = Plan[i].key
        /\ \A s \in Slots : s[2] >= nextUid[s[1]] => box[s] = NoKey
    BY <2>1, LayoutAssumption DEF LayoutAssumption
  <2>3. \A i \in Items : Plan[i].uid < nextUid[Plan[i].src]
    BY <2>2, PlannedSlots, ServerAssumption DEF ServerAssumption, Uids
  <2>4. \A f \in Folders : validity[f] >= SurveyValidity[f]
    BY PlanAssumption DEF PlanAssumption, Init
  <2>. QED BY <2>2, <2>3, <2>4 DEF Mailbox, UidsAreFresh, NothingAhead, PlanStands
<1>2. Typed /\ Mailbox /\ [Next]_vars => Mailbox'
  BY MailboxStep
<1>. QED BY <1>1, <1>2, Typing, PTL DEF Spec

-----------------------------------------------------------------------------
(* The batch: each item in one place, each verdict given once.              *)

Placed == ItemsInOnePlace /\ \A i \in batch : GroupOf(i) = group

LEMMA QuitPlaces ==
  ASSUME NEW r, Quit(r), UNCHANGED fate PROVE Placed'
BY DEF Quit, Placed, ItemsInOnePlace, Undecided, InMove

\* A step that leaves the items alone and moves pc on within the same region.
LEMMA StillPlaced ==
  ASSUME Placed, UNCHANGED <<fate, todo, batch, trying, verdict, group>>,
         left' \in SUBSET left, pc' # "await" => left' = {},
         \/ pc' = pc
         \/ pc \in InMove /\ pc' \in {"send", "await"}
         \/ pc \in InMove /\ pc' \in InMove /\ trying = {}
         \/ pc = "ensure" /\ pc' = "filter"
  PROVE  Placed'
BY DEF Placed, ItemsInOnePlace, InMove

LEMMA TriedPlaces ==
  ASSUME Typed, Placed, NEW v \in Verdicts, OneTried(v), pc = "await",
         UNCHANGED <<fate, todo, group>>, left' = {}
  PROVE  Placed'
<1>1. Target \subseteq trying
  BY DEF OneTried, Target, First
<1>2. /\ trying' = trying \ Target
      /\ verdict' = [i \in Items |-> IF i \in Target THEN v ELSE verdict[i]]
      /\ pc' = IF trying' = {} THEN AfterBatch(todo) ELSE "send"
      /\ batch' = IF trying' = {} THEN {} ELSE batch
  BY DEF OneTried, Judge
<1>3. pc' \in {"group", "filter", "send"} /\ (pc' # "send" => trying' = {})
  BY <1>2 DEF AfterBatch
<1>4. ASSUME NEW i \in Items, verdict'[i] # "pending"
      PROVE  /\ fate'[i] = "pending" /\ i \notin todo' /\ i \notin trying'
             /\ (trying' = {} => i \notin batch')
  BY <1>1, <1>2, <1>4 DEF Placed, ItemsInOnePlace
<1>. QED BY <1>1, <1>2, <1>3, <1>4 DEF Placed, ItemsInOnePlace, InMove

LEMMA PlacedStep ==
  ASSUME Typed, Placed, [Next]_vars
  PROVE  Placed'
<1>. USE DEF InMove
<1>1. CASE Start
  BY <1>1 DEF Start, Pending, Placed, ItemsInOnePlace, Undecided, moveVars, dbVars
<1>2. CASE Finish
  BY <1>2, QuitPlaces DEF Finish
<1>3. CASE EnsureFolder
  BY <1>3, StillPlaced DEF EnsureFolder, Placed, ItemsInOnePlace, dbVars, moveVars
<1>4. CASE TakeBatch
  <2>1. PICK b \in SUBSET Rest :
          LET live == {i \in b : ~ AlreadyMoved(Plan[i].key, Plan[i].dst)}
          IN /\ todo' = todo \ b
             /\ batch' = live
             /\ Judge(b \ live, "already_moved")
             /\ pc' = IF live = {} THEN AfterBatch(todo \ b) ELSE "fetch"
    BY <1>4 DEF TakeBatch
  <2>2. /\ b \subseteq todo /\ todo' = todo \ b /\ batch' \subseteq b
        /\ \A i \in batch' : GroupOf(i) = group
        /\ verdict' = [i \in Items |-> IF i \in b \ batch' THEN "already_moved" ELSE verdict[i]]
        /\ pc' \in {"group", "filter", "fetch"} /\ (pc' # "fetch" => batch' = {})
    BY <2>1 DEF Rest, InGroup, Judge, AfterBatch
  <2>3. /\ pc = "filter" /\ batch = {} /\ trying = {} /\ left = {} /\ Settled
        /\ UNCHANGED <<fate, trying, left, group>>
    BY <1>4 DEF TakeBatch, Placed, ItemsInOnePlace, dbVars, moveVars
  <2>4. \A i \in todo : fate[i] = "pending"
    BY DEF Placed, ItemsInOnePlace, Typed, TypeOK
  <2>. QED BY <2>2, <2>3, <2>4 DEF Placed, ItemsInOnePlace, Settled, Undecided
<1>5. CASE FetchIdentity
  <2>1. /\ pc = "fetch" /\ Settled
        /\ batch' \subseteq batch
        /\ \A i \in Items : verdict'[i] # "pending" => i \in batch \ batch'
        /\ pc' \in {"group", "filter", "send"} /\ (pc' # "send" => batch' = {})
        /\ UNCHANGED <<fate, todo, trying, left, group>>
    BY <1>5 DEF FetchIdentity, AfterBatch, dbVars
  <2>2. trying = {} /\ left = {} /\ todo \cap batch = {}
        /\ \A i \in batch : fate[i] = "pending" /\ GroupOf(i) = group
        /\ \A j \in todo : fate[j] = "pending"
    BY <2>1 DEF Placed, ItemsInOnePlace, Typed, TypeOK
  <2>. QED BY <2>1, <2>2 DEF Placed, ItemsInOnePlace
<1>6. CASE Send
  <2>1. Target \subseteq batch
    BY DEF Target, Placed, ItemsInOnePlace
  <2>. QED BY <1>6, <2>1 DEF Send, Placed, ItemsInOnePlace, dbVars
<1>7. CASE CopyContinues
  BY <1>7, StillPlaced DEF CopyContinues, dbVars, procVars
<1>8. CASE RollBackFlag
  BY <1>8, StillPlaced DEF RollBackFlag, dbVars, procVars
<1>9. CASE MoveReturns
  <2>1. pc = "await" /\ left' = {} /\ UNCHANGED <<fate, todo, group>>
    BY <1>9 DEF MoveReturns, NoCommand, dbVars
  <2>2. CASE OneTried("done")
    BY <2>1, <2>2, TriedPlaces DEF Verdicts
  <2>3. CASE trying = {} /\ Judge(batch, "done") /\ batch' = {}
               /\ pc' = AfterBatch(todo) /\ UNCHANGED <<trying, attempt>>
    <3>1. pc' \in {"group", "filter"}
      BY <2>3 DEF AfterBatch
    <3>. QED BY <2>1, <2>3, <3>1 DEF Judge, Placed, ItemsInOnePlace
  <2>. QED BY <1>9, <2>2, <2>3 DEF MoveReturns
<1>10. CASE MoveRaises
  <2>1. pc = "await" /\ left' = {} /\ UNCHANGED <<fate, todo, group>>
    BY <1>10 DEF MoveRaises, NoCommand, dbVars
  <2>2. CASE OneTried("move_failed")
    BY <2>1, <2>2, TriedPlaces DEF Verdicts
  <2>3. CASE trying = {} /\ AttemptsRemain /\ pc' = "retry"
               /\ UNCHANGED <<trying, attempt, batch, verdict>>
    BY <2>1, <2>3, StillPlaced
  <2>4. CASE trying = {} /\ ~ AttemptsRemain /\ AfterLastAttempt /\ UNCHANGED attempt
    BY <2>1, <2>4 DEF AfterLastAttempt, Placed, ItemsInOnePlace
  <2>. QED BY <1>10, <2>2, <2>3, <2>4 DEF MoveRaises
<1>11. CASE Reconnect
  <2>1. pc = "retry" /\ trying = {} /\ left = {} /\ UNCHANGED <<fate, trying, left, group>>
    BY <1>11 DEF Reconnect, dbVars, Placed, ItemsInOnePlace
  <2>2. CASE StillTheSurveyedFolder(Src)
    BY <1>11, <2>1, <2>2, StillPlaced DEF Reconnect
  <2>3. CASE ~ StillTheSurveyedFolder(Src)
    <3>1. /\ pc' = "group" /\ batch' = {} /\ todo' = todo \ Rest
          /\ verdict' = [i \in Items |-> IF i \in batch \cup Rest THEN "uidvalidity_changed"
                                                                 ELSE verdict[i]]
      BY <1>11, <2>3 DEF Reconnect, Judge, Lost
    <3>2. Rest \subseteq todo
      BY DEF Rest, InGroup
    <3>. QED BY <2>1, <3>1, <3>2 DEF Placed, ItemsInOnePlace
  <2>. QED BY <2>2, <2>3
<1>12. ASSUME NEW i \in Items, Record(i) PROVE Placed'
  <2>1. /\ trying = {} /\ verdict[i] # "pending"
        /\ fate' = [fate EXCEPT ![i] = verdict[i]]
        /\ verdict' = [verdict EXCEPT ![i] = "pending"]
        /\ UNCHANGED <<pc, todo, group, batch, trying, left>>
    BY <1>12 DEF Record, First, moveVars
  <2>2. i \notin todo \cup batch /\ pc # "idle"
    BY <2>1 DEF Placed, ItemsInOnePlace, Undecided
  <2>3. \A j \in Items : j # i => fate'[j] = fate[j] /\ verdict'[j] = verdict[j]
    BY <2>1 DEF Typed, TypeOK
  <2>4. verdict'[i] = "pending"
    BY <2>1 DEF Typed, TypeOK
  <2>. QED BY <2>1, <2>2, <2>3, <2>4 DEF Placed, ItemsInOnePlace
<1>13. ASSUME NEW i \in Items, OpenGroup(i) PROVE Placed'
  <2>1. \/ FailItems({}) /\ todo' = todo /\ pc' = "ensure"
        \/ /\ FailItems(InGroup(GroupOf(i), todo))
           /\ todo' = todo \ InGroup(GroupOf(i), todo)
           /\ pc' = "group"
    BY <1>13 DEF OpenGroup
  <2>2. /\ pc = "group" /\ batch = {} /\ trying = {} /\ left = {}
        /\ UNCHANGED <<fate, batch, trying, left>>
    BY <1>13 DEF OpenGroup, dbVars, moveVars, Placed, ItemsInOnePlace
  <2>3. InGroup(GroupOf(i), todo) \subseteq todo
    BY DEF InGroup
  <2>. QED BY <2>1, <2>2, <2>3 DEF FailItems, Judge, Placed, ItemsInOnePlace
<1>14. CASE Traceback
  BY <1>14, QuitPlaces DEF Traceback, dbVars
<1>15. CASE ReconnectUnreachable
  BY <1>15, QuitPlaces DEF ReconnectUnreachable, dbVars
<1>16. CASE Abort
  BY <1>16, QuitPlaces DEF Abort
<1>17. CASE Crash
  BY <1>17, QuitPlaces DEF Crash, dbVars
<1>18. CASE Drop \/ Owner \/ \E f \in Folders : Renumbered(f)
  BY <1>18, StillPlaced DEF Drop, Owner, Renumbered, dbVars, moveVars, procVars, Placed, ItemsInOnePlace
<1>19. CASE ServerFlags \/ ServerExpunges \/ ServerRefusesPoison \/ ServerRefuses
  BY <1>19, StillPlaced
  DEF ServerFlags, ServerExpunges, ServerRefusesPoison, ServerRefuses, Serving, ClientWaits,
      dbVars, procVars, Placed, ItemsInOnePlace
<1>20. ASSUME NEW i \in Items, ServerMoves(i) \/ ServerCopies(i) PROVE Placed'
  BY <1>20, StillPlaced
  DEF ServerMoves, ServerCopies, Serving, Reached, ClientWaits, dbVars, procVars
<1>21. CASE UNCHANGED vars
  BY <1>21, StillPlaced DEF vars, dbVars, moveVars, procVars, Placed, ItemsInOnePlace
<1>. QED
  BY <1>1, <1>2, <1>3, <1>4, <1>5, <1>6, <1>7, <1>8, <1>9, <1>10, <1>11, <1>12, <1>13,
     <1>14, <1>15, <1>16, <1>17, <1>18, <1>19, <1>20, <1>21
  DEF Next, ProcessWorks, ServerWorks, Mishap

-----------------------------------------------------------------------------
(* No pending item drops out: each is to do, in the batch or judged.        *)

Covered == \A i \in Items : fate[i] = "pending" => i \in todo \cup batch \/ verdict[i] # "pending"

LEMMA StillCovered ==
  ASSUME NoItemForgotten, pc # "idle", UNCHANGED <<fate, report, todo, batch, verdict>>,
         trying' = trying \/ trying' = batch
  PROVE  NoItemForgotten'
BY DEF NoItemForgotten

LEMMA TriedCovers ==
  ASSUME Typed, Placed, NoItemForgotten, pc = "await", NEW v \in Verdicts, OneTried(v),
         UNCHANGED <<fate, report, todo>>
  PROVE  NoItemForgotten'
<1>1. /\ trying' = trying \ Target
      /\ verdict' = [i \in Items |-> IF i \in Target THEN v ELSE verdict[i]]
      /\ batch' = IF trying' = {} THEN {} ELSE batch
      /\ trying # {}
  BY DEF OneTried, Judge
<1>2. v # "pending" /\ batch \subseteq Items
  BY DEF Verdicts, Typed, TypeOK
<1>3. \A i \in batch \ trying' : verdict'[i] # "pending"
  BY <1>1, <1>2 DEF NoItemForgotten
<1>4. Covered'
  BY <1>1, <1>2, <1>3 DEF NoItemForgotten, Covered
<1>. QED BY <1>1, <1>3, <1>4 DEF NoItemForgotten, Covered

LEMMA ForgottenStep ==
  ASSUME Typed, Placed, NoItemForgotten, [Next]_vars
  PROVE  NoItemForgotten'
<1>. USE DEF InMove
<1>1. CASE Start
  BY <1>1 DEF Start, Pending, NoItemForgotten, Placed, ItemsInOnePlace, moveVars, dbVars
<1>2. ASSUME NEW r, Quit(r) PROVE NoItemForgotten'
  BY <1>2 DEF Quit, NoItemForgotten
<1>3. CASE EnsureFolder
  BY <1>3, StillCovered DEF EnsureFolder, dbVars, moveVars
<1>4. CASE TakeBatch
  <2>1. PICK b \in SUBSET Rest :
          LET live == {i \in b : ~ AlreadyMoved(Plan[i].key, Plan[i].dst)}
          IN todo' = todo \ b /\ batch' = live /\ Judge(b \ live, "already_moved")
    BY <1>4 DEF TakeBatch
  <2>2. /\ todo' = todo \ b
        /\ verdict' = [i \in Items |-> IF i \in b \ batch' THEN "already_moved" ELSE verdict[i]]
    BY <2>1 DEF Judge
  <2>3. /\ pc = "filter" /\ batch = {} /\ trying = {}
        /\ UNCHANGED <<fate, trying, report>>
    BY <1>4 DEF TakeBatch, Placed, ItemsInOnePlace, dbVars, moveVars
  <2>. QED BY <2>2, <2>3 DEF NoItemForgotten
<1>5. CASE FetchIdentity
  <2>1. /\ pc = "fetch" /\ Settled
        /\ \A i \in batch \ batch' : i \in Items => verdict'[i] # "pending"
        /\ UNCHANGED <<fate, todo, trying, report>>
    BY <1>5 DEF FetchIdentity, dbVars
  <2>2. trying = {} /\ \A i \in Items : verdict[i] = "pending"
    BY <2>1 DEF Placed, ItemsInOnePlace, Settled, Undecided
  <2>. QED BY <2>1, <2>2 DEF NoItemForgotten
<1>6. CASE Send
  BY <1>6, StillCovered DEF Send, dbVars
<1>7. CASE CopyContinues \/ RollBackFlag
  BY <1>7, StillCovered DEF CopyContinues, RollBackFlag, dbVars, procVars
<1>8. CASE MoveReturns
  <2>1. pc = "await" /\ UNCHANGED <<fate, todo, report>>
    BY <1>8 DEF MoveReturns, dbVars
  <2>2. CASE OneTried("done")
    BY <2>1, <2>2, TriedCovers DEF Verdicts
  <2>3. CASE trying = {} /\ Judge(batch, "done") /\ UNCHANGED trying
    BY <2>1, <2>3 DEF Judge, NoItemForgotten
  <2>. QED BY <1>8, <2>2, <2>3 DEF MoveReturns
<1>9. CASE MoveRaises
  <2>1. pc = "await" /\ UNCHANGED <<fate, todo, report>>
    BY <1>9 DEF MoveRaises, dbVars
  <2>2. CASE OneTried("move_failed")
    BY <2>1, <2>2, TriedCovers DEF Verdicts
  <2>3. CASE trying = {} /\ UNCHANGED <<trying, attempt, batch, verdict>>
    BY <2>1, <2>3, StillCovered
  <2>4. CASE trying = {} /\ AfterLastAttempt
    BY <2>1, <2>4, StillCovered DEF AfterLastAttempt
  <2>. QED BY <1>9, <2>2, <2>3, <2>4 DEF MoveRaises
<1>10. CASE Reconnect
  <2>1. pc = "retry" /\ trying = {} /\ UNCHANGED <<fate, trying, report>>
    BY <1>10 DEF Reconnect, dbVars, Placed, ItemsInOnePlace
  <2>2. CASE StillTheSurveyedFolder(Src)
    BY <1>10, <2>1, <2>2, StillCovered DEF Reconnect
  <2>3. CASE ~ StillTheSurveyedFolder(Src)
    <3>1. /\ todo' = todo \ Rest
          /\ verdict' = [i \in Items |-> IF i \in batch \cup Rest THEN "uidvalidity_changed"
                                                                 ELSE verdict[i]]
      BY <1>10, <2>3 DEF Reconnect, Judge, Lost
    <3>. QED BY <2>1, <3>1 DEF NoItemForgotten
  <2>. QED BY <2>2, <2>3
<1>11. ASSUME NEW i \in Items, Record(i) PROVE NoItemForgotten'
  <2>1. /\ trying = {} /\ verdict[i] # "pending" /\ verdict[i] \in Fates
        /\ fate' = [fate EXCEPT ![i] = verdict[i]]
        /\ verdict' = [verdict EXCEPT ![i] = "pending"]
        /\ UNCHANGED <<todo, batch, trying, report, pc>>
    BY <1>11 DEF Record, First, moveVars, Typed, TypeOK
  <2>2. /\ fate'[i] # "pending"
        /\ \A j \in Items : j # i => fate'[j] = fate[j] /\ verdict'[j] = verdict[j]
    BY <2>1 DEF Typed, TypeOK
  <2>. QED BY <2>1, <2>2 DEF NoItemForgotten
<1>12. ASSUME NEW i \in Items, OpenGroup(i) PROVE NoItemForgotten'
  <2>1. \/ FailItems({}) /\ todo' = todo
        \/ /\ FailItems(InGroup(GroupOf(i), todo))
           /\ todo' = todo \ InGroup(GroupOf(i), todo)
    BY <1>12 DEF OpenGroup
  <2>2. pc = "group" /\ trying = {} /\ UNCHANGED <<fate, batch, trying, report>>
    BY <1>12 DEF OpenGroup, dbVars, moveVars, Placed, ItemsInOnePlace
  <2>. QED BY <2>1, <2>2 DEF FailItems, Judge, NoItemForgotten
<1>13. CASE Drop \/ Owner \/ \E f \in Folders : Renumbered(f)
  BY <1>13 DEF Drop, Owner, Renumbered, dbVars, moveVars, procVars, NoItemForgotten
<1>14. CASE ServerFlags \/ ServerExpunges \/ ServerRefusesPoison \/ ServerRefuses
  BY <1>14 DEF ServerFlags, ServerExpunges, ServerRefusesPoison, ServerRefuses, ClientWaits,
               dbVars, procVars, NoItemForgotten
<1>15. ASSUME NEW i \in Items, ServerMoves(i) \/ ServerCopies(i) PROVE NoItemForgotten'
  BY <1>15 DEF ServerMoves, ServerCopies, ClientWaits, dbVars, procVars, NoItemForgotten
<1>16. CASE UNCHANGED vars
  BY <1>16 DEF vars, dbVars, moveVars, procVars, NoItemForgotten
<1>17. CASE Finish \/ Traceback \/ ReconnectUnreachable \/ Abort \/ Crash
  BY <1>2, <1>17 DEF Finish, Traceback, ReconnectUnreachable, Abort, Crash
<1>. QED
  BY <1>1, <1>3, <1>4, <1>5, <1>6, <1>7, <1>8, <1>9, <1>10, <1>11, <1>12, <1>13, <1>14,
     <1>15, <1>16, <1>17 DEF Next, ProcessWorks, ServerWorks, Mishap

-----------------------------------------------------------------------------
(* What was confirmed stays confirmed as long as it is acted on.            *)

LEMMA MoveGoesOn ==
  ASSUME Typed, Placed, [Next]_vars, pc' \in InMove, conn'
  PROVE  \/ FetchIdentity \/ Reconnect
         \/ pc \in InMove /\ conn /\ batch' \subseteq batch /\ UNCHANGED group
<1>. USE DEF InMove
<1>1. Start \/ Finish \/ EnsureFolder \/ TakeBatch \/ Traceback \/ ReconnectUnreachable
        \/ Abort \/ Crash \/ (\E i \in Items : OpenGroup(i)) => pc' \notin InMove
  BY DEF Start, Finish, EnsureFolder, TakeBatch, AfterBatch, Traceback, ReconnectUnreachable,
         Abort, Crash, OpenGroup, Quit
<1>2. Send \/ CopyContinues \/ RollBackFlag =>
        pc \in InMove /\ UNCHANGED <<conn, batch, group>>
  BY DEF Send, CopyContinues, RollBackFlag, sessionVars, procVars
<1>3. MoveReturns \/ MoveRaises => pc \in InMove /\ UNCHANGED <<conn, group>> /\ batch' \subseteq batch
  BY DEF MoveReturns, MoveRaises, OneTried, AfterLastAttempt, sessionVars
<1>4. (\E i \in Items : Record(i)) => UNCHANGED <<pc, conn, batch, group>>
  BY DEF Record, sessionVars
<1>5. ServerWorks \/ ServerRefuses \/ Owner \/ UNCHANGED vars =>
        UNCHANGED <<pc, conn, batch, group>>
  BY DEF ServerWorks, ServerRefuses, ServerMoves, ServerCopies, ServerFlags, ServerExpunges,
         ServerRefusesPoison, Owner, ClientWaits, vars, sessionVars, procVars
<1>6. Drop => ~ conn'
  BY DEF Drop
<1>7. ASSUME NEW f \in Folders, Renumbered(f)
      PROVE  conn /\ UNCHANGED <<pc, batch, group>>
  BY <1>7 DEF Renumbered, procVars
<1>. QED
  BY <1>1, <1>2, <1>3, <1>4, <1>5, <1>6, <1>7 DEF Next, ProcessWorks, Mishap

LEMMA BatchStep ==
  ASSUME Typed, Mailbox, Placed, BatchStands, [Next]_vars
  PROVE  BatchStands'
<1>1. \A i \in batch' : GroupOf(i) = group'
  BY PlacedStep DEF Placed
<1>2. ASSUME pc' \in InMove, conn', NEW i \in batch'
      PROVE  box'[Slot(i)] \in {Plan[i].key, NoKey}
  <2>1. i \in Items
    BY TypedStep DEF Typed, TypeOK
  <2>2. CASE FetchIdentity
    <3>1. i \in batch /\ Confirmed(i) /\ UNCHANGED box /\ pc = "fetch"
      BY <1>2, <2>2 DEF FetchIdentity, serverVars
    <3>2. Plan[i].src = selected
      BY <3>1 DEF BatchStands, GroupOf, Typed, SessionInPlace, Src
    <3>. QED BY <3>1, <3>2 DEF Confirmed, At, Slot
  <2>3. CASE Reconnect
    <3>1. i \in batch /\ UidsStillValid(Src) /\ UNCHANGED box
      BY <1>2, <2>3 DEF Reconnect, StillTheSurveyedFolder, serverVars, InMove
    <3>2. Plan[i].src = Src
      BY <3>1 DEF BatchStands, GroupOf, Src
    <3>. QED BY <2>1, <3>1, <3>2 DEF Mailbox, PlanStands
  <2>4. CASE pc \in InMove /\ conn /\ batch' \subseteq batch /\ UNCHANGED group
    <3>1. box[Slot(i)] \in {Plan[i].key, NoKey}
      BY <1>2, <2>4 DEF BatchStands
    <3>2. CASE Keeps
      <4>1. Plan[i].uid < nextUid[Plan[i].src]
        BY <2>1 DEF Mailbox, UidsAreFresh, NothingAhead
      <4>. QED BY <2>1, <3>1, <3>2, <4>1, PlannedSlots DEF Keeps
    <3>3. ASSUME NEW f \in Folders, Renumbered(f) PROVE box'[Slot(i)] = box[Slot(i)]
      <4>1. selected # f
        BY <1>2, <3>3 DEF Renumbered
      <4>2. Plan[i].src = selected
        BY <1>2, <2>4 DEF BatchStands, GroupOf, Typed, SessionInPlace, Src
      <4>. QED BY <2>1, <3>3, <4>1, <4>2, RenumberingKeepsFresh, PlannedSlots
    <3>. QED BY <3>1, <3>2, <3>3, MailSteps DEF Mailbox
  <2>. QED BY <1>2, <2>2, <2>3, <2>4, MoveGoesOn
<1>. QED BY <1>1, <1>2 DEF BatchStands

\* The inductive invariant.  The run apply_move checks it on an instance.
THEOREM Invariance == Spec => []IInv
<1>1. Init => Placed /\ BatchStands /\ NoItemForgotten
  BY DEF Init, Placed, ItemsInOnePlace, BatchStands, NoItemForgotten, InMove, Undecided
<1>2. Typed /\ Mailbox /\ Placed /\ BatchStands /\ NoItemForgotten /\ [Next]_vars
        => Placed' /\ BatchStands' /\ NoItemForgotten'
  BY PlacedStep, BatchStep, ForgottenStep
<1>3. Typed /\ Mailbox /\ Placed /\ BatchStands /\ NoItemForgotten => IInv
  BY DEF Typed, Mailbox, Placed, IInv
<1>. QED BY <1>1, <1>2, <1>3, Typing, MailboxHolds, PTL DEF Spec

\* Every variable keeps its type.
THEOREM TypeCorrect == Spec => []TypeOK
<1>1. IInv => TypeOK
  BY DEF IInv
<1>. QED BY <1>1, Invariance, PTL

-----------------------------------------------------------------------------
(* No mail moves that was not planned to.                                   *)

OnlyPlannedStep ==
  ToolStep =>
    \A s \in Slots : Occupied(s) /\ box'[s] # box[s] =>
      \E i \in Items : Slot(i) = s /\ fate[i] = "pending" /\ Plan[i].key = box[s]

\* A confirmed item is pending, and its slot holds its message or nothing.
LEMMA TargetsArePlanned ==
  ASSUME IInv, NEW i \in batch, pc = "await", conn
  PROVE  /\ i \in Items /\ fate[i] = "pending"
         /\ At(i) = Slot(i)
         /\ box[Slot(i)] \in {Plan[i].key, NoKey}
<1>1. i \in Items /\ fate[i] = "pending"
  BY DEF IInv, TypeOK, ItemsInOnePlace
<1>2. Plan[i].src = selected
  BY DEF IInv, BatchStands, GroupOf, SessionInPlace, Src, InMove
<1>3. box[Slot(i)] \in {Plan[i].key, NoKey}
  BY DEF IInv, BatchStands, InMove
<1>. QED BY <1>1, <1>2, <1>3 DEF At, Slot

LEMMA OnlyPlannedAlways ==
  ASSUME IInv, Next, ToolStep, NEW s \in Slots, Occupied(s), box'[s] # box[s]
  PROVE  \E i \in Items : Slot(i) = s /\ fate[i] = "pending" /\ Plan[i].key = box[s]
<1>1. ASSUME NEW i \in Items, ServerMoves(i) PROVE s = At(i) /\ i \in batch /\ pc = "await" /\ conn
  <2>1. /\ pc = "await" /\ conn /\ i \in left /\ MoveOne(At(i), Dst)
    BY <1>1 DEF ServerMoves, Serving, Reached, First
  <2>2. At(i) \in Slots /\ Dst \in Folders /\ i \in batch
    BY <2>1, Places DEF IInv, Typed, InMove, ItemsInOnePlace
  <2>3. Occupied(At(i)) /\ box' = [box EXCEPT ![At(i)] = NoKey, ![Put(At(i), Dst)] = box[At(i)]]
    BY <2>1 DEF MoveOne, mailVars
  <2>4. s # Put(At(i), Dst)
    <3>1. nextUid[Dst] \in 1..MaxUid
      BY <2>1, <2>2, <2>3, Bounds DEF IInv, TypeOK, ServerTypeOK, MoveOne, HasRoom
    <3>2. Put(At(i), Dst) \in Slots /\ Put(At(i), Dst)[1] = Dst /\ Put(At(i), Dst)[2] = nextUid[Dst]
      BY <2>2, <3>1 DEF Put, Slots, Uids
    <3>3. ~ Occupied(Put(At(i), Dst))
      BY <3>1, <3>2 DEF IInv, UidsAreFresh, NothingAhead, Occupied
    <3>. QED BY <3>3
  <2>5. s = At(i)
    BY <2>2, <2>3, <2>4 DEF IInv, TypeOK, ServerTypeOK
  <2>. QED BY <2>1, <2>2, <2>5
<1>2. ASSUME NEW i \in Items, ServerCopies(i) PROVE FALSE
  <2>1. pc = "await" /\ CopyOne(At(i), Dst)
    BY <1>2 DEF ServerCopies, Serving
  <2>2. At(i) \in Slots /\ Dst \in Folders
    BY <2>1, Places DEF IInv, Typed, InMove
  <2>3. HasRoom(Dst) /\ box' = [box EXCEPT ![Put(At(i), Dst)] = box[At(i)]]
    BY <2>1 DEF CopyOne, mailVars
  <2>4. s # Put(At(i), Dst)
    <3>1. nextUid[Dst] \in 1..MaxUid
      BY <2>2, <2>3, Bounds DEF IInv, TypeOK, ServerTypeOK, HasRoom
    <3>2. Put(At(i), Dst) \in Slots /\ Put(At(i), Dst)[1] = Dst /\ Put(At(i), Dst)[2] = nextUid[Dst]
      BY <2>2, <3>1 DEF Put, Slots, Uids
    <3>. QED BY <3>1, <3>2 DEF IInv, UidsAreFresh, NothingAhead, Occupied
  <2>. QED BY <2>3, <2>4 DEF IInv, TypeOK, ServerTypeOK
<1>3. CASE ServerExpunges
  <2>1. pc = "await" /\ conn /\ s \in TargetSlots
    BY <1>3 DEF ServerExpunges, Serving, ExpungeSlots, ExpungeNames
  <2>2. PICK i \in Target : s = At(i)
    BY <2>1 DEF TargetSlots
  <2>3. i \in batch
    BY <2>2 DEF Target, IInv, ItemsInOnePlace
  <2>. QED BY <2>1, <2>2, <2>3, TargetsArePlanned DEF Occupied
<1>4. ~ Owner
  <2>1. Owner => userSteps' = userSteps + 1
    BY DEF Owner, OwnerStep, OwnerExpunges, OwnerFlags, OwnerMoves, OwnerTouches
  <2>. QED BY <2>1 DEF ToolStep, IInv, TypeOK, ServerTypeOK
<1>5. ASSUME NEW f \in Folders, Renumbered(f) PROVE FALSE
  <2>1. validity' = [validity EXCEPT ![f] = @ + 1]
    BY <1>5 DEF Renumbered, Renumber
  <2>2. validity[f] \in Nat
    BY DEF IInv, TypeOK, ServerTypeOK
  <2>. QED BY <2>1, <2>2 DEF ToolStep, IInv, TypeOK, ServerTypeOK
<1>6. Start \/ ProcessWorks \/ Traceback \/ ServerFlags \/ ServerRefusesPoison
        \/ ServerRefuses \/ ReconnectUnreachable \/ Abort \/ Crash \/ Drop => UNCHANGED box
  BY DEF Start, ProcessWorks, Traceback, ServerFlags, ServerRefusesPoison, ServerRefuses,
         ReconnectUnreachable, Abort, Crash, Drop, Finish, EnsureFolder, TakeBatch,
         FetchIdentity, Send, CopyContinues, RollBackFlag, MoveReturns, MoveRaises,
         Reconnect, Record, OpenGroup, ClientWaits, mailVars, serverVars
<1>7. ASSUME NEW i \in Items, ServerMoves(i)
      PROVE  Slot(i) = s /\ fate[i] = "pending" /\ Plan[i].key = box[s]
  BY <1>1, <1>7, TargetsArePlanned DEF Occupied
<1>. QED BY <1>2, <1>3, <1>4, <1>5, <1>6, <1>7 DEF Next, ServerWorks, Mishap

\* Whatever the plan, the mailbox, the batch size and the number of retries, and
\* however connections drop and folders are renumbered: a slot that the tool
\* empties is one that a pending item names, and holds that item's message.
THEOREM PlannedMailOnly == Spec => OnlyPlannedMailLeaves
<1>1. IInv /\ [Next]_vars => [OnlyPlannedStep]_vars
  BY OnlyPlannedAlways DEF OnlyPlannedStep
<1>2. [][OnlyPlannedStep]_vars => OnlyPlannedMailLeaves
  BY PTL DEF OnlyPlannedMailLeaves, OnlyPlannedStep
<1>. QED BY <1>1, <1>2, Invariance, PTL DEF Spec

-----------------------------------------------------------------------------
(* A run that completes has given every item its verdict.                   *)

LEMMA ClosedStep ==
  ASSUME IInv, ClosedMeansResolved, [Next]_vars
  PROVE  ClosedMeansResolved'
<1>1. CASE Finish
  <2>1. batch = {} /\ todo = {} /\ Settled /\ pc = "group" /\ fate' = fate
    BY <1>1 DEF Finish, IInv, ItemsInOnePlace, InMove
  <2>2. \A i \in Items : verdict[i] = "pending"
    BY <2>1 DEF Settled, Undecided
  <2>3. \A i \in Items : fate[i] # "pending"
    BY <2>1, <2>2 DEF IInv, NoItemForgotten
  <2>. QED BY <2>1, <2>3 DEF ClosedMeansResolved, Pending
<1>2. CASE Start \/ Traceback \/ ReconnectUnreachable \/ Abort \/ Crash
  BY <1>2 DEF Start, Traceback, ReconnectUnreachable, Abort, Crash, Quit, ClosedMeansResolved
<1>3. CASE UNCHANGED <<report, fate>>
  BY <1>3 DEF ClosedMeansResolved, Pending
<1>4. ASSUME NEW i \in Items, Record(i) PROVE ClosedMeansResolved'
  <2>1. report' = report /\ verdict[i] # "pending"
    BY <1>4 DEF Record, First
  <2>2. report = "none"
    BY <2>1 DEF IInv, ItemsInOnePlace, NoItemForgotten, Undecided
  <2>. QED BY <2>1, <2>2 DEF ClosedMeansResolved
<1>5. ASSUME NEW i \in Items, OpenGroup(i) PROVE UNCHANGED <<report, fate>>
  BY <1>5 DEF OpenGroup, dbVars
<1>6. EnsureFolder \/ TakeBatch \/ FetchIdentity \/ Send \/ CopyContinues \/ RollBackFlag
        \/ MoveReturns \/ MoveRaises \/ Reconnect => UNCHANGED <<report, fate>>
  BY DEF EnsureFolder, TakeBatch, FetchIdentity, Send, CopyContinues, RollBackFlag,
         MoveReturns, MoveRaises, Reconnect, dbVars, procVars
<1>7. ServerWorks \/ ServerRefuses \/ Drop \/ Owner \/ (\E f \in Folders : Renumbered(f))
        => UNCHANGED <<report, fate>>
  BY DEF ServerWorks, ServerMoves, ServerCopies, ServerFlags, ServerExpunges,
         ServerRefusesPoison, ServerRefuses, ClientWaits, Drop, Renumbered, Owner,
         dbVars, procVars
<1>8. UNCHANGED vars => UNCHANGED <<report, fate>>
  BY DEF vars, dbVars, procVars
<1>. QED BY <1>1, <1>2, <1>3, <1>4, <1>5, <1>6, <1>7, <1>8 DEF Next, ProcessWorks, Mishap

\* No early way through the loops leaves an item behind: when an invocation
\* reports that the run is complete, no item of the plan is pending.
THEOREM CompletedRunIsResolved == Spec => []ClosedMeansResolved
<1>1. Init => ClosedMeansResolved
  BY DEF Init, ClosedMeansResolved
<1>. QED BY <1>1, ClosedStep, Invariance, PTL DEF Spec

-----------------------------------------------------------------------------
(* The index implements the ledger.                                         *)

LEMMA LedgerInit == Init => Ledger!Init
BY DEF Init, Ledger!Init, Undecided

\* Record is the one step that settles an item; no other touches the ledger.
LEMMA LedgerStep ==
  ASSUME IInv, [Next]_vars
  PROVE  [Ledger!Next]_(Ledger!ledgerVars)
<1>1. ASSUME NEW i \in Items, Record(i) PROVE Ledger!Next
  <2>1. /\ verdict[i] # "pending"
        /\ fate' = [fate EXCEPT ![i] = verdict[i]]
        /\ moves' = LogMove(i, verdict[i])
    BY <1>1 DEF Record, First
  <2>2. verdict[i] \in Verdicts /\ fate[i] = "pending"
    BY <2>1 DEF IInv, TypeOK, Fates, ItemsInOnePlace
  <2>3. Ledger!Settle(i, verdict[i])
    BY <2>1, <2>2 DEF Ledger!Settle, Ledger!Unsettled, Ledger!LogWith, LogMove
  <2>. QED BY <2>2, <2>3 DEF Ledger!Next
<1>2. ASSUME NEW i \in Items, OpenGroup(i) PROVE UNCHANGED <<fate, moves>>
  BY <1>2 DEF OpenGroup, dbVars
<1>3. Start \/ Finish \/ EnsureFolder \/ TakeBatch \/ FetchIdentity \/ Send
        \/ CopyContinues \/ RollBackFlag \/ MoveReturns \/ MoveRaises \/ Reconnect
      => UNCHANGED <<fate, moves>>
  BY DEF Start, Finish, EnsureFolder, TakeBatch, FetchIdentity, Send, CopyContinues,
         RollBackFlag, MoveReturns, MoveRaises, Reconnect, dbVars
<1>4. ServerWorks \/ Traceback \/ Mishap \/ Owner => UNCHANGED <<fate, moves>>
  BY DEF ServerWorks, ServerMoves, ServerCopies, ServerFlags, ServerExpunges,
         ServerRefusesPoison, ServerRefuses, ClientWaits, Traceback, Mishap,
         ReconnectUnreachable, Abort, Crash, Drop, Renumbered, Owner, dbVars
<1>5. UNCHANGED vars => UNCHANGED <<fate, moves>>
  BY DEF vars, dbVars
<1>. QED BY <1>1, <1>2, <1>3, <1>4, <1>5 DEF Next, ProcessWorks, Ledger!ledgerVars

\* Apply implements the ledger, for every plan and every failure: each verdict is
\* given once, and the move log gains a row exactly when it is `done`.
THEOREM ImplementsLedger == Spec => LedgerKept
<1>. QED BY LedgerInit, LedgerStep, Invariance, PTL DEF Spec, LedgerKept, Ledger!Spec

\* What is proved of the ledger holds of apply.
Kept == INSTANCE PlanLedgerProofs WITH Entry <- [i \in Items |-> Row(i)]

LEMMA LedgerConstants == Kept!LedgerAssumption
<1>1. "done" \in Verdicts /\ "pending" \notin Verdicts
  BY DEF Verdicts
<1>2. 0 \notin Items
  BY PlanAssumption DEF PlanAssumption
<1>3. \A i \in Items : Row(i) \in Rows /\ Row(i).item = i
  BY PlanAssumption DEF PlanAssumption, Row, Rows
<1>4. [i \in Items |-> Row(i)] \in [Items -> Rows]
  BY <1>3
<1>5. \A i \in Items : [j \in Items |-> Row(j)][i].item = i
  BY <1>3
<1>6. Histories \subseteq Seq(Rows)
  BY HistoryAssumption DEF HistoryAssumption
<1>7. \A h \in Histories : \A n \in 1..Len(h) : h[n].item \notin Items
  BY <1>2, HistoryAssumption DEF HistoryAssumption
<1>. QED BY <1>1, <1>2, <1>4, <1>5, <1>6, <1>7, Zenon DEF Kept!LedgerAssumption

LEMMA LedgerIsKept == LedgerKept => Kept!Spec
<1>1. Ledger!Init => Kept!Init
  BY DEF Ledger!Init, Kept!Init
<1>2. [Ledger!Next]_(Ledger!ledgerVars) => [Kept!Next]_(Kept!ledgerVars)
  BY DEF Ledger!Next, Kept!Next, Ledger!Settle, Kept!Settle, Ledger!Unsettled, Kept!Unsettled,
         Ledger!LogWith, Kept!LogWith, Ledger!ledgerVars, Kept!ledgerVars
<1>. QED BY <1>1, <1>2, PTL DEF LedgerKept, Ledger!Spec, Kept!Spec

\* An item of the plan is done exactly when the move log of the index holds a
\* row for it, and never two: after kills, retries and repeated runs of apply.
THEOREM ApplyKeepsLogInStep == Spec => []Kept!LogAgreesWithPlan
<1>1. Kept!Spec => []Kept!LogAgreesWithPlan
  BY LedgerConstants, Kept!LogAgreement
<1>. QED BY <1>1, LedgerIsKept, ImplementsLedger, PTL

\* Apply never changes a row of the move log, nor a verdict once it is given.
THEOREM ApplyUnwritesNothing == Spec => Kept!NothingIsUnwritten
<1>1. Kept!Spec => Kept!NothingIsUnwritten
  BY LedgerConstants, Kept!LogIsAppendOnly
<1>. QED BY <1>1, LedgerIsKept, ImplementsLedger, PTL

=============================================================================
