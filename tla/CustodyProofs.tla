---------------------------- MODULE CustodyProofs ----------------------------
(***************************************************************************)
(* Where the mail is, and what the index says of it, in four layers:       *)
(* Custody (no mail is lost) is inductive together with IInv; Receipts (of *)
(* what is done) and Filing (of what is skipped) together with these; and  *)
(* Faultless (what happens while nothing goes wrong) with Custody.         *)
(*                                                                         *)
(* The first part says what each kind of step does to a message.           *)
(***************************************************************************)
EXTENDS ExecutorProofs, FiniteSetTheorems

(* What a step does to the mail.                                           *)

LEMMA InvTyped ==
  ASSUME IInv
  PROVE  Typed /\ Mailbox /\ ServerTypeOK /\ UidsAreFresh /\ NothingAhead
BY DEF IInv, Typed, Mailbox, TypeOK, UidsAreFresh, NothingAhead

\* Only these steps touch the mailbox.
LEMMA StepKinds ==
  ASSUME [Next]_vars
  PROVE  \/ UNCHANGED <<box, deleted, nextUid, validity, touched>>
         \/ \E i \in Items : ServerMoves(i) \/ ServerCopies(i)
         \/ ServerFlags \/ ServerExpunges
         \/ \E f \in Folders : Renumbered(f)
         \/ Owner
<1>1. Start \/ ProcessWorks \/ Traceback \/ ServerRefusesPoison
        \/ ServerRefuses \/ ReconnectUnreachable \/ Abort \/ Crash \/ Drop
        \/ UNCHANGED vars => UNCHANGED <<box, deleted, nextUid, validity, touched>>
  BY DEF Start, ProcessWorks, Traceback, ServerRefusesPoison, ServerRefuses,
         ReconnectUnreachable, Abort, Crash, Drop, Finish, EnsureFolder, TakeBatch,
         FetchIdentity, Send, CopyContinues, RollBackFlag, MoveReturns, MoveRaises,
         Reconnect, Record, OpenGroup, ClientWaits, mailVars, serverVars, vars
<1>. QED BY <1>1 DEF Next, ServerWorks, Mishap

LEMMA RenumberingKeepsMail ==
  ASSUME NEW f \in Folders, Renumbered(f)
  PROVE  /\ touched' = touched /\ conn' = (conn /\ selected # f)
         /\ \A s \in Slots : s[1] # f => box'[s] = box[s] /\ (s \in deleted' <=> s \in deleted)
         /\ \A s \in Slots : s[1] = f =>
              \E t \in Slots : t[1] = f /\ box'[t] = box[s] /\ (t \in deleted' <=> s \in deleted)
         /\ (\A t \in deleted : Occupied(t)) => \A t \in deleted' : Occupied(t)'
<1>1. Renumber(f) /\ conn' = (conn /\ selected # f)
  BY DEF Renumbered
<1>. QED BY <1>1, RenumberKeepsMail

-----------------------------------------------------------------------------
(* Custody.                                                                 *)

LEMMA OrderStep ==
  ASSUME IInv, CommandsInOrder, [Next]_vars
  PROVE  CommandsInOrder'
<1>1. CASE Send
  BY <1>1 DEF Send, CommandsInOrder, FirstCommand, Target
<1>2. CASE CopyContinues
  BY <1>2 DEF CopyContinues, CommandsInOrder
<1>3. CASE RollBackFlag
  BY <1>3 DEF RollBackFlag, CommandsInOrder, Target, procVars
<1>4. ASSUME NEW i \in Items, ServerMoves(i) \/ ServerCopies(i) PROVE CommandsInOrder'
  BY <1>4 DEF ServerMoves, ServerCopies, Serving, Reached, ClientWaits, CommandsInOrder,
              Target, procVars
<1>5. CASE ServerFlags \/ ServerExpunges \/ ServerRefusesPoison \/ ServerRefuses
  BY <1>5 DEF ServerFlags, ServerExpunges, ServerRefusesPoison, ServerRefuses, Serving,
              ClientWaits, CommandsInOrder, Target, procVars
<1>6. CASE UNCHANGED <<pc, command, wire, left, batch, trying>>
  BY <1>6 DEF CommandsInOrder, Target
<1>7. CASE pc' # "await"
  BY <1>7 DEF CommandsInOrder
<1>8. Drop \/ Owner \/ (\E f \in Folders : Renumbered(f)) \/ (\E i \in Items : Record(i))
        \/ UNCHANGED vars => UNCHANGED <<pc, command, wire, left, batch, trying>>
  BY DEF Drop, Owner, Renumbered, Record, vars, moveVars, procVars
<1>9. Start \/ Finish \/ EnsureFolder \/ TakeBatch \/ FetchIdentity \/ MoveReturns
        \/ MoveRaises \/ Reconnect \/ Traceback \/ ReconnectUnreachable \/ Abort \/ Crash
        \/ (\E i \in Items : OpenGroup(i)) => pc' # "await"
  BY DEF Start, Finish, EnsureFolder, TakeBatch, FetchIdentity, MoveReturns, MoveRaises,
         Reconnect, Traceback, ReconnectUnreachable, Abort, Crash, OpenGroup, Quit,
         OneTried, AfterBatch, AfterLastAttempt
<1>. QED
  BY <1>1, <1>2, <1>3, <1>4, <1>5, <1>6, <1>7, <1>8, <1>9
  DEF Next, ProcessWorks, ServerWorks, Mishap

\* A step that leaves the mail alone endangers no message that was safe.
LEMMA DoomedShrinks ==
  ASSUME IInv, CommandsInOrder, [Next]_vars,
         ~ \E i \in Items : ServerCopies(i)
  PROVE  Doomed' \subseteq Doomed
<1>1. CASE Send
  BY <1>1 DEF Send, Doomed, Target
<1>2. CASE CopyContinues
  <2>1. pc = "await" /\ left = {} /\ command \in {"COPY", "STORE"}
    BY <1>2 DEF CopyContinues, CommandsInOrder
  <2>. QED BY <1>2, <2>1 DEF CopyContinues, Doomed, Target, At, sessionVars, procVars
<1>3. CASE RollBackFlag
  BY <1>3 DEF RollBackFlag, Doomed
<1>4. ASSUME NEW i \in Items, ServerMoves(i) PROVE Doomed' \subseteq Doomed
  BY <1>4 DEF ServerMoves, Serving, ClientWaits, Doomed
<1>5. CASE UNCHANGED <<pc, command, left, batch, trying, selected>> /\ (conn' => conn)
  BY <1>5 DEF Doomed, Target, At
<1>6. CASE pc' # "await"
  BY <1>6 DEF Doomed
<1>7. Drop \/ Owner \/ (\E f \in Folders : Renumbered(f)) \/ (\E i \in Items : Record(i))
        \/ UNCHANGED vars \/ ServerFlags \/ ServerExpunges \/ ServerRefusesPoison \/ ServerRefuses
      => UNCHANGED <<pc, command, left, batch, trying, selected>> /\ (conn' => conn)
  <2>1. ASSUME NEW f \in Folders, Renumbered(f)
        PROVE  UNCHANGED <<pc, command, left, batch, trying, selected>> /\ (conn' => conn)
    <3>1. conn' => conn
      BY <2>1, Zenon DEF Renumbered
    <3>. QED BY <2>1, <3>1 DEF Renumbered, moveVars, procVars
  <2>2. Owner \/ (\E i \in Items : Record(i)) \/ UNCHANGED vars \/ ServerFlags
          \/ ServerExpunges \/ ServerRefusesPoison \/ ServerRefuses
        => UNCHANGED <<pc, command, left, batch, trying, selected, conn>>
    BY DEF Owner, Record, ServerFlags, ServerExpunges, ServerRefusesPoison,
           ServerRefuses, ClientWaits, vars, sessionVars, moveVars, procVars
  <2>3. Drop => UNCHANGED <<pc, command, left, batch, trying, selected>> /\ ~ conn'
    BY DEF Drop, moveVars, procVars
  <2>4. UNCHANGED <<pc, command, left, batch, trying, selected, conn>>
          => UNCHANGED <<pc, command, left, batch, trying, selected>> /\ (conn' => conn)
    OBVIOUS
  <2>. QED BY <2>1, <2>2, <2>3, <2>4, Zenon
<1>8. Start \/ Finish \/ EnsureFolder \/ TakeBatch \/ FetchIdentity \/ MoveReturns
        \/ MoveRaises \/ Reconnect \/ Traceback \/ ReconnectUnreachable \/ Abort \/ Crash
        \/ (\E i \in Items : OpenGroup(i)) => pc' # "await"
  BY DEF Start, Finish, EnsureFolder, TakeBatch, FetchIdentity, MoveReturns, MoveRaises,
         Reconnect, Traceback, ReconnectUnreachable, Abort, Crash, OpenGroup, Quit,
         OneTried, AfterBatch, AfterLastAttempt
<1>. QED
  BY <1>1, <1>2, <1>3, <1>4, <1>5, <1>6, <1>7, <1>8
  DEF Next, ProcessWorks, ServerWorks, Mishap

\* A command reaches messages of the selected folder, and puts them elsewhere.
LEMMA Reaching ==
  ASSUME IInv, NEW i \in Items, ServerMoves(i) \/ ServerCopies(i)
  PROVE  /\ pc = "await" /\ conn /\ i \in left /\ i \in batch
         /\ At(i) \in Slots /\ At(i) = Slot(i) /\ At(i)[1] = selected
         /\ Src \in Folders /\ Dst \in Folders /\ Dst # selected
         /\ Dst = Plan[i].dst
         /\ box[At(i)] \in {Plan[i].key, NoKey}
         /\ UNCHANGED <<touched, validity, pc, conn, selected, batch, trying, command>>
<1>1. pc = "await" /\ conn /\ i \in left
  BY DEF ServerMoves, ServerCopies, Serving, Reached, First
<1>2. i \in batch
  BY <1>1 DEF IInv, ItemsInOnePlace
<1>3. At(i) = Slot(i) /\ box[At(i)] \in {Plan[i].key, NoKey}
  BY <1>1, <1>2, TargetsArePlanned
<1>4. At(i) \in Slots /\ Src \in Folders /\ Dst \in Folders
  BY <1>1, InvTyped, Places DEF InMove
<1>5. group = <<Plan[i].src, Plan[i].dst>> /\ selected = Src
  BY <1>1, <1>2 DEF IInv, BatchStands, SessionInPlace, GroupOf, InMove
<1>6. Dst = Plan[i].dst /\ Dst # selected
  BY <1>5, PlanAssumption DEF PlanAssumption, Src, Dst
<1>7. UNCHANGED <<touched, validity, pc, conn, selected, batch, trying, command>>
  BY DEF ServerMoves, ServerCopies, ClientWaits, sessionVars, procVars
<1>. QED BY <1>1, <1>2, <1>3, <1>4, <1>6, <1>7 DEF At

LEMMA FlagsStep ==
  ASSUME IInv, FlagsOnMail, [Next]_vars
  PROVE  FlagsOnMail'
<1>0. ServerTypeOK /\ NothingAhead /\ deleted \subseteq Slots
  BY InvTyped DEF ServerTypeOK
<1>1. CASE UNCHANGED <<box, deleted, nextUid, validity, touched>>
  BY <1>1 DEF FlagsOnMail, Occupied
<1>2. ASSUME NEW i \in Items, ServerMoves(i) PROVE FlagsOnMail'
  <2>1. MoveOne(At(i), Dst)
    BY <1>2 DEF ServerMoves
  <2>2. CASE Occupied(At(i))
    BY <1>0, <1>2, <2>1, <2>2, MoveEffect, Reaching DEF FlagsOnMail, Occupied
  <2>3. CASE ~ Occupied(At(i))
    BY <2>1, <2>3 DEF MoveOne, mailVars, FlagsOnMail, Occupied
  <2>. QED BY <2>2, <2>3
<1>3. ASSUME NEW i \in Items, ServerCopies(i) PROVE FlagsOnMail'
  <2>1. CopyOne(At(i), Dst)
    BY <1>3 DEF ServerCopies
  <2>2. CASE Occupied(At(i))
    BY <1>0, <1>3, <2>1, <2>2, CopyEffect, Reaching DEF FlagsOnMail, Occupied
  <2>3. CASE ~ Occupied(At(i))
    BY <2>1, <2>3 DEF CopyOne, mailVars, FlagsOnMail, Occupied
  <2>. QED BY <2>2, <2>3
<1>4. CASE ServerFlags
  BY <1>4 DEF ServerFlags, FlagsOnMail, Occupied
<1>5. CASE ServerExpunges
  BY <1>0, <1>5 DEF ServerExpunges, ExpungeSlots, FlagsOnMail, Occupied
<1>6. ASSUME NEW f \in Folders, Renumbered(f) PROVE FlagsOnMail'
  BY <1>6, InvTyped, RenumberingKeepsMail DEF FlagsOnMail
<1>7. CASE Owner
  BY <1>0, <1>7, OwnerEffect DEF Owner, FlagsOnMail
<1>. QED BY <1>1, <1>2, <1>3, <1>4, <1>5, <1>6, <1>7, StepKinds

SafeIn(k, s) == s \in Slots \ (deleted \cup Doomed) /\ box[s] = k

\* Whatever happens to the slot a message is safe in, it is safe in some slot.
LEMMA SafeStep ==
  ASSUME IInv, FlagsOnMail, CommandsInOrder, [Next]_vars,
         NEW k \in Keys \ touched', NEW s, SafeIn(k, s)
  PROVE  \E t \in Slots : SafeIn(k, t)'
<1>0. /\ ServerTypeOK /\ NothingAhead /\ Typed /\ deleted \subseteq Slots
      /\ s \in Slots \ (deleted \cup Doomed) /\ box[s] = k /\ Occupied(s)
  BY InvTyped, ServerAssumption DEF ServerTypeOK, SafeIn, Occupied, ServerAssumption
<1>. SUFFICES ASSUME ~ \E t \in Slots : SafeIn(k, t)' PROVE FALSE
  OBVIOUS
<1>1. (\E i \in Items : ServerCopies(i)) \/ Doomed' \subseteq Doomed
  BY DoomedShrinks
<1>2. CASE UNCHANGED <<box, deleted, nextUid, validity, touched>> /\ Doomed' \subseteq Doomed
  BY <1>0, <1>2 DEF SafeIn
<1>3. ASSUME NEW i \in Items, ServerMoves(i) PROVE FALSE
  <2>1. MoveOne(At(i), Dst) /\ Doomed' = {}
    BY <1>3 DEF ServerMoves, Serving, ClientWaits, Doomed
  <2>2. CASE Occupied(At(i))
    <3>1. /\ Put(At(i), Dst) \in Slots /\ box[Put(At(i), Dst)] = NoKey
          /\ box'[Put(At(i), Dst)] = box[At(i)]
          /\ \A t \in Slots \ {At(i), Put(At(i), Dst)} : box'[t] = box[t]
          /\ deleted' = IF At(i) \in deleted THEN (deleted \ {At(i)}) \cup {Put(At(i), Dst)}
                                             ELSE deleted
      BY <1>0, <1>3, <2>1, <2>2, MoveEffect, Reaching
    <3>2. CASE s = At(i)
      <4>1. PICK t \in Slots : t = Put(At(i), Dst)
        BY <3>1
      <4>. QED BY <1>0, <2>1, <3>1, <3>2, <4>1 DEF SafeIn, FlagsOnMail, Occupied
    <3>3. CASE s # At(i)
      BY <1>0, <2>1, <3>1, <3>3 DEF SafeIn, Occupied
    <3>. QED BY <3>2, <3>3
  <2>3. CASE ~ Occupied(At(i))
    BY <1>0, <2>1, <2>3 DEF MoveOne, mailVars, SafeIn
  <2>. QED BY <2>2, <2>3
<1>4. ASSUME NEW i \in Items, ServerCopies(i) PROVE FALSE
  <2>1. CopyOne(At(i), Dst) /\ command = "COPY" /\ left' = left \ {i}
    BY <1>4 DEF ServerCopies, Serving, Reached
  <2>2. Doomed' \subseteq Doomed \cup {At(i)} /\ \A t \in Doomed' : t[1] = selected
    BY <1>4, <2>1, Reaching DEF Doomed, Target, At
  <2>3. CASE Occupied(At(i))
    <3>1. /\ Put(At(i), Dst) \in Slots /\ box[Put(At(i), Dst)] = NoKey
          /\ box'[Put(At(i), Dst)] = box[At(i)]
          /\ \A t \in Slots \ {Put(At(i), Dst)} : box'[t] = box[t]
          /\ deleted' = IF At(i) \in deleted THEN deleted \cup {Put(At(i), Dst)} ELSE deleted
      BY <1>0, <1>4, <2>1, <2>3, CopyEffect, Reaching
    <3>2. CASE s = At(i)
      <4>1. Put(At(i), Dst) \notin Doomed'
        BY <1>4, <2>2, Reaching DEF Put
      <4>2. PICK t \in Slots : t = Put(At(i), Dst)
        BY <3>1
      <4>. QED BY <1>0, <3>1, <3>2, <4>1, <4>2 DEF SafeIn, FlagsOnMail, Occupied
    <3>3. CASE s # At(i)
      BY <1>0, <2>2, <3>1, <3>3 DEF SafeIn, Occupied
    <3>. QED BY <3>2, <3>3
  <2>4. CASE ~ Occupied(At(i))
    <3>1. s # At(i) /\ box' = box /\ deleted' = deleted
      BY <1>0, <2>1, <2>4 DEF CopyOne, mailVars
    <3>. QED BY <1>0, <2>2, <3>1 DEF SafeIn
  <2>. QED BY <2>3, <2>4
<1>5. CASE ServerFlags
  <2>1. pc = "await" /\ conn /\ box' = box /\ Doomed' \subseteq Doomed
    BY <1>1, <1>5 DEF ServerFlags, Serving, ServerCopies, ClientWaits
  <2>2. CASE command = "STORE"
    <3>1. deleted' \subseteq deleted \cup TargetSlots /\ left = {}
      BY <1>5, <2>1, <2>2 DEF ServerFlags, CommandsInOrder
    <3>2. TargetSlots = Doomed
      BY <2>1, <2>2, <3>1 DEF TargetSlots, Doomed
    <3>. QED BY <1>0, <2>1, <3>1, <3>2 DEF SafeIn
  <2>3. CASE command # "STORE"
    BY <1>0, <1>5, <2>1, <2>3 DEF ServerFlags, SafeIn
  <2>. QED BY <2>2, <2>3
<1>6. CASE ServerExpunges
  BY <1>0, <1>1, <1>6
  DEF ServerExpunges, Serving, ServerCopies, ExpungeSlots, SafeIn
<1>7. ASSUME NEW f \in Folders, Renumbered(f) PROVE FALSE
  <2>1. Doomed' \subseteq Doomed /\ (conn' => selected # f)
    <3>1. ~ \E i \in Items : ServerCopies(i)
      <4>1. Renumbered(f) => validity'[f] # validity[f]
        BY <1>0, RenumberTypes DEF Renumbered, Renumber, ServerTypeOK
      <4>. QED BY <1>7, <4>1, Reaching
    <3>. QED BY <1>0, <1>1, <1>7, <3>1, RenumberingKeepsMail
  <2>2. \A t \in Doomed' : t[1] # f
    BY <1>7, <2>1 DEF Doomed, At, Renumbered
  <2>3. CASE s[1] # f
    BY <1>0, <1>7, <2>1, <2>3, RenumberingKeepsMail DEF SafeIn
  <2>4. CASE s[1] = f
    <3>1. PICK t \in Slots : t[1] = f /\ box'[t] = box[s] /\ (t \in deleted' <=> s \in deleted)
      BY <1>0, <1>7, <2>4, RenumberingKeepsMail
    <3>. QED BY <1>0, <2>2, <3>1 DEF SafeIn
  <2>. QED BY <2>3, <2>4
<1>8. CASE Owner
  <2>1. Doomed' \subseteq Doomed
    BY <1>8 DEF Owner, Doomed, Target, At, sessionVars, moveVars, procVars
  <2>. QED BY <1>0, <1>8, <2>1, OwnerEffect DEF Owner, SafeIn
<1>. QED BY <1>1, <1>2, <1>3, <1>4, <1>5, <1>6, <1>7, <1>8, StepKinds

\* The owner has touched what the owner has touched.
LEMMA TouchedGrows ==
  ASSUME IInv, [Next]_vars
  PROVE  touched \subseteq touched'
<1>1. CASE Owner
  BY <1>1, InvTyped, OwnerEffect DEF Owner
<1>2. ServerFlags \/ ServerExpunges \/ (\E i \in Items : ServerMoves(i) \/ ServerCopies(i))
        => touched' = touched
  BY DEF ServerFlags, ServerExpunges, ServerMoves, ServerCopies, ClientWaits
<1>3. (\E f \in Folders : Renumbered(f)) => touched' = touched
  BY DEF Renumbered, Renumber
<1>. QED BY <1>1, <1>2, <1>3, StepKinds

LEMMA CustodyStep ==
  ASSUME IInv, Custody, [Next]_vars
  PROVE  Custody'
<1>1. FlagsOnMail' /\ CommandsInOrder'
  BY FlagsStep, OrderStep DEF Custody
<1>2. ASSUME NEW k \in Mail \ touched'
      PROVE  \E s \in Slots \ (deleted' \cup Doomed') : box'[s] = k
  <2>1. k \in Keys \ touched' /\ k \in Mail \ touched
    BY TouchedGrows DEF Mail
  <2>2. PICK s \in Slots \ (deleted \cup Doomed) : box[s] = k
    BY <2>1 DEF Custody, KeptElsewhere
  <2>3. \E t \in Slots : SafeIn(k, t)'
    BY <2>1, <2>2, SafeStep DEF Custody, SafeIn
  <2>. QED BY <2>3 DEF SafeIn
<1>. QED BY <1>1, <1>2 DEF Custody, KeptElsewhere, Mail

LEMMA CustodyInit == Init => Custody
<1>. SUFFICES ASSUME Init PROVE Custody
  OBVIOUS
<1>1. PICK l \in Layouts : box = l.box
  BY DEF Init
<1>2. Doomed = {} /\ deleted = {}
  BY DEF Init, Doomed
<1>. QED BY <1>1, <1>2 DEF Custody, FlagsOnMail, CommandsInOrder, KeptElsewhere, Mail, Init

\* What EXPUNGE will take away is flagged and copied first, in this order, and a
\* message that a command is about to take has another slot already: for every
\* plan, batch, server and sequence of failures.
THEOREM CustodyHolds == Spec => []Custody
<1>. QED BY CustodyInit, CustodyStep, Invariance, PTL DEF Spec

\* No interruption of apply, no retry, renumbering or lost answer leaves a
\* message of the mailbox without an unflagged copy, unless the owner touched it.
THEOREM NoMailIsLost == Spec => []NothingLost
<1>1. Custody => NothingLost
  BY DEF Custody, KeptElsewhere, NothingLost
<1>. QED BY <1>1, CustodyHolds, PTL

-----------------------------------------------------------------------------
(* Arrived, Gone and InPlace over a step.                                   *)

\* UIDVALIDITY only grows, so a plan that is void stays void.
LEMMA ValidityStep ==
  ASSUME IInv, [Next]_vars, NEW f \in Folders, UidsStillValid(f)'
  PROVE  UidsStillValid(f) /\ ~ Renumbered(f)
<1>1. /\ validity \in [Folders -> Nat] /\ validity[f] >= SurveyValidity[f]
      /\ SurveyValidity[f] \in Nat
  BY Bounds DEF IInv, PlanStands, TypeOK, ServerTypeOK
<1>2. CASE validity' = validity
  <2>1. ~ Renumbered(f)
    <3>1. Renumbered(f) => validity'[f] = validity[f] + 1
      BY <1>1 DEF Renumbered, Renumber
    <3>. QED BY <1>1, <1>2, <3>1
  <2>. QED BY <1>2, <2>1 DEF UidsStillValid
<1>3. ASSUME NEW g \in Folders, Renumbered(g)
      PROVE  UidsStillValid(f) /\ ~ Renumbered(f)
  <2>1. validity' = [validity EXCEPT ![g] = @ + 1]
    BY <1>3 DEF Renumbered, Renumber
  <2>2. g # f
    BY <1>1, <2>1 DEF UidsStillValid
  <2>3. Renumbered(f) => validity' = [validity EXCEPT ![f] = @ + 1]
    BY DEF Renumbered, Renumber
  <2>. QED BY <1>1, <2>1, <2>2, <2>3 DEF UidsStillValid
<1>. QED BY <1>2, <1>3, InvTyped, MailSteps DEF Keeps

\* A step other than a renumbering or the owner's is the tool's.
LEMMA WhoActs ==
  ASSUME IInv, [Next]_vars, NEW s \in Slots, Occupied(s), box'[s] # box[s]
  PROVE  \/ \E j \in Items : /\ Slot(j) = s /\ Plan[j].key = box[s]
                             /\ ServerMoves(j) \/ (ServerExpunges /\ j \in Target /\ s \in deleted)
         \/ \E f \in Folders : Renumbered(f) /\ s[1] = f
         \/ box[s] \in touched'
<1>1. ASSUME NEW i \in Items, ServerMoves(i) PROVE Slot(i) = s /\ Plan[i].key = box[s]
  <2>1. ServerTypeOK /\ NothingAhead /\ MoveOne(At(i), Dst)
    BY <1>1, InvTyped DEF ServerMoves
  <2>2. Occupied(At(i))
    BY <2>1 DEF MoveOne, mailVars
  <2>3. s = At(i)
    BY <1>1, <2>1, <2>2, MoveEffect, Reaching DEF Occupied
  <2>. QED BY <1>1, <2>3, Reaching DEF Occupied
<1>2. ASSUME NEW i \in Items, ServerCopies(i) PROVE FALSE
  <2>1. ServerTypeOK /\ NothingAhead /\ CopyOne(At(i), Dst)
    BY <1>2, InvTyped DEF ServerCopies
  <2>2. Occupied(At(i))
    BY <2>1 DEF CopyOne, mailVars
  <2>. QED BY <1>2, <2>1, <2>2, CopyEffect, Reaching DEF Occupied
<1>3. ASSUME ServerExpunges
      PROVE  \E j \in Target : j \in Items /\ Slot(j) = s /\ Plan[j].key = box[s] /\ s \in deleted
  <2>1. pc = "await" /\ conn /\ s \in TargetSlots /\ s \in deleted
    BY <1>3 DEF ServerExpunges, Serving, ExpungeSlots, ExpungeNames
  <2>2. PICK j \in Target : s = At(j)
    BY <2>1 DEF TargetSlots
  <2>3. j \in batch
    BY <2>2 DEF Target, IInv, ItemsInOnePlace
  <2>. QED BY <2>1, <2>2, <2>3, TargetsArePlanned DEF Occupied
<1>4. Owner => box[s] \in touched'
  <2>1. box[s] \in Keys
    BY DEF Occupied, IInv, TypeOK, ServerTypeOK
  <2>. QED BY <2>1, InvTyped, OwnerEffect DEF Owner
<1>5. ASSUME NEW f \in Folders, Renumbered(f) PROVE s[1] = f
  BY <1>5, InvTyped, RenumberingKeepsMail
<1>6. ServerFlags => box' = box
  BY DEF ServerFlags
<1>. QED BY <1>1, <1>2, <1>3, <1>4, <1>5, <1>6, StepKinds

\* A message that is in its new folder stays there.
LEMMA ArrivedStays ==
  ASSUME IInv, [Next]_vars, NEW i \in Items, Arrived(i)
  PROVE  Arrived(i)'
<1>. SUFFICES ASSUME Plan[i].key \notin touched'
              PROVE  \E u \in Uids : box'[<<Plan[i].dst, u>>] = Plan[i].key
  BY DEF Arrived, Holds
<1>1. PICK u \in Uids : box[<<Plan[i].dst, u>>] = Plan[i].key
  BY TouchedGrows DEF Arrived, Holds
<1>2. /\ <<Plan[i].dst, u>> \in Slots /\ Plan[i].dst \in Folders /\ Plan[i].key \in Keys
      /\ <<Plan[i].dst, u>>[1] = Plan[i].dst
      /\ Occupied(<<Plan[i].dst, u>>)
  BY <1>1, PlanAssumption, ServerAssumption DEF PlanAssumption, ServerAssumption, Slots, Occupied
<1>3. CASE box'[<<Plan[i].dst, u>>] = Plan[i].key
  BY <1>3
<1>4. ASSUME NEW j \in Items, Slot(j) = <<Plan[i].dst, u>>, Plan[j].key = Plan[i].key
      PROVE  FALSE
  BY <1>4, PlanAssumption DEF PlanAssumption, Slot
<1>5. ASSUME NEW f \in Folders, Renumbered(f), Plan[i].dst = f
      PROVE  \E v \in Uids : box'[<<Plan[i].dst, v>>] = Plan[i].key
  <2>1. PICK t \in Slots : t[1] = f /\ box'[t] = Plan[i].key
    BY <1>1, <1>2, <1>5, InvTyped, RenumberingKeepsMail
  <2>2. t[2] \in Uids /\ t = <<f, t[2]>>
    BY <2>1, PlannedSlots
  <2>. QED BY <1>5, <2>1, <2>2
<1>. QED BY <1>1, <1>2, <1>3, <1>4, <1>5, WhoActs

\* An old slot that is empty stays empty as long as the plan's UIDs stand.
LEMMA GoneStays ==
  ASSUME IInv, [Next]_vars, NEW i \in Items, Gone(i)
  PROVE  Gone(i)'
<1>. SUFFICES ASSUME Plan[i].key \notin touched', UidsStillValid(Plan[i].src)'
              PROVE  box'[Slot(i)] = NoKey
  BY DEF Gone, Occupied
<1>1. /\ Plan[i].src \in Folders /\ Slot(i) \in Slots
      /\ Slot(i)[1] = Plan[i].src /\ Slot(i)[2] = Plan[i].uid
      /\ Plan[i].uid < nextUid[Plan[i].src]
  BY PlannedSlots DEF IInv, UidsAreFresh, NothingAhead
<1>2. UidsStillValid(Plan[i].src) /\ ~ Renumbered(Plan[i].src)
  BY <1>1, ValidityStep
<1>3. box[Slot(i)] = NoKey
  BY <1>2, TouchedGrows DEF Gone, Occupied
<1>4. ASSUME NEW f \in Folders, Renumbered(f) PROVE box'[Slot(i)] = NoKey
  BY <1>1, <1>2, <1>3, <1>4, InvTyped, RenumberingKeepsMail
<1>. QED BY <1>1, <1>3, <1>4, InvTyped, MailSteps DEF Keeps

\* Until its folder is renumbered, a message that leaves its place has arrived.
LEMMA WhereStays ==
  ASSUME IInv, Receipts, CommandsInOrder, [Next]_vars, NEW i \in Items,
         InPlace(i) \/ Arrived(i), ~ Renumbered(Plan[i].src)
  PROVE  InPlace(i)' \/ Arrived(i)'
<1>1. CASE Arrived(i)
  BY <1>1, ArrivedStays
<1>2. CASE InPlace(i) /\ box'[Slot(i)] = box[Slot(i)]
  BY <1>2 DEF InPlace
<1>3. CASE InPlace(i) /\ box'[Slot(i)] # box[Slot(i)]
  <2>1. /\ Slot(i) \in Slots /\ Slot(i)[1] = Plan[i].src /\ box[Slot(i)] = Plan[i].key
        /\ Plan[i].src \in Folders /\ Plan[i].key \in Keys /\ Occupied(Slot(i))
    BY <1>3, PlannedSlots, ServerAssumption DEF InPlace, Occupied, ServerAssumption
  <2>2. CASE Plan[i].key \in touched'
    BY <2>2 DEF Arrived
  <2>3. ASSUME ServerMoves(i) PROVE Arrived(i)'
    <3>1. ServerTypeOK /\ NothingAhead /\ MoveOne(At(i), Dst) /\ At(i) = Slot(i) /\ Dst = Plan[i].dst
      BY <2>3, InvTyped, Reaching DEF ServerMoves
    <3>2. Put(At(i), Dst) \in Slots /\ box'[Put(At(i), Dst)] = Plan[i].key
      BY <2>1, <2>3, <3>1, MoveEffect, Reaching
    <3>3. nextUid[Dst] \in Uids /\ Put(At(i), Dst) = <<Plan[i].dst, nextUid[Dst]>>
      BY <3>1, <3>2 DEF Put, Slots
    <3>4. \E u \in Uids : box'[<<Plan[i].dst, u>>] = Plan[i].key
      BY <3>2, <3>3
    <3>. QED BY <3>4 DEF Arrived, Holds
  <2>4. ASSUME ServerExpunges, i \in Target PROVE Arrived(i)'
    <3>1. pc = "await" /\ left = {}
      BY <2>4 DEF ServerExpunges, Serving, CommandsInOrder
    <3>2. Arrived(i)
      BY <2>4, <3>1 DEF Receipts, CommandsAchieve
    <3>. QED BY <3>2, ArrivedStays
  <2>5. \A j \in Items : Slot(j) = Slot(i) => j = i
    BY PlanAssumption DEF PlanAssumption
  <2>. QED BY <1>3, <2>1, <2>2, <2>3, <2>4, <2>5, WhoActs
<1>. QED BY <1>1, <1>2, <1>3

-----------------------------------------------------------------------------
(* Receipts.                                                                *)

LEMMA WhereaboutsStep ==
  ASSUME IInv, Receipts, CommandsInOrder, [Next]_vars
  PROVE  Whereabouts'
<1>1. ASSUME NEW i \in Items, UidsStillValid(Plan[i].src)'
      PROVE  InPlace(i)' \/ Arrived(i)'
  <2>1. UidsStillValid(Plan[i].src) /\ ~ Renumbered(Plan[i].src)
    BY <1>1, ValidityStep, PlannedSlots
  <2>. QED BY <2>1, WhereStays DEF Receipts, Whereabouts
<1>2. ASSUME pc' \in InMove, conn', NEW i \in batch'
      PROVE  InPlace(i)' \/ Arrived(i)'
  <2>1. i \in Items
    BY InvTyped, TypedStep DEF Typed, TypeOK
  <2>2. CASE FetchIdentity
    <3>1. i \in batch /\ Confirmed(i) /\ box' = box /\ pc = "fetch"
      BY <1>2, <2>2 DEF FetchIdentity, serverVars
    <3>2. Plan[i].src = selected
      BY <3>1 DEF IInv, BatchStands, GroupOf, SessionInPlace, Src
    <3>. QED BY <3>1, <3>2 DEF Confirmed, At, Slot, InPlace
  <2>3. CASE Reconnect
    <3>1. i \in batch /\ UidsStillValid(Src) /\ UNCHANGED <<box, validity>>
      BY <1>2, <2>3 DEF Reconnect, StillTheSurveyedFolder, serverVars, InMove
    <3>2. UidsStillValid(Plan[i].src)'
      BY <3>1 DEF IInv, BatchStands, GroupOf, Src, UidsStillValid
    <3>. QED BY <1>1, <2>1, <3>2
  <2>4. CASE pc \in InMove /\ conn /\ batch' \subseteq batch /\ UNCHANGED group
    <3>1. InPlace(i) \/ Arrived(i)
      BY <1>2, <2>4 DEF Receipts, Whereabouts
    <3>2. ~ Renumbered(Plan[i].src)
      <4>1. Plan[i].src = selected
        BY <1>2, <2>4 DEF IInv, BatchStands, GroupOf, SessionInPlace, Src
      <4>. QED BY <1>2, <4>1 DEF Renumbered
    <3>. QED BY <2>1, <3>1, <3>2, WhereStays
  <2>5. Placed
    BY DEF IInv, BatchStands, Placed
  <2>. QED BY <1>2, <2>2, <2>3, <2>4, <2>5, InvTyped, MoveGoesOn
<1>. QED BY <1>1, <1>2 DEF Whereabouts

\* What is known of a message that a command has reached stays true.
LEMMA AchievedStays ==
  ASSUME IInv, Receipts, [Next]_vars, pc = "await", NEW i \in Items, i \in Target \ left
  PROVE  /\ Arrived(i)'
         /\ command = "MOVE" => Gone(i)'
         /\ command = "EXPUNGE" /\ wire = "ok" => Gone(i)'
BY ArrivedStays, GoneStays DEF Receipts, CommandsAchieve

\* The steps that go on waiting for the answer to the same command.
SameCommand == /\ pc = "await"
               /\ UNCHANGED <<pc, command, batch, trying, left>>
               /\ wire' = wire \/ (wire' = "no" /\ (ServerRefusesPoison \/ ServerRefuses))
               /\ \/ UNCHANGED <<box, deleted, validity, touched>>
                  \/ Owner \/ \E f \in Folders : Renumbered(f)

Reaches == \E i \in Items : ServerMoves(i) \/ ServerCopies(i)

LEMMA AwaitSteps ==
  ASSUME [Next]_vars, pc' = "await"
  PROVE  \/ Send \/ CopyContinues \/ RollBackFlag \/ Reaches
         \/ ServerFlags \/ ServerExpunges \/ SameCommand
<1>1. Drop \/ Owner \/ (\E f \in Folders : Renumbered(f)) \/ (\E i \in Items : Record(i))
        \/ UNCHANGED vars \/ ServerRefusesPoison \/ ServerRefuses => SameCommand
  BY DEF Drop, Owner, Renumbered, Record, ServerRefusesPoison, ServerRefuses, ClientWaits,
         vars, mailVars, serverVars, moveVars, procVars, SameCommand
<1>2. Start \/ Finish \/ EnsureFolder \/ TakeBatch \/ FetchIdentity \/ MoveReturns
        \/ MoveRaises \/ Reconnect \/ Traceback \/ ReconnectUnreachable \/ Abort \/ Crash
        \/ (\E i \in Items : OpenGroup(i)) => pc' # "await"
  BY DEF Start, Finish, EnsureFolder, TakeBatch, FetchIdentity, MoveReturns, MoveRaises,
         Reconnect, Traceback, ReconnectUnreachable, Abort, Crash, OpenGroup, Quit,
         OneTried, AfterBatch, AfterLastAttempt
<1>. QED BY <1>1, <1>2 DEF Next, ProcessWorks, ServerWorks, Mishap, Reaches

LEMMA TargetInItems ==
  ASSUME IInv PROVE Target \subseteq Items /\ Target \subseteq batch
BY DEF IInv, TypeOK, ItemsInOnePlace, Target

\* The message that a command reaches now.
LEMMA ReachedNow ==
  ASSUME IInv, Receipts, [Next]_vars, NEW i \in Items, ServerMoves(i) \/ ServerCopies(i)
  PROVE  Arrived(i)' /\ (command = "MOVE" => Gone(i)')
<1>0. ServerTypeOK /\ NothingAhead /\ pc \in InMove /\ i \in batch /\ conn
      /\ At(i) = Slot(i) /\ Dst = Plan[i].dst /\ NoKey \notin Keys /\ Plan[i].key \in Keys
      /\ box[Slot(i)] \in {Plan[i].key, NoKey}
  BY InvTyped, Reaching, PlannedSlots, ServerAssumption DEF InMove, ServerAssumption
<1>1. CASE ~ Occupied(Slot(i))
  <2>1. Arrived(i)
    BY <1>0, <1>1 DEF Receipts, Whereabouts, InPlace, Occupied
  <2>2. Gone(i)
    BY <1>1 DEF Gone
  <2>. QED BY <2>1, <2>2, ArrivedStays, GoneStays
<1>2. CASE Occupied(Slot(i))
  <2>1. box[Slot(i)] = Plan[i].key
    BY <1>0, <1>2 DEF Occupied
  <2>2. /\ Put(At(i), Dst) \in Slots /\ box'[Put(At(i), Dst)] = Plan[i].key
        /\ command = "MOVE" => box'[Slot(i)] = NoKey
    <3>0. Occupied(At(i)) /\ At(i) \in Slots /\ Dst \in Folders
      BY <1>0, <1>2, Reaching
    <3>1. CASE ServerMoves(i)
      <4>1. MoveOne(At(i), Dst)
        BY <3>1 DEF ServerMoves
      <4>. QED BY <1>0, <2>1, <3>0, <4>1, MoveEffect
    <3>2. CASE ServerCopies(i)
      <4>1. CopyOne(At(i), Dst) /\ command = "COPY"
        BY <3>2 DEF ServerCopies, Serving
      <4>. QED BY <1>0, <2>1, <3>0, <4>1, CopyEffect
    <3>. QED BY <3>1, <3>2
  <2>3. nextUid[Dst] \in Uids /\ Put(At(i), Dst) = <<Plan[i].dst, nextUid[Dst]>>
    BY <1>0, <2>2 DEF Put, Slots
  <2>4. \E u \in Uids : box'[<<Plan[i].dst, u>>] = Plan[i].key
    BY <2>2, <2>3
  <2>. QED BY <2>2, <2>4 DEF Arrived, Holds, Gone, Occupied
<1>. QED BY <1>1, <1>2

\* Once STORE has succeeded, what is left of the batch in its folder is flagged.
FlaggedForExpunge ==
  pc = "await" /\ conn /\ (command = "EXPUNGE" \/ (command = "STORE" /\ wire = "ok")) =>
    \A i \in Target : Plan[i].key \notin touched /\ Occupied(Slot(i)) => Slot(i) \in deleted

LEMMA FlaggedStep ==
  ASSUME IInv, FlaggedForExpunge, [Next]_vars
  PROVE  FlaggedForExpunge'
<1>. SUFFICES ASSUME pc' = "await", conn',
                     command' = "EXPUNGE" \/ (command' = "STORE" /\ wire' = "ok"),
                     NEW i \in Target', Plan[i].key \notin touched', Occupied(Slot(i))'
              PROVE  Slot(i) \in deleted'
  BY DEF FlaggedForExpunge
<1>1. CASE Send
  BY <1>1 DEF Send, FirstCommand
<1>2. CASE CopyContinues
  <2>1. pc = "await" /\ wire = "ok" /\ command = "STORE" /\ UNCHANGED <<box, deleted, touched>>
    BY <1>2 DEF CopyContinues, NextCommand, serverVars
  <2>2. i \in Target /\ conn
    <3>1. UNCHANGED <<conn, batch, trying>>
      BY <1>2 DEF CopyContinues, sessionVars, procVars
    <3>2. i \in Target
      BY <3>1 DEF Target
    <3>. QED BY <3>1, <3>2, Zenon
  <2>. QED BY <2>1, <2>2 DEF FlaggedForExpunge, Occupied
<1>3. CASE RollBackFlag
  BY <1>3 DEF RollBackFlag
<1>4. CASE Reaches
  BY <1>4 DEF Reaches, ServerMoves, ServerCopies, Serving, ClientWaits
<1>5. CASE ServerFlags
  <2>1. pc = "await" /\ conn /\ command = "STORE" /\ i \in Target /\ box' = box
    BY <1>5 DEF ServerFlags, Serving, ClientWaits, procVars, Target
  <2>2. At(i) = Slot(i)
    BY <2>1, TargetsArePlanned, TargetInItems
  <2>. QED BY <1>5, <2>1, <2>2 DEF ServerFlags, TargetSlots, Occupied
<1>6. CASE ServerExpunges
  <2>1. pc = "await" /\ conn /\ command = "EXPUNGE" /\ i \in Target /\ touched' = touched
    BY <1>6 DEF ServerExpunges, Serving, ClientWaits, procVars, Target
  <2>2. At(i) = Slot(i) /\ Slot(i) \in TargetSlots /\ i \in Items
    BY <2>1, TargetsArePlanned, TargetInItems DEF TargetSlots
  <2>3. box'[Slot(i)] = IF Slot(i) \in TargetSlots \cap deleted THEN NoKey ELSE box[Slot(i)]
    BY <1>6, <2>2, PlannedSlots DEF ServerExpunges, ExpungeSlots, ExpungeNames
  <2>4. Occupied(Slot(i)) => Slot(i) \in deleted
    BY <2>1 DEF FlaggedForExpunge
  <2>. QED BY <2>2, <2>3, <2>4 DEF Occupied
<1>7. CASE SameCommand
  <2>1. /\ pc = "await" /\ i \in Target /\ i \in Items /\ i \in batch
        /\ command = "EXPUNGE" \/ (command = "STORE" /\ wire = "ok")
    BY <1>7, TargetInItems DEF SameCommand, Target
  <2>2. conn /\ Plan[i].src = selected
    <3>1. conn
      <4>1. Placed
        BY DEF IInv, BatchStands, Placed
      <4>. QED BY <2>1, <4>1, InvTyped, MoveGoesOn DEF FetchIdentity, Reconnect, InMove
    <3>2. Plan[i].src = selected
      BY <2>1 DEF IInv, BatchStands, GroupOf, SessionInPlace, Src, InMove
    <3>. QED BY <3>1, <3>2
  <2>3. /\ box[Slot(i)] \in {Plan[i].key, NoKey} /\ Plan[i].key \in Keys
        /\ Slot(i) \in Slots /\ Slot(i)[1] = Plan[i].src
    BY <2>1, <2>2, TargetsArePlanned, PlannedSlots
  <2>4. Plan[i].key \notin touched /\ (Occupied(Slot(i)) => Slot(i) \in deleted)
    BY <2>1, <2>2, TouchedGrows DEF FlaggedForExpunge
  <2>5. CASE UNCHANGED <<box, deleted, validity, touched>>
    BY <2>4, <2>5 DEF Occupied
  <2>6. CASE Owner
    <3>1. Plan[i].uid < nextUid[Plan[i].src] /\ Slot(i)[2] = Plan[i].uid
      BY <2>1, PlannedSlots DEF IInv, UidsAreFresh, NothingAhead
    <3>2. box'[Slot(i)] \in {box[Slot(i)], NoKey}
      BY <2>3, <2>6, <3>1, InvTyped, OwnerKeeps DEF Owner, Keeps
    <3>3. Occupied(Slot(i)) /\ box[Slot(i)] = Plan[i].key
      BY <2>3, <3>2 DEF Occupied
    <3>. QED BY <2>3, <2>4, <2>6, <3>3, InvTyped, OwnerEffect DEF Owner
  <2>7. ASSUME NEW f \in Folders, Renumbered(f) PROVE Slot(i) \in deleted'
    <3>1. selected # f
      BY <2>7, Zenon DEF Renumbered
    <3>. QED BY <2>2, <2>3, <2>4, <2>7, <3>1, InvTyped, RenumberingKeepsMail DEF Occupied
  <2>. QED BY <1>7, <2>5, <2>6, <2>7 DEF SameCommand
<1>. QED BY <1>1, <1>2, <1>3, <1>4, <1>5, <1>6, <1>7, AwaitSteps

LEMMA AchievementStep ==
  ASSUME IInv, Receipts, CommandsInOrder, [Next]_vars
  PROVE  CommandsAchieve'
<1>1. FlaggedForExpunge'
  <2>1. FlaggedForExpunge
    BY DEF Receipts, CommandsAchieve, FlaggedForExpunge
  <2>. QED BY <2>1, FlaggedStep
<1>2. ASSUME pc' = "await", NEW i \in Target', i \notin left'
      PROVE  /\ Arrived(i)'
             /\ command' = "MOVE" => Gone(i)'
             /\ command' = "EXPUNGE" /\ wire' = "ok" => Gone(i)'
  <2>1. CASE Send
    BY <1>2, <2>1 DEF Send, Target
  <2>2. CASE CopyContinues
    <3>1. pc = "await" /\ left = {} /\ i \in Target /\ wire' = "sent" /\ command' # "MOVE"
      BY <1>2, <2>2 DEF CopyContinues, NextCommand, CommandsInOrder, Target, procVars
    <3>. QED BY <3>1, AchievedStays, TargetInItems
  <2>3. CASE RollBackFlag
    <3>1. pc = "await" /\ i \in Target \ left /\ command' = "ROLLBACK"
      BY <1>2, <2>3 DEF RollBackFlag, Target, procVars
    <3>. QED BY <3>1, AchievedStays, TargetInItems
  <2>4. ASSUME NEW j \in Items, ServerMoves(j) \/ ServerCopies(j)
        PROVE  Arrived(i)' /\ (command' = "MOVE" => Gone(i)') /\ command' # "EXPUNGE"
    <3>1. /\ pc = "await" /\ i \in Target /\ left' = left \ {j} /\ command' = command
          /\ command # "EXPUNGE"
      BY <1>2, <2>4 DEF ServerMoves, ServerCopies, Serving, Reached, ClientWaits, procVars, Target
    <3>2. CASE i = j
      BY <2>4, <3>1, <3>2, ReachedNow
    <3>3. CASE i # j
      BY <1>2, <3>1, <3>3, AchievedStays, TargetInItems
    <3>. QED BY <3>1, <3>2, <3>3
  <2>5. CASE ServerFlags
    <3>1. pc = "await" /\ i \in Target \ left /\ command' \in {"STORE", "ROLLBACK"}
      BY <1>2, <2>5 DEF ServerFlags, Serving, ClientWaits, procVars, Target
    <3>. QED BY <3>1, AchievedStays, TargetInItems
  <2>6. CASE ServerExpunges
    <3>1. /\ pc = "await" /\ i \in Target \ left /\ conn
          /\ command = "EXPUNGE" /\ command' = "EXPUNGE" /\ touched' = touched
      BY <1>2, <2>6 DEF ServerExpunges, Serving, ClientWaits, procVars, Target
    <3>2. i \in Items /\ At(i) = Slot(i) /\ Slot(i) \in TargetSlots /\ Slot(i) \in Slots
      BY <3>1, TargetsArePlanned, TargetInItems, PlannedSlots DEF TargetSlots
    <3>3. box'[Slot(i)] = IF Slot(i) \in TargetSlots \cap deleted THEN NoKey ELSE box[Slot(i)]
      BY <2>6, <3>2 DEF ServerExpunges, ExpungeSlots, ExpungeNames
    <3>4. Plan[i].key \notin touched /\ Occupied(Slot(i)) => Slot(i) \in deleted
      BY <3>1 DEF Receipts, CommandsAchieve
    <3>5. Gone(i)'
      BY <3>1, <3>2, <3>3, <3>4 DEF Gone, Occupied
    <3>. QED BY <3>1, <3>2, <3>5, AchievedStays
  <2>7. CASE SameCommand
    <3>1. /\ pc = "await" /\ i \in Target \ left /\ command' = command
          /\ (wire' = "ok" => wire = "ok")
      BY <1>2, <2>7 DEF SameCommand, Target
    <3>. QED BY <3>1, AchievedStays, TargetInItems
  <2>. QED
    BY <1>2, <2>1, <2>2, <2>3, <2>4, <2>5, <2>6, <2>7, AwaitSteps DEF Reaches
<1>. QED BY <1>1, <1>2 DEF FlaggedForExpunge, CommandsAchieve

\* Where each verdict comes from.
LEMMA VerdictStep ==
  ASSUME IInv, [Next]_vars, NEW i \in Items, NEW v \in Verdicts,
         fate'[i] = v \/ verdict'[i] = v
  PROVE  \/ fate[i] = v \/ verdict[i] = v
         \/ v = "uidvalidity_changed"
         \/ v = "done" /\ MoveReturns /\ i \in Target
         \/ v = "move_failed" /\ MoveRaises /\ trying # {} /\ i \in Target
         \/ v = "already_moved" /\ AlreadyMoved(Plan[i].key, Plan[i].dst)
         \/ /\ v \in {"vanished", "identity_mismatch"}
            /\ pc = "fetch" /\ i \in batch /\ ~ Confirmed(i)
<1>0. fate \in [Items -> Fates] /\ verdict \in [Items -> Fates] /\ v # "pending"
  BY DEF IInv, TypeOK, Verdicts
<1>1. UNCHANGED <<fate, verdict>> => fate[i] = v \/ verdict[i] = v
  OBVIOUS
<1>2. ASSUME NEW j \in Items, Record(j) PROVE fate[i] = v \/ verdict[i] = v
  BY <1>0, <1>2 DEF Record
<1>3. ASSUME NEW r, Quit(r), UNCHANGED fate PROVE fate[i] = v
  BY <1>0, <1>3 DEF Quit, Undecided
<1>4. ASSUME NEW S, NEW w, Judge(S, w), UNCHANGED fate
      PROVE  fate[i] = v \/ verdict[i] = v \/ (i \in S /\ v = w)
  BY <1>4 DEF Judge
<1>5. CASE TakeBatch
  <2>1. PICK b \in SUBSET Rest :
          Judge({j \in b : AlreadyMoved(Plan[j].key, Plan[j].dst)}, "already_moved")
    <3>1. PICK b \in SUBSET Rest :
            Judge(b \ {j \in b : ~ AlreadyMoved(Plan[j].key, Plan[j].dst)}, "already_moved")
      BY <1>5 DEF TakeBatch
    <3>2. b \ {j \in b : ~ AlreadyMoved(Plan[j].key, Plan[j].dst)}
            = {j \in b : AlreadyMoved(Plan[j].key, Plan[j].dst)}
      OBVIOUS
    <3>. QED BY <3>1, <3>2
  <2>2. UNCHANGED fate
    BY <1>5 DEF TakeBatch, dbVars
  <2>. QED BY <1>4, <2>1, <2>2
<1>6. CASE FetchIdentity
  BY <1>0, <1>6 DEF FetchIdentity, dbVars
<1>7. ASSUME NEW j \in Items, OpenGroup(j)
      PROVE  fate[i] = v \/ verdict[i] = v \/ v = "uidvalidity_changed"
  <2>1. \E S : Judge(S, "uidvalidity_changed")
    BY <1>7 DEF OpenGroup, FailItems
  <2>. QED BY <1>4, <1>7, <2>1 DEF OpenGroup, dbVars
<1>8. CASE MoveReturns
  <2>1. UNCHANGED fate
    BY <1>8 DEF MoveReturns, dbVars
  <2>2. CASE OneTried("done")
    BY <1>8, <2>1, <2>2 DEF OneTried, Judge
  <2>3. CASE trying = {} /\ Judge(batch, "done")
    BY <1>8, <2>1, <2>3 DEF Judge, Target
  <2>. QED BY <1>8, <2>2, <2>3 DEF MoveReturns
<1>9. CASE MoveRaises
  <2>1. (trying # {} /\ Judge(Target, "move_failed")) \/ UNCHANGED verdict
    BY <1>9 DEF MoveRaises, OneTried, AfterLastAttempt
  <2>. QED BY <1>1, <1>4, <1>9, <2>1 DEF MoveRaises, dbVars
<1>10. CASE Reconnect
  <2>1. Judge(Lost, "uidvalidity_changed") \/ UNCHANGED verdict
    BY <1>10 DEF Reconnect
  <2>. QED BY <1>1, <1>4, <1>10, <2>1 DEF Reconnect, dbVars
<1>11. Finish \/ Traceback \/ ReconnectUnreachable \/ Abort \/ Crash
         => (\E r : Quit(r)) /\ UNCHANGED fate
  BY DEF Finish, Traceback, ReconnectUnreachable, Abort, Crash, dbVars
<1>12. Start \/ EnsureFolder \/ Send \/ CopyContinues \/ RollBackFlag \/ ServerWorks
         \/ ServerRefuses \/ Drop \/ Owner \/ (\E f \in Folders : Renumbered(f)) \/ UNCHANGED vars
       => UNCHANGED <<fate, verdict>>
  BY DEF Start, EnsureFolder, Send, CopyContinues, RollBackFlag, ServerWorks, ServerMoves,
         ServerCopies, ServerFlags, ServerExpunges, ServerRefusesPoison, ServerRefuses,
         ClientWaits, Drop, Owner, Renumbered, vars, dbVars, procVars
<1>. QED
  BY <1>1, <1>2, <1>3, <1>5, <1>6, <1>7, <1>8, <1>9, <1>10, <1>11, <1>12
  DEF Next, ProcessWorks, Mishap

LEMMA DoneStep ==
  ASSUME IInv, Receipts, CommandsInOrder, [Next]_vars
  PROVE  DoneIsTrue'
<1>. SUFFICES ASSUME NEW i \in Items, fate'[i] = "done" \/ verdict'[i] = "done"
              PROVE  Arrived(i)' /\ Gone(i)'
  BY DEF DoneIsTrue
<1>1. CASE fate[i] = "done" \/ verdict[i] = "done"
  BY <1>1, ArrivedStays, GoneStays DEF Receipts, DoneIsTrue
<1>2. CASE MoveReturns /\ i \in Target
  <2>1. pc = "await" /\ wire = "ok" /\ command \in {"MOVE", "EXPUNGE"}
    BY <1>2 DEF MoveReturns, LastCommands
  <2>2. left = {}
    BY <2>1 DEF CommandsInOrder
  <2>. QED BY <1>2, <2>1, <2>2, AchievedStays
<1>. QED BY <1>1, <1>2, VerdictStep DEF Verdicts

LEMMA ReceiptsInit == Init => Receipts
<1>. SUFFICES ASSUME Init PROVE Receipts
  OBVIOUS
<1>1. PICK l \in Layouts : box = l.box
  BY DEF Init
<1>2. \A i \in Items : InPlace(i)
  BY <1>1, LayoutAssumption DEF LayoutAssumption, InPlace
<1>. QED
  BY <1>2 DEF Init, Receipts, Whereabouts, CommandsAchieve, DoneIsTrue, InMove, Undecided

\* Every stage of a move has achieved what the next one and the index rely on.
THEOREM ReceiptsHold == Spec => []Receipts
<1>1. IInv /\ Custody /\ Receipts /\ [Next]_vars => Receipts'
  BY WhereaboutsStep, AchievementStep, DoneStep DEF Custody, Receipts
<1>. QED BY <1>1, ReceiptsInit, CustodyHolds, Invariance, PTL DEF Spec

\* A move that the log records has happened: for every plan and every failure, the
\* message is in its new folder and its old place is empty.
THEOREM RecordedMovesAreReal == Spec => []RecordedMoveIsReal
<1>1. Receipts => RecordedMoveIsReal
  BY DEF Receipts, DoneIsTrue, Arrived, Gone, RecordedMoveIsReal
<1>. QED BY <1>1, ReceiptsHold, PTL

-----------------------------------------------------------------------------
(* Filing.                                                                  *)

\* The log grows by the row of an item that is done.
LEMMA LogStep ==
  ASSUME IInv, [Next]_vars
  PROVE  \/ moves' = moves
         \/ \E j \in Items : /\ Record(j) /\ verdict[j] = "done"
                             /\ moves' = Append(moves, Row(j))
<1>1. ASSUME NEW j \in Items, Record(j)
      PROVE  moves' = moves \/ (verdict[j] = "done" /\ moves' = Append(moves, Row(j)))
  BY <1>1 DEF Record, LogMove
<1>2. ASSUME NEW i \in Items, OpenGroup(i) PROVE moves' = moves
  BY <1>2 DEF OpenGroup, dbVars
<1>3. Start \/ Finish \/ EnsureFolder \/ TakeBatch \/ FetchIdentity \/ Send
        \/ CopyContinues \/ RollBackFlag \/ MoveReturns \/ MoveRaises \/ Reconnect
      => moves' = moves
  BY DEF Start, Finish, EnsureFolder, TakeBatch, FetchIdentity, Send, CopyContinues,
         RollBackFlag, MoveReturns, MoveRaises, Reconnect, dbVars
<1>4. ServerWorks \/ Traceback \/ Mishap \/ Owner \/ UNCHANGED vars => moves' = moves
  BY DEF ServerWorks, ServerMoves, ServerCopies, ServerFlags, ServerExpunges,
         ServerRefusesPoison, ServerRefuses, ClientWaits, Traceback, Mishap,
         ReconnectUnreachable, Abort, Crash, Drop, Renumbered, Owner, vars, dbVars
<1>. QED BY <1>1, <1>2, <1>3, <1>4 DEF Next, ProcessWorks

\* What the log says of a key after a row has been added.
LEMMA AppendedLog ==
  ASSUME IInv, NEW j \in Items, moves' = Append(moves, Row(j)), NEW k, NEW d
  PROVE  /\ Plan[j].key = k => (AlreadyMoved(k, d)' <=> Plan[j].dst = d)
         /\ Plan[j].key # k => (AlreadyMoved(k, d)' <=> AlreadyMoved(k, d))
<1>1. moves \in Seq(Rows) /\ Row(j) \in Rows /\ Row(j).key = Plan[j].key /\ Row(j).dst = Plan[j].dst
  BY PlanAssumption DEF PlanAssumption, IInv, TypeOK, Row, Rows
<1>2. /\ Len(moves) \in Nat /\ Len(moves') = Len(moves) + 1
      /\ moves'[Len(moves) + 1] = Row(j)
      /\ \A n \in 1..Len(moves) : moves'[n] = moves[n]
  BY <1>1
<1>3. ASSUME Plan[j].key = k PROVE AlreadyMoved(k, d)' <=> Plan[j].dst = d
  <2>1. \A n \in 1..Len(moves') : LastRow(k, n)' <=> n = Len(moves) + 1
    BY <1>1, <1>2, <1>3 DEF LastRow
  <2>. QED BY <1>1, <1>2, <2>1 DEF AlreadyMoved
<1>4. ASSUME Plan[j].key # k PROVE AlreadyMoved(k, d)' <=> AlreadyMoved(k, d)
  <2>1. \A n \in 1..Len(moves') : n = Len(moves) + 1 => ~ LastRow(k, n)'
    BY <1>1, <1>2, <1>4 DEF LastRow
  <2>2. \A n \in 1..Len(moves) : LastRow(k, n)' <=> LastRow(k, n)
    <3>1. ASSUME NEW n \in 1..Len(moves), LastRow(k, n) PROVE LastRow(k, n)'
      BY <1>1, <1>2, <1>4, <3>1 DEF LastRow
    <3>2. ASSUME NEW n \in 1..Len(moves), LastRow(k, n)' PROVE LastRow(k, n)
      BY <1>1, <1>2, <1>4, <3>2 DEF LastRow
    <3>. QED BY <3>1, <3>2
  <2>3. 1..Len(moves') = (1..Len(moves)) \cup {Len(moves) + 1}
    BY <1>2
  <2>4. AlreadyMoved(k, d)' <=> \E n \in 1..Len(moves) : LastRow(k, n) /\ moves[n].dst = d
    <3>1. ASSUME NEW n \in 1..Len(moves'), LastRow(k, n)', moves'[n].dst = d
          PROVE  n \in 1..Len(moves) /\ LastRow(k, n) /\ moves[n].dst = d
      BY <1>2, <2>1, <2>2, <2>3, <3>1
    <3>2. ASSUME NEW n \in 1..Len(moves), LastRow(k, n), moves[n].dst = d
          PROVE  n \in 1..Len(moves') /\ LastRow(k, n)' /\ moves'[n].dst = d
      BY <1>2, <2>2, <2>3, <3>2
    <3>. QED BY <3>1, <3>2 DEF AlreadyMoved
  <2>. QED BY <2>4 DEF AlreadyMoved
<1>. QED BY <1>3, <1>4

LEMMA LoggedStep ==
  ASSUME IInv, Receipts, Filing, [Next]_vars, NEW i \in Items,
         AlreadyMoved(Plan[i].key, Plan[i].dst)'
  PROVE  Arrived(i)'
<1>1. CASE moves' = moves
  <2>1. AlreadyMoved(Plan[i].key, Plan[i].dst)
    BY <1>1 DEF AlreadyMoved, LastRow
  <2>. QED BY <2>1, ArrivedStays DEF Filing
<1>2. ASSUME NEW j \in Items, verdict[j] = "done", moves' = Append(moves, Row(j))
      PROVE  Arrived(i)'
  <2>1. CASE Plan[j].key = Plan[i].key
    <3>1. Arrived(j)' /\ Plan[j].dst = Plan[i].dst
      BY <1>2, <2>1, AppendedLog, ArrivedStays DEF Receipts, DoneIsTrue
    <3>. QED BY <2>1, <3>1 DEF Arrived
  <2>2. CASE Plan[j].key # Plan[i].key
    <3>1. AlreadyMoved(Plan[i].key, Plan[i].dst)
      BY <1>2, <2>2, AppendedLog
    <3>. QED BY <3>1, ArrivedStays DEF Filing
  <2>. QED BY <2>1, <2>2
<1>. QED BY <1>1, <1>2, LogStep

LEMMA FilingStep ==
  ASSUME IInv, Receipts, Filing, [Next]_vars
  PROVE  Filing'
<1>1. \A i \in Items : AlreadyMoved(Plan[i].key, Plan[i].dst)' => Arrived(i)'
  BY LoggedStep
<1>2. ASSUME NEW i \in Items, fate'[i] \in Skips \/ verdict'[i] \in Skips,
             UidsStillValid(Plan[i].src)'
      PROVE  Arrived(i)'
  <2>1. UidsStillValid(Plan[i].src)
    BY <1>2, ValidityStep, PlannedSlots
  <2>2. CASE fate[i] \in Skips \/ verdict[i] \in Skips \/ AlreadyMoved(Plan[i].key, Plan[i].dst)
    BY <2>1, <2>2, ArrivedStays DEF Filing
  <2>3. CASE pc = "fetch" /\ i \in batch /\ ~ Confirmed(i)
    <3>1. Plan[i].src = selected
      BY <2>3 DEF IInv, BatchStands, GroupOf, SessionInPlace, Src
    <3>2. ~ InPlace(i)
      BY <2>3, <3>1 DEF Confirmed, At, Slot, InPlace
    <3>3. Arrived(i)
      BY <2>1, <3>2 DEF Receipts, Whereabouts
    <3>. QED BY <3>3, ArrivedStays
  <2>4. PICK v \in Skips : fate'[i] = v \/ verdict'[i] = v
    BY <1>2
  <2>. QED BY <2>2, <2>3, <2>4, VerdictStep DEF Skips, Verdicts
<1>3. \A i \in Items : (AlreadyMoved(Plan[i].key, Plan[i].dst) => Arrived(i))'
  BY <1>1
<1>. QED BY <1>2, <1>3 DEF Filing

LEMMA FilingInit == HistoryIsTrue /\ Init => Filing
<1>. SUFFICES ASSUME HistoryIsTrue, Init, NEW i \in Items
              PROVE  /\ AlreadyMoved(Plan[i].key, Plan[i].dst) => Arrived(i)
                     /\ fate[i] \notin Skips /\ verdict[i] \notin Skips
  BY DEF Filing
<1>1. PICK l \in Layouts : box = l.box
  BY DEF Init
<1>2. ASSUME NEW n \in 1..Len(moves), LastRow(Plan[i].key, n), moves[n].dst = Plan[i].dst
      PROVE  Arrived(i)
  BY <1>1, <1>2 DEF Init, HistoryIsTrue, LastRow, Arrived, Holds
<1>. QED BY <1>2 DEF Init, AlreadyMoved, Undecided, Skips

\* When the log of earlier runs tells of mail that is still there, what apply
\* passes over for its sake, or because it is gone, has arrived.
THEOREM FilingHolds == ASSUME HistoryIsTrue PROVE Spec => []Filing
<1>1. Init => Filing
  BY FilingInit
<1>2. IInv /\ Receipts /\ Filing /\ [Next]_vars => Filing'
  BY FilingStep
<1>. QED BY <1>1, <1>2, ReceiptsHold, Invariance, PTL DEF Spec

\* A skipped item is no loss: its message is in the folder it was meant for.
THEOREM SkipsAreFiled == ASSUME HistoryIsTrue PROVE Spec => []SkippedMailIsFiled
<1>1. Filing => SkippedMailIsFiled
  BY DEF Filing, Arrived, SkippedMailIsFiled
<1>. QED BY <1>1, FilingHolds, PTL

-----------------------------------------------------------------------------
(* While nothing goes wrong, only the messages that the server refuses     *)
(* fail, and the log is complete.                                           *)

LEMMA OneByOneStep ==
  ASSUME IInv, OneByOne, [Next]_vars
  PROVE  OneByOne'
<1>0. /\ verdict \in [Items -> Fates]
      /\ trying # {} => pc \in {"send", "await"}
  BY DEF IInv, TypeOK, ItemsInOnePlace
<1>1. ASSUME UNCHANGED <<trying, verdict>>, pc' \in {"await", "retry"} => pc = pc'
      PROVE  OneByOne'
  BY <1>1 DEF OneByOne, Settled
<1>2. CASE Send
  BY <1>2 DEF Send, OneByOne, Settled
<1>3. CASE trying' = {} /\ pc' \notin {"await", "retry"}
  BY <1>3 DEF OneByOne
<1>4. ASSUME NEW v \in {"done", "move_failed"}, OneTried(v) PROVE OneByOne'
  <2>1. /\ trying # {}
        /\ verdict' = [i \in Items |-> IF i \in Target THEN v ELSE verdict[i]]
        /\ pc' = IF trying' = {} THEN AfterBatch(todo) ELSE "send"
    BY <1>4 DEF OneTried, Judge
  <2>2. pc' \notin {"await", "retry"}
    BY <2>1 DEF AfterBatch
  <2>. QED BY <2>1, <2>2 DEF OneByOne
<1>5. CASE MoveReturns
  <2>1. CASE OneTried("done")
    BY <1>4, <2>1
  <2>2. CASE trying = {} /\ pc' = AfterBatch(todo) /\ UNCHANGED <<trying, attempt>>
    BY <1>3, <2>2 DEF AfterBatch
  <2>. QED BY <1>5, <2>1, <2>2 DEF MoveReturns
<1>6. CASE MoveRaises
  <2>1. CASE OneTried("move_failed")
    BY <1>4, <2>1
  <2>2. CASE trying = {} /\ pc = "await" /\ UNCHANGED verdict
    BY <2>2 DEF OneByOne, Settled, Undecided
  <2>. QED BY <1>6, <2>1, <2>2 DEF MoveRaises, AfterLastAttempt
<1>7. ASSUME NEW i \in Items, Record(i) PROVE OneByOne'
  <2>1. trying = {} /\ trying' = {} /\ pc' = pc /\ verdict[i] # "pending"
    BY <1>7 DEF Record, First, moveVars
  <2>2. ~ Settled
    BY <2>1 DEF Settled, Undecided
  <2>. QED BY <2>1, <2>2 DEF OneByOne
<1>8. FetchIdentity \/ TakeBatch \/ Reconnect \/ (\E i \in Items : OpenGroup(i))
        => trying' = {} /\ pc' \notin {"await", "retry"}
  BY <1>0 DEF FetchIdentity, TakeBatch, Reconnect, OpenGroup, AfterBatch, moveVars
<1>9. Finish \/ Traceback \/ ReconnectUnreachable \/ Abort \/ Crash
        => trying' = {} /\ pc' \notin {"await", "retry"}
  BY DEF Finish, Traceback, ReconnectUnreachable, Abort, Crash, Quit
<1>10. Start \/ EnsureFolder \/ CopyContinues \/ RollBackFlag \/ ServerWorks \/ ServerRefuses
         \/ Drop \/ Owner \/ (\E f \in Folders : Renumbered(f)) \/ UNCHANGED vars
       => UNCHANGED <<trying, verdict>> /\ (pc' \in {"await", "retry"} => pc = pc')
  BY DEF Start, EnsureFolder, CopyContinues, RollBackFlag, ServerWorks, ServerMoves,
         ServerCopies, ServerFlags, ServerExpunges, ServerRefusesPoison, ServerRefuses,
         ClientWaits, Drop, Owner, Renumbered, vars, moveVars, procVars
<1>. QED
  BY <1>1, <1>2, <1>3, <1>5, <1>6, <1>7, <1>8, <1>9, <1>10
  DEF Next, ProcessWorks, Mishap

\* The steps that are no fault.
Calm == Start \/ ProcessWorks \/ ServerWorks \/ Traceback \/ Crash \/ Owner \/ UNCHANGED vars

LEMMA CalmSteps ==
  ASSUME IInv, [Next]_vars, faults' = 0
  PROVE  faults = 0 /\ Calm /\ validity' = validity
<1>1. faults \in Nat
  BY ServerAssumption DEF IInv, TypeOK, ServerTypeOK, ServerAssumption
<1>2. ServerRefuses \/ ReconnectUnreachable \/ Abort \/ Drop
        \/ (\E f \in Folders : Renumbered(f)) => Fault
  BY DEF ServerRefuses, ReconnectUnreachable, Abort, Drop, Renumbered, Renumber
<1>3. ~ Fault
  BY <1>1 DEF Fault
<1>4. Calm
  BY <1>2, <1>3 DEF Next, Mishap, Calm
<1>5. Start \/ ProcessWorks \/ Traceback \/ Crash \/ UNCHANGED vars
        => UNCHANGED <<faults, validity>>
  BY DEF Start, ProcessWorks, Traceback, Crash, Finish, EnsureFolder, TakeBatch,
         FetchIdentity, Send, CopyContinues, RollBackFlag, MoveReturns, MoveRaises,
         Reconnect, Record, OpenGroup, serverVars, vars
<1>6. ServerWorks => UNCHANGED <<faults, validity>>
  BY DEF ServerWorks, ServerMoves, ServerCopies, ServerFlags, ServerExpunges,
         ServerRefusesPoison, ClientWaits
<1>7. Owner => UNCHANGED <<faults, validity>>
  BY DEF Owner, OwnerStep, OwnerExpunges, OwnerFlags, OwnerMoves, OwnerTouches
<1>. QED BY <1>4, <1>5, <1>6, <1>7 DEF Calm

Connected == validity = SurveyValidity /\ (pc # "idle" => conn)

Answers ==
  pc = "await" =>
    /\ command # "ROLLBACK"
    /\ wire = "no" => command # "EXPUNGE" /\ \E i \in Target : Plan[i].key \in Poison
    /\ command # "MOVE" => \A i \in Target \ left : box[Slot(i)] \notin Poison

PoisonFails ==
  \A i \in Items : fate[i] = "move_failed" \/ verdict[i] = "move_failed" => Plan[i].key \in Poison

PoisonStays ==
  \A i \in Items : Plan[i].key \in Poison \ touched => Holds(Plan[i].src, Plan[i].key)

LEMMA Parts == RefusalsOnly <=> Connected /\ Answers /\ PoisonFails /\ PoisonStays
BY DEF RefusalsOnly, Connected, Answers, PoisonFails, PoisonStays

LEMMA ConnectedStep ==
  ASSUME IInv, Connected, [Next]_vars, faults' = 0
  PROVE  Connected'
<1>1. validity' = SurveyValidity
  BY CalmSteps DEF Connected
<1>2. Start \/ Reconnect => conn' = TRUE
  BY DEF Start, Reconnect
<1>3. Finish \/ Traceback \/ Crash => pc' = "idle"
  BY DEF Finish, Traceback, Crash, Quit
<1>4. EnsureFolder \/ TakeBatch \/ FetchIdentity \/ Send \/ CopyContinues \/ RollBackFlag
        \/ MoveReturns \/ MoveRaises => conn' = conn /\ pc # "idle"
  BY DEF EnsureFolder, TakeBatch, FetchIdentity, Send, CopyContinues, RollBackFlag,
         MoveReturns, MoveRaises, sessionVars
<1>5. ASSUME NEW i \in Items, OpenGroup(i) PROVE conn' = conn /\ pc # "idle"
  BY <1>5 DEF OpenGroup
<1>6. (\E i \in Items : Record(i)) \/ ServerWorks \/ Owner \/ UNCHANGED vars
        => UNCHANGED <<conn, pc>>
  BY DEF Record, ServerWorks, ServerMoves, ServerCopies, ServerFlags, ServerExpunges,
         ServerRefusesPoison, ClientWaits, Owner, vars, sessionVars, procVars
<1>7. pc' # "idle" => conn' = TRUE \/ (conn' = conn /\ pc # "idle")
  BY <1>2, <1>3, <1>4, <1>5, <1>6, CalmSteps, Zenon DEF Calm, ProcessWorks
<1>. QED BY <1>1, <1>7, Zenon DEF Connected

\* A place that the plan names holds what it held or nothing.
LEMMA SlotsEmpty ==
  ASSUME IInv, [Next]_vars, faults' = 0, NEW i \in Items
  PROVE  box'[Slot(i)] \in {box[Slot(i)], NoKey}
<1>1. Keeps
  <2>1. ~ \E f \in Folders : Renumbered(f)
    <3>1. faults \in Nat
      BY ServerAssumption DEF IInv, TypeOK, ServerTypeOK, ServerAssumption
    <3>. QED BY <3>1 DEF Renumbered, Renumber, Fault
  <2>. QED BY <2>1, InvTyped, MailSteps
<1>. QED BY <1>1, PlannedSlots DEF Keeps, IInv, UidsAreFresh, NothingAhead

LEMMA PoisonIsKey == NoKey \notin Poison
BY PlanAssumption, ServerAssumption DEF PlanAssumption, ServerAssumption

LEMMA AnswersStep ==
  ASSUME IInv, CommandsInOrder, Connected, Answers, [Next]_vars, faults' = 0
  PROVE  Answers'
<1>. SUFFICES ASSUME pc' = "await" PROVE Answers'
  BY DEF Answers
<1>1. CASE Send
  BY <1>1 DEF Send, FirstCommand, Answers, Target
<1>2. CASE CopyContinues
  <2>1. /\ pc = "await" /\ left = {} /\ wire' = "sent" /\ command # "MOVE"
        /\ command' \in {"STORE", "EXPUNGE"} /\ Target' = Target /\ box' = box
    BY <1>2 DEF CopyContinues, CommandsInOrder, NextCommand, Target, procVars, serverVars
  <2>. QED BY <2>1 DEF Answers
<1>3. CASE RollBackFlag
  BY <1>3 DEF RollBackFlag, Answers
<1>4. ASSUME NEW j \in Items, ServerMoves(j) PROVE Answers'
  BY <1>4 DEF ServerMoves, Serving, Reached, ClientWaits, Answers
<1>5. ASSUME NEW j \in Items, ServerCopies(j) PROVE Answers'
  <2>1. /\ pc = "await" /\ conn /\ command' = "COPY" /\ wire' # "no" /\ Target' = Target
        /\ \A i \in Target : ~ Refused(i)
    BY <1>5 DEF ServerCopies, Serving, Reached, ClientWaits, Target, procVars
  <2>2. ASSUME NEW i \in Target PROVE box'[Slot(i)] \notin Poison
    <3>1. i \in Items /\ At(i) = Slot(i)
      BY <2>1, TargetsArePlanned, TargetInItems
    <3>. QED BY <2>1, <3>1, SlotsEmpty, PoisonIsKey DEF Refused
  <2>. QED BY <2>1, <2>2 DEF Answers
<1>6. CASE ServerFlags
  BY <1>6 DEF ServerFlags, Serving, ClientWaits, procVars, Answers, Target
<1>7. CASE ServerExpunges
  <2>1. /\ pc = "await" /\ command = "EXPUNGE" /\ command' = "EXPUNGE" /\ wire' = "ok"
        /\ Target' = Target /\ left' = left
    BY <1>7 DEF ServerExpunges, Serving, ClientWaits, procVars, Target
  <2>. QED BY <2>1, TargetInItems, SlotsEmpty, PoisonIsKey DEF Answers
<1>8. CASE SameCommand
  <2>1. pc = "await" /\ Target' = Target /\ left' = left /\ command' = command
    BY <1>8 DEF SameCommand, Target
  <2>2. \A i \in Target : box'[Slot(i)] \in Poison => box[Slot(i)] \in Poison
    BY TargetInItems, SlotsEmpty, PoisonIsKey
  <2>3. CASE wire' = wire
    BY <2>1, <2>2, <2>3 DEF Answers
  <2>4. CASE ServerRefusesPoison
    <3>1. PICK i \in left : Refused(i) /\ command \in {"MOVE", "COPY"}
      BY <2>4 DEF ServerRefusesPoison
    <3>2. conn /\ i \in Target
      BY <2>1, <2>4, <3>1 DEF ServerRefusesPoison, Serving, CommandsInOrder
    <3>3. At(i) = Slot(i) /\ box[Slot(i)] \in {Plan[i].key, NoKey}
      BY <2>1, <3>2, TargetsArePlanned, TargetInItems
    <3>4. Plan[i].key \in Poison
      BY <3>1, <3>3, PoisonIsKey DEF Refused
    <3>. QED BY <2>1, <2>2, <3>1, <3>2, <3>4 DEF Answers
  <2>5. ~ ServerRefuses
    <3>1. faults \in Nat
      BY ServerAssumption DEF IInv, TypeOK, ServerTypeOK, ServerAssumption
    <3>. QED BY <3>1 DEF ServerRefuses, Fault
  <2>. QED BY <1>8, <2>3, <2>4, <2>5 DEF SameCommand
<1>. QED BY <1>1, <1>2, <1>3, <1>4, <1>5, <1>6, <1>7, <1>8, AwaitSteps DEF Reaches

\* With a connection, only a refusal makes the attempt on one message fail.
LEMMA FailsStep ==
  ASSUME IInv, Connected, Answers, PoisonFails, [Next]_vars
  PROVE  PoisonFails'
<1>1. ASSUME NEW i \in Items, MoveRaises, trying # {}, i \in Target
      PROVE  Plan[i].key \in Poison
  <2>1. pc = "await" /\ wire = "no"
    <3>1. pc = "await" /\ conn
      BY <1>1 DEF MoveRaises, Connected
    <3>. QED BY <1>1, <3>1 DEF MoveRaises, Answers
  <2>2. PICK j \in Target : Plan[j].key \in Poison
    BY <2>1 DEF Answers
  <2>3. \A n \in Items : n \in Nat
    BY PlanAssumption DEF PlanAssumption
  <2>4. i \in trying /\ j \in trying /\ i <= j /\ j <= i /\ i \in Nat /\ j \in Nat
    BY <1>1, <2>3, TargetInItems DEF Target, First
  <2>. QED BY <2>2, <2>4
<1>. QED BY <1>1, VerdictStep DEF PoisonFails, Verdicts

LEMMA StaysStep ==
  ASSUME IInv, CommandsInOrder, Answers, PoisonStays, [Next]_vars, faults' = 0
  PROVE  PoisonStays'
<1>. SUFFICES ASSUME NEW i \in Items, Plan[i].key \in Poison, Plan[i].key \notin touched'
              PROVE  \E u \in Uids : box'[<<Plan[i].src, u>>] = Plan[i].key
  BY DEF PoisonStays, Holds
<1>1. PICK u \in Uids : box[<<Plan[i].src, u>>] = Plan[i].key
  BY TouchedGrows DEF PoisonStays, Holds
<1>2. <<Plan[i].src, u>> \in Slots /\ Occupied(<<Plan[i].src, u>>)
  BY <1>1, PlannedSlots, PoisonIsKey DEF Slots, Occupied
<1>3. CASE box'[<<Plan[i].src, u>>] = Plan[i].key
  BY <1>3
<1>4. ASSUME NEW j \in Items, Slot(j) = <<Plan[i].src, u>>, ServerMoves(j) PROVE FALSE
  BY <1>1, <1>4, Reaching DEF ServerMoves, Refused
<1>5. ASSUME NEW j \in Items, Slot(j) = <<Plan[i].src, u>>, ServerExpunges, j \in Target
      PROVE FALSE
  <2>1. pc = "await" /\ command = "EXPUNGE" /\ left = {}
    BY <1>5 DEF ServerExpunges, Serving, CommandsInOrder
  <2>. QED BY <1>1, <1>5, <2>1 DEF Answers
<1>6. ~ \E f \in Folders : Renumbered(f)
  <2>1. faults \in Nat
    BY ServerAssumption DEF IInv, TypeOK, ServerTypeOK, ServerAssumption
  <2>. QED BY <2>1 DEF Renumbered, Renumber, Fault
<1>. QED BY <1>1, <1>2, <1>3, <1>4, <1>5, <1>6, WhoActs

-----------------------------------------------------------------------------
(* The log.                                                                 *)

LEMMA InHandStep ==
  ASSUME IInv, OneByOne, Connected, PoisonFails', [Next]_vars, faults' = 0, crashes' = 0,
         NEW j \in Items, InHand(j)
  PROVE  \/ InHand(j)'
         \/ AlreadyMoved(Plan[j].key, Plan[j].dst)'
         \/ Plan[j].key \in Poison
<1>0. /\ verdict \in [Items -> Fates] /\ batch \subseteq Items
      /\ pc # "idle" => conn
      /\ Settled => verdict[j] # "done"
  BY DEF IInv, TypeOK, Connected, Settled, Undecided
<1>1. ASSUME UNCHANGED <<batch, verdict>>, pc' = pc \/ pc' \in InMove PROVE InHand(j)'
  BY <1>1 DEF InHand
<1>2. ASSUME Settled, pc \notin InMove PROVE FALSE
  BY <1>0, <1>2 DEF InHand
<1>3. ASSUME NEW v \in {"done", "move_failed"}, OneTried(v)
      PROVE  InHand(j)' \/ verdict'[j] = "move_failed"
  <2>1. /\ trying # {} /\ trying' = trying \ Target /\ Target \subseteq trying
        /\ verdict' = [i \in Items |-> IF i \in Target THEN v ELSE verdict[i]]
        /\ trying' # {} => batch' = batch /\ pc' = "send"
    BY <1>3 DEF OneTried, Judge, Target
  <2>2. CASE j \in Target
    BY <1>3, <2>1, <2>2 DEF InHand
  <2>3. CASE j \notin Target /\ verdict[j] # "pending"
    BY <2>1, <2>3 DEF OneByOne, InHand
  <2>4. CASE j \notin Target /\ verdict[j] = "pending"
    <3>1. j \in batch
      BY <2>4 DEF InHand
    <3>2. j \in trying
      BY <2>1, <2>4, <3>1 DEF IInv, NoItemForgotten
    <3>. QED BY <2>1, <2>4, <3>1, <3>2 DEF InHand, InMove
  <2>. QED BY <2>2, <2>3, <2>4
<1>4. CASE MoveReturns
  <2>1. CASE OneTried("done")
    BY <1>3, <2>1 DEF PoisonFails
  <2>2. CASE trying = {} /\ Judge(batch, "done")
    BY <1>0, <2>2 DEF Judge, InHand
  <2>. QED BY <1>4, <2>1, <2>2 DEF MoveReturns
<1>5. CASE MoveRaises
  <2>1. CASE OneTried("move_failed")
    BY <1>3, <2>1 DEF PoisonFails
  <2>2. CASE UNCHANGED <<batch, verdict>> /\ pc' \in {"retry", "send"}
    BY <1>1, <2>2 DEF InMove
  <2>. QED BY <1>5, <2>1, <2>2 DEF MoveRaises, AfterLastAttempt
<1>6. CASE Reconnect
  <2>1. StillTheSurveyedFolder(Src)
    BY DEF Connected, StillTheSurveyedFolder, UidsStillValid
  <2>2. UNCHANGED <<batch, verdict>> /\ pc' = "send"
    BY <1>6, <2>1 DEF Reconnect
  <2>. QED BY <1>1, <2>2 DEF InMove
<1>7. ASSUME NEW i \in Items, Record(i)
      PROVE  InHand(j)' \/ AlreadyMoved(Plan[j].key, Plan[j].dst)'
  <2>1. /\ UNCHANGED <<pc, batch>>
        /\ verdict' = [verdict EXCEPT ![i] = "pending"]
    BY <1>7 DEF Record
  <2>2. CASE i # j \/ verdict[j] # "done"
    BY <1>0, <2>1, <2>2 DEF InHand
  <2>3. CASE i = j /\ verdict[j] = "done"
    <3>1. moves' = Append(moves, Row(j))
      BY <1>7, <2>3 DEF Record, LogMove
    <3>. QED BY <3>1, AppendedLog
  <2>. QED BY <2>2, <2>3
<1>8. CASE TakeBatch \/ FetchIdentity \/ Finish \/ \E i \in Items : OpenGroup(i)
  BY <1>2, <1>8 DEF TakeBatch, FetchIdentity, Finish, OpenGroup, InMove
<1>9. CASE Start
  BY <1>2, <1>9 DEF Start, IInv, ItemsInOnePlace, Settled, InMove
<1>10. ~ Traceback
  <2>1. Traceback => ~ conn /\ pc # "idle"
    BY DEF Traceback
  <2>. QED BY <1>0, <2>1, Zenon
<1>11. ~ Crash
  BY DEF Crash, IInv, TypeOK
<1>12. EnsureFolder \/ Send \/ CopyContinues \/ RollBackFlag \/ ServerWorks \/ Owner
         \/ UNCHANGED vars => UNCHANGED <<batch, verdict>> /\ (pc' = pc \/ pc' \in InMove \/ pc = "ensure")
  BY DEF EnsureFolder, Send, CopyContinues, RollBackFlag, ServerWorks, ServerMoves,
         ServerCopies, ServerFlags, ServerExpunges, ServerRefusesPoison, ClientWaits, Owner,
         vars, procVars, InMove
<1>13. pc = "ensure" /\ UNCHANGED <<batch, verdict>> => InHand(j)'
  BY DEF InHand, InMove
<1>. QED
  BY <1>1, <1>4, <1>5, <1>6, <1>7, <1>8, <1>9, <1>10, <1>11, <1>12, <1>13, CalmSteps
  DEF Calm, ProcessWorks

LEMMA LogCurrentStep ==
  ASSUME IInv, OneByOne, Connected, PoisonFails', PoisonStays', LogIsCurrent, [Next]_vars,
         faults' = 0, crashes' = 0
  PROVE  LogIsCurrent'
<1>. SUFFICES ASSUME NEW i \in Items, Plan[i].key \notin touched',
                     ~ Holds(Plan[i].src, Plan[i].key)',
                     ~ AlreadyMoved(Plan[i].key, Plan[i].dst)'
              PROVE  \E j \in Items : Plan[j].key = Plan[i].key /\ InHand(j)'
  BY DEF LogIsCurrent
<1>0. Plan[i].key \notin touched /\ Plan[i].key \notin Poison
  BY TouchedGrows DEF PoisonStays
<1>1. CASE Holds(Plan[i].src, Plan[i].key)
  <2>1. PICK u \in Uids : box[<<Plan[i].src, u>>] = Plan[i].key
    BY <1>1 DEF Holds
  <2>2. /\ <<Plan[i].src, u>> \in Slots /\ Occupied(<<Plan[i].src, u>>)
        /\ box'[<<Plan[i].src, u>>] # box[<<Plan[i].src, u>>]
    <3>1. <<Plan[i].src, u>> \in Slots
      BY PlannedSlots DEF Slots
    <3>2. Occupied(<<Plan[i].src, u>>)
      BY <2>1, PlannedSlots, ServerAssumption DEF ServerAssumption, Occupied
    <3>3. box'[<<Plan[i].src, u>>] # Plan[i].key
      BY DEF Holds
    <3>. QED BY <2>1, <3>1, <3>2, <3>3
  <2>3. ~ \E f \in Folders : Renumbered(f)
    <3>1. faults \in Nat
      BY ServerAssumption DEF IInv, TypeOK, ServerTypeOK, ServerAssumption
    <3>. QED BY <3>1 DEF Renumbered, Renumber, Fault
  <2>4. PICK j \in Items : /\ Plan[j].key = Plan[i].key
                           /\ ServerMoves(j) \/ (ServerExpunges /\ j \in Target)
    BY <2>1, <2>2, <2>3, WhoActs
  <2>5. InHand(j)'
    BY <2>4, Reaching, TargetInItems
    DEF InHand, InMove, ServerExpunges, Serving, ClientWaits, procVars
  <2>. QED BY <2>4, <2>5
<1>2. CASE AlreadyMoved(Plan[i].key, Plan[i].dst)
  <2>1. CASE moves' = moves
    BY <1>2, <2>1 DEF AlreadyMoved, LastRow
  <2>2. ASSUME NEW j \in Items, moves' = Append(moves, Row(j)) PROVE FALSE
    BY <1>2, <2>2, AppendedLog, PlanAssumption DEF PlanAssumption
  <2>. QED BY <2>1, <2>2, LogStep
<1>3. ASSUME NEW j \in Items, Plan[j].key = Plan[i].key, InHand(j)
      PROVE  \E k \in Items : Plan[k].key = Plan[i].key /\ InHand(k)'
  <2>1. Plan[j].dst = Plan[i].dst
    BY <1>3, PlanAssumption DEF PlanAssumption
  <2>2. ~ AlreadyMoved(Plan[j].key, Plan[j].dst)'
    BY <1>3, <2>1
  <2>3. InHand(j)'
    BY <1>0, <1>3, <2>2, InHandStep
  <2>. QED BY <1>3, <2>3
<1>. QED BY <1>0, <1>1, <1>2, <1>3 DEF LogIsCurrent

LEMMA FaultlessStep ==
  ASSUME IInv, Custody, Faultless, [Next]_vars
  PROVE  Faultless'
<1>1. OneByOne'
  BY OneByOneStep DEF Faultless
<1>2. ASSUME faults' = 0 PROVE RefusalsOnly' /\ (crashes' = 0 => LogIsCurrent')
  <2>1. faults = 0 /\ RefusalsOnly
    BY <1>2, CalmSteps DEF Faultless
  <2>2. Connected /\ Answers /\ PoisonFails /\ PoisonStays /\ CommandsInOrder /\ OneByOne
    BY <2>1, Parts DEF Custody, Faultless
  <2>3. Connected' /\ Answers' /\ PoisonFails' /\ PoisonStays'
    BY <1>2, <2>2, ConnectedStep, AnswersStep, FailsStep, StaysStep
  <2>4. crashes' = 0 => crashes = 0
    <3>1. Start \/ ProcessWorks \/ ServerWorks \/ Traceback \/ Owner \/ UNCHANGED vars
            => crashes' = crashes
      BY DEF Start, ProcessWorks, Traceback, Finish, EnsureFolder, TakeBatch,
             FetchIdentity, Send, CopyContinues, RollBackFlag, MoveReturns, MoveRaises,
             Reconnect, Record, OpenGroup, ServerWorks, ServerMoves, ServerCopies,
             ServerFlags, ServerExpunges, ServerRefusesPoison, ClientWaits, Owner, vars,
             ghostVars
    <3>2. Crash => crashes' # 0
      BY PlanAssumption DEF Crash, IInv, TypeOK, PlanAssumption
    <3>. QED BY <1>2, <3>1, <3>2, CalmSteps DEF Calm
  <2>5. crashes' = 0 => LogIsCurrent'
    BY <1>2, <2>1, <2>2, <2>3, <2>4, LogCurrentStep DEF Faultless
  <2>6. RefusalsOnly'
    BY <2>3, Parts, PTL
  <2>. QED BY <2>5, <2>6
<1>. QED BY <1>1, <1>2 DEF Faultless

LEMMA FaultlessInit == Init => Faultless
<1>. SUFFICES ASSUME Init PROVE Faultless
  OBVIOUS
<1>1. PICK l \in Layouts : box = l.box
  BY DEF Init
<1>2. \A i \in Items : Holds(Plan[i].src, Plan[i].key)
  <2>1. ASSUME NEW i \in Items PROVE Holds(Plan[i].src, Plan[i].key)
    <3>1. box[<<Plan[i].src, Plan[i].uid>>] = Plan[i].key
      BY <1>1, LayoutAssumption DEF LayoutAssumption, Slot
    <3>. QED BY <3>1, PlannedSlots DEF Holds
  <2>. QED BY <2>1
<1>. QED
  BY <1>2 DEF Init, Faultless, OneByOne, Settled, RefusalsOnly, LogIsCurrent, Undecided

\* As long as nothing goes wrong, what fails is what the server refuses, what the
\* server refuses stays in its folder, and what has moved is logged or in hand.
THEOREM FaultlessHolds == Spec => []Faultless
<1>. QED BY FaultlessInit, FaultlessStep, CustodyHolds, Invariance, PTL DEF Spec

\* One bad message costs one message, in any batch: its neighbours are not failed.
THEOREM BadMessageFailsAlone == Spec => []BlameIsIndividual
<1>1. Faultless => BlameIsIndividual
  BY DEF Faultless, RefusalsOnly, BlameIsIndividual
<1>. QED BY <1>1, FaultlessHolds, PTL

\* At rest, after runs without a fault or a kill, the log knows every message
\* that was moved.
THEOREM LogKnowsEveryMove == Spec => []LogIsComplete
<1>1. IInv /\ Faultless => LogIsComplete
  <2>. SUFFICES ASSUME IInv, Faultless, pc = "idle", faults = 0, crashes = 0,
                       NEW i \in Items, Unlogged(i)
                PROVE  FALSE
    BY DEF LogIsComplete
  <2>1. \A j \in Items : ~ InHand(j)
    BY DEF InHand, InMove, IInv, ItemsInOnePlace, Undecided
  <2>. QED BY <2>1 DEF Faultless, LogIsCurrent, Unlogged
<1>. QED BY <1>1, FaultlessHolds, Invariance, PTL

=============================================================================
