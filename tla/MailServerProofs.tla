-------------------------- MODULE MailServerProofs --------------------------
(***************************************************************************)
(* What the server's commands, a renumbering and the owner leave of the    *)
(* mailbox: lemmas for the proofs about apply and about undo.              *)
(***************************************************************************)
EXTENDS MailServer, FiniteSetTheorems, TLAPS

LEMMA UidBounds ==
  /\ MaxUid \in Nat /\ MaxUid >= 1
  /\ \A u \in Uids : u \in Nat /\ u >= 1 /\ u <= MaxUid
BY ServerAssumption DEF ServerAssumption, Uids

LEMMA SlotParts ==
  \A t \in Slots : t[1] \in Folders /\ t[2] \in Uids /\ t[2] \in Nat /\ t = <<t[1], t[2]>>
BY UidBounds DEF Slots

\* A set of UIDs has a highest one.
LEMMA HasMax ==
  ASSUME NEW S \in SUBSET Uids, S # {}
  PROVE  \E m \in S : \A v \in S : v <= m
<1>. DEFINE Above(m) == {v \in S : v > m}
            T == {Above(m) : m \in S}
            R == StrictSubsetOrdering(S)
<1>1. T \subseteq FiniteSubsetsOf(S) /\ T # {}
  <2>1. IsFiniteSet(Uids)
    BY FS_Interval, UidBounds DEF Uids
  <2>2. IsFiniteSet(S)
    BY <2>1, FS_Subset
  <2>3. FiniteSubsetsOf(S) = SUBSET S
    BY <2>2, FS_FiniteSubsetsOfFinite
  <2>4. \A m \in S : Above(m) \in SUBSET S
    OBVIOUS
  <2>5. T \subseteq SUBSET S
    BY <2>4, Zenon
  <2>6. T # {}
    OBVIOUS
  <2>. QED BY <2>3, <2>5, <2>6
<1>2. \E x \in T : \A y \in T : ~ (<<y, x>> \in R)
  <2>. HIDE DEF T, R
  <2>1. IsWellFoundedOn(R, FiniteSubsetsOf(S))
    BY FS_StrictSubsetOrderingWellFounded DEF R
  <2>. QED BY <1>1, <2>1, WFMin
<1>3. PICK m \in S : \A y \in T : <<y, Above(m)>> \notin R
  BY <1>2
<1>4. ASSUME NEW v \in S PROVE v <= m
  <2>. SUFFICES ASSUME v > m PROVE FALSE
    BY UidBounds
  <2>1. Above(v) \subseteq Above(m) /\ v \in Above(m) /\ v \notin Above(v)
    BY UidBounds
  <2>2. <<Above(v), Above(m)>> \in R
    BY <2>1 DEF StrictSubsetOrdering
  <2>. QED BY <1>3, <2>2
<1>. QED BY <1>4

\* What a message-by-message command leaves of the mailbox's types.
LEMMA MoveTypes ==
  ASSUME ServerTypeOK, NEW s \in Slots, NEW d \in Folders, MoveOne(s, d)
  PROVE  /\ box' \in [Slots -> Keys \cup {NoKey}]
         /\ deleted' \in SUBSET Slots
         /\ nextUid' \in [Folders -> 1..(MaxUid + 1)]
<1>1. CASE ~ Occupied(s)
  BY <1>1 DEF MoveOne, mailVars, ServerTypeOK
<1>2. CASE Occupied(s)
  <2>1. nextUid[d] \in 1..MaxUid
    BY <1>2, ServerAssumption DEF ServerAssumption, MoveOne, HasRoom, ServerTypeOK
  <2>2. Put(s, d) \in Slots
    BY <2>1 DEF Put, Slots, Uids
  <2>3. box' \in [Slots -> Keys \cup {NoKey}]
    BY <1>2, <2>2 DEF MoveOne, ServerTypeOK
  <2>4. deleted' \in SUBSET Slots
    BY <1>2, <2>2 DEF MoveOne, ServerTypeOK
  <2>5. nextUid' \in [Folders -> 1..(MaxUid + 1)]
    BY <1>2, <2>1, ServerAssumption DEF ServerAssumption, MoveOne, ServerTypeOK
  <2>. QED BY <2>3, <2>4, <2>5
<1>. QED BY <1>1, <1>2

LEMMA CopyTypes ==
  ASSUME ServerTypeOK, NEW s \in Slots, NEW d \in Folders, CopyOne(s, d)
  PROVE  /\ box' \in [Slots -> Keys \cup {NoKey}]
         /\ deleted' \in SUBSET Slots
         /\ nextUid' \in [Folders -> 1..(MaxUid + 1)]
<1>1. CASE ~ Occupied(s)
  BY <1>1 DEF CopyOne, mailVars, ServerTypeOK
<1>2. CASE Occupied(s)
  <2>1. nextUid[d] \in 1..MaxUid
    BY <1>2, ServerAssumption DEF ServerAssumption, CopyOne, HasRoom, ServerTypeOK
  <2>2. Put(s, d) \in Slots
    BY <2>1 DEF Put, Slots, Uids
  <2>3. box' \in [Slots -> Keys \cup {NoKey}]
    BY <1>2, <2>2 DEF CopyOne, ServerTypeOK
  <2>4. deleted' \in SUBSET Slots
    BY <1>2, <2>2 DEF CopyOne, ServerTypeOK
  <2>5. nextUid' \in [Folders -> 1..(MaxUid + 1)]
    BY <1>2, <2>1, ServerAssumption DEF ServerAssumption, CopyOne, ServerTypeOK
  <2>. QED BY <2>3, <2>4, <2>5
<1>. QED BY <1>1, <1>2

LEMMA OwnerTypes ==
  ASSUME ServerTypeOK, OwnerStep
  PROVE  ServerTypeOK'
<1>1. PICK s \in Slots : \/ OwnerExpunges(s) \/ OwnerFlags(s)
                         \/ \E d \in Folders : OwnerMoves(s, d)
  BY DEF OwnerStep
<1>2. /\ validity' = validity /\ faults' = faults
      /\ userSteps' \in 0..MaxUserSteps
      /\ touched' \in SUBSET Keys
  BY <1>1, ServerAssumption
     DEF ServerAssumption, OwnerExpunges, OwnerFlags, OwnerMoves, OwnerTouches, Occupied,
         ServerTypeOK
<1>3. CASE OwnerExpunges(s)
  BY <1>2, <1>3 DEF OwnerExpunges, ServerTypeOK
<1>4. CASE OwnerFlags(s)
  BY <1>2, <1>4 DEF OwnerFlags, ServerTypeOK
<1>5. ASSUME NEW d \in Folders, OwnerMoves(s, d) PROVE ServerTypeOK'
  <2>1. MoveOne(s, d)
    BY <1>5 DEF OwnerMoves
  <2>. QED BY <1>2, <2>1, MoveTypes DEF ServerTypeOK
<1>. QED BY <1>1, <1>3, <1>4, <1>5

LEMMA RenumberTypes ==
  ASSUME ServerTypeOK, NEW f \in Folders, Renumber(f)
  PROVE  ServerTypeOK'
<1>1. PICK p \in Renumberings :
        LET was(s) == IF s[1] = f THEN <<f, p[s[2]]>> ELSE s
        IN /\ \A u \in Uids : p[u] \in Given(f) <=> u \in Given(f)
           /\ box' = [s \in Slots |-> box[was(s)]]
           /\ deleted' = {s \in Slots : was(s) \in deleted}
  BY DEF Renumber
<1>2. p \in [Uids -> Uids]
  BY ServerAssumption DEF ServerAssumption
<1>3. box' \in [Slots -> Keys \cup {NoKey}]
  BY <1>1, <1>2 DEF ServerTypeOK, Slots
<1>4. deleted' \in SUBSET Slots
  BY <1>1
<1>. QED BY <1>3, <1>4, ServerAssumption DEF ServerAssumption, Renumber, Fault, ServerTypeOK

LEMMA FaultTypes ==
  ASSUME ServerTypeOK, Fault PROVE faults' \in 0..MaxFaults
BY ServerAssumption DEF ServerAssumption, ServerTypeOK, Fault

-----------------------------------------------------------------------------
(* The UIDs: every step keeps them or renumbers a folder.                   *)

Keeps ==
  /\ validity' = validity
  /\ \A f \in Folders : nextUid'[f] >= nextUid[f]
  /\ \A s \in Slots :
       /\ s[2] < nextUid[s[1]] => box'[s] \in {box[s], NoKey}
       /\ s[2] >= nextUid'[s[1]] => box'[s] = NoKey

LEMMA StillKeeps ==
  ASSUME ServerTypeOK, NothingAhead, UNCHANGED <<box, nextUid, validity>>
  PROVE  Keeps
BY DEF ServerTypeOK, NothingAhead, Keeps, Slots, Uids

LEMMA MoveKeeps ==
  ASSUME ServerTypeOK, NothingAhead, NEW s \in Slots, NEW d \in Folders,
         MoveOne(s, d), validity' = validity
  PROVE  Keeps
<1>1. CASE ~ Occupied(s)
  BY <1>1, StillKeeps DEF MoveOne, mailVars
<1>2. CASE Occupied(s)
  <2>1. /\ nextUid[d] \in 1..MaxUid /\ Put(s, d) = <<d, nextUid[d]>> /\ Put(s, d) \in Slots
        /\ nextUid' = [nextUid EXCEPT ![d] = @ + 1]
        /\ box' = [box EXCEPT ![s] = NoKey, ![Put(s, d)] = box[s]]
    BY <1>2, ServerAssumption
       DEF ServerAssumption, MoveOne, HasRoom, ServerTypeOK, Put, Slots, Uids
  <2>2. \A f \in Folders : nextUid'[f] >= nextUid[f]
    BY <2>1, ServerAssumption DEF ServerAssumption, ServerTypeOK
  <2>3. \A t \in Slots : t # Put(s, d) => box'[t] \in {box[t], NoKey}
    BY <2>1 DEF ServerTypeOK
  <2>4. \A t \in Slots : t[1] \in Folders /\ t[2] \in Nat /\ t = <<t[1], t[2]>>
    BY ServerAssumption DEF ServerAssumption, Slots, Uids
  <2>5. \A t \in Slots : t[2] < nextUid[t[1]] => t # Put(s, d)
    BY <2>1, <2>4
  <2>6. \A t \in Slots : t[2] >= nextUid'[t[1]] => t # Put(s, d) /\ t[2] >= nextUid[t[1]]
    BY <2>1, <2>2, <2>4, ServerAssumption DEF ServerAssumption, ServerTypeOK
  <2>7. \A t \in Slots : t[2] >= nextUid[t[1]] => box[t] = NoKey
    BY DEF NothingAhead
  <2>. QED BY <2>2, <2>3, <2>5, <2>6, <2>7 DEF Keeps
<1>. QED BY <1>1, <1>2

LEMMA CopyKeeps ==
  ASSUME ServerTypeOK, NothingAhead, NEW s \in Slots, NEW d \in Folders,
         CopyOne(s, d), validity' = validity
  PROVE  Keeps
<1>1. CASE ~ Occupied(s)
  BY <1>1, StillKeeps DEF CopyOne, mailVars
<1>2. CASE Occupied(s)
  <2>1. /\ nextUid[d] \in 1..MaxUid /\ Put(s, d) = <<d, nextUid[d]>> /\ Put(s, d) \in Slots
        /\ nextUid' = [nextUid EXCEPT ![d] = @ + 1]
        /\ box' = [box EXCEPT ![Put(s, d)] = box[s]]
    BY <1>2, ServerAssumption
       DEF ServerAssumption, CopyOne, HasRoom, ServerTypeOK, Put, Slots, Uids
  <2>2. \A f \in Folders : nextUid'[f] >= nextUid[f]
    BY <2>1, ServerAssumption DEF ServerAssumption, ServerTypeOK
  <2>3. \A t \in Slots : t # Put(s, d) => box'[t] = box[t]
    BY <2>1 DEF ServerTypeOK
  <2>4. \A t \in Slots : t[1] \in Folders /\ t[2] \in Nat /\ t = <<t[1], t[2]>>
    BY ServerAssumption DEF ServerAssumption, Slots, Uids
  <2>5. \A t \in Slots : t[2] < nextUid[t[1]] => t # Put(s, d)
    BY <2>1, <2>4
  <2>6. \A t \in Slots : t[2] >= nextUid'[t[1]] => t # Put(s, d) /\ t[2] >= nextUid[t[1]]
    BY <2>1, <2>2, <2>4, ServerAssumption DEF ServerAssumption, ServerTypeOK
  <2>7. \A t \in Slots : t[2] >= nextUid[t[1]] => box[t] = NoKey
    BY DEF NothingAhead
  <2>. QED BY <2>2, <2>3, <2>5, <2>6, <2>7 DEF Keeps
<1>. QED BY <1>1, <1>2

LEMMA EmptyingKeeps ==
  ASSUME ServerTypeOK, NothingAhead, UNCHANGED <<nextUid, validity>>,
         \A s \in Slots : box'[s] \in {box[s], NoKey}
  PROVE  Keeps
BY DEF ServerTypeOK, NothingAhead, Keeps, Slots, Uids

LEMMA OwnerKeeps ==
  ASSUME ServerTypeOK, NothingAhead, OwnerStep
  PROVE  Keeps
<1>1. PICK s \in Slots : \/ OwnerExpunges(s) \/ OwnerFlags(s)
                         \/ \E d \in Folders : OwnerMoves(s, d)
  BY DEF OwnerStep
<1>2. validity' = validity
  BY <1>1 DEF OwnerExpunges, OwnerFlags, OwnerMoves, OwnerTouches
<1>3. CASE OwnerExpunges(s)
  BY <1>2, <1>3, EmptyingKeeps DEF OwnerExpunges, ServerTypeOK
<1>4. CASE OwnerFlags(s)
  BY <1>2, <1>4, StillKeeps DEF OwnerFlags
<1>5. ASSUME NEW d \in Folders, OwnerMoves(s, d) PROVE Keeps
  BY <1>2, <1>5, MoveKeeps DEF OwnerMoves
<1>. QED BY <1>1, <1>3, <1>4, <1>5

\* A folder that is renumbered moves no message out of it and fills no fresh UID.
LEMMA RenumberKeepsUids ==
  ASSUME ServerTypeOK, NothingAhead, NEW f \in Folders, Renumber(f)
  PROVE  /\ nextUid' = nextUid
         /\ validity' = [validity EXCEPT ![f] = @ + 1]
         /\ \A s \in Slots : s[1] # f => box'[s] = box[s]
         /\ NothingAhead'
<1>1. PICK p \in Renumberings :
        LET was(s) == IF s[1] = f THEN <<f, p[s[2]]>> ELSE s
        IN /\ \A u \in Uids : p[u] \in Given(f) <=> u \in Given(f)
           /\ box' = [s \in Slots |-> box[was(s)]]
  BY DEF Renumber
<1>2. nextUid' = nextUid /\ validity' = [validity EXCEPT ![f] = @ + 1]
  BY DEF Renumber
<1>3. \A s \in Slots : s[1] # f => box'[s] = box[s]
  BY <1>1
<1>4. ASSUME NEW s \in Slots, s[2] >= nextUid[s[1]] PROVE box'[s] = NoKey
  <2>1. CASE s[1] # f
    BY <1>3, <1>4, <2>1 DEF NothingAhead
  <2>2. CASE s[1] = f
    <3>1. box'[s] = box[<<f, p[s[2]]>>]
      BY <1>1, <2>2
    <3>2. s[2] \in Uids /\ p[s[2]] \in Uids /\ nextUid[f] \in Nat
      <4>1. s[2] \in Uids /\ p \in [Uids -> Uids]
        BY SlotParts, ServerAssumption DEF ServerAssumption
      <4>2. nextUid[f] \in 1..(MaxUid + 1)
        BY DEF ServerTypeOK
      <4>. QED BY <4>1, <4>2, UidBounds
    <3>3. s[2] \notin Given(f)
      BY <1>4, <2>2, <3>2, ServerAssumption DEF ServerAssumption, Given, Uids
    <3>4. p[s[2]] \notin Given(f)
      BY <1>1, <3>2, <3>3
    <3>5. p[s[2]] >= nextUid[f]
      BY <3>2, <3>4, UidBounds DEF Given
    <3>6. <<f, p[s[2]]>> \in Slots
      BY <3>2 DEF Slots
    <3>. QED BY <3>1, <3>5, <3>6 DEF NothingAhead
  <2>. QED BY <2>1, <2>2
<1>. QED BY <1>2, <1>3, <1>4 DEF NothingAhead

-----------------------------------------------------------------------------
(* The mail.                                                               *)

\* A message that is moved or copied ends in the lowest fresh slot of a folder.
LEMMA FreshSlot ==
  ASSUME ServerTypeOK, NothingAhead, NEW s, NEW d \in Folders, HasRoom(d)
  PROVE  /\ Put(s, d) \in Slots /\ Put(s, d) = <<d, nextUid[d]>>
         /\ box[Put(s, d)] = NoKey
<1>1. nextUid[d] \in Uids
  BY UidBounds DEF ServerTypeOK, HasRoom, Uids
<1>2. Put(s, d) \in Slots /\ Put(s, d)[1] = d /\ Put(s, d)[2] = nextUid[d]
  BY <1>1 DEF Put, Slots
<1>3. Put(s, d)[2] >= nextUid[Put(s, d)[1]]
  BY <1>1, <1>2, UidBounds
<1>. QED BY <1>2, <1>3 DEF NothingAhead, Put

LEMMA MoveEffect ==
  ASSUME ServerTypeOK, NothingAhead, NEW s \in Slots, NEW d \in Folders,
         MoveOne(s, d), Occupied(s)
  PROVE  /\ Put(s, d) \in Slots /\ box[Put(s, d)] = NoKey /\ s # Put(s, d)
         /\ box'[s] = NoKey /\ box'[Put(s, d)] = box[s]
         /\ \A t \in Slots \ {s, Put(s, d)} : box'[t] = box[t]
         /\ deleted' = IF s \in deleted THEN (deleted \ {s}) \cup {Put(s, d)} ELSE deleted
<1>1. /\ HasRoom(d)
      /\ box' = [box EXCEPT ![s] = NoKey, ![Put(s, d)] = box[s]]
      /\ deleted' = IF s \in deleted THEN (deleted \ {s}) \cup {Put(s, d)} ELSE deleted
  BY DEF MoveOne
<1>2. Put(s, d) \in Slots /\ box[Put(s, d)] = NoKey
  BY <1>1, FreshSlot
<1>3. s # Put(s, d)
  BY <1>2 DEF Occupied
<1>. QED BY <1>1, <1>2, <1>3 DEF ServerTypeOK

LEMMA CopyEffect ==
  ASSUME ServerTypeOK, NothingAhead, NEW s \in Slots, NEW d \in Folders,
         CopyOne(s, d), Occupied(s)
  PROVE  /\ Put(s, d) \in Slots /\ box[Put(s, d)] = NoKey /\ s # Put(s, d)
         /\ box'[Put(s, d)] = box[s]
         /\ \A t \in Slots \ {Put(s, d)} : box'[t] = box[t]
         /\ deleted' = IF s \in deleted THEN deleted \cup {Put(s, d)} ELSE deleted
<1>1. /\ HasRoom(d)
      /\ box' = [box EXCEPT ![Put(s, d)] = box[s]]
      /\ deleted' = IF s \in deleted THEN deleted \cup {Put(s, d)} ELSE deleted
  BY DEF CopyOne
<1>2. Put(s, d) \in Slots /\ box[Put(s, d)] = NoKey
  BY <1>1, FreshSlot
<1>3. s # Put(s, d)
  BY <1>2 DEF Occupied
<1>. QED BY <1>1, <1>2, <1>3 DEF ServerTypeOK

\* The owner's step changes nothing about a message the owner has left alone.
LEMMA OwnerEffect ==
  ASSUME ServerTypeOK, NothingAhead, OwnerStep
  PROVE  /\ touched \subseteq touched'
         /\ \A t \in Slots : box[t] \in Keys \ touched' =>
              box'[t] = box[t] /\ (t \in deleted' <=> t \in deleted)
         /\ (\A t \in deleted : Occupied(t)) => \A t \in deleted' : Occupied(t)'
<1>1. PICK s \in Slots : \/ OwnerExpunges(s) \/ OwnerFlags(s)
                         \/ \E d \in Folders : OwnerMoves(s, d)
  BY DEF OwnerStep
<1>2. Occupied(s) /\ touched' = touched \cup {box[s]}
  BY <1>1 DEF OwnerExpunges, OwnerFlags, OwnerMoves, OwnerTouches
<1>3. CASE OwnerExpunges(s)
  BY <1>2, <1>3 DEF OwnerExpunges, ServerTypeOK, Occupied
<1>4. CASE OwnerFlags(s)
  BY <1>2, <1>4 DEF OwnerFlags, ServerTypeOK, Occupied
<1>5. ASSUME NEW d \in Folders, OwnerMoves(s, d)
      PROVE  /\ \A t \in Slots : box[t] \in Keys \ touched' =>
                  box'[t] = box[t] /\ (t \in deleted' <=> t \in deleted)
             /\ (\A t \in deleted : Occupied(t)) => \A t \in deleted' : Occupied(t)'
  <2>1. MoveOne(s, d)
    BY <1>5 DEF OwnerMoves
  <2>2. /\ Put(s, d) \in Slots /\ box[Put(s, d)] = NoKey /\ s # Put(s, d)
        /\ box'[s] = NoKey /\ box'[Put(s, d)] = box[s]
        /\ \A t \in Slots \ {s, Put(s, d)} : box'[t] = box[t]
        /\ deleted' = IF s \in deleted THEN (deleted \ {s}) \cup {Put(s, d)} ELSE deleted
    BY <1>2, <2>1, MoveEffect
  <2>3. deleted \subseteq Slots /\ NoKey \notin Keys
    BY ServerAssumption DEF ServerTypeOK, ServerAssumption
  <2>. QED BY <1>2, <2>2, <2>3 DEF Occupied
<1>. QED BY <1>1, <1>2, <1>3, <1>4, <1>5

\* A folder that is renumbered keeps each message, with its flag.
LEMMA RenumberKeepsMail ==
  ASSUME NEW f \in Folders, Renumber(f)
  PROVE  /\ touched' = touched
         /\ \A s \in Slots : s[1] # f => box'[s] = box[s] /\ (s \in deleted' <=> s \in deleted)
         /\ \A s \in Slots : s[1] = f =>
              \E t \in Slots : t[1] = f /\ box'[t] = box[s] /\ (t \in deleted' <=> s \in deleted)
         /\ (\A t \in deleted : Occupied(t)) => \A t \in deleted' : Occupied(t)'
<1>1. PICK p \in Renumberings :
        LET was(s) == IF s[1] = f THEN <<f, p[s[2]]>> ELSE s
        IN /\ box' = [s \in Slots |-> box[was(s)]]
           /\ deleted' = {s \in Slots : was(s) \in deleted}
  BY DEF Renumber
<1>2. touched' = touched
  BY DEF Renumber
<1>3. p \in [Uids -> Uids] /\ \A u, v \in Uids : p[u] = p[v] => u = v
  BY ServerAssumption DEF ServerAssumption
<1>4. \A v \in Uids : \E u \in Uids : p[u] = v
  <2>1. IsFiniteSet(Uids)
    BY FS_Interval, UidBounds DEF Uids
  <2>2. p \in Injection(Uids, Uids)
    BY <1>3 DEF Injection, IsInjective
  <2>3. p \in Surjection(Uids, Uids)
    BY <2>1, <2>2, FS_Injection
  <2>. QED BY <2>3 DEF Surjection
<1>5. ASSUME NEW s \in Slots, s[1] = f
      PROVE  \E t \in Slots : t[1] = f /\ box'[t] = box[s] /\ (t \in deleted' <=> s \in deleted)
  <2>1. s[2] \in Uids /\ s = <<f, s[2]>>
    BY <1>5, SlotParts
  <2>2. PICK u \in Uids : p[u] = s[2]
    BY <1>4, <2>1
  <2>3. <<f, u>> \in Slots /\ <<f, u>>[1] = f /\ <<f, u>>[2] = u
    BY DEF Slots
  <2>. QED BY <1>1, <2>1, <2>2, <2>3
<1>6. \A s \in Slots : s[1] # f => box'[s] = box[s] /\ (s \in deleted' <=> s \in deleted)
  BY <1>1
<1>7. (\A t \in deleted : Occupied(t)) => \A t \in deleted' : Occupied(t)'
  BY <1>1 DEF Occupied
<1>. QED BY <1>2, <1>5, <1>6, <1>7

=============================================================================
