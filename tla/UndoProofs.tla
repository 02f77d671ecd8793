----------------------------- MODULE UndoProofs -----------------------------
(***************************************************************************)
(* Proofs about Undo, for every run, mailbox, batch size and bound.        *)
(*                                                                         *)
(* IInv in two layers: the types with the place of each row, then the      *)
(* mailbox (NothingAhead, ByKeyStands).  Deeds, Account and Calm are       *)
(* proved on top of it.                                                    *)
(***************************************************************************)
EXTENDS Undo, MailServerProofs

Typed == TypeOK /\ SessionInPlace /\ RowsInPlace

LEMMA RowParts ==
  \A r \in Rows : /\ r \in Nat /\ Run[r].key \in Keys
                  /\ Run[r].src \in Folders /\ Run[r].dst \in Folders
                  /\ Reversal(r) \in Entries
<1>1. \A r \in Rows : Run[r] \in Entries
  BY UndoAssumption DEF UndoAssumption, Rows
<1>2. \A r \in Rows : r \in Nat
  BY UndoAssumption DEF UndoAssumption, Rows
<1>. QED BY <1>1, <1>2 DEF Entries, Reversal

\* Where no batch is under way, nothing of it is left.
LEMMA NoBatch ==
  ASSUME Typed, pc \notin {"send", "await", "record"}
  PROVE  batch = {} /\ trying = {} /\ left = {} /\ results = NoResult /\ Target = {}
BY DEF Typed, RowsInPlace, Target

LEMMA QuitClears ==
  ASSUME Typed, NEW r \in {"ok", "fatal", "transient", "traceback", "killed"}, Quit(r)
  PROVE  /\ pc' = "idle" /\ report' = r /\ conn' = FALSE /\ folder' = NoFolder
         /\ rest' = {} /\ group' = {} /\ unread' = {} /\ byKey' = NoUid /\ back' = {}
         /\ home' = NoFolder /\ batch' = {} /\ trying' = {} /\ wire' = "none" /\ left' = {}
         /\ results' = NoResult /\ Target' = {}
         /\ skipped' = skipped /\ failed' = failed /\ poison' = poison
BY DEF Quit, Target

LEMMA QuitTyped ==
  ASSUME Typed, NEW r \in {"ok", "fatal", "transient", "traceback", "killed"}, Quit(r),
         ServerTypeOK', moves' \in Seq(Entries), status' \in {"none", "running", "ok", "failed"}
  PROVE  Typed'
BY QuitClears DEF Typed, TypeOK, SessionInPlace, RowsInPlace, NoUid, NoResult

\* A step of the server or of the owner leaves undo where it is.
LEMMA OutsideTyped ==
  ASSUME Typed, ServerTypeOK', conn' \in BOOLEAN, conn' => conn,
         UNCHANGED <<logVars, folder, pc, findVars, back, home, batch, trying, results, countVars>>,
         left' \subseteq left, wire' \in {"none", "sent", "ok", "no"}, wire' = "ok" => left' = {},
         pc # "await" => wire' = wire
  PROVE  Typed'
<1>. USE DEF Typed
<1>1. Target' = Target /\ byKey' = byKey
  BY DEF Target, findVars
<1>2. {UidOf(r) : r \in Target}' = {UidOf(r) : r \in Target}
  BY <1>1 DEF UidOf
<1>3. left' \subseteq {UidOf(r) : r \in Target}'
  BY <1>2 DEF RowsInPlace
<1>4. TypeOK' /\ SessionInPlace'
  BY DEF TypeOK, SessionInPlace, logVars, findVars, countVars
<1>5. RowsInPlace'
  BY <1>3 DEF RowsInPlace, UidOf, findVars, TypeOK
<1>. QED BY <1>4, <1>5

LEMMA TypedStep ==
  ASSUME Typed, [Next]_vars
  PROVE  Typed'
<1>. USE DEF Typed, TypeOK, SessionInPlace, RowsInPlace
<1>1. CASE Start
  BY <1>1 DEF Start, Target, UidOf, serverVars, moveVars, ServerTypeOK
<1>2. CASE Finish
  BY <1>2, QuitTyped DEF Finish, serverVars, ServerTypeOK
<1>3. ASSUME NEW r \in Rows, ListUids(r) PROVE Typed'
  <2>1. Run[r].dst \in Folders
    BY RowParts
  <2>2. unread' \in SUBSET Uids /\ byKey' \in [Keys -> Uids \cup {0}]
    BY <1>3 DEF ListUids, Live, NoKeysYet, NoUid
  <2>3. /\ back' = {} /\ batch' = {} /\ results' = NoResult /\ trying' = {} /\ left' = {}
        /\ byKey' = NoUid /\ wire' = "none" /\ group' \subseteq rest /\ \A q \in group' : Run[q].dst = folder'
    BY <1>3 DEF ListUids, NoKeysYet, moveVars, Target
  <2>. QED BY <1>3, <2>1, <2>2, <2>3
       DEF ListUids, Target, serverVars, logVars, moveVars, countVars, ServerTypeOK
<1>4. CASE FetchChunk
  <2>1. PICK b \in SUBSET unread :
          LET found(k) == {u \in b : box[<<folder, u>>] = k}
          IN /\ unread' = unread \ b
             /\ byKey' = [k \in Keys |->
                            IF found(k) = {} THEN byKey[k]
                            ELSE CHOOSE u \in found(k) : \A v \in found(k) : v <= u]
    BY <1>4 DEF FetchChunk
  <2>. DEFINE found(k) == {u \in b : box[<<folder, u>>] = k}
  <2>2. ASSUME NEW k \in Keys, found(k) # {}
        PROVE  (CHOOSE u \in found(k) : \A v \in found(k) : v <= u) \in Uids
    <3>1. found(k) \in SUBSET Uids
      OBVIOUS
    <3>2. \E u \in found(k) : \A v \in found(k) : v <= u
      BY <2>2, <3>1, HasMax
    <3>. QED BY <3>1, <3>2
  <2>3. byKey' \in [Keys -> Uids \cup {0}]
    BY <2>1, <2>2
  <2>4. unread' \in SUBSET Uids
    BY <2>1
  <2>5. back = {} /\ batch = {} /\ trying = {} /\ left = {}
    BY <1>4, NoBatch DEF FetchChunk
  <2>6. folder # NoFolder
    BY <1>4, UndoAssumption DEF FetchChunk, UndoAssumption
  <2>. QED BY <1>4, <2>3, <2>4, <2>5, <2>6
       DEF FetchChunk, Target, serverVars, logVars, sessionVars, moveVars, countVars, ServerTypeOK
<1>5. CASE Locate
  BY <1>5, NoBatch DEF Locate, Target, UidOf, serverVars, logVars, sessionVars, findVars, moveVars, ServerTypeOK
<1>6. CASE FolderDone
  <2>1. batch = {} /\ trying = {} /\ left = {} /\ results = NoResult
    BY <1>6, NoBatch DEF FolderDone
  <2>. QED BY <1>6, <2>1
       DEF FolderDone, Target, UidOf, serverVars, logVars, sessionVars, findVars, moveVars, countVars,
           ServerTypeOK
<1>7. ASSUME NEW r \in Rows, OpenHome(r) PROVE Typed'
  BY <1>7, RowParts, NoBatch DEF OpenHome, Target, UidOf, serverVars, logVars, sessionVars, findVars, moveVars,
              countVars, ServerTypeOK
<1>8. CASE TakeBatch
  <2>1. PICK b \in SUBSET Mine :
          batch' = b /\ back' = back \ b /\ pc' = IF b = {} THEN "home" ELSE "send"
    BY <1>8 DEF TakeBatch
  <2>2. b \subseteq back /\ \A r \in b : Run[r].src = home
    BY DEF Mine
  <2>3. trying = {} /\ left = {} /\ results = NoResult
    BY <1>8, NoBatch DEF TakeBatch
  <2>. QED BY <1>8, <2>1, <2>2, <2>3
       DEF TakeBatch, Target, UidOf, serverVars, logVars, sessionVars, findVars, moveVars, countVars,
           ServerTypeOK
<1>9. CASE Send
  <2>1. \A q \in Target : q \in batch /\ UidOf(q) \in Uids
    BY RowParts DEF Target, UidOf
  <2>2. left' = {UidOf(q) : q \in Target} /\ Target' = Target /\ byKey' = byKey
    BY <1>9 DEF Send, Target, findVars
  <2>3. left' \in SUBSET Uids /\ left' = {UidOf(q)' : q \in Target'}
    BY <2>1, <2>2 DEF UidOf
  <2>. QED BY <1>9, <2>3
       DEF Send, UidOf, serverVars, logVars, sessionVars, findVars, countVars, ServerTypeOK
<1>10. CASE MoveReturns
  BY <1>10 DEF MoveReturns, Answered, TriedOnce, Target, UidOf, serverVars, logVars, sessionVars, findVars,
               countVars, ServerTypeOK
<1>11. CASE MoveRaises
  <2>1. pc = "await" /\ wire' = "none" /\ left' = {}
    BY <1>11 DEF MoveRaises, Raised, OneAtATime, Answered
  <2>2. /\ trying' \subseteq batch /\ pc' \in {"send", "record"}
        /\ trying' # {} => pc' = "send"
        /\ results' \in [Uids -> {"none", "moved", "failed"}]
    BY <1>11 DEF MoveRaises, OneAtATime, Answered, TriedOnce
  <2>. QED BY <1>11, <2>1, <2>2
       DEF MoveRaises, UidOf, serverVars, logVars, sessionVars, findVars, countVars, ServerTypeOK
<1>12. ASSUME NEW r \in Rows, Record(r) PROVE Typed'
  <2>1. moves' \in Seq(Entries)
    BY <1>12, RowParts DEF Record, LogReversal
  <2>2. failed' \in BOOLEAN
    BY <1>12 DEF Record, Counted
  <2>3. results' \in [Uids -> {"none", "moved", "failed"}]
    BY <1>12 DEF Record, NoResult
  <2>4. trying = {} /\ left = {}
    BY <1>12 DEF Record
  <2>. QED BY <1>12, <2>1, <2>2, <2>3, <2>4
       DEF Record, Target, UidOf, serverVars, sessionVars, findVars, ServerTypeOK
<1>13. ASSUME NEW u \in Uids, ServerMoves(u) PROVE Typed'
  <2>1. At(u) \in Slots /\ home \in Folders /\ MoveOne(At(u), home)
    BY <1>13 DEF ServerMoves, Serving, At, Slots
  <2>2. ServerTypeOK'
    BY <1>13, <2>1, MoveTypes DEF ServerMoves, ClientWaits, ServerTypeOK
  <2>3. left' \subseteq left /\ (wire' = "ok" => left' = {}) /\ wire' \in {"sent", "ok"} /\ pc = "await"
    BY <1>13 DEF ServerMoves, Serving
  <2>. QED BY <1>13, <2>2, <2>3, OutsideTyped DEF ServerMoves, ClientWaits, sessionVars
<1>14. CASE ServerRefuses
  <2>1. ServerTypeOK'
    BY <1>14, FaultTypes DEF ServerRefuses, ClientWaits, mailVars, ServerTypeOK
  <2>2. left' = left /\ wire' = "no" /\ pc = "await"
    BY <1>14 DEF ServerRefuses, Serving
  <2>. QED BY <1>14, <2>1, <2>2, OutsideTyped DEF ServerRefuses, ClientWaits, sessionVars
<1>15. CASE Abort
  BY <1>15, QuitTyped, FaultTypes DEF Abort, mailVars, logVars, ServerTypeOK
<1>16. CASE Traceback
  BY <1>16, QuitTyped DEF Traceback, serverVars, logVars, ServerTypeOK
<1>17. CASE Crash
  BY <1>17, QuitTyped, FaultTypes DEF Crash, mailVars, logVars, ServerTypeOK
<1>18. CASE Drop
  <2>1. ServerTypeOK' /\ conn' \in BOOLEAN
    BY <1>18, FaultTypes DEF Drop, mailVars, ServerTypeOK
  <2>. QED BY <1>18, <2>1, OutsideTyped DEF Drop, moveVars
<1>19. ASSUME NEW f \in Folders, Renumbered(f) PROVE Typed'
  <2>1. ServerTypeOK'
    BY <1>19, RenumberTypes DEF Renumbered
  <2>2. conn' \in BOOLEAN
    BY <1>19 DEF Renumbered
  <2>. QED BY <1>19, <2>1, <2>2, OutsideTyped DEF Renumbered, moveVars
<1>20. CASE Owner
  <2>1. ServerTypeOK'
    BY <1>20, OwnerTypes DEF Owner
  <2>. QED BY <1>20, <2>1, OutsideTyped DEF Owner, moveVars, sessionVars
<1>21. CASE UNCHANGED vars
  <2>1. ServerTypeOK'
    BY <1>21 DEF vars, serverVars, ServerTypeOK
  <2>. QED BY <1>21, <2>1, OutsideTyped DEF vars, moveVars, sessionVars
<1>. QED
  BY <1>1, <1>2, <1>3, <1>4, <1>5, <1>6, <1>7, <1>8, <1>9, <1>10, <1>11, <1>12, <1>13, <1>14,
     <1>15, <1>16, <1>17, <1>18, <1>19, <1>20, <1>21
  DEF Next, ProcessWorks, ServerWorks, Mishap

LEMMA TypedInit ==
  Init => Typed /\ NothingAhead
<1>. SUFFICES ASSUME Init PROVE Typed /\ NothingAhead
  OBVIOUS
<1>1. PICK l \in Layouts : box = l.box /\ nextUid = l.nextUid
  BY DEF Init
<1>2. NothingAhead /\ box \in [Slots -> Keys \cup {NoKey}] /\ nextUid \in [Folders -> 1..(MaxUid + 1)]
  BY <1>1, UndoAssumption DEF UndoAssumption, NothingAhead
<1>3. ServerTypeOK
  BY <1>2, ServerAssumption DEF Init, ServerTypeOK, ServerAssumption
<1>4. Run \in Seq(Entries)
  BY UndoAssumption DEF UndoAssumption
<1>. QED BY <1>2, <1>3, <1>4
     DEF Init, Typed, TypeOK, SessionInPlace, RowsInPlace, NoUid, NoResult, Target

-----------------------------------------------------------------------------
(* The mailbox.                                                             *)

LEMMA Cleared ==
  ASSUME IInv, Keeps, byKey' = NoUid
  PROVE  NothingAhead' /\ ByKeyStands'
BY DEF Keeps, NothingAhead, ByKeyStands, NoUid

LEMMA Found ==
  ASSUME IInv, ServerTypeOK', Keeps, UNCHANGED <<folder, byKey, unread>>, conn' => conn
  PROVE  NothingAhead' /\ ByKeyStands'
<1>1. NothingAhead'
  BY DEF Keeps, NothingAhead
<1>2. ASSUME NEW k \in Keys, byKey[k] # 0
      PROVE  /\ byKey[k] < nextUid'[folder] /\ byKey[k] \notin unread
             /\ conn => box'[<<folder, byKey[k]>>] \in {k, NoKey}
  <2>1. folder \in Folders
    BY <1>2 DEF IInv, SessionInPlace, TypeOK, NoUid
  <2>2. <<folder, byKey[k]>> \in Slots /\ byKey[k] \in Nat
    BY <1>2, <2>1, UidBounds DEF IInv, TypeOK, Slots
  <2>3. byKey[k] < nextUid[folder] /\ byKey[k] \notin unread
    BY <1>2 DEF IInv, ByKeyStands
  <2>4. nextUid'[folder] >= nextUid[folder] /\ nextUid[folder] \in Nat /\ nextUid'[folder] \in Nat
    BY <2>1, UidBounds DEF Keeps, ServerTypeOK, IInv, TypeOK
  <2>5. box'[<<folder, byKey[k]>>] \in {box[<<folder, byKey[k]>>], NoKey}
    BY <2>2, <2>3 DEF Keeps
  <2>. QED BY <1>2, <2>2, <2>3, <2>4, <2>5 DEF IInv, ByKeyStands
<1>. QED BY <1>1, <1>2 DEF ByKeyStands, IInv

\* Of a folder that is renumbered no session stays.
LEMMA FoundElsewhere ==
  ASSUME IInv, NEW f \in Folders, Renumbered(f)
  PROVE  NothingAhead' /\ ByKeyStands'
<1>1. /\ nextUid' = nextUid /\ NothingAhead'
      /\ \A s \in Slots : s[1] # f => box'[s] = box[s]
  BY RenumberKeepsUids DEF Renumbered, IInv, TypeOK
<1>2. folder' = folder /\ byKey' = byKey /\ unread' = unread
  BY DEF Renumbered, findVars
<1>3. conn' => conn /\ folder # f
  BY DEF Renumbered
<1>4. ASSUME NEW k \in Keys, byKey[k] # 0, conn'
      PROVE  box'[<<folder, byKey[k]>>] \in {k, NoKey}
  <2>1. folder \in Folders
    BY <1>4 DEF IInv, SessionInPlace, TypeOK, NoUid
  <2>2. <<folder, byKey[k]>> \in Slots
    BY <1>4, <2>1 DEF IInv, TypeOK, Slots
  <2>3. box'[<<folder, byKey[k]>>] = box[<<folder, byKey[k]>>]
    BY <1>1, <1>3, <1>4, <2>2
  <2>. QED BY <1>3, <1>4, <2>3 DEF IInv, ByKeyStands
<1>. QED BY <1>1, <1>2, <1>4 DEF IInv, ByKeyStands

\* What a chunk adds to by_key is listed mail, and its own.
LEMMA FetchStands ==
  ASSUME IInv, FetchChunk
  PROVE  /\ ByKeyStands' /\ unread' \subseteq unread
         /\ \A k \in Keys : \/ byKey'[k] = byKey[k]
                            \/ byKey'[k] \in Uids /\ box[<<folder, byKey'[k]>>] = k
         /\ \A u \in unread \ unread', k \in Keys : box[<<folder, u>>] = k => byKey'[k] # 0
         /\ \A k \in Keys : byKey[k] # 0 => byKey'[k] # 0
<1>1. PICK b \in SUBSET unread :
        LET found(k) == {u \in b : box[<<folder, u>>] = k}
        IN /\ unread' = unread \ b
           /\ byKey' = [k \in Keys |->
                          IF found(k) = {} THEN byKey[k]
                          ELSE CHOOSE u \in found(k) : \A v \in found(k) : v <= u]
  BY DEF FetchChunk
<1>. DEFINE found(k) == {u \in b : box[<<folder, u>>] = k}
<1>2. b \subseteq Uids
  BY DEF IInv, TypeOK
<1>3. ASSUME NEW k \in Keys, found(k) # {}
      PROVE  byKey'[k] \in b /\ byKey'[k] \in Uids /\ box[<<folder, byKey'[k]>>] = k
  <2>1. found(k) \in SUBSET Uids
    BY <1>2
  <2>2. \E u \in found(k) : \A v \in found(k) : v <= u
    BY <1>3, <2>1, HasMax
  <2>3. byKey'[k] = CHOOSE u \in found(k) : \A v \in found(k) : v <= u
    BY <1>1, <1>3
  <2>4. byKey'[k] \in found(k)
    BY <2>2, <2>3
  <2>. QED BY <1>2, <2>4
<1>4. \A k \in Keys : found(k) = {} => byKey'[k] = byKey[k]
  BY <1>1
<1>5. /\ folder \in Folders /\ folder' = folder /\ conn' = conn
      /\ UNCHANGED <<box, nextUid>>
  BY DEF FetchChunk, IInv, SessionInPlace, sessionVars, serverVars
<1>6. ASSUME NEW u \in Uids, box[<<folder, u>>] \in Keys PROVE u < nextUid[folder]
  <2>1. <<folder, u>> \in Slots /\ <<folder, u>>[1] = folder /\ <<folder, u>>[2] = u
    BY <1>5 DEF Slots
  <2>2. nextUid[folder] \in Nat
    BY <1>5, UidBounds DEF IInv, TypeOK, ServerTypeOK
  <2>3. ~ (u >= nextUid[folder])
    BY <1>6, <2>1, ServerAssumption DEF IInv, NothingAhead, ServerAssumption
  <2>. QED BY <2>2, <2>3, UidBounds
<1>13. \A k \in Keys : \/ byKey'[k] \in b /\ byKey'[k] \in Uids /\ box[<<folder, byKey'[k]>>] = k
                       \/ byKey'[k] = byKey[k]
  BY <1>3, <1>4
<1>7. ASSUME NEW k \in Keys, byKey'[k] # 0
      PROVE  byKey'[k] < nextUid[folder] /\ byKey'[k] \notin unread'
  <2>1. unread' = unread \ b
    BY <1>1
  <2>2. CASE byKey'[k] = byKey[k]
    BY <1>7, <2>1, <2>2 DEF IInv, ByKeyStands
  <2>3. CASE byKey'[k] \in b /\ byKey'[k] \in Uids /\ box[<<folder, byKey'[k]>>] = k
    BY <1>6, <2>1, <2>3
  <2>. QED BY <1>13, <2>2, <2>3
<1>8. ASSUME NEW j \in Keys, NEW k \in Keys, byKey'[j] = byKey'[k], byKey'[j] # 0
      PROVE  j = k
  <2>1. \A i \in Keys : byKey[i] # 0 => byKey[i] \notin b
    BY DEF IInv, ByKeyStands
  <2>. QED BY <1>13, <1>8, <2>1 DEF IInv, ByKeyStands
<1>9. conn => \A k \in Keys : byKey'[k] # 0 => box[<<folder, byKey'[k]>>] \in {k, NoKey}
  BY <1>3, <1>4 DEF IInv, ByKeyStands
<1>10. ByKeyStands'
  BY <1>5, <1>7, <1>8, <1>9 DEF ByKeyStands
<1>11. \A u \in unread \ unread', k \in Keys : box[<<folder, u>>] = k => byKey'[k] # 0
  <2>. SUFFICES ASSUME NEW u \in unread \ unread', NEW k \in Keys, box[<<folder, u>>] = k
                PROVE  byKey'[k] # 0
    OBVIOUS
  <2>1. u \in found(k)
    BY <1>1
  <2>2. byKey'[k] \in Uids
    BY <1>3, <2>1
  <2>. QED BY <2>2, UidBounds
<1>12. ASSUME NEW k \in Keys, byKey[k] # 0 PROVE byKey'[k] # 0
  <2>1. \A u \in Uids : u # 0
    BY UidBounds
  <2>. QED BY <1>12, <1>13, <2>1
<1>. QED BY <1>1, <1>3, <1>4, <1>10, <1>11, <1>12

LEMMA IInvStep ==
  ASSUME IInv, [Next]_vars
  PROVE  IInv'
<1>1. Typed'
  BY TypedStep DEF IInv, Typed
<1>2. ServerTypeOK /\ ServerTypeOK' /\ NothingAhead
  BY <1>1 DEF Typed, IInv, TypeOK
<1>. SUFFICES NothingAhead' /\ ByKeyStands'
  BY <1>1 DEF Typed, IInv
<1>3. CASE UNCHANGED <<box, nextUid, validity, folder, byKey, unread>> /\ (conn' => conn)
  BY <1>2, <1>3, StillKeeps, Found
<1>4. CASE UNCHANGED <<box, nextUid, validity>> /\ byKey' = NoUid
  BY <1>2, <1>4, StillKeeps, Cleared
<1>5. CASE Start
  BY <1>4, <1>5 DEF Start, IInv, SessionInPlace, serverVars
<1>6. CASE Finish \/ Abort \/ Traceback \/ Crash
  BY <1>4, <1>6 DEF Finish, Abort, Traceback, Crash, Quit, serverVars, mailVars
<1>7. ASSUME NEW r \in Rows, ListUids(r) PROVE NothingAhead' /\ ByKeyStands'
  BY <1>4, <1>7 DEF ListUids, NoKeysYet, serverVars
<1>8. CASE FetchChunk
  <2>1. NothingAhead'
    BY <1>2, <1>8 DEF FetchChunk, serverVars, NothingAhead
  <2>. QED BY <1>8, <2>1, FetchStands
<1>9. CASE Locate \/ FolderDone \/ TakeBatch \/ Send \/ MoveReturns \/ MoveRaises
  BY <1>3, <1>9
     DEF Locate, FolderDone, TakeBatch, Send, MoveReturns, MoveRaises, serverVars, sessionVars, findVars
<1>10. ASSUME NEW r \in Rows, OpenHome(r) \/ Record(r) PROVE NothingAhead' /\ ByKeyStands'
  BY <1>3, <1>10 DEF OpenHome, Record, serverVars, sessionVars, findVars
<1>11. ASSUME NEW u \in Uids, ServerMoves(u) PROVE NothingAhead' /\ ByKeyStands'
  <2>1. At(u) \in Slots /\ home \in Folders /\ MoveOne(At(u), home)
    BY <1>11 DEF ServerMoves, Serving, At, Slots, IInv, SessionInPlace
  <2>2. validity' = validity /\ folder' = folder /\ byKey' = byKey /\ unread' = unread /\ conn' = conn
    BY <1>11 DEF ServerMoves, ClientWaits, sessionVars, findVars
  <2>. QED BY <1>2, <2>1, <2>2, MoveKeeps, Found
<1>12. CASE ServerRefuses \/ Drop \/ UNCHANGED vars
  BY <1>3, <1>12
     DEF ServerRefuses, Drop, ClientWaits, vars, mailVars, serverVars, sessionVars, findVars
<1>13. CASE Owner
  <2>1. UNCHANGED <<folder, byKey, unread, conn>>
    BY <1>13 DEF Owner, sessionVars, findVars
  <2>. QED BY <1>2, <1>13, <2>1, OwnerKeeps, Found DEF Owner
<1>. QED
  BY <1>5, <1>6, <1>7, <1>8, <1>9, <1>10, <1>11, <1>12, <1>13, FoundElsewhere
  DEF Next, ProcessWorks, ServerWorks, Mishap

LEMMA IInvInit ==
  Init => IInv
BY TypedInit DEF Init, IInv, Typed, ByKeyStands, NoUid

\* Undo keeps its place: folder, rows and UIDs in hand belong together, so that a
\* UID that has become stale names no mail but the run's (recovery.py 48-76).
THEOREM UndoInvariance ==
  Spec => []IInv
BY IInvInit, IInvStep, PTL DEF Spec

\* The state of undo stays within its types, whatever the run, the mailbox and
\* the order of the steps (recovery.py 23-116).
THEOREM UndoTypeCorrect ==
  Spec => []TypeOK
<1>1. IInv => TypeOK
  BY DEF IInv
<1>. QED BY <1>1, UndoInvariance, PTL

-----------------------------------------------------------------------------
(* What a step does to the mail.                                            *)

\* Of a message that is left alone no folder gets more copies or loses the last.
Settled(k) ==
  \A f \in Folders : (Holds(f, k)' <=> Holds(f, k)) /\ Copies(f, k)' <= Copies(f, k)

LEMMA UidSetsAreFinite ==
  \A S \in SUBSET Uids : IsFiniteSet(S) /\ Cardinality(S) \in Nat
<1>1. IsFiniteSet(Uids)
  BY FS_Interval, UidBounds DEF Uids
<1>. QED BY <1>1, FS_Subset, FS_CardinalityType

LEMMA CopiesAreFinite ==
  \A f, k : /\ IsFiniteSet({u \in Uids : box[<<f, u>>] = k})
            /\ Copies(f, k) \in Nat /\ Copies(f, k)' \in Nat
            /\ Copies(f, k) = 0 <=> ~ Holds(f, k)
<1>. TAKE f, k
<1>1. /\ {u \in Uids : box[<<f, u>>] = k} \in SUBSET Uids
      /\ {u \in Uids : box'[<<f, u>>] = k} \in SUBSET Uids
  OBVIOUS
<1>2. IsFiniteSet({u \in Uids : box[<<f, u>>] = k}) /\ Copies(f, k) \in Nat
  BY <1>1, UidSetsAreFinite DEF Copies
<1>3. Copies(f, k)' \in Nat
  BY <1>1, UidSetsAreFinite DEF Copies
<1>4. Copies(f, k) = 0 <=> {u \in Uids : box[<<f, u>>] = k} = {}
  BY <1>2, FS_EmptySet DEF Copies
<1>. QED BY <1>2, <1>3, <1>4 DEF Holds

\* Where a message lies as it lay, nothing of it has changed.
LEMMA SettledThere ==
  ASSUME NEW k, \A s \in Slots : box'[s] = k <=> box[s] = k
  PROVE  Settled(k)
<1>. SUFFICES ASSUME NEW f \in Folders
              PROVE  (Holds(f, k)' <=> Holds(f, k)) /\ Copies(f, k)' <= Copies(f, k)
  BY DEF Settled
<1>1. \A u \in Uids : box'[<<f, u>>] = k <=> box[<<f, u>>] = k
  BY DEF Slots
<1>2. {u \in Uids : box'[<<f, u>>] = k} = {u \in Uids : box[<<f, u>>] = k}
  BY <1>1
<1>3. Copies(f, k)' = Copies(f, k)
  BY <1>2 DEF Copies
<1>4. Copies(f, k) \in Nat
  BY CopiesAreFinite
<1>. QED BY <1>1, <1>3, <1>4 DEF Holds

LEMMA OwnerSettles ==
  ASSUME ServerTypeOK, NothingAhead, OwnerStep, NEW k \in Keys, k \notin touched'
  PROVE  \A s \in Slots : box'[s] = k <=> box[s] = k
<1>1. \A s \in Slots : box[s] = k => box'[s] = k
  BY OwnerEffect
<1>2. PICK s \in Slots : \/ OwnerExpunges(s) \/ OwnerFlags(s)
                         \/ \E d \in Folders : OwnerMoves(s, d)
  BY DEF OwnerStep
<1>3. Occupied(s) /\ box[s] # k
  BY <1>2 DEF OwnerExpunges, OwnerFlags, OwnerMoves, OwnerTouches
<1>4. k # NoKey
  BY ServerAssumption DEF ServerAssumption
<1>5. CASE OwnerExpunges(s)
  BY <1>1, <1>4, <1>5 DEF OwnerExpunges, ServerTypeOK
<1>6. CASE OwnerFlags(s)
  BY <1>6 DEF OwnerFlags
<1>7. ASSUME NEW d \in Folders, OwnerMoves(s, d) PROVE \A t \in Slots : box'[t] = k <=> box[t] = k
  <2>1. /\ box'[s] = NoKey /\ box'[Put(s, d)] = box[s]
        /\ \A t \in Slots \ {s, Put(s, d)} : box'[t] = box[t]
    BY <1>3, <1>7, MoveEffect DEF OwnerMoves
  <2>. QED BY <1>1, <1>3, <1>4, <2>1
<1>. QED BY <1>2, <1>5, <1>6, <1>7

LEMMA RenumberSettles ==
  ASSUME ServerTypeOK, NothingAhead, NEW g \in Folders, Renumber(g), NEW k \in Keys
  PROVE  Settled(k)
<1>1. PICK p \in Renumberings :
        LET was(s) == IF s[1] = g THEN <<g, p[s[2]]>> ELSE s
        IN box' = [s \in Slots |-> box[was(s)]]
  BY DEF Renumber
<1>2. p \in [Uids -> Uids] /\ \A u, v \in Uids : p[u] = p[v] => u = v
  BY ServerAssumption DEF ServerAssumption
<1>3. \A u \in Uids : box'[<<g, u>>] = box[<<g, p[u]>>]
  BY <1>1 DEF Slots
<1>4. ASSUME NEW f \in Folders PROVE Holds(f, k)' <=> Holds(f, k)
  <2>1. CASE f # g
    <3>1. \A u \in Uids : box'[<<f, u>>] = box[<<f, u>>]
      BY <2>1, RenumberKeepsMail DEF Slots
    <3>. QED BY <3>1 DEF Holds
  <2>2. CASE f = g
    <3>1. Holds(f, k)' => Holds(f, k)
      BY <1>2, <1>3, <2>2 DEF Holds
    <3>2. ASSUME NEW u \in Uids, box[<<f, u>>] = k PROVE Holds(f, k)'
      <4>1. <<f, u>> \in Slots /\ <<f, u>>[1] = g
        BY <2>2 DEF Slots
      <4>2. PICK t \in Slots : t[1] = g /\ box'[t] = box[<<f, u>>]
        BY <4>1, RenumberKeepsMail
      <4>3. t[2] \in Uids /\ t = <<f, t[2]>>
        BY <2>2, <4>2, SlotParts
      <4>. QED BY <3>2, <4>2, <4>3 DEF Holds
    <3>. QED BY <3>1, <3>2 DEF Holds
  <2>. QED BY <2>1, <2>2
<1>5. ASSUME NEW f \in Folders PROVE Copies(f, k)' <= Copies(f, k)
  <2>1. CASE f # g
    <3>1. \A u \in Uids : box'[<<f, u>>] = box[<<f, u>>]
      BY <2>1, RenumberKeepsMail DEF Slots
    <3>2. {u \in Uids : box'[<<f, u>>] = k} = {u \in Uids : box[<<f, u>>] = k}
      BY <3>1
    <3>3. Copies(f, k)' = Copies(f, k)
      BY <3>2 DEF Copies
    <3>4. Copies(f, k) \in Nat
      BY CopiesAreFinite
    <3>. QED BY <3>3, <3>4
  <2>2. CASE f = g
    <3>. DEFINE S == {u \in Uids : box'[<<f, u>>] = k}
                T == {u \in Uids : box[<<f, u>>] = k}
                q == [u \in S |-> p[u]]
    <3>1. q \in Injection(S, T)
      BY <1>2, <1>3, <2>2 DEF Injection, IsInjective
    <3>2. IsFiniteSet(T)
      BY CopiesAreFinite
    <3>3. Cardinality(S) <= Cardinality(T)
      <4>. HIDE DEF S, T, q
      <4>. QED BY <3>1, <3>2, FS_Injection
    <3>. QED BY <3>3 DEF Copies
  <2>. QED BY <2>1, <2>2
<1>. QED BY <1>4, <1>5 DEF Settled

\* A row's message is what the MOVE of its UID takes, and nothing else.
LEMMA MoveOfRow ==
  ASSUME IInv, NEW u \in Uids, ServerMoves(u)
  PROVE  /\ At(u) \in Slots /\ home \in Folders /\ folder \in Folders /\ MoveOne(At(u), home)
         /\ touched' = touched /\ conn /\ pc = "await"
         /\ \E q \in Target : /\ UidOf(q) = u /\ q \in batch /\ q \in Rows
                              /\ Run[q].dst = folder /\ Run[q].src = home /\ home # folder
                              /\ Occupied(At(u)) => box[At(u)] = Run[q].key
<1>1. At(u) \in Slots /\ home \in Folders /\ folder \in Folders /\ MoveOne(At(u), home)
  BY DEF ServerMoves, Serving, At, Slots, IInv, SessionInPlace
<1>2. touched' = touched /\ conn /\ pc = "await" /\ u \in left
  BY DEF ServerMoves, ClientWaits, Serving, First
<1>3. PICK q \in Target : UidOf(q) = u
  BY <1>2 DEF IInv, RowsInPlace
<1>4. q \in batch /\ q \in Rows /\ q \in group
  BY DEF Target, IInv, TypeOK, RowsInPlace
<1>5. Run[q].dst = folder /\ Run[q].src = home /\ home # folder
  BY <1>4, UndoAssumption DEF IInv, RowsInPlace, UndoAssumption
<1>6. Occupied(At(u)) => box[At(u)] = Run[q].key
  <2>1. byKey[Run[q].key] = u /\ u # 0 /\ Run[q].key \in Keys
    BY <1>3, <1>4, RowParts, UidBounds DEF UidOf
  <2>2. box[<<folder, u>>] \in {Run[q].key, NoKey}
    BY <1>2, <2>1 DEF IInv, ByKeyStands
  <2>. QED BY <2>2 DEF Occupied, At
<1>. QED BY <1>1, <1>2, <1>3, <1>4, <1>5, <1>6

LEMMA MoveTakesHome ==
  ASSUME IInv, NEW u \in Uids, ServerMoves(u), Occupied(At(u))
  PROVE  /\ \A k \in Keys \ {box[At(u)]} : Settled(k)
         /\ \A v \in Uids : box'[<<folder, v>>] = box[At(u)] <=>
              v # u /\ box[<<folder, v>>] = box[At(u)]
         /\ \A k \in Keys, f, h \in Folders : k = box[At(u)] /\ f = folder /\ h = home =>
              Holds(h, k)' /\ Copies(f, k)' < Copies(f, k)
<1>1. /\ At(u) \in Slots /\ home \in Folders /\ folder \in Folders /\ MoveOne(At(u), home)
      /\ home # folder
  BY MoveOfRow
<1>2. /\ Put(At(u), home) \in Slots /\ box[Put(At(u), home)] = NoKey
      /\ box'[At(u)] = NoKey /\ box'[Put(At(u), home)] = box[At(u)]
      /\ \A t \in Slots \ {At(u), Put(At(u), home)} : box'[t] = box[t]
  BY <1>1, MoveEffect DEF IInv, TypeOK
<1>3. NoKey \notin Keys
  BY ServerAssumption DEF ServerAssumption
<1>4. ASSUME NEW k \in Keys \ {box[At(u)]} PROVE Settled(k)
  <2>1. \A s \in Slots : box'[s] = k <=> box[s] = k
    BY <1>2, <1>3
  <2>. QED BY <2>1, SettledThere
<1>5. \E v \in Uids : box'[<<home, v>>] = box[At(u)]
  <2>1. Put(At(u), home) = <<home, nextUid[home]>> /\ nextUid[home] \in Uids
    BY <1>2 DEF Put, Slots
  <2>. QED BY <1>2, <2>1
<1>6. ASSUME NEW v \in Uids
      PROVE  box'[<<folder, v>>] = box[At(u)] <=> v # u /\ box[<<folder, v>>] = box[At(u)]
  <2>1. <<folder, v>> \in Slots /\ <<folder, v>> # Put(At(u), home)
    BY <1>1 DEF Slots, Put
  <2>2. v # u => <<folder, v>> # At(u)
    BY DEF At
  <2>. QED BY <1>2, <2>1, <2>2 DEF At, Occupied
<1>7. ASSUME NEW k \in Keys, NEW f \in Folders, NEW h \in Folders,
             k = box[At(u)], f = folder, h = home
      PROVE  Holds(h, k)' /\ Copies(f, k)' < Copies(f, k)
  <2>. DEFINE S == {v \in Uids : box[<<f, v>>] = k}
  <2>1. {v \in Uids : box'[<<f, v>>] = k} = S \ {u}
    BY <1>6, <1>7
  <2>2. u \in S /\ IsFiniteSet(S)
    BY <1>7, CopiesAreFinite DEF At
  <2>3. Cardinality(S \ {u}) = Cardinality(S) - 1 /\ Cardinality(S) \in Nat
    <3>. HIDE DEF S
    <3>. QED BY <2>2, FS_RemoveElement, FS_CardinalityType
  <2>4. Copies(f, k)' = Cardinality(S \ {u}) /\ Copies(f, k) = Cardinality(S)
    BY <2>1 DEF Copies
  <2>5. Holds(h, k)'
    BY <1>5, <1>7 DEF Holds
  <2>. QED BY <2>3, <2>4, <2>5
<1>. QED BY <1>4, <1>6, <1>7

\* Of all steps only a MOVE disturbs mail that the owner has left alone.
LEMMA StepSettles ==
  ASSUME IInv, [Next]_vars
  PROVE  /\ touched \subseteq touched'
         /\ \/ \A k \in Keys : k \notin touched' => Settled(k)
            \/ \E u \in Uids : ServerMoves(u) /\ Occupied(At(u))
<1>1. ServerTypeOK /\ NothingAhead
  BY DEF IInv, TypeOK
<1>2. CASE UNCHANGED <<box, touched>>
  BY <1>2, SettledThere
<1>3. CASE \/ Start \/ Finish \/ FetchChunk \/ Locate \/ FolderDone \/ TakeBatch \/ Send
           \/ MoveReturns \/ MoveRaises \/ ServerRefuses \/ Abort \/ Crash \/ Drop \/ Traceback
           \/ UNCHANGED vars
  BY <1>2, <1>3
     DEF Start, Finish, FetchChunk, Locate, FolderDone, TakeBatch, Send, MoveReturns, MoveRaises,
         ServerRefuses, Abort, Crash, Drop, Traceback, ClientWaits, vars, serverVars, mailVars
<1>4. ASSUME NEW r \in Rows, ListUids(r) \/ OpenHome(r) \/ Record(r)
      PROVE  UNCHANGED <<box, touched>>
  BY <1>4 DEF ListUids, OpenHome, Record, serverVars
<1>5. ASSUME NEW f \in Folders, Renumbered(f)
      PROVE  touched \subseteq touched' /\ \A k \in Keys : Settled(k)
  BY <1>1, <1>5, RenumberSettles, RenumberKeepsMail DEF Renumbered
<1>6. CASE Owner
  <2>1. OwnerStep
    BY <1>6 DEF Owner
  <2>2. touched \subseteq touched'
    BY <1>1, <2>1, OwnerEffect
  <2>3. ASSUME NEW k \in Keys, k \notin touched' PROVE Settled(k)
    BY <1>1, <2>1, <2>3, OwnerSettles, SettledThere
  <2>. QED BY <2>2, <2>3
<1>7. ASSUME NEW u \in Uids, ServerMoves(u), ~ Occupied(At(u)) PROVE UNCHANGED <<box, touched>>
  BY <1>7, MoveOfRow DEF MoveOne, mailVars
<1>8. ASSUME NEW u \in Uids, ServerMoves(u) PROVE touched' = touched
  BY <1>8, MoveOfRow
<1>. QED BY <1>2, <1>3, <1>4, <1>5, <1>6, <1>7, <1>8 DEF Next, ProcessWorks, ServerWorks, Mishap

\* Undo takes nothing but what the run has moved, and takes it home
\* (recovery.py 48-76).
THEOREM UndoTakesOnlyItsOwn ==
  Spec => TakesHomeWhatWasMoved
<1>1. ASSUME IInv, [Next]_vars, ToolStep, NEW s \in Slots, Occupied(s), box'[s] # box[s]
      PROVE  \E r \in Rows : /\ Run[r].dst = s[1] /\ Run[r].key = box[s]
                             /\ box'[Put(s, Run[r].src)] = box[s]
  <2>1. ~ Owner
    <3>1. ASSUME NEW t \in Slots, OwnerTouches(t) PROVE userSteps' # userSteps
      BY <1>1, <3>1, ServerAssumption DEF OwnerTouches, IInv, TypeOK, ServerTypeOK, ServerAssumption
    <3>. QED BY <1>1, <3>1
         DEF ToolStep, Owner, OwnerStep, OwnerExpunges, OwnerFlags, OwnerMoves
  <2>2. \A f \in Folders : ~ Renumbered(f)
    <3>1. ASSUME NEW f \in Folders, Renumber(f) PROVE validity' # validity
      <4>1. validity'[f] = validity[f] + 1 /\ validity[f] \in Nat
        BY <1>1, <3>1 DEF Renumber, IInv, TypeOK, ServerTypeOK
      <4>. QED BY <4>1
    <3>. QED BY <1>1, <3>1 DEF ToolStep, Renumbered
  <2>3. ~ UNCHANGED box
    BY <1>1
  <2>4. PICK u \in Uids : ServerMoves(u)
    <3>1. \A r \in Rows : ~ (ListUids(r) \/ OpenHome(r) \/ Record(r))
      BY <2>3 DEF ListUids, OpenHome, Record, serverVars
    <3>. QED BY <1>1, <2>1, <2>2, <2>3, <3>1
         DEF Next, ProcessWorks, ServerWorks, Mishap, Start, Finish, FetchChunk, Locate, FolderDone,
             TakeBatch, Send, MoveReturns, MoveRaises, ServerRefuses, Abort, Crash, Drop, Traceback,
             ClientWaits, vars, serverVars, mailVars
  <2>5. PICK q \in Target : /\ q \in Rows /\ Run[q].dst = folder /\ Run[q].src = home
                            /\ Occupied(At(u)) => box[At(u)] = Run[q].key
    BY <1>1, <2>4, MoveOfRow
  <2>6. At(u) \in Slots /\ home \in Folders /\ MoveOne(At(u), home)
    BY <1>1, <2>4, MoveOfRow
  <2>7. Occupied(At(u))
    BY <2>3, <2>6 DEF MoveOne, mailVars
  <2>8. /\ box[Put(At(u), home)] = NoKey /\ box'[Put(At(u), home)] = box[At(u)]
        /\ \A t \in Slots \ {At(u), Put(At(u), home)} : box'[t] = box[t]
    BY <1>1, <2>6, <2>7, MoveEffect DEF IInv, TypeOK
  <2>9. s = At(u)
    BY <1>1, <2>8 DEF Occupied
  <2>. QED BY <2>5, <2>7, <2>8, <2>9 DEF At
<1>2. IInv /\ [Next]_vars =>
        [ToolStep => \A s \in Slots : Occupied(s) /\ box'[s] # box[s] =>
           \E r \in Rows : /\ Run[r].dst = s[1] /\ Run[r].key = box[s]
                           /\ box'[Put(s, Run[r].src)] = box[s]]_vars
  BY <1>1
<1>. QED BY <1>2, UndoInvariance, PTL DEF Spec, TakesHomeWhatWasMoved

-----------------------------------------------------------------------------
(* Deeds: what is said to be taken home is at home.                         *)

LEMMA TwinsFiniteSet ==
  \A r : IsFiniteSet(Twins(r))
<1>. TAKE r
<1>1. IsFiniteSet(Rows)
  BY UndoAssumption, FS_Interval DEF UndoAssumption, Rows
<1>2. Twins(r) \in SUBSET Rows
  BY DEF Twins
<1>. QED BY <1>1, <1>2, FS_Subset

LEMMA TwinsAreFinite ==
  \A r : Cardinality(Twins(r)) \in Nat
BY TwinsFiniteSet, FS_CardinalityType

LEMMA TwinTakenHome ==
  ASSUME NEW q \in Rows, NEW r \in Rows, Run[q].key = Run[r].key
  PROVE  TakenHome(q) <=> TakenHome(r)
<1>1. Run[q].dst = Run[r].dst
  BY UndoAssumption DEF UndoAssumption
<1>2. Twins(q) = Twins(r)
  BY <1>1 DEF Twins
<1>3. OneHomePerKey => Run[q].src = Run[r].src
  BY DEF OneHomePerKey
<1>. QED BY <1>1, <1>2, <1>3 DEF TakenHome

\* Rows that were found at one UID are rows of one message.
LEMMA OneUidOneKey ==
  ASSUME IInv, NEW q \in Rows, NEW r \in Rows, UidOf(q) = UidOf(r), UidOf(q) # 0
  PROVE  Run[q].key = Run[r].key
BY RowParts DEF IInv, ByKeyStands, UidOf

LEMMA MovedHome ==
  ASSUME IInv, NoNewCopies, NEW u \in Uids, ServerMoves(u), Occupied(At(u)),
         NEW r \in Rows, Run[r].key = box[At(u)]
  PROVE  TakenHome(r)'
<1>1. PICK q \in Target : /\ q \in Rows /\ Run[q].dst = folder /\ Run[q].src = home
                          /\ box[At(u)] = Run[q].key
  BY MoveOfRow
<1>2. folder \in Folders /\ home \in Folders /\ touched' = touched
  BY MoveOfRow
<1>3. Run[r].dst = folder
  BY <1>1, UndoAssumption DEF UndoAssumption
<1>4. OneHomePerKey => Run[r].src = home
  BY <1>1 DEF OneHomePerKey
<1>5. \A k \in Keys, f, h \in Folders : k = box[At(u)] /\ f = folder /\ h = home =>
        Holds(h, k)' /\ Copies(f, k)' < Copies(f, k)
  BY MoveTakesHome
<1>6. /\ Run[r].key \in Keys /\ Run[r].dst \in Folders /\ Run[r].src \in Folders
  BY RowParts
<1>7. Copies(Run[r].dst, Run[r].key)' < Copies(Run[r].dst, Run[r].key)
  BY <1>2, <1>3, <1>5, <1>6
<1>8. OneHomePerKey => Holds(Run[r].src, Run[r].key)'
  BY <1>2, <1>3, <1>4, <1>5, <1>6
<1>9. NoOtherCopies /\ Run[r].key \notin touched =>
        Copies(Run[r].dst, Run[r].key) <= Cardinality(Twins(r))
  BY DEF NoNewCopies
<1>10. /\ Copies(Run[r].dst, Run[r].key) \in Nat /\ Cardinality(Twins(r)) \in Nat
       /\ Copies(Run[r].dst, Run[r].key)' \in Nat
  BY CopiesAreFinite, TwinsAreFinite
<1>. QED BY <1>2, <1>7, <1>8, <1>9, <1>10 DEF TakenHome

\* What a step leaves settled stays at home.
LEMMA SettledHome ==
  ASSUME NEW r \in Rows, touched \subseteq touched',
         Run[r].key \in touched' \/ Settled(Run[r].key)
  PROVE  /\ TakenHome(r) => TakenHome(r)'
         /\ Run[r].key \notin touched' =>
              /\ Holds(Run[r].dst, Run[r].key)' <=> Holds(Run[r].dst, Run[r].key)
              /\ Copies(Run[r].dst, Run[r].key)' <= Copies(Run[r].dst, Run[r].key)
<1>1. Run[r].dst \in Folders /\ Run[r].src \in Folders
  BY RowParts
<1>2. /\ Copies(Run[r].dst, Run[r].key) \in Nat /\ Cardinality(Twins(r)) \in Nat
  BY CopiesAreFinite, TwinsAreFinite
<1>3. Copies(Run[r].dst, Run[r].key)' \in Nat
  BY CopiesAreFinite
<1>4. Settled(Run[r].key) =>
        /\ Holds(Run[r].dst, Run[r].key)' <=> Holds(Run[r].dst, Run[r].key)
        /\ Holds(Run[r].src, Run[r].key)' <=> Holds(Run[r].src, Run[r].key)
        /\ Copies(Run[r].dst, Run[r].key)' <= Copies(Run[r].dst, Run[r].key)
  BY <1>1 DEF Settled
<1>5. TakenHome(r) => TakenHome(r)'
  BY <1>2, <1>3, <1>4 DEF TakenHome
<1>. QED BY <1>4, <1>5

\* Once at home, a message is at home for good, unless the owner takes it.
LEMMA HomeStays ==
  ASSUME IInv, NoNewCopies, [Next]_vars
  PROVE  /\ NoNewCopies'
         /\ \A r \in Rows : TakenHome(r) => TakenHome(r)'
         /\ \A r \in Rows : Run[r].key \notin touched' /\ ~ Holds(Run[r].dst, Run[r].key) =>
              ~ Holds(Run[r].dst, Run[r].key)'
<1>1. /\ touched \subseteq touched'
      /\ \/ \A k \in Keys : k \notin touched' => Settled(k)
         \/ \E u \in Uids : ServerMoves(u) /\ Occupied(At(u))
  BY StepSettles
<1>2. \A r \in Rows : /\ Run[r].key \in Keys
                      /\ Copies(Run[r].dst, Run[r].key) \in Nat /\ Cardinality(Twins(r)) \in Nat
                      /\ Copies(Run[r].dst, Run[r].key)' \in Nat
  BY RowParts, CopiesAreFinite, TwinsAreFinite
<1>3. ASSUME NEW r \in Rows, Run[r].key \in touched' \/ Settled(Run[r].key)
      PROVE  /\ NoOtherCopies /\ Run[r].key \notin touched' =>
                  Copies(Run[r].dst, Run[r].key)' <= Cardinality(Twins(r))
             /\ TakenHome(r) => TakenHome(r)'
             /\ Run[r].key \notin touched' /\ ~ Holds(Run[r].dst, Run[r].key) =>
                  ~ Holds(Run[r].dst, Run[r].key)'
  <2>1. /\ TakenHome(r) => TakenHome(r)'
        /\ Run[r].key \notin touched' =>
             /\ Holds(Run[r].dst, Run[r].key)' <=> Holds(Run[r].dst, Run[r].key)
             /\ Copies(Run[r].dst, Run[r].key)' <= Copies(Run[r].dst, Run[r].key)
    BY <1>1, <1>3, SettledHome
  <2>2. NoOtherCopies /\ Run[r].key \notin touched' =>
          Copies(Run[r].dst, Run[r].key) <= Cardinality(Twins(r))
    BY <1>1 DEF NoNewCopies
  <2>. QED BY <1>2, <2>1, <2>2
<1>4. ASSUME NEW u \in Uids, ServerMoves(u), Occupied(At(u)), NEW r \in Rows
      PROVE  /\ NoOtherCopies /\ Run[r].key \notin touched' =>
                  Copies(Run[r].dst, Run[r].key)' <= Cardinality(Twins(r))
             /\ TakenHome(r) => TakenHome(r)'
             /\ Run[r].key \notin touched' /\ ~ Holds(Run[r].dst, Run[r].key) =>
                  ~ Holds(Run[r].dst, Run[r].key)'
  <2>1. CASE Run[r].key # box[At(u)]
    BY <1>2, <1>3, <1>4, <2>1, MoveTakesHome
  <2>2. CASE Run[r].key = box[At(u)]
    <3>1. TakenHome(r)'
      BY <1>4, <2>2, MovedHome
    <3>2. NoOtherCopies /\ Run[r].key \notin touched' =>
            Copies(Run[r].dst, Run[r].key)' < Cardinality(Twins(r))
      BY <3>1 DEF TakenHome
    <3>3. Holds(Run[r].dst, Run[r].key)
      <4>1. PICK q \in Target : q \in Rows /\ Run[q].dst = folder /\ box[At(u)] = Run[q].key
        BY <1>4, MoveOfRow
      <4>2. Run[r].dst = folder
        BY <2>2, <4>1, UndoAssumption DEF UndoAssumption
      <4>. QED BY <2>2, <4>2 DEF Holds, At
    <3>. QED BY <1>2, <3>1, <3>2, <3>3
  <2>. QED BY <2>1, <2>2
<1>5. ASSUME NEW r \in Rows
      PROVE  /\ NoOtherCopies /\ Run[r].key \notin touched' =>
                  Copies(Run[r].dst, Run[r].key)' <= Cardinality(Twins(r))
             /\ TakenHome(r) => TakenHome(r)'
             /\ Run[r].key \notin touched' /\ ~ Holds(Run[r].dst, Run[r].key) =>
                  ~ Holds(Run[r].dst, Run[r].key)'
  BY <1>1, <1>2, <1>3, <1>4
<1>6. NoNewCopies'
  BY <1>5 DEF NoNewCopies
<1>. QED BY <1>5, <1>6

LEMMA FoundStays ==
  ASSUME IInv, NoNewCopies, FoundIsThere, [Next]_vars,
         UNCHANGED <<box, folder, byKey>>, group' \subseteq group, conn' => conn
  PROVE  FoundIsThere'
<1>1. ASSUME NEW r \in group, TakenHome(r) PROVE TakenHome(r)'
  BY <1>1, HomeStays DEF IInv, TypeOK
<1>. QED BY <1>1 DEF FoundIsThere, UidOf, InFolder

LEMMA FoundStep ==
  ASSUME IInv, NoNewCopies, FoundIsThere, [Next]_vars
  PROVE  FoundIsThere'
<1>0. \A r \in Rows : TakenHome(r) => TakenHome(r)'
  BY HomeStays
<1>1. CASE Start
  <2>1. \A r \in Rows : byKey' = NoUid /\ UidOf(r)' = 0
    BY <1>1, RowParts DEF Start, UidOf, NoUid, IInv, SessionInPlace
  <2>2. group' = group /\ group \subseteq Rows
    BY <1>1 DEF Start, IInv, TypeOK
  <2>. QED BY <2>1, <2>2 DEF FoundIsThere
<1>2. CASE Finish \/ Abort \/ Traceback \/ Crash
  BY <1>2 DEF Finish, Abort, Traceback, Crash, Quit, FoundIsThere
<1>3. ASSUME NEW r \in Rows, ListUids(r) PROVE FoundIsThere'
  <2>1. \A q \in Rows : UidOf(q)' = 0
    BY <1>3, RowParts DEF ListUids, NoKeysYet, UidOf, NoUid
  <2>2. group' \subseteq Rows
    BY <1>3 DEF ListUids, IInv, TypeOK
  <2>. QED BY <2>1, <2>2 DEF FoundIsThere
<1>4. CASE FetchChunk
  <2>1. /\ group' = group /\ group \subseteq Rows /\ folder' = folder /\ conn' = conn /\ box' = box
    BY <1>4 DEF FetchChunk, IInv, TypeOK, serverVars, sessionVars
  <2>2. ASSUME NEW r \in group, UidOf(r)' # 0, conn PROVE InFolder(r)' \/ TakenHome(r)'
    <3>1. r \in Rows /\ Run[r].key \in Keys
      BY <2>1, RowParts
    <3>2. CASE byKey'[Run[r].key] = byKey[Run[r].key]
      <4>1. UidOf(r)' = UidOf(r)
        BY <3>2 DEF UidOf
      <4>2. InFolder(r) \/ TakenHome(r)
        BY <2>2, <4>1 DEF FoundIsThere
      <4>3. InFolder(r) => InFolder(r)'
        BY <2>1, <4>1 DEF InFolder
      <4>. QED BY <1>0, <3>1, <4>2, <4>3
    <3>3. CASE box[<<folder, byKey'[Run[r].key]>>] = Run[r].key
      BY <2>1, <3>3 DEF InFolder, UidOf
    <3>. QED BY <1>4, <3>1, <3>2, <3>3, FetchStands
  <2>. QED BY <2>1, <2>2 DEF FoundIsThere
<1>5. CASE Locate \/ FolderDone \/ TakeBatch \/ Send \/ MoveReturns \/ MoveRaises
  BY <1>5, FoundStays
     DEF Locate, FolderDone, TakeBatch, Send, MoveReturns, MoveRaises, serverVars, sessionVars, findVars
<1>6. ASSUME NEW r \in Rows, OpenHome(r) \/ Record(r) PROVE FoundIsThere'
  BY <1>6, FoundStays DEF OpenHome, Record, serverVars, sessionVars, findVars
<1>7. CASE ServerRefuses \/ Drop \/ UNCHANGED vars
  BY <1>7, FoundStays
     DEF ServerRefuses, Drop, ClientWaits, vars, mailVars, serverVars, sessionVars, findVars
<1>8. ASSUME UNCHANGED <<folder, byKey, group>>, conn' => conn,
             \A r \in group : conn' /\ UidOf(r) # 0 /\ InFolder(r) =>
               box'[<<folder, UidOf(r)>>] = Run[r].key \/ TakenHome(r)'
      PROVE  FoundIsThere'
  <2>1. group \subseteq Rows
    BY DEF IInv, TypeOK
  <2>2. \A r \in group : UidOf(r)' = UidOf(r)
    BY <1>8 DEF UidOf
  <2>3. \A r \in group : box'[<<folder, UidOf(r)>>] = Run[r].key => InFolder(r)'
    BY <1>8, <2>2 DEF InFolder
  <2>. QED BY <1>0, <1>8, <2>1, <2>2, <2>3 DEF FoundIsThere
<1>9. \A r \in group : r \in Rows /\ Run[r].key \in Keys
  BY RowParts DEF IInv, TypeOK
<1>10. ASSUME NEW r \in group, UidOf(r) # 0
       PROVE  <<folder, UidOf(r)>> \in Slots /\ UidOf(r) \in Uids /\ folder \in Folders
  <2>1. byKey[Run[r].key] # 0 /\ byKey[Run[r].key] \in Uids /\ folder \in Folders
    BY <1>9, <1>10 DEF UidOf, IInv, TypeOK, SessionInPlace, NoUid
  <2>. QED BY <2>1 DEF UidOf, Slots
<1>11. ASSUME NEW u \in Uids, ServerMoves(u) PROVE FoundIsThere'
  <2>1. UNCHANGED <<folder, byKey, group, conn>>
    BY <1>11 DEF ServerMoves, ClientWaits, sessionVars, findVars
  <2>2. /\ At(u) \in Slots /\ home \in Folders /\ MoveOne(At(u), home)
    BY <1>11, MoveOfRow
  <2>3. CASE ~ Occupied(At(u))
    BY <1>8, <2>1, <2>2, <2>3 DEF MoveOne, mailVars, InFolder
  <2>4. CASE Occupied(At(u))
    <3>1. ASSUME NEW r \in group, UidOf(r) # 0, InFolder(r)
          PROVE  box'[<<folder, UidOf(r)>>] = Run[r].key \/ TakenHome(r)'
      <4>1. CASE UidOf(r) = u
        BY <1>9, <1>11, <2>4, <3>1, <4>1, MovedHome DEF InFolder, At
      <4>2. CASE UidOf(r) # u
        <5>1. <<folder, UidOf(r)>> # At(u)
          BY <4>2 DEF At
        <5>2. /\ box[Put(At(u), home)] = NoKey
              /\ \A t \in Slots \ {At(u), Put(At(u), home)} : box'[t] = box[t]
          BY <2>2, <2>4, MoveEffect DEF IInv, TypeOK
        <5>3. Run[r].key # NoKey
          BY <1>9, ServerAssumption DEF ServerAssumption
        <5>. QED BY <1>10, <3>1, <5>1, <5>2, <5>3 DEF InFolder
      <4>. QED BY <4>1, <4>2
    <3>. QED BY <1>8, <2>1, <3>1
  <2>. QED BY <2>3, <2>4
<1>12. CASE Owner
  <2>1. UNCHANGED <<folder, byKey, group, conn>> /\ OwnerStep
    BY <1>12 DEF Owner, sessionVars, findVars
  <2>2. ASSUME NEW r \in group, UidOf(r) # 0, InFolder(r)
        PROVE  box'[<<folder, UidOf(r)>>] = Run[r].key \/ TakenHome(r)'
    <3>1. CASE Run[r].key \in touched'
      BY <3>1 DEF TakenHome
    <3>2. CASE Run[r].key \notin touched'
      BY <1>9, <1>10, <2>1, <2>2, <3>2, OwnerSettles DEF InFolder, IInv, TypeOK
    <3>. QED BY <3>1, <3>2
  <2>. QED BY <1>8, <2>1, <2>2
<1>13. ASSUME NEW f \in Folders, Renumbered(f) PROVE FoundIsThere'
  <2>1. UNCHANGED <<folder, byKey, group>> /\ (conn' => conn /\ folder # f) /\ Renumber(f)
    BY <1>13 DEF Renumbered, findVars
  <2>2. ASSUME NEW r \in group, conn', UidOf(r) # 0, InFolder(r)
        PROVE  box'[<<folder, UidOf(r)>>] = Run[r].key
    BY <1>10, <2>1, <2>2, RenumberKeepsMail DEF InFolder
  <2>. QED BY <1>8, <2>1, <2>2
<1>. QED
  BY <1>1, <1>2, <1>3, <1>4, <1>5, <1>6, <1>7, <1>11, <1>12, <1>13
  DEF Next, ProcessWorks, ServerWorks, Mishap

LEMMA SentStep ==
  ASSUME IInv, NoNewCopies, FoundIsThere, SentIsTaken, [Next]_vars
  PROVE  SentIsTaken'
<1>0. \A r \in Rows : TakenHome(r) => TakenHome(r)'
  BY HomeStays
<1>1. Target \subseteq Rows /\ Target \subseteq batch /\ batch \subseteq group
  BY DEF Target, IInv, TypeOK, RowsInPlace
<1>2. ASSUME UNCHANGED <<pc, batch, trying, byKey, left>> PROVE SentIsTaken'
  <2>1. Target' = Target
    BY <1>2 DEF Target
  <2>. QED BY <1>0, <1>1, <1>2, <2>1 DEF SentIsTaken, UidOf
<1>3. CASE Start \/ Finish \/ FetchChunk \/ Locate \/ FolderDone \/ TakeBatch
           \/ Abort \/ Traceback \/ Crash \/ MoveReturns \/ MoveRaises
  <2>1. pc' # "await"
    BY <1>3
       DEF Start, Finish, FetchChunk, Locate, FolderDone, TakeBatch, Abort, Traceback, Crash, Quit,
           MoveReturns, MoveRaises, Answered, OneAtATime
  <2>. QED BY <2>1 DEF SentIsTaken
<1>4. ASSUME NEW r \in Rows, ListUids(r) \/ OpenHome(r) \/ Record(r) PROVE SentIsTaken'
  BY <1>4 DEF ListUids, OpenHome, Record, SentIsTaken
<1>5. CASE Send
  <2>1. Target' = Target /\ byKey' = byKey /\ left' = {UidOf(r) : r \in Target}
    BY <1>5 DEF Send, Target, findVars
  <2>. QED BY <2>1 DEF SentIsTaken, UidOf
<1>6. CASE ServerRefuses \/ Drop \/ Owner \/ UNCHANGED vars
  BY <1>2, <1>6 DEF ServerRefuses, ClientWaits, Drop, Owner, vars, sessionVars, findVars, moveVars
<1>7. ASSUME NEW f \in Folders, Renumbered(f) PROVE SentIsTaken'
  BY <1>2, <1>7 DEF Renumbered, findVars, moveVars
<1>8. ASSUME NEW u \in Uids, ServerMoves(u) PROVE SentIsTaken'
  <2>1. UNCHANGED <<pc, batch, trying, byKey>> /\ left' = left \ {u} /\ pc = "await" /\ conn
    BY <1>8 DEF ServerMoves, Serving, ClientWaits, findVars
  <2>2. Target' = Target
    BY <2>1 DEF Target
  <2>3. ASSUME NEW r \in Target, UidOf(r) = u PROVE TakenHome(r)'
    <3>1. r \in Rows /\ r \in group /\ u # 0
      BY <1>1, UidBounds
    <3>2. InFolder(r) \/ TakenHome(r)
      BY <2>1, <2>3, <3>1 DEF FoundIsThere
    <3>3. CASE InFolder(r)
      <4>1. box[At(u)] = Run[r].key /\ Run[r].key \in Keys
        BY <2>3, <3>1, <3>3, RowParts DEF InFolder, At
      <4>2. Occupied(At(u))
        BY <4>1, ServerAssumption DEF Occupied, ServerAssumption
      <4>. QED BY <1>8, <3>1, <4>1, <4>2, MovedHome
    <3>. QED BY <1>0, <3>1, <3>2, <3>3
  <2>4. \A r \in Target : UidOf(r)' = UidOf(r)
    BY <2>1 DEF UidOf
  <2>5. \A r \in Target : UidOf(r) \in left \/ TakenHome(r)
    BY <2>1 DEF SentIsTaken
  <2>. QED BY <1>0, <1>1, <2>1, <2>2, <2>3, <2>4, <2>5 DEF SentIsTaken
<1>. QED
  BY <1>3, <1>4, <1>5, <1>6, <1>7, <1>8 DEF Next, ProcessWorks, ServerWorks, Mishap

\* The answer to a MOVE speaks of the rows it was about.
LEMMA AnswerMarks ==
  ASSUME IInv, NEW v \in {"moved", "failed"}, Answered(v)
  PROVE  /\ results' \in [Uids -> {"none", "moved", "failed"}]
         /\ trying' = trying \ Target
         /\ \A r \in batch : \/ results'[UidOf(r)] = v /\ \E q \in Target : UidOf(q) = UidOf(r)
                             \/ /\ results'[UidOf(r)] = results[UidOf(r)]
                                /\ \A q \in Target : UidOf(q) # UidOf(r)
<1>1. \A r \in batch : UidOf(r) \in Uids
  BY RowParts DEF IInv, TypeOK, RowsInPlace, UidOf
<1>2. results' = [u \in Uids |-> IF \E r \in Target : UidOf(r) = u THEN v ELSE results[u]]
  BY DEF Answered
<1>. QED BY <1>1, <1>2 DEF Answered, TriedOnce, IInv, TypeOK

LEMMA MovedStep ==
  ASSUME IInv, NoNewCopies, SentIsTaken, MovedIsTaken, [Next]_vars
  PROVE  MovedIsTaken'
<1>0. \A r \in Rows : TakenHome(r) => TakenHome(r)'
  BY HomeStays
<1>1. batch \subseteq Rows /\ Target \subseteq Rows /\ Target \subseteq batch
  BY DEF Target, IInv, TypeOK, RowsInPlace
<1>2. ASSUME batch' \subseteq batch,
             \A r \in batch' : UidOf(r)' = UidOf(r) /\ results'[UidOf(r)] = results[UidOf(r)]
      PROVE  MovedIsTaken'
  BY <1>0, <1>1, <1>2 DEF MovedIsTaken
<1>3. ASSUME batch' = {} PROVE MovedIsTaken'
  BY <1>3 DEF MovedIsTaken
<1>4. CASE Start \/ Locate \/ FolderDone \/ Send
  BY <1>2, <1>4 DEF Start, Locate, FolderDone, Send, findVars, moveVars, UidOf
<1>5. CASE Finish \/ Abort \/ Traceback \/ Crash
  BY <1>3, <1>5 DEF Finish, Abort, Traceback, Crash, Quit
<1>6. CASE FetchChunk
  BY <1>3, <1>6 DEF FetchChunk, IInv, RowsInPlace
<1>7. ASSUME NEW r \in Rows, ListUids(r) PROVE MovedIsTaken'
  BY <1>3, <1>7 DEF ListUids, IInv, RowsInPlace
<1>8. ASSUME NEW r \in Rows, OpenHome(r) PROVE MovedIsTaken'
  BY <1>2, <1>8 DEF OpenHome, findVars, moveVars, UidOf
<1>9. CASE TakeBatch
  <2>1. results = NoResult /\ results' = results /\ byKey' = byKey /\ batch' \subseteq back /\ back \subseteq Rows
    BY <1>9 DEF TakeBatch, Mine, findVars, moveVars, IInv, RowsInPlace, TypeOK
  <2>2. \A r \in back : UidOf(r) \in Uids
    BY <2>1, RowParts DEF UidOf, IInv, TypeOK, RowsInPlace
  <2>3. \A r \in batch' : results'[UidOf(r)'] = "none"
    BY <2>1, <2>2 DEF NoResult, UidOf
  <2>. QED BY <2>3 DEF MovedIsTaken
<1>10. CASE MoveReturns
  <2>1. Answered("moved") /\ batch' = batch /\ byKey' = byKey /\ pc = "await" /\ left = {}
    BY <1>10 DEF MoveReturns, findVars, IInv, RowsInPlace
  <2>2. ASSUME NEW r \in batch, results'[UidOf(r)] = "moved" PROVE TakenHome(r)
    <3>1. CASE results'[UidOf(r)] = results[UidOf(r)]
      BY <2>2, <3>1 DEF MovedIsTaken
    <3>2. ASSUME NEW q \in Target, UidOf(q) = UidOf(r) PROVE TakenHome(r)
      <4>1. q \in Rows /\ r \in Rows /\ UidOf(r) # 0
        BY <1>1 DEF IInv, RowsInPlace
      <4>2. Run[q].key = Run[r].key
        BY <3>2, <4>1, OneUidOneKey
      <4>3. TakenHome(q)
        BY <2>1 DEF SentIsTaken
      <4>. QED BY <4>1, <4>2, <4>3, TwinTakenHome
    <3>. QED BY <2>1, <3>1, <3>2, AnswerMarks
  <2>. QED BY <1>0, <1>1, <2>1, <2>2 DEF MovedIsTaken, UidOf
<1>11. CASE MoveRaises
  <2>1. batch' = batch /\ byKey' = byKey
    BY <1>11 DEF MoveRaises, findVars
  <2>2. CASE Answered("failed")
    <3>1. \A r \in batch : results'[UidOf(r)] = "moved" => results[UidOf(r)] = "moved"
      BY <2>2, AnswerMarks
    <3>. QED BY <1>0, <1>1, <2>1, <3>1 DEF MovedIsTaken, UidOf
  <2>3. CASE OneAtATime
    BY <1>2, <2>1, <2>3 DEF OneAtATime, UidOf
  <2>. QED BY <1>11, <2>2, <2>3 DEF MoveRaises
<1>12. ASSUME NEW r \in Rows, Record(r) PROVE MovedIsTaken'
  <2>1. byKey' = byKey /\ batch' \subseteq batch /\ (batch' # {} => results' = results)
    BY <1>12 DEF Record, findVars
  <2>. QED BY <1>2, <1>3, <2>1 DEF UidOf
<1>13. CASE ServerRefuses \/ Drop \/ Owner \/ UNCHANGED vars
  BY <1>2, <1>13 DEF ServerRefuses, ClientWaits, Drop, Owner, vars, findVars, moveVars, UidOf
<1>14. ASSUME NEW f \in Folders, Renumbered(f) PROVE MovedIsTaken'
  BY <1>2, <1>14 DEF Renumbered, findVars, moveVars, UidOf
<1>15. ASSUME NEW u \in Uids, ServerMoves(u) PROVE MovedIsTaken'
  BY <1>2, <1>15 DEF ServerMoves, ClientWaits, findVars, UidOf
<1>. QED
  BY <1>4, <1>5, <1>6, <1>7, <1>8, <1>9, <1>10, <1>11, <1>12, <1>13, <1>14, <1>15
  DEF Next, ProcessWorks, ServerWorks, Mishap

LEMMA OnlyRecordLogs ==
  ASSUME [Next]_vars
  PROVE  moves' = moves \/ \E r \in Rows : Record(r)
<1>1. \A r \in Rows : ListUids(r) \/ OpenHome(r) => moves' = moves
  BY DEF ListUids, OpenHome, logVars
<1>2. \A u \in Uids : ServerMoves(u) => moves' = moves
  BY DEF ServerMoves, ClientWaits, logVars
<1>3. \A f \in Folders : Renumbered(f) => moves' = moves
  BY DEF Renumbered, logVars
<1>. QED
  BY <1>1, <1>2, <1>3
  DEF Next, ProcessWorks, ServerWorks, Mishap, Start, Finish, FetchChunk, Locate, FolderDone,
      TakeBatch, Send, MoveReturns, MoveRaises, ServerRefuses, Abort, Crash, Drop, Traceback, Owner,
      ClientWaits, vars, logVars

LEMMA LoggedStep ==
  ASSUME IInv, NoNewCopies, MovedIsTaken, LoggedIsTaken, [Next]_vars
  PROVE  LoggedIsTaken'
<1>0. \A r \in Rows : TakenHome(r) => TakenHome(r)'
  BY HomeStays
<1>1. moves \in Seq(Entries) /\ Len(moves) \in Nat
  BY DEF IInv, TypeOK
<1>2. CASE moves' = moves
  BY <1>0, <1>2 DEF LoggedIsTaken
<1>3. ASSUME NEW r \in Rows, Record(r) PROVE LoggedIsTaken'
  <2>1. CASE results[UidOf(r)] = "moved"
    <3>1. moves' = Append(moves, Reversal(r)) /\ TakenHome(r)
      BY <1>3, <2>1 DEF Record, LogReversal, First, MovedIsTaken
    <3>2. /\ Len(moves') = Len(moves) + 1 /\ moves'[Len(moves) + 1] = Reversal(r)
          /\ \A n \in 1..Len(moves) : moves'[n] = moves[n]
      BY <1>1, <3>1
    <3>3. Len(Run) \in Nat
      BY UndoAssumption DEF UndoAssumption
    <3>4. ASSUME NEW n \in (Len(Run) + 1)..Len(moves')
          PROVE  \E q \in Rows : moves'[n] = Reversal(q) /\ TakenHome(q)
      <4>1. CASE n = Len(moves) + 1
        BY <1>3, <3>1, <3>2, <4>1
      <4>2. CASE n # Len(moves) + 1
        <5>1. n \in (Len(Run) + 1)..Len(moves) /\ n \in 1..Len(moves)
          BY <1>1, <3>2, <3>3, <4>2
        <5>. QED BY <3>2, <5>1 DEF LoggedIsTaken
      <4>. QED BY <4>1, <4>2
    <3>. QED BY <1>0, <3>4 DEF LoggedIsTaken
  <2>2. CASE results[UidOf(r)] # "moved"
    BY <1>2, <1>3, <2>2 DEF Record, LogReversal
  <2>. QED BY <2>1, <2>2
<1>. QED BY <1>2, <1>3, OnlyRecordLogs

LEMMA DeedsStep ==
  ASSUME IInv, Deeds, [Next]_vars
  PROVE  Deeds'
BY HomeStays, FoundStep, SentStep, MovedStep, LoggedStep DEF Deeds

LEMMA DeedsInit ==
  Init => Deeds
<1>. SUFFICES ASSUME Init PROVE Deeds
  OBVIOUS
<1>1. PICK l \in Layouts : box = l.box
  BY DEF Init
<1>2. NoNewCopies
  BY <1>1 DEF NoNewCopies, NoOtherCopies, Copies
<1>3. Len(moves) = Len(Run) /\ Len(Run) \in Nat
  BY UndoAssumption DEF Init, UndoAssumption
<1>4. LoggedIsTaken
  BY <1>3 DEF LoggedIsTaken
<1>. QED BY <1>2, <1>4 DEF Init, Deeds, FoundIsThere, SentIsTaken, MovedIsTaken

\* What undo has found is there, and what it reports moved has come home, at
\* every moment (recovery.py 55-107).
THEOREM DeedsHold ==
  Spec => []Deeds
BY DeedsInit, DeedsStep, UndoInvariance, PTL DEF Spec

\* A reversal in the log has happened (recovery.py 104-106), if the run took all
\* copies of a message from one folder.
THEOREM ReversalsAreReal ==
  ASSUME OneHomePerKey
  PROVE  Spec => []ReversalIsReal
<1>1. IInv /\ Deeds => ReversalIsReal
  <2>. SUFFICES ASSUME IInv, Deeds, NEW n \in (Len(Run) + 1)..Len(moves),
                       moves[n].key \notin touched
                PROVE  Holds(moves[n].dst, moves[n].key)
    BY DEF ReversalIsReal
  <2>1. PICK r \in Rows : moves[n] = Reversal(r) /\ TakenHome(r)
    BY DEF Deeds, LoggedIsTaken
  <2>. QED BY <2>1 DEF Reversal, TakenHome
<1>. QED BY <1>1, UndoInvariance, DeedsHold, PTL

-----------------------------------------------------------------------------
(* Account: no row of the run is forgotten.                                 *)

LEMMA RowSets ==
  ASSUME IInv
  PROVE  /\ group \subseteq Rows /\ batch \subseteq group /\ back \subseteq group
         /\ trying \subseteq batch /\ Target \subseteq batch
         /\ \A r \in batch : UidOf(r) \in Uids /\ UidOf(r) # 0
<1>1. /\ group \subseteq Rows /\ batch \subseteq group /\ back \subseteq group
      /\ trying \subseteq batch /\ Target \subseteq batch
  BY DEF IInv, TypeOK, RowsInPlace, Target
<1>2. \A r \in batch : UidOf(r) \in Uids /\ UidOf(r) # 0
  BY <1>1, RowParts DEF IInv, TypeOK, RowsInPlace, UidOf
<1>. QED BY <1>1, <1>2

LEMMA AnsweredStep ==
  ASSUME IInv, BatchIsAnswered, [Next]_vars
  PROVE  BatchIsAnswered'
<1>1. ASSUME UNCHANGED <<batch, byKey, results, trying>>,
             trying = {} /\ pc \in {"send", "await"} => pc' \in {"send", "await"}
      PROVE  BatchIsAnswered'
  BY <1>1 DEF BatchIsAnswered, InHand, UidOf
<1>2. ASSUME batch' = {} PROVE BatchIsAnswered'
  BY <1>2 DEF BatchIsAnswered
<1>3. CASE Start \/ Finish \/ FetchChunk \/ Locate \/ FolderDone \/ Abort \/ Traceback \/ Crash
  <2>1. batch' = {}
    BY <1>3
       DEF Start, Finish, FetchChunk, Locate, FolderDone, Abort, Traceback, Crash, Quit, IInv,
           RowsInPlace, SessionInPlace
  <2>. QED BY <1>2, <2>1
<1>4. ASSUME NEW r \in Rows, ListUids(r) \/ OpenHome(r) PROVE BatchIsAnswered'
  BY <1>2, <1>4 DEF ListUids, OpenHome, IInv, RowsInPlace
<1>5. CASE TakeBatch
  <2>1. trying' = {} /\ (batch' = {} \/ pc' = "send")
    BY <1>5 DEF TakeBatch, moveVars, IInv, RowsInPlace
  <2>. QED BY <2>1 DEF BatchIsAnswered, InHand
<1>6. ASSUME NEW v \in {"moved", "failed"}, Answered(v), batch' = batch, byKey' = byKey,
             pc = "await"
      PROVE  BatchIsAnswered'
  <2>1. ASSUME NEW q \in batch
        PROVE  results'[UidOf(q)] \in {"moved", "failed"} \/ q \in trying'
    <3>1. CASE results'[UidOf(q)] = v
      BY <3>1
    <3>2. CASE results'[UidOf(q)] = results[UidOf(q)] /\ \A r \in Target : UidOf(r) # UidOf(q)
      <4>1. q \notin Target
        BY <3>2
      <4>2. trying # {}
        BY <4>1 DEF Target
      <4>3. results[UidOf(q)] = "failed" \/ results[UidOf(q)] = "moved" \/ q \in trying
        BY <4>2 DEF BatchIsAnswered, InHand
      <4>4. trying' = trying \ Target
        BY <1>6, AnswerMarks
      <4>. QED BY <3>2, <4>1, <4>3, <4>4
    <3>. QED BY <1>6, <3>1, <3>2, AnswerMarks
  <2>. QED BY <1>6, <2>1 DEF BatchIsAnswered, InHand, UidOf
<1>7. CASE MoveReturns
  BY <1>6, <1>7 DEF MoveReturns, findVars
<1>8. CASE MoveRaises
  <2>1. batch' = batch /\ byKey' = byKey /\ pc = "await"
    BY <1>8 DEF MoveRaises, Raised, findVars
  <2>2. CASE OneAtATime
    BY <2>1, <2>2 DEF OneAtATime, BatchIsAnswered, InHand
  <2>. QED BY <1>6, <1>8, <2>1, <2>2 DEF MoveRaises
<1>9. ASSUME NEW r \in Rows, Record(r) PROVE BatchIsAnswered'
  <2>1. byKey' = byKey /\ batch' \subseteq batch /\ (batch' # {} => results' = results) /\ trying = {}
        /\ pc = "record"
    BY <1>9 DEF Record, findVars, IInv, RowsInPlace
  <2>2. \A q \in batch : results[UidOf(q)] = "failed" \/ results[UidOf(q)] = "moved"
    BY <2>1 DEF BatchIsAnswered, InHand
  <2>. QED BY <1>2, <2>1, <2>2 DEF BatchIsAnswered, InHand, UidOf
<1>10. CASE Send
  BY <1>1, <1>10 DEF Send, findVars
<1>11. CASE ServerRefuses \/ Drop \/ Owner \/ UNCHANGED vars
  BY <1>1, <1>11 DEF ServerRefuses, ClientWaits, Drop, Owner, vars, findVars, moveVars
<1>12. ASSUME NEW f \in Folders, Renumbered(f) PROVE BatchIsAnswered'
  BY <1>1, <1>12 DEF Renumbered, findVars, moveVars
<1>13. ASSUME NEW u \in Uids, ServerMoves(u) PROVE BatchIsAnswered'
  BY <1>1, <1>13 DEF ServerMoves, ClientWaits, findVars
<1>. QED
  BY <1>3, <1>4, <1>5, <1>7, <1>8, <1>9, <1>10, <1>11, <1>12, <1>13
  DEF Next, ProcessWorks, ServerWorks, Mishap

\* What was listed and is there has been identified.
LEMMA ReadStep ==
  ASSUME IInv, ReadSoFar, [Next]_vars
  PROVE  ReadSoFar'
<1>1. \A r \in group : r \in Rows /\ Run[r].key \in Keys
  BY RowSets, RowParts
<1>2. ASSUME pc' # "identify" PROVE ReadSoFar'
  BY <1>2 DEF ReadSoFar
<1>3. CASE Start \/ Finish \/ Locate \/ FolderDone \/ TakeBatch \/ Send \/ Abort \/ Traceback
           \/ Crash \/ MoveReturns \/ MoveRaises
  BY <1>2, <1>3
     DEF Start, Finish, Locate, FolderDone, TakeBatch, Send, Abort, Traceback, Crash, Quit,
         MoveReturns, MoveRaises, Answered, OneAtATime
<1>4. ASSUME NEW r \in Rows, OpenHome(r) \/ Record(r) PROVE ReadSoFar'
  BY <1>2, <1>4 DEF OpenHome, Record
<1>5. ASSUME NEW u \in Uids, ServerMoves(u) PROVE ReadSoFar'
  BY <1>2, <1>5 DEF ServerMoves, Serving, ClientWaits
<1>12. CASE ServerRefuses
  BY <1>2, <1>12 DEF ServerRefuses, Serving, ClientWaits
<1>6. ASSUME NEW r \in Rows, ListUids(r) PROVE ReadSoFar'
  <2>1. box' = box /\ unread' = Live(folder')
    BY <1>6 DEF ListUids, serverVars
  <2>2. group' \subseteq Rows
    BY <1>6 DEF ListUids, IInv, TypeOK
  <2>3. ASSUME NEW q \in group', NEW u \in Uids, box'[<<folder', u>>] = Run[q].key
        PROVE  u \in unread'
    BY <2>1, <2>2, <2>3, RowParts, ServerAssumption DEF Live, Occupied, ServerAssumption
  <2>. QED BY <2>3 DEF ReadSoFar
<1>7. CASE FetchChunk
  <2>1. /\ group' = group /\ folder' = folder /\ conn' = conn /\ box' = box /\ touched' = touched
        /\ pc = "identify" /\ conn
    BY <1>7 DEF FetchChunk, serverVars, sessionVars
  <2>2. ASSUME NEW r \in group, NEW u \in Uids, Run[r].key \notin touched,
               box[<<folder, u>>] = Run[r].key
        PROVE  u \in unread' \/ UidOf(r)' # 0
    <3>1. u \in unread \/ UidOf(r) # 0
      BY <2>1, <2>2 DEF ReadSoFar
    <3>2. CASE UidOf(r) # 0
      BY <1>1, <1>7, <3>2, FetchStands DEF UidOf
    <3>3. CASE u \in unread /\ u \notin unread'
      BY <1>1, <1>7, <2>2, <3>3, FetchStands DEF UidOf
    <3>. QED BY <3>1, <3>2, <3>3
  <2>. QED BY <2>1, <2>2 DEF ReadSoFar
<1>8. ASSUME UNCHANGED <<pc, folder, group, unread, byKey>>, conn' => conn, touched \subseteq touched',
             \A r \in group, u \in Uids :
               Run[r].key \notin touched' /\ (conn' \/ unread = {}) /\ box'[<<folder, u>>] = Run[r].key =>
                 box[<<folder, u>>] = Run[r].key \/ (unread = {} /\ Holds(folder, Run[r].key))
      PROVE  ReadSoFar'
  BY <1>8 DEF ReadSoFar, UidOf, Holds
<1>9. CASE Drop \/ UNCHANGED vars
  <2>1. UNCHANGED <<pc, folder, group, unread, byKey, box, touched>> /\ (conn' => conn)
    BY <1>9 DEF Drop, vars, mailVars, serverVars, sessionVars, findVars
  <2>. QED BY <1>8, <2>1
<1>10. CASE Owner
  <2>1. UNCHANGED <<pc, folder, group, unread, byKey, conn>> /\ OwnerStep
    BY <1>10 DEF Owner, sessionVars, findVars
  <2>2. touched \subseteq touched'
    BY <2>1, OwnerEffect DEF IInv, TypeOK
  <2>3. CASE pc = "identify"
    <3>1. ASSUME NEW r \in group, NEW u \in Uids, Run[r].key \notin touched',
                 box'[<<folder, u>>] = Run[r].key
          PROVE  box[<<folder, u>>] = Run[r].key
      <4>1. <<folder, u>> \in Slots
        BY <2>3 DEF Slots, IInv, SessionInPlace
      <4>. QED BY <1>1, <2>1, <3>1, <4>1, OwnerSettles DEF IInv, TypeOK
    <3>. QED BY <1>8, <2>1, <2>2, <3>1
  <2>. QED BY <1>2, <2>1, <2>3
<1>11. ASSUME NEW f \in Folders, Renumbered(f) PROVE ReadSoFar'
  <2>1. /\ UNCHANGED <<pc, folder, group, unread, byKey>> /\ (conn' => conn /\ folder # f)
        /\ Renumber(f)
    BY <1>11 DEF Renumbered, findVars
  <2>2. touched' = touched
    BY <2>1, RenumberKeepsMail
  <2>3. CASE pc = "identify"
    <3>1. ASSUME NEW r \in group, NEW u \in Uids, box'[<<folder, u>>] = Run[r].key,
                 conn' \/ unread = {}
          PROVE  box[<<folder, u>>] = Run[r].key \/ (unread = {} /\ Holds(folder, Run[r].key))
      <4>1. folder \in Folders /\ <<folder, u>> \in Slots
        BY <2>3 DEF Slots, IInv, SessionInPlace
      <4>2. CASE conn'
        BY <2>1, <3>1, <4>1, <4>2, RenumberKeepsMail
      <4>3. CASE unread = {}
        <5>1. Settled(Run[r].key)
          BY <1>1, <2>1, RenumberSettles DEF IInv, TypeOK
        <5>2. \A g \in Folders : g = folder => (Holds(g, Run[r].key)' => Holds(g, Run[r].key))
          BY <5>1 DEF Settled
        <5>3. \A g \in Folders : g = folder => Holds(g, Run[r].key)'
          BY <3>1 DEF Holds
        <5>. QED BY <4>1, <4>3, <5>2, <5>3
      <4>. QED BY <3>1, <4>2, <4>3
    <3>. QED BY <1>8, <2>1, <2>2, <3>1
  <2>. QED BY <1>2, <2>1, <2>3
<1>. QED
  BY <1>3, <1>4, <1>5, <1>6, <1>7, <1>9, <1>10, <1>11, <1>12
  DEF Next, ProcessWorks, ServerWorks, Mishap

LEMMA SkippedStep ==
  ASSUME IInv, NoNewCopies, ReadSoFar, SkippedIsMissing, [Next]_vars
  PROVE  SkippedIsMissing'
<1>1. /\ touched \subseteq touched' /\ skipped \subseteq Rows
      /\ \A r \in Rows : Run[r].key \notin touched' /\ ~ Holds(Run[r].dst, Run[r].key) =>
                           ~ Holds(Run[r].dst, Run[r].key)'
  BY StepSettles, HomeStays DEF IInv, TypeOK
<1>2. ASSUME skipped' \subseteq skipped PROVE SkippedIsMissing'
  BY <1>1, <1>2 DEF SkippedIsMissing, Missing
<1>3. CASE Start \/ Finish \/ FetchChunk \/ FolderDone \/ TakeBatch \/ Send \/ Abort \/ Traceback
           \/ Crash \/ MoveReturns \/ MoveRaises
  BY <1>2, <1>3
     DEF Start, Finish, FetchChunk, FolderDone, TakeBatch, Send, Abort, Traceback, Crash, Quit,
         MoveReturns, MoveRaises, countVars
<1>4. ASSUME NEW r \in Rows, ListUids(r) \/ OpenHome(r) \/ Record(r) PROVE SkippedIsMissing'
  BY <1>2, <1>4 DEF ListUids, OpenHome, Record, countVars
<1>5. CASE ServerRefuses \/ Drop \/ Owner \/ UNCHANGED vars
  BY <1>2, <1>5 DEF ServerRefuses, ClientWaits, Drop, Owner, vars, countVars
<1>6. ASSUME NEW f \in Folders, Renumbered(f) PROVE SkippedIsMissing'
  BY <1>2, <1>6 DEF Renumbered, countVars
<1>7. ASSUME NEW u \in Uids, ServerMoves(u) PROVE SkippedIsMissing'
  BY <1>2, <1>7 DEF ServerMoves, ClientWaits, countVars
<1>8. CASE Locate
  <2>1. /\ skipped' = skipped \cup {r \in group : UidOf(r) = 0} /\ unread = {} /\ pc = "identify"
    BY <1>8 DEF Locate
  <2>2. ASSUME NEW r \in group, UidOf(r) = 0 PROVE Missing(r)
    <3>1. Run[r].dst = folder
      BY DEF IInv, RowsInPlace
    <3>. QED BY <2>1, <2>2, <3>1 DEF ReadSoFar, Missing, Holds
  <2>3. \A r \in skipped' : Missing(r) /\ r \in Rows
    BY <1>1, <2>1, <2>2, RowSets DEF SkippedIsMissing
  <2>. QED BY <1>1, <2>3 DEF SkippedIsMissing, Missing
<1>. QED
  BY <1>3, <1>4, <1>5, <1>6, <1>7, <1>8 DEF Next, ProcessWorks, ServerWorks, Mishap

\* Faults are counted, and each way of failing is one.
LEMMA FaultsCount ==
  ASSUME IInv, [Next]_vars
  PROVE  /\ faults' = 0 => faults = 0
         /\ faults' = 0 => ~ Abort /\ ~ Crash /\ ~ Drop /\ ~ Fault
         /\ \A f \in Folders : faults' = 0 => ~ Renumbered(f)
<1>1. faults \in Nat
  BY ServerAssumption DEF IInv, TypeOK, ServerTypeOK, ServerAssumption
<1>2. faults' = 0 => ~ Fault
  BY <1>1 DEF Fault
<1>3. /\ faults' = 0 => ~ Abort /\ ~ Crash /\ ~ Drop
      /\ \A f \in Folders : faults' = 0 => ~ Renumbered(f)
  BY <1>2 DEF Abort, Crash, Drop, Renumbered, Renumber
<1>4. ASSUME NEW r \in Rows, ListUids(r) \/ OpenHome(r) \/ Record(r) PROVE faults' = faults
  BY <1>4 DEF ListUids, OpenHome, Record, serverVars
<1>5. ASSUME NEW u \in Uids, ServerMoves(u) PROVE faults' = faults
  BY <1>5 DEF ServerMoves
<1>6. Owner => faults' = faults
  BY DEF Owner, OwnerStep, OwnerExpunges, OwnerFlags, OwnerMoves, OwnerTouches
<1>7. ASSUME \/ Start \/ Finish \/ FetchChunk \/ Locate \/ FolderDone \/ TakeBatch \/ Send
             \/ MoveReturns \/ MoveRaises \/ Traceback \/ UNCHANGED vars
      PROVE  faults' = faults
  BY <1>7 DEF Start, Finish, FetchChunk, Locate, FolderDone, TakeBatch, Send, MoveReturns, MoveRaises,
         Traceback, vars, serverVars
<1>8. ServerRefuses => faults' = faults \/ Fault
  BY DEF ServerRefuses
<1>9. faults' = faults \/ Fault \/ Abort \/ Crash \/ Drop \/ \E f \in Folders : Renumbered(f)
  BY <1>4, <1>5, <1>6, <1>7, <1>8 DEF Next, ProcessWorks, ServerWorks, Mishap
<1>. QED BY <1>2, <1>3, <1>9

LEMMA PoisonStays ==
  ASSUME [Next]_vars
  PROVE  poison' = poison
<1>1. CASE Start \/ Finish \/ FetchChunk \/ Locate \/ FolderDone \/ TakeBatch \/ Send \/ Abort
           \/ Traceback \/ Crash \/ MoveReturns \/ MoveRaises
  BY <1>1
     DEF Start, Finish, FetchChunk, Locate, FolderDone, TakeBatch, Send, Abort, Traceback, Crash, Quit,
         MoveReturns, MoveRaises, countVars
<1>2. ASSUME NEW r \in Rows, ListUids(r) \/ OpenHome(r) \/ Record(r) PROVE poison' = poison
  BY <1>2 DEF ListUids, OpenHome, Record, countVars
<1>3. CASE ServerRefuses \/ Drop \/ Owner \/ UNCHANGED vars
  BY <1>3 DEF ServerRefuses, ClientWaits, Drop, Owner, vars, countVars
<1>4. ASSUME NEW f \in Folders, Renumbered(f) PROVE poison' = poison
  BY <1>4 DEF Renumbered, countVars
<1>5. ASSUME NEW u \in Uids, ServerMoves(u) PROVE poison' = poison
  BY <1>5 DEF ServerMoves, ClientWaits, countVars
<1>. QED
  BY <1>1, <1>2, <1>3, <1>4, <1>5 DEF Next, ProcessWorks, ServerWorks, Mishap

\* An answer that a row was given stands as long as the counts do.
LEMMA AnswerStays ==
  ASSUME IInv, NoNewCopies, [Next]_vars, skipped \subseteq skipped', failed => failed'
  PROVE  \A r \in Rows : Answer(r) => Answer(r)'
<1>1. \A r \in Rows : TakenHome(r) => TakenHome(r)'
  BY HomeStays
<1>2. poison' = poison /\ (faults' = 0 => faults = 0)
  BY PoisonStays, FaultsCount
<1>3. \A r \in Rows : GivenUp(r) => GivenUp(r)'
  BY <1>2 DEF GivenUp
<1>. QED BY <1>1, <1>3 DEF Answer

LEMMA ForgottenStep ==
  ASSUME IInv, NoNewCopies, MovedIsTaken, BatchIsAnswered, FailedIsPoison, NoneForgotten,
         [Next]_vars
  PROVE  NoneForgotten'
<1>1. ASSUME pc' = "idle" PROVE NoneForgotten'
  BY <1>1 DEF NoneForgotten
<1>2. CASE Finish \/ Abort \/ Traceback \/ Crash
  BY <1>1, <1>2 DEF Finish, Abort, Traceback, Crash, Quit
<1>3. CASE Start
  BY <1>3 DEF Start, NoneForgotten, ToDo
<1>4. ASSUME failed => failed', skipped \subseteq skipped', pc # "idle",
             \A r \in Rows : ToDo(r) => ToDo(r)' \/ Answer(r)'
      PROVE  NoneForgotten'
  BY <1>4, AnswerStays DEF NoneForgotten
<1>5. ASSUME NEW q \in Rows, ListUids(q) PROVE NoneForgotten'
  <2>1. /\ back = {} /\ batch = {} /\ pc = "folder" /\ pc' = "identify"
        /\ \A r \in rest : r \in rest' \/ r \in group'
        /\ failed' = failed /\ skipped' = skipped
    BY <1>5 DEF ListUids, IInv, RowsInPlace, countVars
  <2>2. \A r \in Rows : ToDo(r) => ToDo(r)'
    BY <2>1 DEF ToDo
  <2>. QED BY <1>4, <2>1, <2>2
<1>6. CASE Locate
  <2>1. /\ failed' = failed /\ skipped \subseteq skipped' /\ pc = "identify"
        /\ back = {} /\ batch = {} /\ rest' = rest
        /\ \A r \in group : r \in back' \/ r \in skipped'
    BY <1>6 DEF Locate, findVars, IInv, RowsInPlace
  <2>2. \A r \in Rows : ToDo(r) => ToDo(r)' \/ r \in skipped'
    BY <2>1 DEF ToDo
  <2>3. \A r \in Rows : r \in skipped' => Answer(r)'
    BY DEF Answer
  <2>. QED BY <1>4, <2>1, <2>2, <2>3
<1>7. CASE TakeBatch
  <2>1. /\ failed' = failed /\ skipped' = skipped /\ pc = "batch" /\ batch = {} /\ rest' = rest
        /\ back \subseteq back' \cup batch'
    BY <1>7 DEF TakeBatch, findVars, countVars, IInv, RowsInPlace
  <2>2. \A r \in Rows : ToDo(r) => ToDo(r)'
    BY <2>1 DEF ToDo
  <2>. QED BY <1>4, <2>1, <2>2
<1>8. ASSUME NEW q \in Rows, Record(q) PROVE NoneForgotten'
  <2>1. /\ pc = "record" /\ trying = {} /\ q \in batch /\ batch' = batch \ {q}
        /\ rest' = rest /\ back' = back /\ skipped' = skipped
    BY <1>8 DEF Record, First, findVars, IInv, RowsInPlace
  <2>2. faults' = faults /\ poison' = poison /\ (failed => failed')
    BY <1>8, PoisonStays DEF Record, Counted, serverVars
  <2>3. \A r \in Rows : ToDo(r) => ToDo(r)' \/ r = q
    BY <2>1 DEF ToDo
  <2>4. CASE results[UidOf(q)] = "failed"
    <3>1. failed' /\ (faults = 0 => Run[q].key \in poison)
      BY <1>8, <2>1, <2>4 DEF Record, Counted, FailedIsPoison
    <3>2. Answer(q)'
      BY <2>2, <3>1 DEF Answer, GivenUp
    <3>. QED BY <1>4, <2>1, <2>2, <2>3, <3>2
  <2>5. CASE results[UidOf(q)] # "failed"
    <3>1. results[UidOf(q)] = "moved"
      BY <2>1, <2>5 DEF BatchIsAnswered, InHand
    <3>2. TakenHome(q)'
      BY <2>1, <3>1, HomeStays DEF MovedIsTaken
    <3>3. Answer(q)'
      BY <3>2 DEF Answer
    <3>. QED BY <1>4, <2>1, <2>2, <2>3, <3>3
  <2>. QED BY <2>4, <2>5
<1>9. ASSUME failed' = failed, skipped' = skipped, pc # "idle" \/ pc' = pc,
             UNCHANGED <<rest, back, batch, group>>, pc = "identify" => pc' = pc
      PROVE  NoneForgotten'
  <2>1. \A r \in Rows : ToDo(r) => ToDo(r)'
    BY <1>9 DEF ToDo
  <2>2. CASE pc = "idle"
    BY <1>1, <1>9, <2>2
  <2>. QED BY <1>4, <1>9, <2>1, <2>2
<1>10. CASE FetchChunk \/ FolderDone \/ Send \/ MoveReturns \/ MoveRaises
  BY <1>9, <1>10
     DEF FetchChunk, FolderDone, Send, MoveReturns, MoveRaises, Raised, countVars, findVars
<1>11. ASSUME NEW r \in Rows, OpenHome(r) PROVE NoneForgotten'
  BY <1>9, <1>11 DEF OpenHome, countVars, findVars
<1>12. CASE ServerRefuses \/ Drop \/ Owner \/ UNCHANGED vars
  BY <1>9, <1>12 DEF ServerRefuses, ClientWaits, Drop, Owner, vars, countVars, findVars
<1>13. ASSUME NEW f \in Folders, Renumbered(f) PROVE NoneForgotten'
  BY <1>9, <1>13 DEF Renumbered, countVars, findVars
<1>14. ASSUME NEW u \in Uids, ServerMoves(u) PROVE NoneForgotten'
  BY <1>9, <1>14 DEF ServerMoves, ClientWaits, countVars, findVars
<1>. QED
  BY <1>2, <1>3, <1>5, <1>6, <1>7, <1>8, <1>10, <1>11, <1>12, <1>13, <1>14
  DEF Next, ProcessWorks, ServerWorks, Mishap

LEMMA StatusStep ==
  ASSUME IInv, NoNewCopies, NoneForgotten, StatusIsTrue, [Next]_vars
  PROVE  StatusIsTrue'
<1>1. CASE Start
  BY <1>1 DEF Start, StatusIsTrue
<1>2. CASE Finish
  <2>1. /\ pc' = "idle" /\ skipped' = skipped /\ failed' = failed /\ pc = "folder" /\ rest = {}
        /\ status' = IF failed THEN "failed" ELSE "ok"
    BY <1>2 DEF Finish, Quit
  <2>2. \A r \in Rows : ~ ToDo(r)
    BY <2>1 DEF ToDo, IInv, RowsInPlace
  <2>3. \A r \in Rows : Answer(r)'
    BY <2>1, <2>2, AnswerStays DEF NoneForgotten
  <2>. QED BY <2>1, <2>3 DEF StatusIsTrue
<1>3. ASSUME status' = status, pc # "idle" PROVE StatusIsTrue'
  BY <1>3 DEF StatusIsTrue
<1>4. ASSUME status' = status, skipped' = skipped, failed' = failed, pc' = pc PROVE StatusIsTrue'
  BY <1>4, AnswerStays DEF StatusIsTrue
<1>5. CASE FetchChunk \/ Locate \/ FolderDone \/ TakeBatch \/ Send \/ MoveReturns \/ MoveRaises
           \/ Abort \/ Traceback \/ Crash
  BY <1>3, <1>5
     DEF FetchChunk, Locate, FolderDone, TakeBatch, Send, MoveReturns, MoveRaises, Raised, Abort,
         Traceback, Crash, logVars
<1>6. ASSUME NEW r \in Rows, ListUids(r) \/ OpenHome(r) \/ Record(r) PROVE StatusIsTrue'
  BY <1>3, <1>6 DEF ListUids, OpenHome, Record, logVars
<1>7. CASE ServerRefuses \/ Drop \/ Owner \/ UNCHANGED vars
  BY <1>4, <1>7 DEF ServerRefuses, ClientWaits, Drop, Owner, vars, countVars, logVars
<1>8. ASSUME NEW f \in Folders, Renumbered(f) PROVE StatusIsTrue'
  BY <1>4, <1>8 DEF Renumbered, countVars, logVars
<1>9. ASSUME NEW u \in Uids, ServerMoves(u) PROVE StatusIsTrue'
  BY <1>4, <1>9 DEF ServerMoves, ClientWaits, countVars, logVars
<1>. QED
  BY <1>1, <1>2, <1>5, <1>6, <1>7, <1>8, <1>9 DEF Next, ProcessWorks, ServerWorks, Mishap

-----------------------------------------------------------------------------
(* Calm: what a refusal alone does not break.                               *)

LEMMA LineStep ==
  ASSUME IInv, LineHolds, [Next]_vars
  PROVE  LineHolds'
<1>. SUFFICES ASSUME faults' = 0 PROVE (pc' # "idle" => conn') /\ (pc' = "idle" => status' # "running")
  BY DEF LineHolds
<1>0. /\ faults = 0 /\ ~ Abort /\ ~ Crash /\ ~ Drop /\ \A f \in Folders : ~ Renumbered(f)
      /\ pc # "idle" => conn
      /\ pc = "idle" => status # "running"
  BY FaultsCount DEF LineHolds
<1>1. CASE Start
  BY <1>1 DEF Start
<1>2. CASE Finish
  BY <1>2 DEF Finish, Quit
<1>3. CASE Traceback
  BY <1>0, <1>3 DEF Traceback, Uncaught
<1>4. ASSUME pc # "idle", conn' = conn, pc' # "idle"
      PROVE  (pc' # "idle" => conn') /\ (pc' = "idle" => status' # "running")
  BY <1>0, <1>4
<1>5. CASE FetchChunk \/ Locate \/ FolderDone \/ TakeBatch \/ Send \/ MoveReturns \/ MoveRaises
  BY <1>4, <1>5
     DEF FetchChunk, Locate, FolderDone, TakeBatch, Send, MoveReturns, MoveRaises, Raised, Answered,
         OneAtATime, sessionVars
<1>6. ASSUME NEW r \in Rows, ListUids(r) \/ OpenHome(r) \/ Record(r)
      PROVE  pc # "idle" /\ conn' = conn /\ pc' # "idle"
  BY <1>6 DEF ListUids, OpenHome, Record, sessionVars
<1>7. CASE ServerRefuses \/ Owner \/ UNCHANGED vars
  BY <1>0, <1>7 DEF ServerRefuses, ClientWaits, Owner, vars, sessionVars, logVars
<1>8. ASSUME NEW u \in Uids, ServerMoves(u) PROVE pc # "idle" /\ conn' = conn /\ pc' # "idle"
  BY <1>8 DEF ServerMoves, Serving, ClientWaits, sessionVars
<1>. QED
  BY <1>0, <1>1, <1>2, <1>3, <1>4, <1>5, <1>6, <1>7, <1>8
  DEF Next, ProcessWorks, ServerWorks, Mishap

\* A message that is refused when it is tried alone is there, and is one that the
\* server refuses.
LEMMA RefusedTarget ==
  ASSUME IInv, ServerRefuses, ~ Fault, trying # {}
  PROVE  /\ UNCHANGED <<box, touched, folder, byKey, batch, trying, poison>> /\ pc = "await"
         /\ Target' = Target /\ \A r \in Target : UidOf(r)' = UidOf(r)
         /\ \A r \in Target : InFolder(r) /\ Run[r].key \in poison
<1>1. UNCHANGED <<box, touched, folder, byKey, batch, trying, poison>> /\ pc = "await" /\ conn
  BY DEF ServerRefuses, Serving, ClientWaits, mailVars, sessionVars, findVars, countVars
<1>2. Target \subseteq Rows /\ \A r \in Target : UidOf(r) \in Uids /\ r \in group
  BY RowSets
<1>3. Target' = Target /\ \A r \in Target : UidOf(r)' = UidOf(r)
  BY <1>1 DEF Target, UidOf
<1>4. PICK u \in left : box[At(u)] \in poison
  BY DEF ServerRefuses
<1>5. poison \subseteq Keys
  BY UndoAssumption DEF UndoAssumption, IInv, TypeOK
<1>6. PICK q \in Target : UidOf(q) = u
  BY <1>4 DEF IInv, RowsInPlace
<1>7. box[<<folder, u>>] = Run[q].key
  <2>1. byKey[Run[q].key] = u /\ u # 0 /\ Run[q].key \in Keys
    BY <1>2, <1>6, RowParts, UidBounds DEF UidOf
  <2>2. box[<<folder, u>>] \in {Run[q].key, NoKey}
    BY <1>1, <2>1 DEF IInv, ByKeyStands
  <2>. QED BY <1>4, <1>5, <2>2, ServerAssumption DEF ServerAssumption, At
<1>8. \A r \in Target : r = q
  <2>1. \A r \in Target, p \in Target : r <= p
    BY DEF Target, First
  <2>. QED BY <1>2, <2>1, RowParts
<1>. QED BY <1>1, <1>3, <1>4, <1>6, <1>7, <1>8 DEF InFolder, At

LEMMA RefusedStep ==
  ASSUME IInv, RefusedIsThere, [Next]_vars
  PROVE  RefusedIsThere'
<1>. SUFFICES ASSUME faults' = 0, pc' = "await", wire' = "no", trying' # {}
              PROVE  \A r \in Target' : Run[r].key \in touched' \/ InFolder(r)'
  BY DEF RefusedIsThere
<1>0. faults = 0 /\ ~ Abort /\ ~ Crash /\ ~ Drop /\ ~ Fault /\ \A f \in Folders : ~ Renumbered(f)
  BY FaultsCount
<1>1. ~ (\/ Start \/ Finish \/ FetchChunk \/ Locate \/ FolderDone \/ TakeBatch \/ Send
         \/ MoveReturns \/ MoveRaises \/ Traceback)
  BY DEF Start, Finish, FetchChunk, Locate, FolderDone, TakeBatch, Send, Traceback, Quit,
         MoveReturns, MoveRaises, Answered, OneAtATime
<1>2. \A r \in Rows : ~ (ListUids(r) \/ OpenHome(r) \/ Record(r))
  BY DEF ListUids, OpenHome, Record
<1>3. \A u \in Uids : ~ ServerMoves(u)
  BY DEF ServerMoves
<1>4. Target \subseteq Rows /\ \A r \in Target : UidOf(r) \in Uids /\ r \in group
  BY RowSets
<1>5. CASE ServerRefuses
  <2>1. trying # {}
    BY <1>5 DEF ServerRefuses, ClientWaits
  <2>. QED BY <1>0, <1>5, <2>1, RefusedTarget DEF InFolder
<1>6. CASE Owner
  <2>1. UNCHANGED <<pc, wire, folder, byKey, batch, trying>> /\ OwnerStep
    BY <1>6 DEF Owner, sessionVars, findVars, moveVars
  <2>2. Target' = Target /\ \A r \in Target : UidOf(r)' = UidOf(r)
    BY <2>1 DEF Target, UidOf
  <2>3. ASSUME NEW r \in Target, Run[r].key \notin touched'
        PROVE  box'[<<folder, UidOf(r)>>] = Run[r].key
    <3>1. touched \subseteq touched'
      BY <2>1, OwnerEffect DEF IInv, TypeOK
    <3>2. InFolder(r)
      BY <1>0, <2>1, <2>3, <3>1 DEF RefusedIsThere
    <3>3. <<folder, UidOf(r)>> \in Slots /\ Run[r].key \in Keys
      BY <1>4, <2>1, RowParts DEF Slots, IInv, SessionInPlace
    <3>. QED BY <2>1, <2>3, <3>2, <3>3, OwnerSettles DEF InFolder, IInv, TypeOK
  <2>. QED BY <2>1, <2>2, <2>3 DEF InFolder
<1>7. CASE UNCHANGED vars
  <2>1. UNCHANGED <<pc, wire, folder, byKey, batch, trying, box, touched>>
    BY <1>7 DEF vars, serverVars, sessionVars, findVars, moveVars
  <2>2. Target' = Target /\ \A r \in Target : UidOf(r)' = UidOf(r)
    BY <2>1 DEF Target, UidOf
  <2>. QED BY <1>0, <2>1, <2>2 DEF RefusedIsThere, InFolder
<1>. QED
  BY <1>0, <1>1, <1>2, <1>3, <1>5, <1>6, <1>7 DEF Next, ProcessWorks, ServerWorks, Mishap

LEMMA OnlyPoisonStep ==
  ASSUME IInv, OnlyPoisonIsRefused, [Next]_vars
  PROVE  OnlyPoisonIsRefused'
<1>. SUFFICES ASSUME faults' = 0, pc' = "await", wire' = "no", trying' # {}
              PROVE  \A r \in Target' : Run[r].key \in poison'
  BY DEF OnlyPoisonIsRefused
<1>0. faults = 0 /\ ~ Abort /\ ~ Crash /\ ~ Drop /\ ~ Fault /\ \A f \in Folders : ~ Renumbered(f)
  BY FaultsCount
<1>1. ~ (\/ Start \/ Finish \/ FetchChunk \/ Locate \/ FolderDone \/ TakeBatch \/ Send
         \/ MoveReturns \/ MoveRaises \/ Traceback)
  BY DEF Start, Finish, FetchChunk, Locate, FolderDone, TakeBatch, Send, Traceback, Quit,
         MoveReturns, MoveRaises, Answered, OneAtATime
<1>2. \A r \in Rows : ~ (ListUids(r) \/ OpenHome(r) \/ Record(r))
  BY DEF ListUids, OpenHome, Record
<1>3. \A u \in Uids : ~ ServerMoves(u)
  BY DEF ServerMoves
<1>4. CASE ServerRefuses
  <2>1. trying # {}
    BY <1>4 DEF ServerRefuses, ClientWaits
  <2>. QED BY <1>0, <1>4, <2>1, RefusedTarget
<1>5. CASE Owner \/ UNCHANGED vars
  <2>1. UNCHANGED <<pc, wire, batch, trying, poison>>
    BY <1>5 DEF Owner, vars, moveVars, countVars
  <2>. QED BY <1>0, <2>1 DEF OnlyPoisonIsRefused, Target
<1>. QED
  BY <1>0, <1>1, <1>2, <1>3, <1>4, <1>5 DEF Next, ProcessWorks, ServerWorks, Mishap

\* Only the step that tries one message alone marks a row as failed.
LEMMA FailedStep ==
  ASSUME IInv, LineHolds, OnlyPoisonIsRefused, FailedIsPoison, [Next]_vars
  PROVE  FailedIsPoison'
<1>. SUFFICES ASSUME faults' = 0, NEW q \in batch', results'[UidOf(q)'] = "failed"
              PROVE  Run[q].key \in poison
  BY PoisonStays DEF FailedIsPoison
<1>0. faults = 0
  BY FaultsCount
<1>1. ASSUME batch' = {} PROVE FALSE
  BY <1>1
<1>2. ASSUME batch' \subseteq batch, UNCHANGED <<byKey, results>> PROVE Run[q].key \in poison
  BY <1>0, <1>2 DEF FailedIsPoison, UidOf
<1>3. CASE Start \/ Finish \/ FetchChunk \/ Locate \/ FolderDone \/ Abort \/ Traceback \/ Crash
  <2>1. batch' = {}
    BY <1>3
       DEF Start, Finish, FetchChunk, Locate, FolderDone, Abort, Traceback, Crash, Quit, IInv,
           RowsInPlace, SessionInPlace
  <2>. QED BY <1>1, <2>1
<1>4. ASSUME NEW r \in Rows, ListUids(r) \/ OpenHome(r) PROVE Run[q].key \in poison
  BY <1>1, <1>4 DEF ListUids, OpenHome, IInv, RowsInPlace
<1>5. CASE TakeBatch
  <2>1. /\ results' = NoResult /\ byKey' = byKey /\ batch' \subseteq back
    BY <1>5 DEF TakeBatch, Mine, moveVars, findVars, IsBatch, IInv, RowsInPlace
  <2>2. q \in Rows /\ UidOf(q) \in Uids
    <3>1. q \in Rows /\ q \in back
      BY <2>1 DEF IInv, TypeOK
    <3>. QED BY <3>1, RowParts DEF IInv, TypeOK, RowsInPlace, UidOf
  <2>3. UidOf(q)' = UidOf(q)
    BY <2>1 DEF UidOf
  <2>. QED BY <2>1, <2>2, <2>3 DEF NoResult
<1>6. ASSUME NEW v \in {"moved", "failed"}, Answered(v), batch' = batch, byKey' = byKey,
             v = "failed" => \A r \in Target : Run[r].key \in poison
      PROVE  Run[q].key \in poison
  <2>1. UidOf(q)' = UidOf(q) /\ q \in batch
    BY <1>6 DEF UidOf
  <2>2. CASE results'[UidOf(q)] = results[UidOf(q)]
    BY <1>0, <2>1, <2>2 DEF FailedIsPoison
  <2>3. CASE results'[UidOf(q)] # results[UidOf(q)]
    <3>1. v = "failed" /\ \E r \in Target : UidOf(r) = UidOf(q)
      BY <1>6, <2>1, <2>3, AnswerMarks
    <3>2. PICK r \in Target : UidOf(r) = UidOf(q)
      BY <3>1
    <3>3. r \in Rows /\ q \in Rows /\ UidOf(q) # 0
      BY <2>1, RowSets
    <3>4. Run[r].key = Run[q].key
      BY <3>2, <3>3, OneUidOneKey
    <3>. QED BY <1>6, <3>1, <3>4
  <2>. QED BY <2>2, <2>3
<1>7. CASE MoveReturns
  BY <1>6, <1>7 DEF MoveReturns, findVars
<1>8. CASE MoveRaises
  <2>1. batch' = batch /\ byKey' = byKey /\ pc = "await" /\ (wire = "no" \/ ~ conn)
    BY <1>8 DEF MoveRaises, Raised, findVars
  <2>2. CASE OneAtATime
    BY <1>2, <2>1, <2>2 DEF OneAtATime
  <2>3. CASE trying # {} /\ Answered("failed")
    <3>1. conn
      BY <1>0, <2>1 DEF LineHolds
    <3>2. \A r \in Target : Run[r].key \in poison
      BY <1>0, <2>1, <2>3, <3>1 DEF OnlyPoisonIsRefused
    <3>. QED BY <1>6, <2>1, <2>3, <3>2
  <2>. QED BY <1>8, <2>2, <2>3 DEF MoveRaises
<1>9. ASSUME NEW r \in Rows, Record(r) PROVE Run[q].key \in poison
  BY <1>2, <1>9 DEF Record, findVars
<1>10. CASE Send
  BY <1>2, <1>10 DEF Send, findVars
<1>11. CASE ServerRefuses \/ Drop \/ Owner \/ UNCHANGED vars
  BY <1>2, <1>11 DEF ServerRefuses, ClientWaits, Drop, Owner, vars, findVars, moveVars
<1>12. ASSUME NEW f \in Folders, Renumbered(f) PROVE Run[q].key \in poison
  BY <1>2, <1>12 DEF Renumbered, findVars, moveVars
<1>13. ASSUME NEW u \in Uids, ServerMoves(u) PROVE Run[q].key \in poison
  BY <1>2, <1>13 DEF ServerMoves, ClientWaits, findVars
<1>. QED
  BY <1>3, <1>4, <1>5, <1>7, <1>8, <1>9, <1>10, <1>11, <1>12, <1>13
  DEF Next, ProcessWorks, ServerWorks, Mishap

LEMMA AppendedLast ==
  ASSUME moves \in Seq(Entries), NEW e \in Entries, moves' = Append(moves, e)
  PROVE  \A k, d : AlreadyMoved(k, d)' <=> IF e.key = k THEN e.dst = d ELSE AlreadyMoved(k, d)
<1>. TAKE k, d
<1>1. /\ Len(moves) \in Nat /\ Len(moves') = Len(moves) + 1 /\ moves'[Len(moves) + 1] = e
      /\ \A n \in 1..Len(moves) : moves'[n] = moves[n]
  OBVIOUS
<1>2. ASSUME e.key = k PROVE \A n : LastEntry(k, n)' <=> n = Len(moves) + 1
  <2>1. ASSUME NEW n, LastEntry(k, n)' PROVE n = Len(moves) + 1
    <3>1. n \in 1..Len(moves') /\ \A m \in (n + 1)..Len(moves') : moves'[m].key # k
      BY <2>1 DEF LastEntry
    <3>2. ~ (n < Len(moves) + 1)
      BY <1>1, <1>2, <3>1
    <3>. QED BY <1>1, <3>1, <3>2
  <2>2. ASSUME NEW n, n = Len(moves) + 1 PROVE LastEntry(k, n)'
    BY <1>1, <1>2, <2>2 DEF LastEntry
  <2>. QED BY <2>1, <2>2
<1>3. ASSUME e.key # k PROVE \A n : LastEntry(k, n)' <=> LastEntry(k, n)
  <2>1. ASSUME NEW n, LastEntry(k, n)' PROVE LastEntry(k, n)
    <3>1. /\ n \in 1..Len(moves') /\ moves'[n].key = k
          /\ \A m \in (n + 1)..Len(moves') : moves'[m].key # k
      BY <2>1 DEF LastEntry
    <3>2. n \in 1..Len(moves)
      BY <1>1, <1>3, <3>1
    <3>. QED BY <1>1, <3>1, <3>2 DEF LastEntry
  <2>2. ASSUME NEW n, LastEntry(k, n) PROVE LastEntry(k, n)'
    <3>1. n \in 1..Len(moves) /\ moves[n].key = k /\ \A m \in (n + 1)..Len(moves) : moves[m].key # k
      BY <2>2 DEF LastEntry
    <3>2. \A m \in (n + 1)..Len(moves') : m \in (n + 1)..Len(moves) \/ m = Len(moves) + 1
      BY <1>1, <3>1
    <3>. QED BY <1>1, <1>3, <3>1, <3>2 DEF LastEntry
  <2>. QED BY <2>1, <2>2
<1>4. CASE e.key = k
  BY <1>1, <1>2, <1>4 DEF AlreadyMoved
<1>5. CASE e.key # k
  <2>1. \A n \in 1..Len(moves) : moves'[n].dst = moves[n].dst
    BY <1>1
  <2>2. \A n : LastEntry(k, n) => n \in 1..Len(moves) /\ n \in 1..Len(moves')
    BY <1>1 DEF LastEntry
  <2>. QED BY <1>3, <1>5, <2>1, <2>2 DEF AlreadyMoved
<1>. QED BY <1>4, <1>5

\* A reversal frees its message, and no other.
LEMMA RecordFrees ==
  ASSUME IInv, NEW q \in Rows, Record(q), NEW r \in Rows, Unrecorded(r)'
  PROVE  /\ Unrecorded(r)
         /\ Run[q].key = Run[r].key => results[UidOf(q)] # "moved"
<1>1. /\ box' = box /\ touched' = touched /\ moves' = LogReversal(q)
  BY DEF Record, serverVars
<1>2. /\ Run[r].key \notin touched /\ ~ Holds(Run[r].dst, Run[r].key)
      /\ AlreadyMoved(Run[r].key, Run[r].dst)'
  BY <1>1 DEF Unrecorded, Holds
<1>3. CASE results[UidOf(q)] # "moved"
  <2>1. moves' = moves
    BY <1>1, <1>3 DEF LogReversal
  <2>2. AlreadyMoved(Run[r].key, Run[r].dst)
    BY <1>2, <2>1 DEF AlreadyMoved, LastEntry
  <2>. QED BY <1>2, <1>3, <2>2 DEF Unrecorded
<1>4. CASE results[UidOf(q)] = "moved"
  <2>1. moves' = Append(moves, Reversal(q)) /\ Reversal(q) \in Entries /\ moves \in Seq(Entries)
    BY <1>1, <1>4, RowParts DEF LogReversal, IInv, TypeOK
  <2>2. /\ Reversal(q).key = Run[q].key /\ Reversal(q).dst = Run[q].src /\ Run[q].src # Run[q].dst
        /\ Run[q].key = Run[r].key => Run[q].dst = Run[r].dst
    BY UndoAssumption DEF Reversal, UndoAssumption
  <2>3. AlreadyMoved(Run[r].key, Run[r].dst)' <=>
          IF Reversal(q).key = Run[r].key THEN Reversal(q).dst = Run[r].dst
          ELSE AlreadyMoved(Run[r].key, Run[r].dst)
    BY <2>1, AppendedLast
  <2>. QED BY <1>2, <2>2, <2>3 DEF Unrecorded
<1>. QED BY <1>3, <1>4

LEMMA HandStep ==
  ASSUME IInv, NoNewCopies, LineHolds, RefusedIsThere, MovedIsInHand, [Next]_vars
  PROVE  MovedIsInHand'
<1>. SUFFICES ASSUME faults' = 0, RunIsTrue, NEW r \in Rows, Unrecorded(r)'
              PROVE  \E q \in batch' : Run[q].key = Run[r].key /\ InHand(q)'
  BY DEF MovedIsInHand
<1>0. faults = 0 /\ ~ Abort /\ ~ Crash /\ ~ Drop /\ ~ Fault /\ \A f \in Folders : ~ Renumbered(f)
  BY FaultsCount
<1>1. ASSUME Unrecorded(r) PROVE \E q \in batch : Run[q].key = Run[r].key /\ InHand(q)
  BY <1>0, <1>1 DEF MovedIsInHand
<1>2. /\ Run[r].key \in Keys /\ Run[r].dst \in Folders /\ Run[r].key \notin touched'
      /\ touched \subseteq touched' /\ ~ Holds(Run[r].dst, Run[r].key)'
  BY RowParts, StepSettles DEF Unrecorded
<1>3. ASSUME moves' = moves, ~ Holds(Run[r].dst, Run[r].key) PROVE Unrecorded(r)
  BY <1>2, <1>3 DEF Unrecorded, AlreadyMoved, LastEntry
<1>4. ASSUME UNCHANGED <<moves, box>> PROVE Unrecorded(r)
  BY <1>2, <1>3, <1>4 DEF Holds
<1>5. ASSUME Unrecorded(r), UNCHANGED <<batch, results, byKey, trying>>,
             pc \in {"send", "await"} => pc' \in {"send", "await"}
      PROVE  \E q \in batch' : Run[q].key = Run[r].key /\ InHand(q)'
  BY <1>1, <1>5 DEF InHand, UidOf
<1>6. CASE Start \/ Finish \/ FetchChunk \/ Locate \/ FolderDone \/ TakeBatch
  <2>1. UNCHANGED <<moves, box>> /\ batch = {}
    BY <1>6
       DEF Start, Finish, FetchChunk, Locate, FolderDone, TakeBatch, serverVars, logVars, IInv,
           RowsInPlace
  <2>. QED BY <1>1, <1>4, <2>1
<1>7. ASSUME NEW q \in Rows, ListUids(q) \/ OpenHome(q) PROVE FALSE
  <2>1. UNCHANGED <<moves, box>> /\ batch = {}
    BY <1>7 DEF ListUids, OpenHome, serverVars, logVars, IInv, RowsInPlace
  <2>. QED BY <1>1, <1>4, <2>1
<1>8. CASE Traceback
  BY <1>0, <1>8 DEF Traceback, Uncaught, LineHolds
<1>9. CASE Send \/ ServerRefuses \/ UNCHANGED vars
  <2>1. /\ UNCHANGED <<moves, box, batch, results, byKey, trying>>
        /\ pc \in {"send", "await"} => pc' \in {"send", "await"}
    BY <1>9
       DEF Send, ServerRefuses, ClientWaits, vars, mailVars, serverVars, logVars, sessionVars, findVars,
           moveVars
  <2>. QED BY <1>4, <1>5, <2>1
<1>10. CASE Owner
  <2>1. UNCHANGED <<moves, batch, results, byKey, trying, pc>> /\ OwnerStep
    BY <1>10 DEF Owner, logVars, sessionVars, findVars, moveVars
  <2>2. \A s \in Slots : box'[s] = Run[r].key <=> box[s] = Run[r].key
    BY <1>2, <2>1, OwnerSettles DEF IInv, TypeOK
  <2>3. ~ Holds(Run[r].dst, Run[r].key)
    BY <1>2, <2>2 DEF Holds, Slots
  <2>. QED BY <1>3, <1>5, <2>1, <2>3
<1>11. ASSUME NEW v \in {"moved", "failed"}, Answered(v), UNCHANGED <<batch, byKey, moves, box>>,
              \A q \in Target : Run[q].key = Run[r].key => v = "moved", pc = "await"
       PROVE  \E q \in batch' : Run[q].key = Run[r].key /\ InHand(q)'
  <2>1. PICK q \in batch : Run[q].key = Run[r].key /\ InHand(q)
    BY <1>1, <1>4, <1>11
  <2>2. q \in Rows /\ Target \subseteq Rows /\ UidOf(q) # 0
    BY <2>1, RowSets
  <2>3. CASE results'[UidOf(q)] = v /\ \E p \in Target : UidOf(p) = UidOf(q)
    <3>1. PICK p \in Target : UidOf(p) = UidOf(q)
      BY <2>3
    <3>2. Run[p].key = Run[r].key
      BY <2>1, <2>2, <3>1, OneUidOneKey
    <3>3. results'[UidOf(q)] = "moved"
      BY <1>11, <2>3, <3>2
    <3>. QED BY <1>11, <2>1, <3>3 DEF InHand, UidOf
  <2>4. CASE results'[UidOf(q)] = results[UidOf(q)] /\ \A p \in Target : UidOf(p) # UidOf(q)
    <3>1. q \notin Target
      BY <2>4
    <3>2. trying # {}
      BY <2>1, <3>1 DEF Target
    <3>3. results[UidOf(q)] = "moved" \/ q \in trying
      BY <2>1, <3>2 DEF InHand
    <3>4. trying' = trying \ Target
      BY <1>11, AnswerMarks
    <3>. QED BY <1>11, <2>1, <2>4, <3>1, <3>3, <3>4 DEF InHand, UidOf
  <2>. QED BY <1>11, <2>1, <2>3, <2>4, AnswerMarks
<1>12. CASE MoveReturns
  BY <1>11, <1>12 DEF MoveReturns, serverVars, logVars, findVars
<1>13. CASE MoveRaises
  <2>1. UNCHANGED <<batch, byKey, moves, box, touched>> /\ pc = "await" /\ wire = "no"
    BY <1>0, <1>13 DEF MoveRaises, Raised, serverVars, logVars, findVars, LineHolds
  <2>2. CASE OneAtATime
    <3>1. \A q \in batch : InHand(q)'
      BY <2>2 DEF OneAtATime, InHand
    <3>. QED BY <1>1, <1>4, <2>1, <3>1
  <2>3. CASE trying # {} /\ Answered("failed")
    <3>1. ASSUME NEW q \in Target, Run[q].key = Run[r].key PROVE FALSE
      <4>1. q \in Rows /\ q \in group /\ UidOf(q) \in Uids
        BY RowSets
      <4>2. InFolder(q)
        BY <1>0, <1>2, <2>1, <2>3, <3>1 DEF RefusedIsThere
      <4>3. Run[r].dst = folder
        BY <3>1, <4>1, UndoAssumption DEF UndoAssumption, IInv, RowsInPlace
      <4>4. Holds(Run[r].dst, Run[r].key)
        BY <3>1, <4>1, <4>2, <4>3 DEF Holds, InFolder
      <4>. QED BY <1>4, <2>1, <4>4 DEF Unrecorded
    <3>. QED BY <1>11, <2>1, <2>3, <3>1
  <2>. QED BY <1>13, <2>2, <2>3 DEF MoveRaises
<1>14. ASSUME NEW p \in Rows, Record(p) PROVE \E q \in batch' : Run[q].key = Run[r].key /\ InHand(q)'
  <2>1. /\ byKey' = byKey /\ batch' = batch \ {p} /\ pc = "record" /\ trying = {}
        /\ batch' # {} => results' = results
    BY <1>14 DEF Record, findVars, IInv, RowsInPlace
  <2>2. /\ Unrecorded(r)
        /\ Run[p].key = Run[r].key => results[UidOf(p)] # "moved"
    BY <1>14, RecordFrees
  <2>3. PICK q \in batch : Run[q].key = Run[r].key /\ InHand(q)
    BY <1>1, <2>2
  <2>4. results[UidOf(q)] = "moved"
    BY <2>1, <2>3 DEF InHand
  <2>. QED BY <2>1, <2>2, <2>3, <2>4 DEF InHand, UidOf
<1>15. ASSUME NEW u \in Uids, ServerMoves(u) PROVE \E q \in batch' : Run[q].key = Run[r].key /\ InHand(q)'
  <2>1. UNCHANGED <<moves, batch, results, byKey, trying, pc>> /\ pc = "await"
    BY <1>15 DEF ServerMoves, Serving, ClientWaits, logVars, sessionVars, findVars
  <2>2. CASE ~ Holds(Run[r].dst, Run[r].key)
    BY <1>3, <1>5, <2>1, <2>2
  <2>3. CASE Holds(Run[r].dst, Run[r].key)
    <3>1. Occupied(At(u))
      BY <1>2, <1>15, <2>3, MoveOfRow DEF MoveOne, mailVars, Holds
    <3>2. ~ Settled(Run[r].key)
      BY <1>2, <2>3 DEF Settled
    <3>3. Run[r].key = box[At(u)]
      BY <1>2, <1>15, <3>1, <3>2, MoveTakesHome
    <3>4. PICK q \in Target : q \in batch /\ box[At(u)] = Run[q].key
      BY <1>15, <3>1, MoveOfRow
    <3>5. InHand(q)
      BY <2>1, <3>4 DEF InHand, Target
    <3>. QED BY <2>1, <3>3, <3>4, <3>5 DEF InHand, UidOf
  <2>. QED BY <2>2, <2>3
<1>. QED
  BY <1>0, <1>6, <1>7, <1>8, <1>9, <1>10, <1>12, <1>13, <1>14, <1>15
  DEF Next, ProcessWorks, ServerWorks, Mishap

\* What a refused message alone does not break (recovery.py 82-93).
THEOREM CalmHolds ==
  Spec => []Calm
<1>1. ASSUME Init PROVE Calm
  <2>1. PICK l \in Layouts : box = l.box
    BY <1>1 DEF Init
  <2>2. RunIsTrue => \A r \in Rows : Holds(Run[r].dst, Run[r].key)
    BY <2>1 DEF RunIsTrue, Holds
  <2>3. MovedIsInHand
    BY <2>2 DEF MovedIsInHand, Unrecorded
  <2>. QED BY <1>1, <2>3
       DEF Init, Calm, LineHolds, RefusedIsThere, OnlyPoisonIsRefused, FailedIsPoison
<1>2. IInv /\ Deeds /\ Calm /\ [Next]_vars => Calm'
  BY LineStep, RefusedStep, OnlyPoisonStep, FailedStep, HandStep DEF Calm, Deeds
<1>. QED BY <1>1, <1>2, UndoInvariance, DeedsHold, PTL DEF Spec

-----------------------------------------------------------------------------
(* What an undo that has ended leaves: the account, closed with Calm.        *)

\* The account of the run's rows is complete at every moment, and without faults no
\* row is given up but those of the messages the server refuses (recovery.py 46-116).
THEOREM AccountHolds ==
  Spec => []Account
<1>1. Init => Account
  BY DEF Init, Account, ReadSoFar, SkippedIsMissing, BatchIsAnswered, NoneForgotten, StatusIsTrue
<1>2. IInv /\ Deeds /\ Calm /\ Account /\ [Next]_vars => Account'
  BY ReadStep, SkippedStep, AnsweredStep, ForgottenStep, StatusStep DEF Account, Calm, Deeds
<1>. QED BY <1>1, <1>2, UndoInvariance, DeedsHold, CalmHolds, PTL DEF Spec

\* A row that was skipped or taken home is reversed.
LEMMA AnsweredIsReversed ==
  ASSUME NoOtherCopies, OneHomePerKey, SkippedIsMissing, NEW r \in Rows,
         Run[r].key \notin touched, r \in skipped \/ TakenHome(r)
  PROVE  Reversed(r)
<1>1. /\ Cardinality(Twins(r)) \in Nat /\ Copies(Run[r].dst, Run[r].key) \in Nat
      /\ Copies(Run[r].dst, Run[r].key) = 0 <=> ~ Holds(Run[r].dst, Run[r].key)
  BY TwinsAreFinite, CopiesAreFinite
<1>2. Cardinality(Twins(r)) # 0
  <2>1. r \in Twins(r)
    BY DEF Twins
  <2>2. IsFiniteSet(Twins(r))
    BY TwinsFiniteSet
  <2>3. Twins(r) # {}
    BY <2>1
  <2>. QED BY <2>2, <2>3, FS_EmptySet
<1>3. CASE r \in skipped
  BY <1>1, <1>2, <1>3 DEF SkippedIsMissing, Missing, Reversed
<1>4. CASE r \notin skipped
  <2>1. Twins(r) = {r} => Cardinality(Twins(r)) = 1
    BY FS_Singleton
  <2>. QED BY <1>1, <1>4, <2>1 DEF TakenHome, Reversed
<1>. QED BY <1>3, <1>4

\* An undo that reports no failure has reversed every row of the run (recovery.py 25,
\* 63), if no key of the run came from two folders and no destination held more
\* copies of a key than the run has rows for it.
THEOREM UndoneIsReversed ==
  ASSUME NoOtherCopies, OneHomePerKey
  PROVE  Spec => []RunIsReversed
<1>1. Account => RunIsReversed
  BY AnsweredIsReversed DEF Account, StatusIsTrue, Answer, GivenUp, RunIsReversed
<1>. QED BY <1>1, AccountHolds, PTL

\* A refusal does not strand the reversal run at `running` (recovery.py 85-86).
THEOREM RefusalIsNoStop ==
  Spec => []RefusalStrandsNoRun
<1>1. Calm => RefusalStrandsNoRun
  BY DEF Calm, LineHolds, RefusalStrandsNoRun
<1>. QED BY <1>1, CalmHolds, PTL

\* Without faults an undo that has ended has reversed every message the server does
\* not refuse, and what it has brought back is free to be archived again (recovery.py
\* 84-106, index.py 276-279).
THEOREM NeighboursAreFree ==
  ASSUME RunIsTrue, NoOtherCopies, OneHomePerKey
  PROVE  Spec => []RefusalBlocksNoNeighbour
<1>1. IInv /\ Calm /\ Account => RefusalBlocksNoNeighbour
  <2>. SUFFICES ASSUME IInv, Calm, Account, faults = 0, pc = "idle", NEW r \in Rows
                PROVE  /\ ~ Blocked(r)
                       /\ status # "none" /\ Run[r].key \notin touched \cup poison => Reversed(r)
    BY DEF RefusalBlocksNoNeighbour
  <2>1. ~ Blocked(r)
    BY DEF IInv, RowsInPlace, Calm, MovedIsInHand, Blocked, Unrecorded
  <2>2. ASSUME status # "none", Run[r].key \notin touched \cup poison PROVE Reversed(r)
    <3>1. status \in {"ok", "failed"}
      BY <2>2 DEF IInv, TypeOK, Calm, LineHolds
    <3>2. r \in skipped \/ TakenHome(r)
      BY <2>2, <3>1 DEF Account, StatusIsTrue, Answer, GivenUp
    <3>. QED BY <2>2, <3>2, AnsweredIsReversed DEF Account
  <2>. QED BY <2>1, <2>2
<1>. QED BY <1>1, UndoInvariance, CalmHolds, AccountHolds, PTL

=============================================================================
