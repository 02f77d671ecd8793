----------------------------- MODULE MailServer -----------------------------
(***************************************************************************)
(* The IMAP server and the mailbox owner, as lib/mailgonizer/imap.py meets *)
(* them.  Neither is part of the repository: what is here is what the      *)
(* calls on `self.client` in imap.py rely on.                              *)
(*                                                                         *)
(* A message is its msg_key (records.compute_msg_key).  It sits in a slot, *)
(* a pair of a folder and a UID.  A folder hands out UIDs upwards and      *)
(* never twice, until its UIDVALIDITY changes: then the same integers may  *)
(* name other messages.  The owner reads mail with another client while    *)
(* MailGoNizer runs, so the owner's steps happen at any time.              *)
(***************************************************************************)
EXTENDS Naturals, FiniteSets

CONSTANTS
  Folders,        \* the folders the plan mentions
  Keys,           \* msg_keys
  NoKey,          \* what an unused UID holds
  MaxUid,         \* bound: UIDs per folder
  Renumberings,   \* bound: the ways a folder may get new UIDs, [Uids -> Uids]
  MaxFaults,      \* bound: faults of the server and of the connection
  MaxUserSteps    \* bound: steps of the mailbox owner

Uids  == 1..MaxUid
Slots == Folders \X Uids

ASSUME ServerAssumption ==
  /\ NoKey \notin Keys
  /\ MaxUid \in Nat \ {0}
  /\ MaxFaults \in Nat
  /\ MaxUserSteps \in Nat
  /\ Renumberings \subseteq [Uids -> Uids]
  /\ \A p \in Renumberings, u, v \in Uids : p[u] = p[v] => u = v

VARIABLES
  box,            \* [Slots -> Keys or NoKey]: which message a slot holds
  deleted,        \* the slots whose message carries \Deleted
  nextUid,        \* [Folders -> Nat]: UIDNEXT
  validity,       \* [Folders -> Nat]: UIDVALIDITY
  touched,        \* ghost: the keys the owner has moved, flagged or expunged
  faults,         \* ghost: faults so far
  userSteps       \* ghost: the owner's steps so far

mailVars   == <<box, deleted, nextUid>>
serverVars == <<box, deleted, nextUid, validity, touched, faults, userSteps>>

Occupied(s) == box[s] # NoKey
Holds(f, k) == \E u \in Uids : box[<<f, u>>] = k
HasRoom(f)  == nextUid[f] <= MaxUid

\* UIDNEXT is above every message.
NothingAhead == \A s \in Slots : s[2] >= nextUid[s[1]] => box[s] = NoKey

ServerTypeOK ==
  /\ box \in [Slots -> Keys \cup {NoKey}]
  /\ deleted \in SUBSET Slots
  /\ nextUid \in [Folders -> 1..(MaxUid + 1)]
  /\ validity \in [Folders -> Nat]
  /\ touched \in SUBSET Keys
  /\ faults \in 0..MaxFaults
  /\ userSteps \in 0..MaxUserSteps

-----------------------------------------------------------------------------
(* What a command does to one message.  A UID that names nothing is passed  *)
(* over without an error (RFC 3501, 6.4.8).  Flags travel with the message. *)

Put(s, d) == <<d, nextUid[d]>>

MoveOne(s, d) ==
  IF Occupied(s)
  THEN /\ HasRoom(d)
       /\ box' = [box EXCEPT ![s] = NoKey, ![Put(s, d)] = box[s]]
       /\ deleted' = IF s \in deleted THEN (deleted \ {s}) \cup {Put(s, d)}
                                      ELSE deleted
       /\ nextUid' = [nextUid EXCEPT ![d] = @ + 1]
  ELSE UNCHANGED mailVars

CopyOne(s, d) ==
  IF Occupied(s)
  THEN /\ HasRoom(d)
       /\ box' = [box EXCEPT ![Put(s, d)] = box[s]]
       /\ deleted' = IF s \in deleted THEN deleted \cup {Put(s, d)} ELSE deleted
       /\ nextUid' = [nextUid EXCEPT ![d] = @ + 1]
  ELSE UNCHANGED mailVars

\* UID EXPUNGE: of the named slots, those that carry \Deleted.
ExpungeSlots(S) ==
  /\ box' = [s \in Slots |-> IF s \in S \cap deleted THEN NoKey ELSE box[s]]
  /\ deleted' = deleted \ S
  /\ UNCHANGED nextUid

-----------------------------------------------------------------------------
(* The server loses its UID numbering for a folder.                         *)

Fault == faults < MaxFaults /\ faults' = faults + 1

Given(f) == 1..(nextUid[f] - 1)

Renumber(f) ==
  /\ Fault
  /\ \E p \in Renumberings :
       LET was(s) == IF s[1] = f THEN <<f, p[s[2]]>> ELSE s
       IN /\ \A u \in Uids : p[u] \in Given(f) <=> u \in Given(f)
          /\ box' = [s \in Slots |-> box[was(s)]]
          /\ deleted' = {s \in Slots : was(s) \in deleted}
  /\ validity' = [validity EXCEPT ![f] = @ + 1]
  /\ UNCHANGED <<nextUid, touched, userSteps>>

-----------------------------------------------------------------------------
(* The owner, in another mail client.                                       *)

OwnerTouches(s) ==
  /\ userSteps < MaxUserSteps
  /\ Occupied(s)
  /\ userSteps' = userSteps + 1
  /\ touched' = touched \cup {box[s]}
  /\ UNCHANGED <<validity, faults>>

OwnerExpunges(s) ==
  /\ OwnerTouches(s)
  /\ box' = [box EXCEPT ![s] = NoKey]
  /\ deleted' = deleted \ {s}
  /\ UNCHANGED nextUid

OwnerFlags(s) ==      \* sets or clears \Deleted
  /\ OwnerTouches(s)
  /\ deleted' = IF s \in deleted THEN deleted \ {s} ELSE deleted \cup {s}
  /\ UNCHANGED <<box, nextUid>>

OwnerMoves(s, d) ==
  /\ s[1] # d
  /\ OwnerTouches(s)
  /\ MoveOne(s, d)

OwnerStep ==
  \E s \in Slots :
     OwnerExpunges(s) \/ OwnerFlags(s) \/ \E d \in Folders : OwnerMoves(s, d)
=============================================================================
