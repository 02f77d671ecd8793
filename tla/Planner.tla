------------------------------ MODULE Planner -------------------------------
(***************************************************************************)
(* planner.build_plan as operators: which mail is counted, which buckets   *)
(* are promoted, where each message belongs, and which moves the plan      *)
(* lists in which order.                                                   *)
(*                                                                         *)
(* A survey is a set of sightings, one per header record: a message that   *)
(* moves while the survey walks the folders may be seen twice.  A bucket   *)
(* is a (year, domain, local) triple, or what takes its place for lists    *)
(* and unknown senders, which are never promoted.                          *)
(***************************************************************************)
EXTENDS Naturals, FiniteSets

CONSTANTS
  Msgs,         \* messages, by msg_key
  Folders,
  Source,       \* source.folder, the inbox
  Buckets,
  Promotable,   \* the buckets whose sender has kind 'domain'
  BucketOf,     \* [Msgs -> Buckets]
  Flat,         \* [Buckets -> Folders]: archive_path without the sender's level
  Sub,          \* [Buckets -> Folders]: archive_path when promoted
  Rank,         \* [Folders -> Nat]: the folders' names in sorted order
  Threshold,    \* archive.promote_threshold
  Cap           \* execution.max_moves_per_run; 0 is no cap

ASSUME PlannerAssumption ==
  /\ IsFiniteSet(Msgs)
  /\ Source \in Folders
  /\ Promotable \subseteq Buckets
  /\ BucketOf \in [Msgs -> Buckets]
  /\ Flat \in [Buckets -> Folders \ {Source}]
  /\ Sub \in [Buckets -> Folders \ {Source}]
  /\ \A b \in Promotable : Flat[b] # Sub[b]
  /\ Rank \in [Folders -> Nat]
  /\ \A f, g \in Folders : Rank[f] = Rank[g] => f = g
  /\ Threshold \in Nat \ {0}
  /\ Cap \in Nat

Sightings == [msg : Msgs, folder : Folders, uid : Nat, eligible : BOOLEAN]

EligibleInbox(seen) == {r \in seen : r.folder = Source /\ r.eligible}
Archived(seen)      == {r \in seen : r.folder # Source}

\* Only mail that is archived or about to be counts towards a promotion.
Count(seen, b) ==
  Cardinality({r \in EligibleInbox(seen) \cup Archived(seen) : BucketOf[r.msg] = b})

\* Mutant: lists and unknown senders are promoted too.
AnyKind(seen, known) == {b \in Buckets \ known : Count(seen, b) > Threshold}
NewPromotions(seen, known) == {b \in Promotable \ known : Count(seen, b) > Threshold}

Destination(m, promoted) ==
  IF BucketOf[m] \in promoted THEN Sub[BucketOf[m]] ELSE Flat[BucketOf[m]]

Misplaced(S, promoted) == {r \in S : Destination(r.msg, promoted) # r.folder}

\* What there is to move.
Moves(seen, promoted) ==
  Misplaced(EligibleInbox(seen), promoted) \cup Misplaced(Archived(seen), promoted)

Backfill(r) == r.folder # Source

\* Order of (dst, folder, uid): the key of both sorts.
SortsBefore(r, q, promoted) ==
  LET a == Rank[Destination(r.msg, promoted)]
      b == Rank[Destination(q.msg, promoted)]
  IN \/ a < b
     \/ a = b /\ Rank[r.folder] < Rank[q.folder]
     \/ a = b /\ r.folder = q.folder /\ r.uid < q.uid

\* Mutant: one sort over everything.
OneSort(r, q, promoted) == SortsBefore(r, q, promoted)
Before(r, q, promoted) ==
  \/ Backfill(r) /\ ~ Backfill(q)
  \/ (Backfill(r) <=> Backfill(q)) /\ SortsBefore(r, q, promoted)

\* Mutant: the cap counts mail that is in place already.
PositionInSurvey(r, seen, promoted) ==
  1 + Cardinality({q \in EligibleInbox(seen) \cup Archived(seen) : Before(q, r, promoted)})
Position(r, seen, promoted) ==
  1 + Cardinality({q \in Moves(seen, promoted) : Before(q, r, promoted)})

\* enumerate(ordered[:cap], start=1)
PlanItems(seen, promoted) ==
  {[seq |-> Position(r, seen, promoted), msg |-> r.msg, src |-> r.folder,
    uid |-> r.uid, dst |-> Destination(r.msg, promoted), state |-> "pending"] :
     r \in {q \in Moves(seen, promoted) : Cap = 0 \/ Position(q, seen, promoted) <= Cap}}

=============================================================================
