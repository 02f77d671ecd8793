----------------------------- MODULE MCExecutor -----------------------------
(* Instances of Executor for TLC.                                           *)
EXTENDS Executor, TLC

CONSTANTS inbox, acme, news, initech, x, y, z, k1, k2, k3, k4, other

Item(key, src, uid, dst) == [key |-> key, src |-> src, uid |-> uid, dst |-> dst]

MCFolders == {inbox, acme, news}
MCKeys    == {k1, k2, k3, other}
MCItems   == {1, 2, 3}

\* A backfill out of the domain folder, then two messages out of the inbox.
MCPlan == <<Item(k3, acme, 1, news), Item(k1, inbox, 1, acme), Item(k2, inbox, 3, acme)>>

MCSurveyValidity == [f \in MCFolders |-> 1]

\* The inbox also holds a message that is not in the plan.
MCBox == [s \in MCFolders \X (1..MaxUid) |->
            CASE s = <<inbox, 1>> -> k1
              [] s = <<inbox, 2>> -> other
              [] s = <<inbox, 3>> -> k2
              [] s = <<acme, 1>>  -> k3
              [] OTHER -> NoKey]
MCLayouts == {[box |-> MCBox,
               nextUid |-> [f \in MCFolders |-> CASE f = inbox -> 4 [] f = acme -> 2 [] OTHER -> 1]]}

\* The same mailbox without the backfill.
PairFolders == {inbox, acme}
PairKeys    == {k1, k2, other}
PairItems   == {1, 2}
PairPlan    == <<Item(k1, inbox, 1, acme), Item(k2, inbox, 3, acme)>>
PairValidity == [f \in PairFolders |-> 1]
PairLayouts ==
  {[box |-> [s \in PairFolders \X (1..MaxUid) |->
               CASE s = <<inbox, 1>> -> k1
                 [] s = <<inbox, 2>> -> other
                 [] s = <<inbox, 3>> -> k2
                 [] OTHER -> NoKey],
    nextUid |-> [f \in PairFolders |-> IF f = inbox THEN 4 ELSE 1]]}

\* A renumbered folder shuffles its first three UIDs.
MCRenumberings == {[u \in 1..MaxUid |-> IF u \in 1..3 THEN p[u] ELSE u] : p \in Permutations(1..3)}

\* One of these: no UID among the three names its message any more.
MCRotations == {[u \in 1..MaxUid |-> IF u \in 1..3 THEN ((u + 1) % 3) + 1 ELSE u]}

MCEmptyHistory == {<<>>}

\* Backfills out of two promoted domains: the plan is sorted by destination, so
\* its groups leave acme, come to initech and return to acme for a batch of two.  A
\* second copy of k3 is in its new folder already.
PromotedFolders == {acme, initech, x, y, z}
PromotedKeys    == {k1, k2, k3, k4}
PromotedItems   == 1..4
PromotedPlan    == <<Item(k1, acme, 1, x), Item(k2, initech, 1, y),
                     Item(k3, acme, 2, z), Item(k4, acme, 3, z)>>
PromotedValidity == [f \in PromotedFolders |-> 1]
PromotedLayouts ==
  {[box |-> [s \in PromotedFolders \X (1..MaxUid) |->
               CASE s = <<acme, 1>> -> k1
                 [] s = <<acme, 2>> -> k3
                 [] s = <<acme, 3>> -> k4
                 [] s = <<initech, 1>> -> k2
                 [] s = <<z, 1>> -> k3
                 [] OTHER -> NoKey],
    nextUid |-> [f \in PromotedFolders |-> CASE f = acme -> 4
                                             [] f \in {initech, z} -> 2
                                             [] OTHER -> 1]]}

\* Earlier runs: k1 came to acme; k2 was backfilled and brought back by undo;
\* the log may know of the copy of k3 in z, and of an undo of it.
Past(key, src, dst) == [item |-> 0, key |-> key, src |-> src, dst |-> dst]
PastCommon == <<Past(k1, x, acme), Past(k2, initech, y), Past(k2, y, initech)>>
PastHistories ==
  {PastCommon,
   PastCommon \o <<Past(k3, acme, z)>>,
   PastCommon \o <<Past(k3, acme, z), Past(k3, z, acme)>>}

\* What CustodyProofs supposes of earlier runs is so in these instances.
ASSUME MCHistoryIsTrue == HistoryIsTrue

\* One group of two batches.
TriplePlan    == <<Item(k1, inbox, 1, acme), Item(k2, inbox, 3, acme), Item(k3, inbox, 4, acme)>>
TripleLayouts ==
  {[box |-> [s \in PairFolders \X (1..MaxUid) |->
               CASE s = <<inbox, 1>> -> k1
                 [] s = <<inbox, 2>> -> other
                 [] s = <<inbox, 3>> -> k2
                 [] s = <<inbox, 4>> -> k3
                 [] OTHER -> NoKey],
    nextUid |-> [f \in PairFolders |-> IF f = inbox THEN 5 ELSE 1]]}

=============================================================================
