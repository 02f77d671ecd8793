------------------------------ MODULE MCCycle -------------------------------
(* Instances of Cycle for TLC.                                              *)
EXTENDS Cycle, TLC

CONSTANTS inbox, acme, orders, trash, m1, m2, m3, fromOrders, fromSales

MCMsgs    == {m1, m2, m3}
MCFolders == {inbox, acme, orders, trash}
MCBuckets == {fromOrders, fromSales}

\* Two messages promote a sender; m3 comes from another one of the domain.
MCBucketOf == [m \in MCMsgs |-> IF m = m3 THEN fromSales ELSE fromOrders]
MCFlat     == [b \in MCBuckets |-> acme]
MCSub      == [b \in MCBuckets |-> orders]
MCTree     == {acme, orders}
MCRank     == [f \in MCFolders |-> CASE f = inbox -> 1 [] f = acme -> 2
                                     [] f = orders -> 3 [] OTHER -> 4]
MCFirstUid == [m \in MCMsgs |-> CASE m = m1 -> 1 [] m = m2 -> 2 [] OTHER -> 3]
MCPromotable == {fromOrders}
MCRecent   == {m2}

=============================================================================
