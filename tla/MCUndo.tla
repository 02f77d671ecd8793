------------------------------- MODULE MCUndo -------------------------------
(* Instances of Undo for TLC.                                               *)
EXTENDS Undo, TLC

CONSTANTS inbox, acme, orders, k1, k2, k3, k4, other

Moved(key, src, dst) == [key |-> key, src |-> src, dst |-> dst]

MCFolders == {inbox, acme, orders}
MCKeys    == {k1, k2, k3, k4, other}

\* A run that backfilled k3 and archived the others, k4 in two copies: two folders
\* to empty, and one whose mail has two folders to go home to.  acme has other
\* mail as well.
MCRun == <<Moved(k3, acme, orders), Moved(k1, inbox, orders),
           Moved(k2, inbox, orders), Moved(k4, inbox, acme), Moved(k4, inbox, acme)>>
MCBox == [s \in MCFolders \X (1..MaxUid) |->
            CASE s = <<orders, 1>> -> k3
              [] s = <<orders, 2>> -> k1
              [] s = <<orders, 3>> -> k2
              [] s = <<acme, 1>> -> k4
              [] s = <<acme, 3>> -> k4
              [] s = <<acme, 4>> -> other
              [] OTHER -> NoKey]
MCLayouts == {[box |-> MCBox,
               nextUid |-> [f \in MCFolders |-> CASE f = inbox -> 1
                                                  [] f = orders -> 4
                                                  [] OTHER -> 5]]}

\* The hypotheses of the theorems of UndoProofs hold of this instance.
ASSUME MCHypotheses == OneHomePerKey /\ NoOtherCopies /\ RunIsTrue

\* No message is refused, or one of a batch of two.
MCRefusals == {{}, {k2}}

\* A renumbered folder swaps its first two UIDs.
MCRenumberings == {[u \in 1..MaxUid |-> IF u \in 1..2 THEN 3 - u ELSE u]}

=============================================================================
