------------------------------ MODULE MCSurvey ------------------------------
(* An instance of Survey for TLC: windows and chunks of two UIDs, one       *)
(* mailbox with gaps in its UIDs, one of a single folder whose selection is *)
(* kept, days that pass, and every small suffix list.                       *)
EXTENDS Survey

CONSTANTS ahead, old, listed

MCFolders == {"INBOX", "arch"}
MCKeys    == {ahead, old, listed}

-----------------------------------------------------------------------------
(* Hosts of up to four labels; lists of up to three rules.                 *)

MCLabels == {"uk", "co"}
MCHosts  == UNION {[1..n -> MCLabels] : n \in 1..4}

Line(name, exception, comment) == [name |-> name, exception |-> exception, comment |-> comment]
AllLines == {Line(<<"uk">>, FALSE, FALSE), Line(<<"co", "uk">>, FALSE, TRUE),
             Line(<<Star, "uk">>, FALSE, FALSE), Line(<<Star, "co", "uk">>, FALSE, TRUE),
             Line(<<"co", "co", "uk">>, FALSE, FALSE),
             Line(<<"co", "uk">>, TRUE, FALSE), Line(<<"uk", "uk">>, TRUE, TRUE),
             Line(<<Star>>, FALSE, FALSE)}

Old == {Line(<<"uk">>, FALSE, FALSE)}
New == Old \cup {Line(<<"co", "uk">>, FALSE, TRUE)}
MCVendored == {Old, New}

-----------------------------------------------------------------------------
(* Years of four days; the first valid day is 2.  One Date: is ahead of the  *)
(* clock, one is years old, one is below the floor.                         *)

Mail(from, date, received, internal) ==
  [listId |-> Nothing, from |-> from, sender |-> Nothing,
   returnPath |-> [local |-> "x", host |-> <<"uk">>],
   date |-> date, received |-> received, internal |-> internal]

MCHeaders ==
  ahead :> Mail([local |-> "x", host |-> <<"co", "co", "uk">>], 13, <<12, Nothing>>, 9) @@
  old :> Mail([local |-> "y", host |-> <<"uk">>], 5, <<>>, 9) @@
  listed :> [Mail(Nothing, 1, <<8, 4>>, 9) EXCEPT !.listId = "l"]

-----------------------------------------------------------------------------
(* A busy mailbox of two folders, with and without UIDNEXT; one folder, its *)
(* selection kept; days that pass between a plan and a rebuild; mail that   *)
(* goes or comes between them; and one message under every suffix list.     *)

Box(boxed) == [s \in Slots |-> IF s \in DOMAIN boxed THEN boxed[s] ELSE NoKey]
Next_(i, x) == [f \in Folders |-> IF f = "INBOX" THEN i ELSE x]

Start(boxed, next, order_, reports_, list_, today_, runs_, faults_, userSteps_) ==
  [box |-> Box(boxed), nextUid |-> next, order |-> order_, reports |-> reports_,
   list |-> list_, today |-> today_, runs |-> runs_, faults |-> faults_,
   userSteps |-> userSteps_]

In1 == <<"INBOX", 1>>
In4 == <<"INBOX", 4>>
Ar2 == <<"arch", 2>>

MCStarts ==
  {Start(In1 :> ahead @@ In4 :> old @@ Ar2 :> listed, Next_(5, 3), <<"INBOX", "arch">>, r, Old,
         LastDay, 1, 1, IF r THEN 2 ELSE 1) : r \in BOOLEAN}
  \cup {Start(In1 :> ahead @@ In4 :> old, Next_(5, 1), <<"INBOX">>, TRUE, Old, LastDay, 1, 0, 2)}
  \cup {Start(In1 :> ahead @@ In4 :> old @@ Ar2 :> listed, Next_(5, 3), <<"INBOX", "arch">>, TRUE, Old,
              9, 2, 1, 0)}
  \cup {Start(In1 :> ahead @@ In4 :> old, Next_(5, 1), <<"INBOX">>, FALSE, Old, LastDay, 2, 0, 1)}
  \cup {Start(In1 :> ahead, Next_(2, 1), <<"INBOX">>, TRUE, l, LastDay, 1, 0, 0) :
          l \in {k \in SUBSET AllLines : Cardinality(k) <= 3}}

=============================================================================
