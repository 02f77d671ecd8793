----------------------------- MODULE PlanLedger -----------------------------
(***************************************************************************)
(* What the index promises about one plan, whatever happens around it: an  *)
(* item is pending until it is given its one and final verdict, and the    *)
(* move log gains a row exactly when that verdict is `done`.  The promise  *)
(* is made in lib/mailgonizer/index.py (mark_done: "The log must never     *)
(* claim a move that was not recorded, nor vice versa") and README.md      *)
(* ("append-only", "never moved twice"); Executor keeps it.                *)
(***************************************************************************)
EXTENDS Naturals, Sequences

CONSTANTS
  Items,      \* the items of the plan
  Verdicts,   \* what an item may come to, "done" among them
  Rows,       \* the possible rows of the move log
  Entry,      \* [Items -> Rows]: the row that an item leaves when it is done
  Histories   \* the logs that earlier runs may have left

ASSUME LedgerAssumption ==
  /\ "done" \in Verdicts
  /\ "pending" \notin Verdicts
  /\ 0 \notin Items
  /\ Entry \in [Items -> Rows]
  /\ \A i \in Items : Entry[i].item = i
  /\ Histories \subseteq Seq(Rows)
  /\ \A h \in Histories : \A n \in 1..Len(h) : h[n].item \notin Items

VARIABLES fate, moves

ledgerVars == <<fate, moves>>

LedgerTypeOK ==
  /\ fate \in [Items -> Verdicts \cup {"pending"}]
  /\ moves \in Seq(Rows)

Init ==
  /\ fate = [i \in Items |-> "pending"]
  /\ moves \in Histories

\* Mutant: an item that failed or was skipped is judged again.
NotDone(i) == fate[i] # "done"
Unsettled(i) == fate[i] = "pending"

\* Mutant: the log gains a row whatever the verdict.
LogAll(i, v) == Append(moves, Entry[i])
LogWith(i, v) == IF v = "done" THEN Append(moves, Entry[i]) ELSE moves

Settle(i, v) ==
  /\ Unsettled(i)
  /\ fate' = [fate EXCEPT ![i] = v]
  /\ moves' = LogWith(i, v)

Next == \E i \in Items, v \in Verdicts : Settle(i, v)

Spec == Init /\ [][Next]_ledgerVars

-----------------------------------------------------------------------------

RowsOf(i) == {n \in 1..Len(moves) : moves[n].item = i}

\* The log and the plan agree: an item is done exactly when the log holds a row
\* for it, and it never holds two (index.mark_done, lines 219-247).
LogAgreesWithPlan ==
  \A i \in Items :
    /\ fate[i] = "done" <=> RowsOf(i) # {}
    /\ \A m, n \in RowsOf(i) : m = n

\* Nothing is unwritten: a row once in the log stays where it is, and a verdict
\* once given is the last one (the moves table is append-only).
NothingIsUnwritten ==
  [][ /\ \A n \in 1..Len(moves) : n \in 1..Len(moves') /\ moves'[n] = moves[n]
      /\ \A i \in Items : fate[i] # "pending" => fate'[i] = fate[i] ]_ledgerVars

=============================================================================
