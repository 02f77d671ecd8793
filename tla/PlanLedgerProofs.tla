-------------------------- MODULE PlanLedgerProofs --------------------------
(* Proofs about PlanLedger.  The lemmas about Settle serve Lifecycle too,   *)
(* where a verdict is one step among many.                                  *)
EXTENDS PlanLedger, TLAPS

LEMMA SettleTyped ==
  ASSUME LedgerTypeOK, NEW i \in Items, NEW v \in Verdicts, Settle(i, v)
  PROVE  LedgerTypeOK'
<1>. USE DEF LedgerTypeOK
<1>1. fate' \in [Items -> Verdicts \cup {"pending"}]
  BY DEF Settle
<1>2. Entry[i] \in Rows
  BY LedgerAssumption DEF LedgerAssumption
<1>3. Append(moves, Entry[i]) \in Seq(Rows)
  BY <1>2
<1>4. moves' \in Seq(Rows)
  BY <1>3 DEF Settle, LogWith
<1>. QED BY <1>1, <1>4

LEMMA SettleAgrees ==
  ASSUME LedgerTypeOK, LogAgreesWithPlan, NEW i \in Items, NEW v \in Verdicts, Settle(i, v)
  PROVE  LogAgreesWithPlan'
<1>1. fate[i] = "pending" /\ RowsOf(i) = {}
  BY DEF Settle, Unsettled, LogAgreesWithPlan
<1>2. CASE v = "done"
  <2>1. moves' = Append(moves, Entry[i])
    BY <1>2 DEF Settle, LogWith
  <2>2. /\ Entry[i] \in Rows /\ Entry[i].item = i
        /\ Len(moves) \in Nat /\ Len(moves') = Len(moves) + 1
        /\ moves'[Len(moves) + 1] = Entry[i]
        /\ \A n \in 1..Len(moves) : moves'[n] = moves[n]
    BY <2>1, LedgerAssumption DEF LedgerAssumption, LedgerTypeOK
  <2>3. RowsOf(i)' = {Len(moves) + 1}
    BY <2>2, <1>1 DEF RowsOf
  <2>4. \A j \in Items \ {i} : RowsOf(j)' = RowsOf(j)
    BY <2>2 DEF RowsOf
  <2>5. fate'[i] = "done" /\ \A j \in Items \ {i} : fate'[j] = fate[j]
    BY <1>2 DEF Settle, LedgerTypeOK
  <2>. QED BY <2>3, <2>4, <2>5 DEF LogAgreesWithPlan
<1>3. CASE v # "done"
  <2>1. \A j \in Items : RowsOf(j)' = RowsOf(j)
    BY <1>3 DEF Settle, LogWith, RowsOf
  <2>2. fate'[i] = v /\ \A j \in Items \ {i} : fate'[j] = fate[j]
    BY DEF Settle, LedgerTypeOK
  <2>. QED BY <2>1, <2>2, <1>1, <1>3 DEF LogAgreesWithPlan
<1>. QED BY <1>2, <1>3

LEMMA SettleUnwritesNothing ==
  ASSUME LedgerTypeOK, NEW i \in Items, NEW v \in Verdicts, Settle(i, v)
  PROVE  /\ \A n \in 1..Len(moves) : n \in 1..Len(moves') /\ moves'[n] = moves[n]
         /\ \A j \in Items : fate[j] # "pending" => fate'[j] = fate[j]
<1>1. \A j \in Items : fate[j] # "pending" => fate'[j] = fate[j]
  BY DEF Settle, Unsettled, LedgerTypeOK
<1>2. Entry[i] \in Rows /\ Len(moves) \in Nat
  BY LedgerAssumption DEF LedgerAssumption, LedgerTypeOK
<1>3. \A n \in 1..Len(moves) : n \in 1..Len(moves') /\ moves'[n] = moves[n]
  BY <1>2 DEF Settle, LogWith, LedgerTypeOK
<1>. QED BY <1>1, <1>3

\* The log that earlier runs have left holds no row of this plan.
LEMMA EmptyLogAgrees == Init => LedgerTypeOK /\ LogAgreesWithPlan
<1>. SUFFICES ASSUME Init PROVE LedgerTypeOK /\ LogAgreesWithPlan
  OBVIOUS
<1>1. \A n \in 1..Len(moves) : moves[n].item \notin Items
  BY LedgerAssumption DEF LedgerAssumption, Init
<1>2. \A i \in Items : RowsOf(i) = {}
  BY <1>1 DEF RowsOf
<1>3. \A i \in Items : fate[i] # "done"
  BY DEF Init
<1>4. LedgerTypeOK
  BY LedgerAssumption DEF LedgerAssumption, Init, LedgerTypeOK
<1>. QED BY <1>2, <1>3, <1>4 DEF LogAgreesWithPlan

-----------------------------------------------------------------------------

LEMMA LedgerTyping == Spec => []LedgerTypeOK
<1>1. LedgerTypeOK /\ [Next]_ledgerVars => LedgerTypeOK'
  BY SettleTyped DEF Next, ledgerVars, LedgerTypeOK
<1>. QED BY <1>1, EmptyLogAgrees, PTL DEF Spec

\* The move log and the plan agree for every plan, every log left by earlier
\* runs and every order in which the items are settled.
THEOREM LogAgreement == Spec => []LogAgreesWithPlan
<1>1. LedgerTypeOK /\ LogAgreesWithPlan /\ [Next]_ledgerVars => LogAgreesWithPlan'
  BY SettleAgrees DEF Next, ledgerVars, LogAgreesWithPlan, RowsOf
<1>. QED BY <1>1, EmptyLogAgrees, LedgerTyping, PTL DEF Spec

\* The log only grows, and a verdict is never revised.
THEOREM LogIsAppendOnly == Spec => NothingIsUnwritten
<1>1. LedgerTypeOK /\ [Next]_ledgerVars =>
        [ /\ \A n \in 1..Len(moves) : n \in 1..Len(moves') /\ moves'[n] = moves[n]
          /\ \A i \in Items : fate[i] # "pending" => fate'[i] = fate[i] ]_ledgerVars
  BY SettleUnwritesNothing DEF Next
<1>. QED BY <1>1, LedgerTyping, PTL DEF Spec, NothingIsUnwritten

=============================================================================
