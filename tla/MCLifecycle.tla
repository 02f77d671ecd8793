---------------------------- MODULE MCLifecycle -----------------------------
(* An instance of Lifecycle for TLC: three runs, two of them with plans.    *)
EXTENDS Lifecycle

MCRuns     == 1..3
MCItems    == 1..3
MCVerdicts == {"done", "skipped", "failed"}
MCEntry    == [i \in MCItems |-> [run |-> (i + 1) \div 2, item |-> i]]
MCRows     == [run : 0..3, item : 0..3]
MCHistories == {<<>>}
MCRetentions == {0, 1, 2}

Limited(r, m, l, d) == [runs |-> r, minutes |-> m, lists |-> l, deaths |-> d]
\* Many runs in one minute, and a few runs over several minutes and lists.
MCLimits == {Limited(3, 1, 1, 1), Limited(1, 4, 1, 0), Limited(2, 1, 2, 0)}

=============================================================================
