--------------------------- MODULE MCSubagentRuns ---------------------------
(* Small instances of SubagentRuns for TLC. *)
EXTENDS SubagentRuns, TLC

CONSTANTS r1, r2, s1, s2, t1, t2, t3

\* One cancellation by the user, one stop of the parent, one crash.
OneOfEach == [cancel |-> 1, stop |-> 1, crash |-> 1]

\* Nobody disturbs the run.
Undisturbed == [cancel |-> 0, stop |-> 0, crash |-> 0]

\* The user stops the parent's turn.
ParentStop == [cancel |-> 0, stop |-> 1, crash |-> 0]

OneRun     == {r1}
TwoRuns    == {r1, r2}
OneSteer   == {s1}
TwoSteers  == {s1, s2}
ThreeTasks == {t1, t2, t3}

Symmetric == Permutations(TwoRuns) \cup Permutations(TwoSteers) \cup Permutations(ThreeTasks)
=============================================================================
