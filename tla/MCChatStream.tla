---------------------------- MODULE MCChatStream ----------------------------
(* Small instances of ChatStream for TLC. *)
EXTENDS ChatStream, TLC

CONSTANTS i1, i2, i3, t1, t2, t3

Limits(stop, crash, edit, resend, force, continue, ask) ==
  [stop |-> stop, crash |-> crash, edit |-> edit, resend |-> resend, force |-> force,
   continue |-> continue, ask |-> ask]

\* What users do to a session that keeps running; or the process dies, messages are sent again
\* and a sub-agent's input waits for its run.
SafetyBudgets == {Limits(1, 0, 1, 0, 0, 1, 1), Limits(1, 1, 0, 1, 1, 0, 0)}

\* No stop, no crash and no edit: every input has to be served.
ServedBudgets == {Limits(0, 0, 0, 0, 0, 1, 1)}

\* One stop is enough to leave an input behind.
StopBudgets == {Limits(1, 0, 0, 0, 0, 0, 0)}

\* One turn and its approval, undisturbed.
LateBudgets == {Limits(0, 0, 0, 0, 0, 0, 0)}

TwoInputs   == {i1, i2}
ThreeInputs == {i1, i2, i3}
ThreeTasks  == {t1, t2, t3}

Symmetric == Permutations(TwoInputs) \cup Permutations(ThreeTasks)
=============================================================================
