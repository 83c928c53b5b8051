------------------------- MODULE SubagentLifecycle -------------------------
(***************************************************************************)
(* What the sub-agent runtime promises about the runs of one instance: a   *)
(* run is queued, may start running, and ends once and for all in one of   *)
(* four ways; the instance never has two runs that have not ended.         *)
(* SubagentRuns.tla implements this module.                                *)
(***************************************************************************)

CONSTANT Runs

VARIABLE state   \* state[r]: subagent_run.state, or "none" before run r exists

Active   == {"queued", "running"}
Terminal == {"completed", "failed", "cancelled", "interrupted"}

TypeOK == state \in [Runs -> {"none"} \cup Active \cup Terminal]

Init == state = [r \in Runs |-> "none"]

Become(r, s) == state' = [state EXCEPT ![r] = s]

Queue(r) == /\ state[r] = "none"
            /\ \A q \in Runs : state[q] \notin Active
            /\ Become(r, "queued")

Start(r) == state[r] = "queued" /\ Become(r, "running")

\* Only a run that has started completes.
End(r, s) == /\ state[r] \in Active
             /\ s \in Terminal
             /\ s = "completed" => state[r] = "running"
             /\ Become(r, s)

Next == \E r \in Runs : Queue(r) \/ Start(r) \/ \E s \in Terminal : End(r, s)

Spec == Init /\ [][Next]_state
=============================================================================
