--------------------------- MODULE CheckpointStore ---------------------------
(***************************************************************************)
(* What the migration of the checkpoint database promises to the user of   *)
(* the conversations in it: there is always one form in which all of them  *)
(* can be continued, it changes once and never back, while the             *)
(* conversations are closed, and they are opened only in the new form.     *)
(***************************************************************************)
VARIABLES
  kept,   \* the form in which every conversation can be continued
  open    \* the conversations are open to the agent

vars == <<kept, open>>

Init == kept \in {"legacy", "compact"} /\ ~open

\* The old database is given up for the new one.
Commit ==
  /\ kept = "legacy" /\ ~open
  /\ kept' = "compact" /\ UNCHANGED open

Open ==
  /\ kept = "compact" /\ ~open
  /\ open' = TRUE /\ UNCHANGED kept

\* The application ends, in order or not.
Close == open /\ open' = FALSE /\ UNCHANGED kept

Next == Commit \/ Open \/ Close

Spec == Init /\ [][Next]_vars
=============================================================================
