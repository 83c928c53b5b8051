--------------------------- MODULE InputDelivery ---------------------------
(***************************************************************************)
(* What the pending-input box of one Keydex session promises, without the  *)
(* machinery that keeps the promise: an accepted input waits, is held when *)
(* the user stops the session, and leaves the box exactly once, either     *)
(* delivered to a turn or withdrawn.  A delivery either joins the turn     *)
(* that is in progress or, one input at a time, starts the next turn.      *)
(* ChatStream.tla implements this module.                                  *)
(***************************************************************************)

CONSTANT Inputs

VARIABLES
  stage,   \* stage[i]: where input i is in its life
  busy     \* a turn of the session is in progress

vars == <<stage, busy>>

Stages == {"absent", "waiting", "held", "delivered", "withdrawn"}

TypeOK == stage \in [Inputs -> Stages] /\ busy \in BOOLEAN

Init == /\ stage = [i \in Inputs |-> "absent"]
        /\ busy = FALSE

Move(S, s) == stage' = [i \in Inputs |-> IF i \in S THEN s ELSE stage[i]]

At(S, stages) == \A i \in S : stage[i] \in stages

-----------------------------------------------------------------------------

Accept(i) == At({i}, {"absent"}) /\ Move({i}, "waiting") /\ UNCHANGED busy

Hold(S) == At(S, {"waiting"}) /\ Move(S, "held") /\ UNCHANGED busy

Release(S) == At(S, {"held"}) /\ Move(S, "waiting") /\ UNCHANGED busy

Withdraw(i) == At({i}, {"waiting", "held"}) /\ Move({i}, "withdrawn") /\ UNCHANGED busy

\* Steering: any number of waiting inputs joins the turn in progress.
Join(S) == busy /\ At(S, {"waiting"}) /\ Move(S, "delivered") /\ UNCHANGED busy

\* Queueing: one waiting input becomes the next turn.
StartNext(i) == ~busy /\ At({i}, {"waiting"}) /\ Move({i}, "delivered") /\ busy' = TRUE

\* A turn that takes nothing from the box.
StartOther == ~busy /\ busy' = TRUE /\ UNCHANGED stage

\* A turn ends: by itself, on request, or with the process that ran it.
End == busy /\ busy' = FALSE /\ UNCHANGED stage

Next == \/ \E i \in Inputs : Accept(i) \/ Withdraw(i) \/ StartNext(i)
        \/ \E S \in SUBSET Inputs : Hold(S) \/ Release(S) \/ Join(S)
        \/ StartOther
        \/ End

Spec == Init /\ [][Next]_vars
=============================================================================
