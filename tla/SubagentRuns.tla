---------------------------- MODULE SubagentRuns ----------------------------
(***************************************************************************)
(* The runs of one sub-agent instance: SessionBackedSubagentRuntime        *)
(* (backend/app/subagents/runtime.py), the tool calls of the parent turn   *)
(* that delegate to it and wait for it (ChatService._execute_delegate_     *)
(* subagent and _execute_continue_subagent), and the turn scheduler of the *)
(* child session as far as the runtime depends on it.                      *)
(*                                                                         *)
(* Granularity.  As in ChatStream.tla a step is the code between two       *)
(* points that suspend.  Publishing a snapshot and broadcasting a pending  *)
(* input suspend, so every operation of the runtime is at least two steps. *)
(* The per-run control lock is held across them: cancel, steer and the end *)
(* of a turn exclude each other; spawn, resume and the start of the child  *)
(* turn do not take it.  The version of a run is left out: it counts the   *)
(* transitions of the run and is determined by its state.                  *)
(*                                                                         *)
(* The child session is ChatStream's session without what a child session  *)
(* never meets: users do not submit to it, resume it or edit its box, and  *)
(* its queue order is ChatStream's business.                               *)
(***************************************************************************)
EXTENDS Naturals

CONSTANTS
  Runs,     \* the runs of the instance; the first one is spawned, the others are resumed
  Steers,   \* the user's guidance messages
  Tasks,    \* slots for the asyncio tasks of the child session
  NoRun,    \* the owner of a task that was started without subagent_run_id
  NoTask,   \* _runs has no entry for the child session
  Budget    \* bound on each kind of step the environment may repeat at will

Kinds == {"cancel", "stop", "crash"}

ASSUME RunAssumption == NoRun \notin Runs
ASSUME TaskAssumption == NoTask \notin Tasks
ASSUME SteerAssumption == Steers \cap {"free", "stopping", "telling"} = {}
ASSUME LimitAssumption == Budget \in [Kinds -> Nat]

VARIABLES
  up,        \* the backend process runs
  state,     \* subagent_run.state of each run
  caller,    \* the parent's tool call that created each run
  lock,      \* _run_control_locks: what the holder of each run's lock is doing
  draining,  \* steers whose submit_input will drain the child's box after its broadcast
  box,       \* session_pending_inputs of the child session
  entry,     \* _runs.get(child_session_id)
  task,      \* the tasks behind _runs, and the finishing tasks that follow them
  heard,     \* history: steers that have become part of a turn of the sub-agent
  budget     \* what is left of Budget

child == <<box, entry, task, heard>>
vars  == <<up, state, caller, lock, draining, box, entry, task, heard, budget>>

Active   == {"queued", "running"}
Terminal == {"completed", "failed", "cancelled", "interrupted"}

CallPhases == {"none", "announcing", "reporting", "waiting", "stopping", "returned", "stopped"}
TaskPhases == {"free", "turn", "done", "notify", "telling", "convert", "drain"}
Editable   == {"pending_steer", "queued"}

Row  == [status : Editable \cup {"none", "delivered", "cancelled"}, paused : BOOLEAN,
         to : Runs \cup {NoRun}]
Task == [phase : TaskPhases, owner : Runs \cup {NoRun}, stop : BOOLEAN]

NewTask(phase, r) == [phase |-> phase, owner |-> r, stop |-> FALSE]
FreeTask == NewTask("free", NoRun)
NoRow    == [status |-> "none", paused |-> FALSE, to |-> NoRun]

TypeOK ==
  /\ up \in BOOLEAN
  /\ state \in [Runs -> {"none"} \cup Active \cup Terminal]
  /\ caller \in [Runs -> CallPhases]
  /\ lock \in [Runs -> {"free", "stopping", "telling"} \cup Steers]
  /\ draining \subseteq Steers
  /\ box \in [Steers -> Row]
  /\ entry \in Tasks \cup {NoTask}
  /\ task \in [Tasks -> Task]
  /\ heard \subseteq Steers
  /\ budget \in [Kinds -> Nat]

Init ==
  /\ up = TRUE
  /\ state = [r \in Runs |-> "none"]
  /\ caller = [r \in Runs |-> "none"]
  /\ lock = [r \in Runs |-> "free"]
  /\ draining = {}
  /\ box = [s \in Steers |-> NoRow]
  /\ entry = NoTask
  /\ task = [t \in Tasks |-> FreeTask]
  /\ heard = {}
  /\ budget = Budget

-----------------------------------------------------------------------------
(* State formulas and the operations of the child session.                 *)

IsActive(r) == state[r] \in Active
IsTerminal(r) == state[r] \in Terminal

Spend(k) == budget[k] > 0 /\ budget' = [budget EXCEPT ![k] = @ - 1]

\* ChatStreamManager._is_running for the child session
Live == entry # NoTask /\ task[entry].phase = "turn"

Waiting(status) == {s \in Steers : box[s].status = status /\ ~box[s].paused}

Mark(S, status) == [s \in Steers |->
  IF s \in S THEN [box[s] EXCEPT !.status = status] ELSE box[s]]

\* Faulty: only the queued rows are paused.
PauseQueued == [s \in Steers |->
  IF box[s].status = "queued" THEN [box[s] EXCEPT !.paused = TRUE] ELSE box[s]]

\* pause_active_for_session
PauseActive == [s \in Steers |->
  IF box[s].status \in Editable THEN [box[s] EXCEPT !.paused = TRUE] ELSE box[s]]

\* start_chat for run r, or for no run
StartChat(tk, r) ==
  \E t \in Tasks : /\ tk[t].phase = "free"
                   /\ task' = [tk EXCEPT ![t] = NewTask("turn", r)]
                   /\ entry' = t

\* _drain_next_pending_input: the request it builds from a row names no run
Drain(tk) ==
  \/ /\ Live \/ Waiting("queued") = {}
     /\ task' = tk
     /\ UNCHANGED <<box, entry>>
  \/ /\ ~Live
     /\ \E s \in Waiting("queued") : box' = Mark({s}, "delivered")
     /\ StartChat(tk, NoRun)

-----------------------------------------------------------------------------
(* The parent's tool call: spawn or resume, then wait_terminal.            *)

Call(r, phase) == caller' = [caller EXCEPT ![r] = phase]

\* The transaction of spawn and resume; its snapshot is published next.  The parent's model
\* reads the result of one call before it makes the next.
Create(r) ==
  /\ up /\ state[r] = "none"
  /\ \A q \in Runs : caller[q] \in {"none", "returned", "stopped"}
  /\ \A q \in Runs : ~IsActive(q)
  /\ state' = [state EXCEPT ![r] = "queued"]
  /\ Call(r, "announcing")
  /\ UNCHANGED <<up, lock, draining, child, budget>>

\* Faulty: _ensure_running does not look at the run again.
LaunchRevives(r) ==
  /\ up /\ caller[r] = "announcing"
  /\ ~Live
  /\ StartChat(task, r)
  /\ state' = [state EXCEPT ![r] = "running"] /\ Call(r, "reporting")
  /\ UNCHANGED <<up, lock, draining, box, heard, budget>>

\* Nobody holds the run's lock here: the run may have ended while it was announced, and its
\* turn is started all the same.
Launch(r) ==
  /\ up /\ caller[r] = "announcing"
  /\ ~Live
  /\ StartChat(task, r)
  /\ IF state[r] = "queued"
     THEN state' = [state EXCEPT ![r] = "running"] /\ Call(r, "reporting")
     ELSE UNCHANGED state /\ Call(r, "returned")
  /\ UNCHANGED <<up, lock, draining, box, heard, budget>>

\* Faulty: the refusal of start_chat goes unnoticed.
LaunchUnnoticed(r) ==
  /\ up /\ caller[r] = "announcing"
  /\ Live
  /\ IF state[r] = "queued"
     THEN state' = [state EXCEPT ![r] = "running"] /\ Call(r, "reporting")
     ELSE UNCHANGED state /\ Call(r, "returned")
  /\ UNCHANGED <<up, lock, draining, child, budget>>

\* The child session is still busy: the run fails, unless it has ended already and the
\* transition is refused.
LaunchRefused(r) ==
  /\ up /\ caller[r] = "announcing"
  /\ Live
  /\ IF state[r] = "queued"
     THEN state' = [state EXCEPT ![r] = "failed"] /\ Call(r, "reporting")
     ELSE UNCHANGED state /\ Call(r, "returned")
  /\ UNCHANGED <<up, lock, draining, child, budget>>

\* The second snapshot is out; wait_terminal looks at the run before it waits.
Reported(r) ==
  /\ up /\ caller[r] = "reporting"
  /\ Call(r, IF IsTerminal(r) THEN "returned" ELSE "waiting")
  /\ UNCHANGED <<up, state, lock, draining, child, budget>>

\* The listener is called when the terminal snapshot has been published.
WaitReturns(r) ==
  /\ up /\ caller[r] = "waiting"
  /\ IsTerminal(r) /\ lock[r] # "telling"
  /\ Call(r, "returned")
  /\ UNCHANGED <<up, state, lock, draining, child, budget>>

\* The user stops the parent's turn: only a call in wait_terminal cancels its run.
ParentStops(r) ==
  /\ up /\ Spend("stop")
  /\ caller[r] \in {"announcing", "reporting", "waiting"}
  /\ Call(r, IF caller[r] = "waiting" THEN "stopping" ELSE "stopped")
  /\ UNCHANGED <<up, state, lock, draining, child>>

\* cancel_by_parent_trace has returned.
ParentStopped(r) ==
  /\ up /\ caller[r] = "stopping"
  /\ IsTerminal(r) /\ lock[r] = "free"
  /\ Call(r, "stopped")
  /\ UNCHANGED <<up, state, lock, draining, child, budget>>

-----------------------------------------------------------------------------
(* Controls: steer and cancel hold the run's lock.                         *)

Hold(r, what) == lock' = [lock EXCEPT ![r] = what]

Submit(s, status, r) ==
  box' = [box EXCEPT ![s] = [status |-> status, paused |-> FALSE, to |-> r]]

\* The guidance waits in the child's box: forced into the queue of a queued run, for the
\* next model call of a live turn, or behind other queued rows.
SteerPending(r, s) ==
  /\ up /\ box[s].status = "none" /\ s \notin heard
  /\ lock[r] = "free" /\ IsActive(r)
  /\ \/ state[r] = "queued" /\ Submit(s, "queued", r) /\ UNCHANGED draining
     \/ state[r] = "running" /\ Live /\ Submit(s, "pending_steer", r) /\ UNCHANGED draining
     \/ /\ state[r] = "running" /\ ~Live /\ Waiting("queued") # {}
        /\ Submit(s, "queued", r) /\ draining' = draining \cup {s}
  /\ Hold(r, s)
  /\ UNCHANGED <<up, state, caller, entry, task, heard, budget>>

\* The run's turn has just ended and is not reported yet: the guidance starts another.
SteerDirect(r, s) ==
  /\ up /\ box[s].status = "none" /\ s \notin heard
  /\ lock[r] = "free" /\ state[r] = "running"
  /\ ~Live /\ Waiting("queued") = {}
  /\ StartChat(task, r)
  /\ heard' = heard \cup {s}
  /\ UNCHANGED <<up, state, caller, lock, draining, box, budget>>

SteerDrains(s) ==
  /\ up /\ s \in draining
  /\ draining' = draining \ {s}
  /\ Drain(task)
  /\ UNCHANGED <<up, state, caller, lock, heard, budget>>

\* A run that ended meanwhile takes its guidance back.
SteerReturns(r, s) ==
  /\ up /\ lock[r] = s /\ s \notin draining
  /\ box' = IF IsTerminal(r) /\ box[s].status \in Editable THEN Mark({s}, "cancelled") ELSE box
  /\ Hold(r, "free")
  /\ UNCHANGED <<up, state, caller, draining, entry, task, heard, budget>>

\* Asked for by the user, or by a call whose parent was stopped
CancelAsked(r) == \/ Spend("cancel")
                  \/ caller[r] = "stopping" /\ UNCHANGED budget

CancelLive(r) ==
  /\ up /\ lock[r] = "free" /\ IsActive(r) /\ CancelAsked(r)
  /\ Live
  /\ box' = PauseActive
  /\ task' = [task EXCEPT ![entry].stop = TRUE]
  /\ Hold(r, "stopping")
  /\ UNCHANGED <<up, state, caller, draining, entry, heard>>

CancelIdle(r) ==
  /\ up /\ lock[r] = "free" /\ IsActive(r) /\ CancelAsked(r)
  /\ ~Live
  /\ box' = PauseActive
  /\ state' = [state EXCEPT ![r] = "cancelled"]
  /\ Hold(r, "telling")
  /\ UNCHANGED <<up, caller, draining, entry, task, heard>>

\* _finish_run looks at the run again: the first end of a run is its only one.
CancelCommits(r) ==
  /\ up /\ lock[r] = "stopping"
  /\ IF IsActive(r)
     THEN state' = [state EXCEPT ![r] = "cancelled"] /\ Hold(r, "telling")
     ELSE UNCHANGED state /\ Hold(r, "free")
  /\ UNCHANGED <<up, caller, draining, child, budget>>

\* The terminal snapshot is out and the lock is released.
Told(r) ==
  /\ up /\ lock[r] = "telling"
  /\ Hold(r, "free")
  /\ task' = [t \in Tasks |-> IF task[t].phase = "telling" /\ task[t].owner = r
                              THEN [task[t] EXCEPT !.phase = "convert"] ELSE task[t]]
  /\ UNCHANGED <<up, state, caller, draining, box, entry, heard, budget>>

-----------------------------------------------------------------------------
(* A turn of the child session and its end.                                *)

At(t, phase) == up /\ task[t].phase = phase

Become(t, phase) == task' = [task EXCEPT ![t].phase = phase]

TurnStep == UNCHANGED <<up, caller, draining, budget>>

\* PendingUserInputInjectionMiddleware before a model call
ClaimSteers(t) ==
  /\ At(t, "turn") /\ task[t].owner # NoRun /\ ~task[t].stop
  /\ Waiting("pending_steer") # {}
  /\ box' = Mark(Waiting("pending_steer"), "delivered")
  /\ heard' = heard \cup Waiting("pending_steer")
  /\ TurnStep /\ UNCHANGED <<state, lock, entry, task>>

\* A turn ends; one without the authority of a run is refused by _ensure_session.
EndTurn(t) ==
  /\ At(t, "turn")
  /\ Become(t, "done")
  /\ TurnStep /\ UNCHANGED <<state, lock, box, entry, heard>>

\* Faulty: the observers are not called.
PopSilently(t) ==
  /\ At(t, "done")
  /\ \/ entry = t /\ entry' = NoTask /\ Become(t, "convert")
     \/ entry # t /\ task' = [task EXCEPT ![t] = FreeTask] /\ UNCHANGED entry
  /\ TurnStep /\ UNCHANGED <<state, lock, box, heard>>

\* ChatStreamManager._finish_run
PopRun(t) ==
  /\ At(t, "done")
  /\ \/ entry = t /\ entry' = NoTask /\ Become(t, "notify")
     \/ entry # t /\ task' = [task EXCEPT ![t] = FreeTask] /\ UNCHANGED entry
  /\ TurnStep /\ UNCHANGED <<state, lock, box, heard>>

\* The turn belongs to no run, or its run has ended.
NothingToReport(t) ==
  /\ At(t, "notify")
  /\ task[t].owner # NoRun => IsTerminal(task[t].owner) /\ lock[task[t].owner] = "free"
  /\ Become(t, "convert")
  /\ TurnStep /\ UNCHANGED <<state, lock, box, entry, heard>>

\* handle_chat_finished: a stopped turn cancels its run, any other completes or fails it.
Report(t) ==
  LET r == task[t].owner IN
    /\ At(t, "notify") /\ r # NoRun
    /\ lock[r] = "free" /\ IsActive(r)
    /\ \E s \in IF task[t].stop THEN {"cancelled"} ELSE {"completed", "failed"} :
         state' = [state EXCEPT ![r] = s]
    /\ Hold(r, "telling")
    /\ Become(t, "telling")
    /\ TurnStep /\ UNCHANGED <<box, entry, heard>>

\* Faulty: the delivery mode is stored as the status.
ConvertStoresMode(t) ==
  /\ At(t, "convert")
  /\ \/ task[t].stop /\ task' = [task EXCEPT ![t] = FreeTask] /\ UNCHANGED box
     \/ ~task[t].stop /\ Become(t, "drain") /\ box' = Mark(Waiting("pending_steer"), "queue")
  /\ TurnStep /\ UNCHANGED <<state, lock, entry, heard>>

\* A stopped turn ends here, any other turns its leftover steers into queued inputs.
Convert(t) ==
  /\ At(t, "convert")
  /\ \/ task[t].stop /\ task' = [task EXCEPT ![t] = FreeTask] /\ UNCHANGED box
     \/ ~task[t].stop /\ Become(t, "drain") /\ box' = Mark(Waiting("pending_steer"), "queued")
  /\ TurnStep /\ UNCHANGED <<state, lock, entry, heard>>

DrainAfterRun(t) ==
  /\ At(t, "drain")
  /\ Drain([task EXCEPT ![t] = FreeTask])
  /\ TurnStep /\ UNCHANGED <<state, lock, heard>>

-----------------------------------------------------------------------------
(* The process.                                                            *)

Crash ==
  /\ up /\ Spend("crash")
  /\ up' = FALSE
  /\ caller' = [r \in Runs |-> IF caller[r] = "none" THEN "none" ELSE "returned"]
  /\ lock' = [r \in Runs |-> "free"]
  /\ draining' = {}
  /\ entry' = NoTask
  /\ task' = [t \in Tasks |-> FreeTask]
  /\ UNCHANGED <<state, box, heard>>

\* reconcile_interrupted_runs.  recover_interrupted_sessions, which runs before it, holds
\* the box too if the child's own row still says "running".
Restart ==
  /\ ~up /\ up' = TRUE
  /\ state' = [r \in Runs |-> IF IsActive(r) THEN "interrupted" ELSE state[r]]
  /\ \/ box' = PauseActive
     \/ (\A r \in Runs : ~IsActive(r)) /\ UNCHANGED box
  /\ UNCHANGED <<caller, lock, draining, entry, task, heard, budget>>

-----------------------------------------------------------------------------

Parent == \E r \in Runs : \/ Create(r) \/ Launch(r) \/ LaunchRefused(r) \/ Reported(r)
                          \/ WaitReturns(r) \/ ParentStops(r) \/ ParentStopped(r)

Control == \/ \E r \in Runs : \/ CancelLive(r) \/ CancelIdle(r) \/ CancelCommits(r) \/ Told(r)
                              \/ \E s \in Steers : \/ SteerPending(r, s) \/ SteerDirect(r, s)
                                                   \/ SteerReturns(r, s)
           \/ \E s \in Steers : SteerDrains(s)

Turn == \E t \in Tasks : \/ ClaimSteers(t) \/ EndTurn(t) \/ PopRun(t) \/ NothingToReport(t)
                         \/ Report(t) \/ Convert(t) \/ DrainAfterRun(t)

Next == Parent \/ Control \/ Turn \/ Crash \/ Restart

Spec == Init /\ [][Next]_vars

\* The event loop runs whatever is ready, a turn ends, a lock goes to one of its waiters
\* (asyncio.Lock is first come, first served), and publishing returns.
Fairness ==
  /\ \A r \in Runs : /\ WF_vars(Launch(r) \/ LaunchRefused(r))
                     /\ WF_vars(Reported(r) \/ WaitReturns(r) \/ ParentStopped(r))
                     /\ WF_vars(caller[r] = "stopping" /\ (CancelLive(r) \/ CancelIdle(r)))
                     /\ WF_vars(CancelCommits(r) \/ Told(r))
                     /\ WF_vars(\E s \in Steers : SteerReturns(r, s))
  /\ WF_vars(\E s \in Steers : SteerDrains(s))
  /\ \A t \in Tasks : /\ WF_vars(EndTurn(t))
                      /\ WF_vars(PopRun(t) \/ NothingToReport(t) \/ Report(t) \/ Convert(t)
                                 \/ DrainAfterRun(t))

FairSpec == Spec /\ Fairness

-----------------------------------------------------------------------------
(* Properties.                                                             *)

\* Some guidance has been sent in a turn that belongs to no run.
GuidanceLost == \E s \in Steers : box[s].status = "delivered" /\ s \notin heard

\* A task of run r is going to tell the runtime how it ended.
WillReport(r) ==
  \E t \in Tasks : /\ task[t].owner = r
                   /\ \/ entry = t /\ task[t].phase \in {"turn", "done"}
                      \/ task[t].phase = "notify"

\* Somebody stands behind an active run (wait_terminal, handle_chat_finished): a queued run
\* has a caller that is about to launch it, unless the parent was stopped, and a running run
\* has a task that will report it or a cancellation that will end it.  A drain that hands
\* guidance to a turn without a run may take the registry entry from the run's own task;
\* that case is GuidanceIsHeard's.
RunIsDriven ==
  (up /\ ~GuidanceLost) => \A r \in Runs :
    /\ state[r] = "queued" => caller[r] \in {"announcing", "stopped"}
    /\ state[r] = "running" => WillReport(r) \/ lock[r] = "stopping"

\* What the box still holds for run r is on hold.
HoldsInputs(r) ==
  \A s \in Steers : (box[s].to = r /\ box[s].status \in Editable) => box[s].paused

\* A run that was cancelled or interrupted leaves nothing behind that could still be sent
\* (_cancel_locked, reconcile_interrupted_runs).
EndedRunHoldsInputs ==
  \A r \in Runs : state[r] \in {"cancelled", "interrupted"} => HoldsInputs(r)

\* Guidance that _steer_locked has accepted reaches the sub-agent: once it has left the box
\* for a turn, that turn has heard it.
GuidanceIsHeard == \A s \in Steers : box[s].status = "delivered" => s \in heard

\* Nothing is going to happen by itself.
Quiet == /\ up /\ draining = {}
         /\ \A r \in Runs : lock[r] = "free" /\ caller[r] \in {"none", "returned", "stopped"}
         /\ \A t \in Tasks : task[t].phase = "free"

\* A run does not outlive the parent's tool call (_execute_delegate_subagent): when the
\* parent was stopped and nothing moves any more, its run has ended.
NoDetachedRun == Quiet => \A r \in Runs : caller[r] = "stopped" => ~IsActive(r)

\* The parent's tool call comes back, with the report or stopped (wait_terminal and
\* cancel_by_parent_trace), unless guidance was lost.
CallReturns == \A r \in Runs : caller[r] \in {"waiting", "stopping"}
                                 ~> (caller[r] \in {"returned", "stopped"} \/ GuidanceLost)

Lifecycle == INSTANCE SubagentLifecycle

\* Every step of the runtime is a step of SubagentLifecycle: one active run of the instance,
\* an end that is final, and completion of started runs only (transition_run, resume).
ImplementsLifecycle == Lifecycle!Spec
=============================================================================
