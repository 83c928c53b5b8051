----------------------------- MODULE ChatStream -----------------------------
(***************************************************************************)
(* The turn scheduler of one chat session: ChatStreamManager               *)
(* (backend/app/services/chat_stream_manager.py), the pending-input table  *)
(* it drives (PendingInputsRepository), the steering middleware that       *)
(* empties part of that table into a running turn, and the session status  *)
(* that ChatService.handle_chat and the A2UI resume write.                 *)
(*                                                                         *)
(* Everything in the manager is keyed by session id and no operation       *)
(* relates two sessions, so the module follows one session.                *)
(*                                                                         *)
(* Granularity.  All of this runs on one asyncio event loop, so a step is  *)
(* the code between two points that really suspend: awaiting a subscriber, *)
(* an event consumer, a model, a callback.  "async with self._lock" is not *)
(* such a point: no holder of that lock awaits anything, so it is always   *)
(* free when it is asked for and asyncio.Lock grants it without            *)
(* suspending.  For the same reason start_chat cannot meet a running task  *)
(* after the check just before it in submit_input and in                   *)
(* _drain_next_pending_input: their "already running" branches are dead.   *)
(* SQLite commits are durable one by one, so a crash can fall between two  *)
(* of them inside a step (CrashInDrain).                                   *)
(***************************************************************************)
EXTENDS Naturals, FiniteSets

CONSTANTS
  Inputs,     \* the user's messages, named by their client_input_id
  Tasks,      \* slots for asyncio tasks; a slot is free again once its task is finished
  NoInput,    \* the request of a task that carries no user message
  NoTask,     \* _runs has no entry for the session
  BatchSize,  \* PendingUserInputInjectionMiddleware._max_batch_size
  Budgets     \* bounds on the steps the environment may repeat at will: one is chosen

Kinds == {"stop", "crash", "edit", "resend", "force", "continue", "ask"}

ASSUME SlotAssumption == NoTask \notin Tasks /\ NoInput \notin Inputs
ASSUME BatchAssumption == BatchSize \in Nat \ {0}
ASSUME BudgetAssumption == Budgets \subseteq [Kinds -> Nat]

VARIABLES
  up,         \* the backend process runs
  session,    \* sessions row: its status, whether an A2UI interaction waits for the user, and
              \* what became of an approval request whose turn ended without its decision
  box,        \* session_pending_inputs: one row for each input that has one
  run,        \* _runs.get(session_id)
  task,       \* the tasks behind _runs, and the finishing tasks that follow them
  drains,     \* handlers that will call _drain_next_pending_input after their broadcast
  answering,  \* an A2UI answer is stored and its handler has not yet started the resume
  sent,       \* history: inputs the client has submitted
  given,      \* history: how many times input i left the box for a turn
  stray,      \* history: since a turn last began, an A2UI answer was lost or its resume
              \* ended without a final status in the session row
  budget      \* what is left of the chosen bounds

store == <<session, box>>
vars  == <<up, session, box, run, task, drains, answering, sent, given, stray, budget>>

Modes     == {"steer", "queue"}
Editable  == {"pending_steer", "queued"}
Statuses  == Editable \cup {"none", "starting", "delivered", "cancelled"}
RowStatus == {"active", "running", "waiting_approval", "waiting_input", "failed"}
Phases    == {"free", "created", "turn", "failing", "done", "notify", "drain"}

Approvals == {"none", "pending", "decided"}

Row  == [status : Statuses, paused : BOOLEAN, pos : Nat]
Task == [phase : Phases, input : Inputs \cup {NoInput}, kind : {"chat", "managed"},
         stop : BOOLEAN, approval : Approvals]

Session == [status : RowStatus, asking : BOOLEAN, orphan : Approvals]

NewTask(phase, i, kind) ==
  [phase |-> phase, input |-> i, kind |-> kind, stop |-> FALSE, approval |-> "none"]

FreeTask == NewTask("free", NoInput, "chat")
NoRow    == [status |-> "none", paused |-> FALSE, pos |-> 0]

TypeOK ==
  /\ up \in BOOLEAN
  /\ session \in Session
  /\ box \in [Inputs -> Row]
  /\ run \in Tasks \cup {NoTask}
  /\ task \in [Tasks -> Task]
  /\ drains \in Nat
  /\ answering \in BOOLEAN
  /\ sent \subseteq Inputs
  /\ given \in [Inputs -> Nat]
  /\ stray \in BOOLEAN
  /\ budget \in [Kinds -> Nat]

Init ==
  /\ up = TRUE
  /\ session = [status |-> "active", asking |-> FALSE, orphan |-> "none"]
  /\ box = [i \in Inputs |-> NoRow]
  /\ run = NoTask
  /\ task = [t \in Tasks |-> FreeTask]
  /\ drains = 0
  /\ answering = FALSE
  /\ sent = {}
  /\ given = [i \in Inputs |-> 0]
  /\ stray = FALSE
  /\ budget \in Budgets

-----------------------------------------------------------------------------
(* State formulas and the operations of the two stores.                    *)

Unfinished(t) == task[t].phase \in {"created", "turn", "failing"}

\* ChatStreamManager._is_running
Live == run # NoTask /\ Unfinished(run)

\* ChatStreamManager._is_waiting_input
WaitingInput == session.status = "waiting_input" \/ session.asking

Unpaused(i) == ~box[i].paused

\* PendingInputsRepository.has_active_queue
HasActiveQueue == \E i \in Inputs : box[i].status \in {"queued", "starting"} /\ Unpaused(i)

Spend(k) == budget[k] > 0 /\ budget' = [budget EXCEPT ![k] = @ - 1]

\* start_chat and start_managed_run: the new task takes a free slot and the registry entry.
Launch(tk, i, kind) ==
  \E t \in Tasks :
    /\ tk[t].phase = "free"
    /\ task' = [tk EXCEPT ![t] = NewTask("created", i, kind)]
    /\ run' = t

\* _pending_mode_for_submit, and the status create_or_get gives that mode
SubmittedStatus(mode) ==
  IF mode = "queue" \/ WaitingInput \/ (~Live /\ HasActiveQueue) THEN "queued"
                                                                ELSE "pending_steer"

\* Faulty: a resent client_input_id resets its row.
CreateAgain(i, status) ==
  box' = [box EXCEPT ![i] = [status |-> status, paused |-> FALSE, pos |-> @.pos + 1]]

\* create_or_get: the row of this client_input_id, or a new row behind all others
CreateOrGet(i, status) ==
  \/ box[i].status # "none" /\ UNCHANGED box
  \/ /\ box[i].status = "none"
     /\ \E last \in {0} \cup {box[j].pos : j \in Inputs} :
          /\ \A j \in Inputs : box[j].pos <= last
          /\ box' = [box EXCEPT ![i] = [status |-> status, paused |-> FALSE,
                                        pos |-> last + 1]]

\* pause_active_for_session
PauseActive == [i \in Inputs |->
  IF box[i].status \in Editable THEN [box[i] EXCEPT !.paused = TRUE] ELSE box[i]]

\* Faulty: the claims do not look at paused_at.
WaitingOrHeld(b, status) == {i \in Inputs : b[i].status = status}

Waiting(b, status) == {i \in Inputs : b[i].status = status /\ ~b[i].paused}

FirstOf(b, S) == {i \in S : \A j \in S : b[i].pos <= b[j].pos}

\* recover_expired_claims: the claims in E are past their lock_expires_at
Requeue(E) == [i \in Inputs |->
  IF i \in E THEN [box[i] EXCEPT !.status = "queued"] ELSE box[i]]

Expirable == {i \in Inputs : box[i].status = "starting"}

-----------------------------------------------------------------------------
(* _drain_next_pending_input, called with the task table tk its caller     *)
(* leaves behind.  The 60 second claim lock is a time-out: any set of      *)
(* claims may have expired.                                                *)

DrainRefused(tk) ==
  /\ Live \/ WaitingInput
  /\ task' = tk
  /\ UNCHANGED <<box, run, given>>

DrainEmpty(tk, E) ==
  /\ ~Live /\ ~WaitingInput
  /\ Waiting(Requeue(E), "queued") = {}
  /\ box' = Requeue(E)
  /\ task' = tk
  /\ UNCHANGED <<run, given>>

\* Faulty: the claim is never marked delivered.
DrainUnmarked(tk, E, i) ==
  /\ ~Live /\ ~WaitingInput
  /\ i \in FirstOf(Requeue(E), Waiting(Requeue(E), "queued"))
  /\ Launch(tk, i, "chat")
  /\ box' = [Requeue(E) EXCEPT ![i].status = "starting"]
  /\ given' = [given EXCEPT ![i] = @ + 1]

\* claim_next_queued, start_chat, mark_delivered
DrainOne(tk, E, i) ==
  /\ ~Live /\ ~WaitingInput
  /\ i \in FirstOf(Requeue(E), Waiting(Requeue(E), "queued"))
  /\ Launch(tk, i, "chat")
  /\ box' = [Requeue(E) EXCEPT ![i].status = "delivered"]
  /\ given' = [given EXCEPT ![i] = @ + 1]

Drain(tk) ==
  \/ DrainRefused(tk)
  \/ \E E \in SUBSET Expirable : DrainEmpty(tk, E) \/ \E i \in Inputs : DrainOne(tk, E, i)

-----------------------------------------------------------------------------
(* Requests of the user.                                                   *)

\* A first submission is free; a resent or forced one is charged.  Only the sub-agent
\* runtime forces, and it always names the queue.
Attempt(i, mode, force) ==
  /\ sent' = sent \cup {i}
  /\ \/ i \notin sent /\ ~force /\ UNCHANGED budget
     \/ i \in sent /\ ~force /\ Spend("resend")
     \/ i \notin sent /\ force /\ mode = "queue" /\ Spend("force")

SubmitPending(i, mode, force) ==
  /\ up /\ Attempt(i, mode, force)
  /\ Live \/ WaitingInput \/ HasActiveQueue \/ force
  /\ CreateOrGet(i, SubmittedStatus(mode))
  /\ drains' = IF ~Live /\ ~WaitingInput /\ ~force THEN drains + 1 ELSE drains
  /\ UNCHANGED <<up, session, run, task, answering, given, stray>>

SubmitDirect(i, mode) ==
  /\ up /\ Attempt(i, mode, FALSE)
  /\ ~Live /\ ~WaitingInput /\ ~HasActiveQueue
  /\ Launch(task, i, "chat")
  /\ UNCHANGED <<up, session, box, drains, answering, given, stray>>

SubmitInput(i, mode) ==
  \/ \E force \in BOOLEAN : SubmitPending(i, mode, force)
  \/ SubmitDirect(i, mode)

\* A handler of submit_input or resume_pending_inputs comes back from its broadcast.
DrainHandler ==
  /\ up /\ drains > 0
  /\ drains' = drains - 1
  /\ Drain(task)
  /\ UNCHANGED <<up, session, answering, sent, stray, budget>>

Edit == up /\ Spend("edit")
             /\ UNCHANGED <<up, session, run, task, drains, answering, sent, given, stray>>

\* Faulty: the mode is stored where its status belongs.
UpdateStoresMode(i, status) ==
  /\ box[i].status \in Editable /\ status \in Editable
  /\ box' = [box EXCEPT ![i].status = IF status = "queued" THEN "queue" ELSE "steer"]
  /\ Edit

\* update_pending with a mode: the row keeps its pause and its place
UpdatePendingInput(i, status) ==
  /\ box[i].status \in Editable /\ status \in Editable
  /\ box' = [box EXCEPT ![i].status = status]
  /\ Edit

CancelPendingInput(i) ==
  /\ box[i].status \in Editable
  /\ box' = [box EXCEPT ![i].status = "cancelled"]
  /\ Edit

\* reorder_pending: the named rows exchange their queue positions among themselves
ReorderPendingInputs(S, f) ==
  /\ \A i \in S : box[i].status \in Editable
  /\ \A i, j \in S : f[i] = f[j] => i = j
  /\ box' = [i \in Inputs |-> IF i \in S THEN [box[i] EXCEPT !.pos = box[f[i]].pos] ELSE box[i]]
  /\ Edit

PausedIn(status) == {i \in Inputs : box[i].status = status /\ box[i].paused}

Unpause(S) == [i \in Inputs |-> IF i \in S THEN [box[i] EXCEPT !.paused = FALSE] ELSE box[i]]

\* The rows resume_pending_inputs is asked for: all of one mode, or a single one of it
Selection(S, status) ==
  \/ S = PausedIn(status)
  \/ \E i \in PausedIn(status) : S = {i}

Resume(S, status) ==
  /\ up /\ S # {} /\ Selection(S, status)
  /\ \/ /\ status = "queued" \/ Live
        /\ box' = Unpause(S)
     \/ /\ status = "pending_steer" /\ ~Live
        /\ \E i \in FirstOf(box, S) : box' = [Unpause(S) EXCEPT ![i].status = "queued"]
  /\ drains' = IF Live THEN drains ELSE drains + 1
  /\ UNCHANGED <<up, session, run, task, answering, sent, given, stray, budget>>

\* Faulty: only status "running" counts as interrupted.
RecoverRunningOnly ==
  IF session.status = "running"
  THEN session' = [session EXCEPT !.status = "active", !.orphan = "none"] /\ box' = PauseActive
  ELSE UNCHANGED store

\* recover_interrupted_sessions for this session, when it has no live run: it also cancels
\* the approval requests that are still pending
Recover ==
  IF session.status \in {"running", "waiting_approval"}
  THEN session' = [session EXCEPT !.status = "active", !.orphan = "none"] /\ box' = PauseActive
  ELSE UNCHANGED store

\* ChatStreamManager.cancel
Cancel ==
  /\ up /\ Spend("stop")
  /\ \/ /\ Live
        /\ box' = PauseActive
        /\ task' = [task EXCEPT ![run].stop = TRUE]
        /\ UNCHANGED session
     \/ ~Live /\ Recover /\ UNCHANGED task
  /\ UNCHANGED <<up, run, drains, answering, sent, given, stray>>

\* ThreadTaskRuntime.continue_if_idle: its idle check is stale by the time it starts the
\* run, so only start_chat's own check guards it.
ContinueThreadTask ==
  /\ up /\ ~Live /\ Spend("continue")
  /\ Launch(task, NoInput, "chat")
  /\ UNCHANGED <<up, session, box, drains, answering, sent, given, stray>>

\* A2UIInteractionService.submit or cancel closes the interaction and awaits its event.
AnswerInteraction ==
  /\ up /\ session.asking /\ ~answering
  /\ session' = [session EXCEPT !.asking = FALSE]
  /\ answering' = TRUE
  /\ UNCHANGED <<up, box, run, task, drains, sent, given, stray, budget>>

\* A2UIResumeService.start_resume: the row says "running" before start_managed_run is
\* called, which refuses while a run is live.
StartResume ==
  /\ up /\ answering
  /\ answering' = FALSE
  /\ session' = [session EXCEPT !.status = "running"]
  /\ \/ Live /\ stray' = TRUE /\ UNCHANGED <<run, task>>
     \/ ~Live /\ Launch(task, NoInput, "managed") /\ UNCHANGED stray
  /\ UNCHANGED <<up, box, drains, sent, given, budget>>

\* The resume service cannot be built (no usable model) and the handler gives up.
ResumeRefused ==
  /\ up /\ answering
  /\ answering' = FALSE
  /\ stray' = TRUE
  /\ UNCHANGED <<up, session, box, run, task, drains, sent, given, budget>>

-----------------------------------------------------------------------------
(* A turn: ChatService.handle_chat for "chat" tasks, A2UIResumeService.    *)
(* _run_resume for "managed" ones.                                         *)

At(t, phase) == up /\ task[t].phase = phase

Become(t, phase) == task' = [task EXCEPT ![t].phase = phase]

SetRow(status) == session' = [session EXCEPT !.status = status]

TurnStep == UNCHANGED <<up, run, drains, answering, sent>>

BeginTurn(t) ==
  /\ At(t, "created") /\ ~task[t].stop
  /\ Become(t, "turn")
  /\ \/ /\ task[t].kind = "chat" /\ stray' = FALSE
        /\ session' = [session EXCEPT !.status = "running",
                                      !.orphan = IF @ = "decided" THEN "none" ELSE @]
     \/ task[t].kind = "managed" /\ UNCHANGED <<session, stray>>
  /\ TurnStep /\ UNCHANGED <<box, given, budget>>

\* Cancelled before it runs, or refused before its try block: the row is left as it is.
AbortTurn(t) ==
  /\ At(t, "created")
  /\ task[t].kind = "managed" => task[t].stop
  /\ Become(t, "done")
  /\ stray' = (stray \/ task[t].kind = "managed")
  /\ TurnStep /\ UNCHANGED <<session, box, given, budget>>

\* PendingUserInputInjectionMiddleware.abefore_model: the oldest steers, up to a batch
SteerBatch(S) ==
  LET all == Waiting(box, "pending_steer") IN
    /\ S # {} /\ S \subseteq all /\ Cardinality(S) <= BatchSize
    /\ \A i \in S, j \in all \ S : box[i].pos <= box[j].pos
    /\ S = all \/ Cardinality(S) = BatchSize

ClaimSteers(t, S) ==
  /\ At(t, "turn") /\ ~task[t].stop
  /\ SteerBatch(S)
  /\ box' = [i \in Inputs |-> IF i \in S THEN [box[i] EXCEPT !.status = "delivered"] ELSE box[i]]
  /\ given' = [i \in Inputs |-> IF i \in S THEN given[i] + 1 ELSE given[i]]
  /\ TurnStep /\ UNCHANGED <<session, task, stray, budget>>

\* Approvals of one turn: a tool stores a request and polls for its decision, which the
\* user sends to a handler of the API.  Both write the session row.
Approve(t, status) ==
  /\ task' = [task EXCEPT ![t].approval = status]
  /\ SetRow(IF status = "pending" THEN "waiting_approval" ELSE "running")
  /\ TurnStep /\ UNCHANGED <<box, given, stray, budget>>

RequestApproval(t) ==
  /\ At(t, "turn") /\ ~task[t].stop /\ task[t].approval = "none"
  /\ Approve(t, "pending")

DecideApproval(t) ==
  /\ At(t, "turn") /\ task[t].approval = "pending"
  /\ Approve(t, "decided")

\* The tool sees the decision, or gives up waiting for it.
ApprovalSeen(t) ==
  /\ At(t, "turn") /\ ~task[t].stop /\ task[t].approval # "none"
  /\ Approve(t, "none")

\* A request outlives its turn; resolve does not know that nobody waits any more.
DecideOrphan ==
  /\ up /\ session.orphan = "pending"
  /\ session' = [session EXCEPT !.status = "running", !.orphan = "decided"]
  /\ UNCHANGED <<up, box, run, task, drains, answering, sent, given, stray, budget>>

\* A2UI runtime: the interaction is stored before the graph is interrupted
AskUser(t) ==
  /\ At(t, "turn") /\ ~task[t].stop /\ Spend("ask")
  /\ session' = [session EXCEPT !.status = "waiting_input", !.asking = TRUE]
  /\ TurnStep /\ UNCHANGED <<box, task, given, stray>>

\* The turn is over; a request it leaves behind stays in its table.
Leave(t, phase, status) ==
  /\ task' = [task EXCEPT ![t].phase = phase, ![t].approval = "none"]
  /\ session' = [session EXCEPT
       !.status = status,
       !.orphan = IF task[t].approval = "pending" THEN "pending" ELSE @]

CompleteTurn(t) ==
  /\ At(t, "turn") /\ ~task[t].stop /\ task[t].approval = "none" /\ ~session.asking
  /\ Leave(t, "done", "active")
  /\ TurnStep /\ UNCHANGED <<box, given, stray, budget>>

\* handle_chat checks for a waiting interaction before it checks for a cancellation.
SuspendTurn(t) ==
  /\ At(t, "turn") /\ session.asking
  /\ \/ ~task[t].stop /\ task[t].approval = "none"
     \/ task[t].stop /\ task[t].kind = "chat"
  /\ Leave(t, "done", "waiting_input")
  /\ TurnStep /\ UNCHANGED <<box, given, stray, budget>>

\* Only a chat turn cancels its approval requests.  A resume that is stopped in its last
\* emits does not write the row.
CancelTurn(t) ==
  /\ At(t, "turn") /\ task[t].stop
  /\ \/ /\ task[t].kind = "chat"
        /\ task' = [task EXCEPT ![t].phase = "done", ![t].approval = "none"]
        /\ session' = [session EXCEPT !.status = "active", !.orphan = "none"]
        /\ UNCHANGED stray
     \/ task[t].kind = "managed" /\ Leave(t, "done", "active") /\ UNCHANGED stray
     \/ task[t].kind = "managed" /\ Leave(t, "done", session.status) /\ stray' = TRUE
  /\ TurnStep /\ UNCHANGED <<box, given, budget>>

\* A failed turn stores its row before it publishes; a failed resume never stores one.
FailTurn(t) ==
  /\ At(t, "turn")
  /\ \/ task[t].kind = "chat" /\ Leave(t, "failing", "failed") /\ UNCHANGED stray
     \/ task[t].kind = "managed" /\ Leave(t, "done", session.status) /\ stray' = TRUE
  /\ TurnStep /\ UNCHANGED <<box, given, budget>>

FailurePublished(t) ==
  /\ At(t, "failing")
  /\ Become(t, "done")
  /\ TurnStep /\ UNCHANGED <<session, box, given, stray, budget>>

EndTurn(t) == \/ CompleteTurn(t) \/ SuspendTurn(t) \/ CancelTurn(t) \/ FailTurn(t)

-----------------------------------------------------------------------------
(* _finish_run and _notify_after_run_finished.                             *)

FinishStep == UNCHANGED <<up, session, drains, answering, sent, stray, budget>>

Release(t) == [task EXCEPT ![t] = FreeTask]

\* Faulty: the entry is popped without looking whose it is.
PopAnyRun(t) ==
  /\ At(t, "done")
  /\ run' = NoTask /\ Become(t, "notify")
  /\ FinishStep /\ UNCHANGED <<box, given>>

\* Only the task that _runs still names is popped and announced.
PopRun(t) ==
  /\ At(t, "done")
  /\ \/ run = t /\ run' = NoTask /\ Become(t, "notify")
     \/ run # t /\ task' = Release(t) /\ UNCHANGED run
  /\ FinishStep /\ UNCHANGED <<box, given>>

\* Faulty: leftover steers are not converted.
AfterCallbacksOnly(t) ==
  /\ At(t, "notify")
  /\ \/ task[t].stop /\ task' = Release(t)
     \/ ~task[t].stop /\ Become(t, "drain")
  /\ FinishStep /\ UNCHANGED <<box, run, given>>

\* After the callbacks: a cancelled run stops here, any other converts its leftover steers.
AfterCallbacks(t) ==
  /\ At(t, "notify")
  /\ \/ task[t].stop /\ task' = Release(t) /\ UNCHANGED box
     \/ /\ ~task[t].stop /\ Become(t, "drain")
        /\ box' = [i \in Inputs |-> IF i \in Waiting(box, "pending_steer")
                                    THEN [box[i] EXCEPT !.status = "queued"] ELSE box[i]]
  /\ FinishStep /\ UNCHANGED <<run, given>>

\* Faulty: nothing follows a run.
NoDrainAfterRun(t) ==
  /\ At(t, "drain")
  /\ task' = Release(t)
  /\ FinishStep /\ UNCHANGED <<box, run, given>>

DrainAfterRun(t) ==
  /\ At(t, "drain")
  /\ Drain(Release(t))
  /\ FinishStep

-----------------------------------------------------------------------------
(* The process.                                                            *)

LoseMemory ==
  /\ up' = FALSE
  /\ run' = NoTask
  /\ task' = [t \in Tasks |-> FreeTask]
  /\ drains' = 0
  /\ answering' = FALSE
  /\ session' = [session EXCEPT
       !.orphan = IF \E t \in Tasks : task[t].approval = "pending" THEN "pending" ELSE @]
  /\ UNCHANGED <<sent, given, stray>>

Crash == up /\ Spend("crash") /\ LoseMemory /\ UNCHANGED box

\* The process dies after claim_next_queued committed and before mark_delivered did.
CrashInDrain ==
  /\ up /\ Spend("crash") /\ LoseMemory
  /\ drains > 0 \/ \E t \in Tasks : task[t].phase = "drain"
  /\ ~Live /\ ~WaitingInput
  /\ \E i \in FirstOf(box, Waiting(box, "queued")) :
       box' = [box EXCEPT ![i].status = "starting"]

\* Startup runs recover_interrupted_sessions before any request is served.
Restart ==
  /\ ~up /\ up' = TRUE
  /\ Recover
  /\ UNCHANGED <<run, task, drains, answering, sent, given, stray, budget>>

-----------------------------------------------------------------------------

User == \/ \E i \in Inputs : \/ \E m \in Modes : SubmitInput(i, m)
                             \/ \E s \in Editable : UpdatePendingInput(i, s)
                             \/ CancelPendingInput(i)
        \/ \E S \in SUBSET Inputs : \/ \E s \in Editable : Resume(S, s)
                                    \/ \E f \in [S -> S] : ReorderPendingInputs(S, f)
        \/ Cancel
        \/ ContinueThreadTask
        \/ AnswerInteraction
        \/ DecideOrphan

Handlers == DrainHandler \/ StartResume \/ ResumeRefused

Turn(t) == \/ BeginTurn(t) \/ AbortTurn(t)
           \/ \E S \in SUBSET Inputs : ClaimSteers(t, S)
           \/ RequestApproval(t) \/ DecideApproval(t) \/ ApprovalSeen(t) \/ AskUser(t)
           \/ EndTurn(t) \/ FailurePublished(t)

Finish(t) == PopRun(t) \/ AfterCallbacks(t) \/ DrainAfterRun(t)

Process == Crash \/ CrashInDrain \/ Restart

Next == \/ User \/ Handlers \/ Process
        \/ \E t \in Tasks : Turn(t) \/ Finish(t)

Spec == Init /\ [][Next]_vars

\* The event loop runs every task that is ready, and every turn ends: a model call or a
\* tool returns, fails or is cancelled, and an approval is decided or expires.
Fairness ==
  /\ WF_vars(DrainHandler)
  /\ WF_vars(StartResume \/ ResumeRefused)
  /\ \A t \in Tasks : /\ WF_vars(BeginTurn(t) \/ AbortTurn(t))
                      /\ WF_vars(EndTurn(t))
                      /\ WF_vars(FailurePublished(t))
                      /\ WF_vars(Finish(t))

FairSpec == Spec /\ Fairness

-----------------------------------------------------------------------------
(* Properties.                                                             *)

\* At most one task of the session is unfinished, and it is the one _runs names: a new
\* turn never starts beside a running one, and the cleanup of an older task never
\* unregisters the task that replaced it.
OneLiveTask == \A t \in Tasks : Unfinished(t) => run = t

\* The row of a session never claims activity that no task backs, unless an A2UI resume
\* ended without writing the row or an approval was decided after its turn: every other
\* ending of a turn, a stop at any point and a restart leave a final status behind.
RunningRowHasOwner ==
  up /\ session.status \in {"running", "waiting_approval"}
    => Live \/ stray \/ session.orphan = "decided"

\* A turn that has failed is not shown as running again before another one begins: handle_
\* chat stores "failed" before it publishes so that no reader resurrects the turn.
FailedTurnStaysFailed ==
  [][session.status = "failed" /\ session'.status = "running" => Live']_vars

\* A pending input goes to a turn exactly once: its row says "delivered" when it was given
\* to a turn, and it is never given twice, whatever claims expire, whatever the user
\* reorders, resends or resumes, and wherever the process dies.
GivenOnce ==
  \A i \in Inputs : given[i] = IF box[i].status = "delivered" THEN 1 ELSE 0

\* An input the user's stop has put on hold is not started: neither the finishing run, nor
\* an expiring claim, nor the middleware of a later turn takes it before it is resumed.
HeldInputStays ==
  [][\A i \in Inputs : box[i].paused => box'[i].status \notin {"starting", "delivered"}]_vars

\* Nothing is going to happen in the session by itself.
Quiet ==
  /\ up /\ ~Live /\ ~WaitingInput /\ drains = 0 /\ ~answering
  /\ \A t \in Tasks : task[t].phase = "free"

\* When the session has come to rest, every input still in the box is paused, so that the
\* user sees it and can resume it: none is left that looks about to be sent.  (A lost A2UI
\* answer takes with it the run whose end would have drained the box.)
NoStrandedInput ==
  Quiet /\ ~stray => \A i \in Inputs : box[i].status \in Editable => box[i].paused

\* An accepted input is eventually handed to a turn, unless it is withdrawn or put on
\* hold, or the session waits for an answer of the user or has lost one.
AcceptedInputIsServed ==
  \A i \in Inputs :
    (box[i].status \in Editable /\ Unpaused(i))
      ~> (box[i].status \notin Editable \/ box[i].paused \/ WaitingInput \/ stray)

-----------------------------------------------------------------------------
(* The box as its users see it.                                            *)

Stage(i) == CASE box[i].status = "none"      -> "absent"
              [] box[i].status = "delivered" -> "delivered"
              [] box[i].status = "cancelled" -> "withdrawn"
              [] OTHER                       -> IF box[i].paused THEN "held" ELSE "waiting"

Delivery == INSTANCE InputDelivery WITH stage <- [i \in Inputs |-> Stage(i)], busy <- Live

\* Every step of the scheduler is a step of InputDelivery: an input leaves the box once and
\* for good, a held one only after it was released, and a queued one only by starting a
\* turn of its own while no other is in progress.
ImplementsDelivery == Delivery!Spec
=============================================================================
