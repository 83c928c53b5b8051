-------------------------- MODULE ChatStreamProofs --------------------------
(***************************************************************************)
(* Theorems about ChatStream, for every set of inputs, every number of     *)
(* tasks and every budget.                                                 *)
(***************************************************************************)
EXTENDS ChatStream, TLAPS

-----------------------------------------------------------------------------
(* Typing of the operations the actions are built from.                    *)

\* The task table after a start, and the new entry of _runs, are well typed.
LEMMA LaunchType ==
  ASSUME NEW tk \in [Tasks -> Task], NEW i \in Inputs \cup {NoInput},
         NEW kind \in {"chat", "managed"}, Launch(tk, i, kind)
  PROVE  task' \in [Tasks -> Task] /\ run' \in Tasks \cup {NoTask}
BY DEF Launch, Task, Phases, NewTask, Approvals

\* A phase change and the release of a slot keep the task table well typed.
LEMMA TaskType ==
  ASSUME TypeOK, NEW t \in Tasks
  PROVE  /\ \A p \in Phases : [task EXCEPT ![t].phase = p] \in [Tasks -> Task]
         /\ Release(t) \in [Tasks -> Task]
         /\ [task EXCEPT ![t].stop = TRUE] \in [Tasks -> Task]
         /\ \A a \in Approvals : [task EXCEPT ![t].approval = a] \in [Tasks -> Task]
         /\ \A p \in Phases :
              [task EXCEPT ![t].phase = p, ![t].approval = "none"] \in [Tasks -> Task]
<1>. USE DEF TypeOK, Task
<1>1. FreeTask \in Task
  BY DEF FreeTask, NewTask, Phases, Approvals
<1>2. Release(t) \in [Tasks -> Task]
  BY <1>1 DEF Release
<1>3. ASSUME NEW p \in Phases
      PROVE  [task EXCEPT ![t].phase = p] \in [Tasks -> Task]
  OBVIOUS
<1>4. [task EXCEPT ![t].stop = TRUE] \in [Tasks -> Task]
  OBVIOUS
<1>5. ASSUME NEW a \in Approvals
      PROVE  [task EXCEPT ![t].approval = a] \in [Tasks -> Task]
  OBVIOUS
<1>6. ASSUME NEW p \in Phases
      PROVE  [task EXCEPT ![t].phase = p, ![t].approval = "none"] \in [Tasks -> Task]
  BY DEF Approvals
<1>. QED BY <1>2, <1>3, <1>4, <1>5, <1>6

\* The box operations keep every row well typed.
LEMMA BoxType ==
  ASSUME TypeOK
  PROVE  /\ PauseActive \in [Inputs -> Row]
         /\ \A E : Requeue(E) \in [Inputs -> Row]
         /\ \A S : Unpause(S) \in [Inputs -> Row]
BY DEF TypeOK, PauseActive, Requeue, Unpause, Row, Statuses, Editable

LEMMA CreateType ==
  ASSUME TypeOK, NEW i \in Inputs, NEW status \in Editable, CreateOrGet(i, status)
  PROVE  box' \in [Inputs -> Row]
<1>1. CASE UNCHANGED box
  BY <1>1 DEF TypeOK
<1>2. CASE \E last \in {0} \cup {box[j].pos : j \in Inputs} :
             box' = [box EXCEPT ![i] = [status |-> status, paused |-> FALSE, pos |-> last + 1]]
  <2>1. PICK last \in {0} \cup {box[j].pos : j \in Inputs} :
             box' = [box EXCEPT ![i] = [status |-> status, paused |-> FALSE, pos |-> last + 1]]
    BY <1>2
  <2>2. last \in Nat
    BY DEF TypeOK, Row
  <2>. QED BY <2>1, <2>2 DEF TypeOK, Row, Statuses, Editable
<1>. QED BY <1>1, <1>2 DEF CreateOrGet

LEMMA SpendType ==
  ASSUME TypeOK, NEW k \in Kinds, Spend(k)
  PROVE  budget' \in [Kinds -> Nat]
BY DEF TypeOK, Spend

\* Whatever a drain does, the box, the tasks and the history stay well typed.
LEMMA DrainType ==
  ASSUME TypeOK, NEW tk \in [Tasks -> Task], Drain(tk)
  PROVE  /\ box' \in [Inputs -> Row]
         /\ run' \in Tasks \cup {NoTask}
         /\ task' \in [Tasks -> Task]
         /\ given' \in [Inputs -> Nat]
<1>1. CASE DrainRefused(tk)
  BY <1>1 DEF DrainRefused, TypeOK
<1>2. ASSUME NEW E \in SUBSET Expirable, DrainEmpty(tk, E)
      PROVE  /\ box' \in [Inputs -> Row] /\ run' \in Tasks \cup {NoTask}
             /\ task' \in [Tasks -> Task] /\ given' \in [Inputs -> Nat]
  BY <1>2, BoxType DEF DrainEmpty, TypeOK
<1>3. ASSUME NEW E \in SUBSET Expirable, NEW i \in Inputs, DrainOne(tk, E, i)
      PROVE  /\ box' \in [Inputs -> Row] /\ run' \in Tasks \cup {NoTask}
             /\ task' \in [Tasks -> Task] /\ given' \in [Inputs -> Nat]
  <2>1. task' \in [Tasks -> Task] /\ run' \in Tasks \cup {NoTask}
    BY <1>3, LaunchType DEF DrainOne
  <2>2. Requeue(E) \in [Inputs -> Row]
    BY BoxType
  <2>3. box' \in [Inputs -> Row]
    BY <1>3, <2>2 DEF DrainOne, Row, Statuses
  <2>4. given' \in [Inputs -> Nat]
    BY <1>3 DEF DrainOne, TypeOK
  <2>. QED BY <2>1, <2>3, <2>4
<1>. QED BY <1>1, <1>2, <1>3 DEF Drain

LEMMA RecoverType ==
  ASSUME TypeOK, Recover
  PROVE  /\ session' \in Session
         /\ box' \in [Inputs -> Row]
BY BoxType DEF Recover, TypeOK, Session, Approvals, RowStatus, store

-----------------------------------------------------------------------------
(* Type correctness.                                                       *)

\* Requests of the user keep the state well typed.
LEMMA UserType ==
  ASSUME TypeOK, User
  PROVE  TypeOK'
<1>1. ASSUME NEW i \in Inputs, NEW m \in Modes, SubmitInput(i, m)
      PROVE  TypeOK'
  <2>1. ASSUME NEW force \in BOOLEAN, SubmitPending(i, m, force)
        PROVE  TypeOK'
    <3>1. box' \in [Inputs -> Row]
      BY <2>1, CreateType DEF SubmitPending, SubmittedStatus, Editable
    <3>2. budget' \in [Kinds -> Nat]
      BY <2>1, SpendType DEF SubmitPending, Attempt, Kinds, TypeOK
    <3>3. drains' \in Nat
      BY <2>1 DEF SubmitPending, TypeOK
    <3>4. sent' \subseteq Inputs
      BY <2>1 DEF SubmitPending, Attempt, TypeOK
    <3>. QED BY <2>1, <3>1, <3>2, <3>3, <3>4 DEF SubmitPending, TypeOK
  <2>2. CASE SubmitDirect(i, m)
    <3>1. task' \in [Tasks -> Task] /\ run' \in Tasks \cup {NoTask}
      BY <2>2, LaunchType DEF SubmitDirect, TypeOK
    <3>2. budget' \in [Kinds -> Nat]
      BY <2>2, SpendType DEF SubmitDirect, Attempt, Kinds, TypeOK
    <3>3. sent' \subseteq Inputs
      BY <2>2 DEF SubmitDirect, Attempt, TypeOK
    <3>. QED BY <2>2, <3>1, <3>2, <3>3 DEF SubmitDirect, TypeOK
  <2>. QED BY <1>1, <2>1, <2>2 DEF SubmitInput
<1>2. ASSUME Edit, box' \in [Inputs -> Row]
      PROVE  TypeOK'
  BY <1>2, SpendType DEF Edit, TypeOK, Kinds
<1>3. ASSUME NEW i \in Inputs, NEW s \in Editable, UpdatePendingInput(i, s)
      PROVE  TypeOK'
  <2>1. box' \in [Inputs -> Row]
    BY <1>3 DEF UpdatePendingInput, TypeOK, Row, Statuses
  <2>. QED BY <1>2, <1>3, <2>1 DEF UpdatePendingInput
<1>4. ASSUME NEW i \in Inputs, CancelPendingInput(i)
      PROVE  TypeOK'
  <2>1. box' \in [Inputs -> Row]
    BY <1>4 DEF CancelPendingInput, TypeOK, Row, Statuses
  <2>. QED BY <1>2, <1>4, <2>1 DEF CancelPendingInput
<1>5. ASSUME NEW S \in SUBSET Inputs, NEW f \in [S -> S], ReorderPendingInputs(S, f)
      PROVE  TypeOK'
  <2>a. \A i \in S : i \in Inputs /\ f[i] \in Inputs
    OBVIOUS
  <2>b. \A i \in S : box[f[i]].pos \in Nat
    BY <2>a DEF TypeOK, Row
  <2>c. \A i \in S : [box[i] EXCEPT !.pos = box[f[i]].pos] \in Row
    BY <2>a, <2>b DEF TypeOK, Row
  <2>1. box' \in [Inputs -> Row]
    BY <1>5, <2>c DEF ReorderPendingInputs, TypeOK
  <2>. QED BY <1>2, <1>5, <2>1 DEF ReorderPendingInputs
<1>6. ASSUME NEW S \in SUBSET Inputs, NEW s \in Editable, Resume(S, s)
      PROVE  TypeOK'
  <2>1. Unpause(S) \in [Inputs -> Row]
    BY BoxType
  <2>2. box' \in [Inputs -> Row]
    BY <1>6, <2>1 DEF Resume, Row, Statuses, Editable
  <2>3. drains' \in Nat
    BY <1>6 DEF Resume, TypeOK
  <2>. QED BY <1>6, <2>2, <2>3 DEF Resume, TypeOK
<1>7. CASE Cancel
  <2>1. budget' \in [Kinds -> Nat]
    BY <1>7, SpendType DEF Cancel, Kinds
  <2>2. CASE /\ Live /\ box' = PauseActive /\ UNCHANGED session
             /\ task' = [task EXCEPT ![run].stop = TRUE]
    <3>1. run \in Tasks
      BY <2>2 DEF Live, TypeOK
    <3>2. task' \in [Tasks -> Task]
      BY <2>2, <3>1, TaskType
    <3>. QED BY <1>7, <2>1, <2>2, <3>2, BoxType DEF Cancel, TypeOK
  <2>3. CASE ~Live /\ Recover /\ UNCHANGED task
    BY <1>7, <2>1, <2>3, RecoverType DEF Cancel, TypeOK
  <2>. QED BY <1>7, <2>2, <2>3 DEF Cancel
<1>8. CASE ContinueThreadTask
  <2>1. task' \in [Tasks -> Task] /\ run' \in Tasks \cup {NoTask}
    BY <1>8, LaunchType DEF ContinueThreadTask, TypeOK
  <2>2. budget' \in [Kinds -> Nat]
    BY <1>8, SpendType DEF ContinueThreadTask, Kinds
  <2>. QED BY <1>8, <2>1, <2>2 DEF ContinueThreadTask, TypeOK
<1>9. CASE AnswerInteraction \/ DecideOrphan
  <2>1. session' \in Session
    BY <1>9 DEF AnswerInteraction, DecideOrphan, TypeOK, Session, RowStatus, Approvals
  <2>. QED BY <1>9, <2>1 DEF AnswerInteraction, DecideOrphan, TypeOK
<1>. QED BY <1>1, <1>3, <1>4, <1>5, <1>6, <1>7, <1>8, <1>9 DEF User

LEMMA HandlersType ==
  ASSUME TypeOK, Handlers
  PROVE  TypeOK'
<1>1. CASE DrainHandler
  <2>1. task \in [Tasks -> Task] /\ Drain(task)
    BY <1>1 DEF DrainHandler, TypeOK
  <2>2. drains' \in Nat
    BY <1>1 DEF DrainHandler, TypeOK
  <2>. QED BY <1>1, <2>1, <2>2, DrainType DEF DrainHandler, TypeOK
<1>2. CASE StartResume
  <2>1. task' \in [Tasks -> Task] /\ run' \in Tasks \cup {NoTask} /\ stray' \in BOOLEAN
    BY <1>2, LaunchType DEF StartResume, TypeOK
  <2>2. session' \in Session
    BY <1>2 DEF StartResume, TypeOK, Session, RowStatus
  <2>. QED BY <1>2, <2>1, <2>2 DEF StartResume, TypeOK
<1>3. CASE ResumeRefused
  BY <1>3 DEF ResumeRefused, TypeOK
<1>. QED BY <1>1, <1>2, <1>3 DEF Handlers

\* A session row with another status is still one.
LEMMA RowType ==
  ASSUME TypeOK
  PROVE  \A s \in RowStatus : /\ [session EXCEPT !.status = s] \in Session
                              /\ \A t \in Tasks, p \in Phases :
                                   Leave(t, p, s) => session' \in Session
BY DEF TypeOK, Session, Leave, Approvals

LEMMA TurnType ==
  ASSUME TypeOK, NEW t \in Tasks, Turn(t)
  PROVE  TypeOK'
<1>. USE DEF At, Become, SetRow, TurnStep
<1>a. \A p \in Phases : [task EXCEPT ![t].phase = p] \in [Tasks -> Task]
  BY TaskType
<1>b. ASSUME NEW p \in Phases, NEW s \in RowStatus, Leave(t, p, s)
      PROVE  task' \in [Tasks -> Task] /\ session' \in Session
  <2>1. task' = [task EXCEPT ![t].phase = p, ![t].approval = "none"]
    BY <1>b DEF Leave
  <2>2. session' \in Session
    BY <1>b, RowType
  <2>. QED BY <2>1, <2>2, TaskType
<1>c. session.status \in RowStatus
  BY DEF TypeOK, Session
<1>1. CASE BeginTurn(t)
  <2>1. session' \in Session /\ stray' \in BOOLEAN
    BY <1>1 DEF BeginTurn, TypeOK, Session, RowStatus, Approvals
  <2>. QED BY <1>1, <2>1, <1>a DEF BeginTurn, TypeOK, Phases
<1>2. CASE AbortTurn(t)
  BY <1>2, <1>a DEF AbortTurn, TypeOK, Phases
<1>3. ASSUME NEW S \in SUBSET Inputs, ClaimSteers(t, S)
      PROVE  TypeOK'
  <2>1. box' \in [Inputs -> Row]
    BY <1>3 DEF ClaimSteers, TypeOK, Row, Statuses
  <2>2. given' \in [Inputs -> Nat]
    BY <1>3 DEF ClaimSteers, TypeOK
  <2>. QED BY <1>3, <2>1, <2>2 DEF ClaimSteers, TypeOK
<1>4. CASE RequestApproval(t) \/ DecideApproval(t) \/ ApprovalSeen(t)
  <2>1. PICK a \in Approvals : Approve(t, a)
    BY <1>4 DEF RequestApproval, DecideApproval, ApprovalSeen, Approvals
  <2>2. session' \in Session
    BY <2>1, RowType DEF Approve, RowStatus
  <2>. QED BY <2>1, <2>2, TaskType DEF Approve, TypeOK
<1>5. CASE AskUser(t)
  <2>1. budget' \in [Kinds -> Nat]
    BY <1>5, SpendType DEF AskUser, Kinds
  <2>2. session' \in Session
    BY <1>5 DEF AskUser, TypeOK, Session, RowStatus
  <2>. QED BY <1>5, <2>1, <2>2 DEF AskUser, TypeOK
<1>6. CASE CompleteTurn(t)
  BY <1>6, <1>b DEF CompleteTurn, TypeOK, RowStatus, Phases
<1>7. CASE SuspendTurn(t)
  BY <1>7, <1>b DEF SuspendTurn, TypeOK, RowStatus, Phases
<1>8. CASE CancelTurn(t)
  <2>1. CASE /\ task' = [task EXCEPT ![t].phase = "done", ![t].approval = "none"]
             /\ session' = [session EXCEPT !.status = "active", !.orphan = "none"]
             /\ UNCHANGED stray
    <3>1. session' \in Session
      BY <2>1 DEF TypeOK, Session, RowStatus, Approvals
    <3>2. task' \in [Tasks -> Task]
      BY <2>1, TaskType DEF Phases
    <3>. QED BY <1>8, <2>1, <3>1, <3>2 DEF CancelTurn, TypeOK
  <2>2. CASE Leave(t, "done", "active") /\ UNCHANGED stray
    BY <1>8, <2>2, <1>b DEF CancelTurn, TypeOK, RowStatus, Phases
  <2>3. CASE Leave(t, "done", session.status) /\ stray' = TRUE
    BY <1>8, <2>3, <1>b, <1>c DEF CancelTurn, TypeOK, Phases
  <2>. QED BY <1>8, <2>1, <2>2, <2>3 DEF CancelTurn
<1>9. CASE FailTurn(t)
  <2>1. CASE Leave(t, "failing", "failed") /\ UNCHANGED stray
    BY <1>9, <2>1, <1>b DEF FailTurn, TypeOK, RowStatus, Phases
  <2>2. CASE Leave(t, "done", session.status) /\ stray' = TRUE
    BY <1>9, <2>2, <1>b, <1>c DEF FailTurn, TypeOK, Phases
  <2>. QED BY <1>9, <2>1, <2>2 DEF FailTurn
<1>10. CASE FailurePublished(t)
  BY <1>10, <1>a DEF FailurePublished, TypeOK, Phases
<1>. QED BY <1>1, <1>2, <1>3, <1>4, <1>5, <1>6, <1>7, <1>8, <1>9, <1>10 DEF Turn, EndTurn

LEMMA FinishType ==
  ASSUME TypeOK, NEW t \in Tasks, Finish(t)
  PROVE  TypeOK'
<1>a. \A p \in Phases : [task EXCEPT ![t].phase = p] \in [Tasks -> Task]
  BY TaskType
<1>b. Release(t) \in [Tasks -> Task]
  BY TaskType
<1>1. CASE PopRun(t)
  BY <1>1, <1>a, <1>b DEF PopRun, FinishStep, Become, TypeOK, Phases
<1>2. CASE AfterCallbacks(t)
  <2>1. box' \in [Inputs -> Row]
    BY <1>2 DEF AfterCallbacks, TypeOK, Row, Statuses, Editable
  <2>2. task' \in [Tasks -> Task]
    BY <1>2, <1>a, <1>b DEF AfterCallbacks, Become, Phases
  <2>. QED BY <1>2, <2>1, <2>2 DEF AfterCallbacks, FinishStep, TypeOK
<1>3. CASE DrainAfterRun(t)
  BY <1>3, <1>b, DrainType DEF DrainAfterRun, FinishStep, TypeOK
<1>. QED BY <1>1, <1>2, <1>3 DEF Finish

\* A crash inside a drain leaves one claimed row that was queued and not held.
LEMMA ClaimCrash ==
  ASSUME CrashInDrain
  PROVE  \E i \in Inputs : /\ box[i].status = "queued" /\ ~box[i].paused
                           /\ box' = [box EXCEPT ![i].status = "starting"]
BY DEF CrashInDrain, FirstOf, Waiting

LEMMA ProcessType ==
  ASSUME TypeOK, Process
  PROVE  TypeOK'
<1>a. ASSUME LoseMemory, box' \in [Inputs -> Row], budget' \in [Kinds -> Nat]
      PROVE  TypeOK'
  <2>1. task' \in [Tasks -> Task] /\ run' \in Tasks \cup {NoTask} /\ drains' \in Nat
    BY <1>a DEF LoseMemory, FreeTask, NewTask, Task, Phases, Approvals
  <2>2. up' \in BOOLEAN /\ answering' \in BOOLEAN
    BY <1>a DEF LoseMemory
  <2>3. UNCHANGED <<sent, given, stray>> /\ session' \in Session
    BY <1>a DEF LoseMemory, TypeOK, Session, Approvals
  <2>. QED BY <1>a, <2>1, <2>2, <2>3 DEF TypeOK
<1>1. CASE Crash
  <2>1. LoseMemory /\ UNCHANGED box /\ Spend("crash")
    BY <1>1 DEF Crash
  <2>2. box' \in [Inputs -> Row] /\ budget' \in [Kinds -> Nat]
    BY <2>1, SpendType DEF Kinds, TypeOK
  <2>. QED BY <1>a, <2>1, <2>2
<1>2. CASE CrashInDrain
  <2>1. LoseMemory /\ Spend("crash")
    BY <1>2 DEF CrashInDrain
  <2>2. box' \in [Inputs -> Row]
    <3>1. PICK i \in Inputs : box' = [box EXCEPT ![i].status = "starting"]
      BY <1>2, ClaimCrash
    <3>. QED BY <3>1 DEF TypeOK, Row, Statuses
  <2>3. budget' \in [Kinds -> Nat]
    BY <2>1, SpendType DEF Kinds
  <2>. QED BY <1>a, <2>1, <2>2, <2>3
<1>3. CASE Restart
  BY <1>3, RecoverType DEF Restart, TypeOK
<1>. QED BY <1>1, <1>2, <1>3 DEF Process

\* Every reachable state of the scheduler is well typed: no row gets a status the table
\* does not have, no counter goes below zero, _runs never names a task that is not one.
THEOREM TypeCorrect == Spec => []TypeOK
<1>1. Init => TypeOK
  <2>1. FreeTask \in Task /\ NoRow \in Row
    BY DEF FreeTask, NewTask, Task, Phases, Approvals, NoRow, Row, Statuses
  <2>2. [status |-> "active", asking |-> FALSE, orphan |-> "none"] \in Session
    BY DEF Session, RowStatus, Approvals
  <2>3. Init => budget \in [Kinds -> Nat]
    BY BudgetAssumption DEF Init
  <2>4. Init => up \in BOOLEAN /\ answering \in BOOLEAN /\ stray \in BOOLEAN
    BY DEF Init
  <2>5. Init => /\ box \in [Inputs -> Row]
                /\ task \in [Tasks -> Task]
                /\ given \in [Inputs -> Nat]
    BY <2>1 DEF Init
  <2>6. Init => run \in Tasks \cup {NoTask} /\ drains \in Nat /\ sent \subseteq Inputs
    BY DEF Init
  <2>7. Init => session \in Session
    BY <2>2 DEF Init
  <2>. QED BY <2>3, <2>4, <2>5, <2>6, <2>7 DEF TypeOK
<1>2. TypeOK /\ [Next]_vars => TypeOK'
  <2>. SUFFICES ASSUME TypeOK, [Next]_vars
                PROVE  TypeOK'
    OBVIOUS
  <2>1. CASE UNCHANGED vars
    BY <2>1 DEF TypeOK, vars
  <2>2. CASE Next
    BY <2>2, UserType, HandlersType, ProcessType, TurnType, FinishType DEF Next
  <2>. QED BY <2>1, <2>2
<1>. QED BY <1>1, <1>2, PTL DEF Spec

-----------------------------------------------------------------------------
(* What the steps of a turn do to the task table.                          *)

\* Task t goes to phase p; no other task moves.
Passes(t, p) == /\ task'[t].phase = p /\ task'[t].kind = task[t].kind
                /\ \A u \in Tasks \ {t} : task'[u] = task[u]

Approval(t) == RequestApproval(t) \/ DecideApproval(t) \/ ApprovalSeen(t)

LEMMA BecomePasses ==
  ASSUME TypeOK, NEW t \in Tasks, NEW p, Become(t, p)
  PROVE  Passes(t, p)
BY DEF Become, Passes, TypeOK, Task

LEMMA EndPasses ==
  ASSUME TypeOK, NEW t \in Tasks, EndTurn(t)
  PROVE  /\ Passes(t, "done") \/ Passes(t, "failing")
         /\ UNCHANGED <<up, run, box, given>>
         /\ task[t].phase = "turn"
<1>1. ASSUME NEW p, task' = [task EXCEPT ![t].phase = p, ![t].approval = "none"]
      PROVE  Passes(t, p)
  BY <1>1 DEF Passes, TypeOK, Task
<1>2. \/ task' = [task EXCEPT ![t].phase = "done", ![t].approval = "none"]
      \/ task' = [task EXCEPT ![t].phase = "failing", ![t].approval = "none"]
  BY DEF EndTurn, CompleteTurn, SuspendTurn, CancelTurn, FailTurn, Leave
<1>3. UNCHANGED <<up, run, box, given>> /\ task[t].phase = "turn"
  BY DEF EndTurn, CompleteTurn, SuspendTurn, CancelTurn, FailTurn, TurnStep, At
<1>. QED BY <1>1, <1>2, <1>3

LEMMA ApprovalStays ==
  ASSUME TypeOK, NEW t \in Tasks, Approval(t)
  PROVE  /\ \A u \in Tasks : task'[u].phase = task[u].phase /\ task'[u].kind = task[u].kind
         /\ UNCHANGED <<up, run, box, given, stray>>
         /\ task[t].phase = "turn"
<1>1. PICK a : Approve(t, a)
  BY DEF Approval, RequestApproval, DecideApproval, ApprovalSeen
<1>2. \A u \in Tasks : task'[u].phase = task[u].phase /\ task'[u].kind = task[u].kind
  BY <1>1 DEF Approve, TypeOK, Task
<1>3. task[t].phase = "turn"
  BY DEF Approval, RequestApproval, DecideApproval, ApprovalSeen, At
<1>. QED BY <1>1, <1>2, <1>3 DEF Approve, TurnStep

-----------------------------------------------------------------------------
(* One live task.                                                          *)

\* The session has no unfinished task when _runs shows none.
LEMMA IdleTasks ==
  ASSUME TypeOK, OneLiveTask, ~Live
  PROVE  \A t \in Tasks : ~Unfinished(t)
BY SlotAssumption DEF OneLiveTask, Live

\* A start into an idle table makes the new task the only unfinished one.
LEMMA LaunchAlone ==
  ASSUME NEW tk \in [Tasks -> Task], NEW i, NEW kind, Launch(tk, i, kind),
         \A t \in Tasks : tk[t].phase \notin {"created", "turn", "failing"}
  PROVE  OneLiveTask'
BY DEF Launch, NewTask, OneLiveTask, Unfinished

\* A step that starts nothing and leaves _runs alone keeps the property.
LEMMA NothingStarted ==
  ASSUME OneLiveTask, UNCHANGED run, \A t \in Tasks : Unfinished(t)' => Unfinished(t)
  PROVE  OneLiveTask'
BY DEF OneLiveTask

LEMMA DrainAlone ==
  ASSUME TypeOK, OneLiveTask, NEW tk \in [Tasks -> Task], Drain(tk),
         \A t \in Tasks : tk[t].phase \in {"created", "turn", "failing"} => Unfinished(t)
  PROVE  OneLiveTask'
<1>1. CASE UNCHANGED run /\ task' = tk
  BY <1>1, NothingStarted DEF Unfinished
<1>2. ASSUME NEW i \in Inputs, ~Live, Launch(tk, i, "chat")
      PROVE  OneLiveTask'
  BY <1>2, IdleTasks, LaunchAlone
<1>. QED BY <1>1, <1>2 DEF Drain, DrainRefused, DrainEmpty, DrainOne

LEMMA ReleaseFinishes ==
  ASSUME TypeOK, NEW t \in Tasks
  PROVE  /\ Release(t) \in [Tasks -> Task]
         /\ \A u \in Tasks : Release(t)[u].phase \in {"created", "turn", "failing"}
                             => Unfinished(u)
BY TaskType DEF TypeOK, Release, FreeTask, NewTask, Unfinished

\* A change of phase makes a task unfinished only if it was.
LEMMA PassAlone ==
  ASSUME TypeOK, OneLiveTask, NEW t \in Tasks, NEW p, Passes(t, p), UNCHANGED run,
         p \in {"turn", "failing"} => Unfinished(t), p # "created"
  PROVE  OneLiveTask'
<1>1. ASSUME NEW u \in Tasks, Unfinished(u)'
      PROVE  Unfinished(u)
  BY <1>1 DEF Passes, Unfinished
<1>. QED BY <1>1, NothingStarted

\* A turn never starts beside a running one, and the cleanup of an older task never
\* unregisters its successor: at most one task is unfinished, and _runs names it.
THEOREM OneLive == Spec => []OneLiveTask
<1>1. Init => OneLiveTask
  BY DEF Init, OneLiveTask, Unfinished, FreeTask, NewTask
<1>2. TypeOK /\ OneLiveTask /\ [Next]_vars => OneLiveTask'
  <2>. SUFFICES ASSUME TypeOK, OneLiveTask, [Next]_vars
                PROVE  OneLiveTask'
    OBVIOUS
  <2>0. ASSUME UNCHANGED <<run, task>>
        PROVE  OneLiveTask'
    BY <2>0 DEF OneLiveTask, Unfinished
  <2>1. ASSUME NEW i, NEW kind, ~Live, Launch(task, i, kind)
        PROVE  OneLiveTask'
    BY <2>1, IdleTasks, LaunchAlone DEF TypeOK, Unfinished
  <2>2. CASE UNCHANGED vars
    BY <2>2, <2>0 DEF vars
  <2>3. CASE User
    <3>1. ASSUME NEW i \in Inputs, NEW m \in Modes, SubmitInput(i, m)
          PROVE  OneLiveTask'
      BY <3>1, <2>0, <2>1 DEF SubmitInput, SubmitPending, SubmitDirect
    <3>2. CASE Cancel
      <4>1. CASE Live /\ task' = [task EXCEPT ![run].stop = TRUE]
        <5>1. \A t \in Tasks : Unfinished(t)' => Unfinished(t)
          BY <4>1 DEF TypeOK, Live, Unfinished
        <5>. QED BY <3>2, <5>1, NothingStarted DEF Cancel
      <4>2. CASE UNCHANGED task
        BY <3>2, <4>2, <2>0 DEF Cancel
      <4>. QED BY <3>2, <4>1, <4>2 DEF Cancel
    <3>3. CASE ContinueThreadTask
      BY <3>3, <2>1 DEF ContinueThreadTask
    <3>. QED BY <2>3, <2>0, <3>1, <3>2, <3>3
             DEF User, UpdatePendingInput, CancelPendingInput, ReorderPendingInputs, Edit,
                 Resume, AnswerInteraction, DecideOrphan
  <2>4. CASE Handlers
    <3>1. CASE DrainHandler
      BY <3>1, DrainAlone DEF DrainHandler, TypeOK, Unfinished
    <3>2. CASE StartResume
      BY <3>2, <2>0, <2>1 DEF StartResume
    <3>3. CASE ResumeRefused
      BY <3>3, <2>0 DEF ResumeRefused
    <3>. QED BY <2>4, <3>1, <3>2, <3>3 DEF Handlers
  <2>5. ASSUME NEW t \in Tasks, Turn(t)
        PROVE  OneLiveTask'
    <3>1. CASE BeginTurn(t)
      BY <3>1, BecomePasses, PassAlone DEF BeginTurn, TurnStep, At, Unfinished
    <3>2. CASE AbortTurn(t)
      BY <3>2, BecomePasses, PassAlone DEF AbortTurn, TurnStep
    <3>3. CASE EndTurn(t)
      BY <3>3, EndPasses, PassAlone DEF Unfinished
    <3>4. CASE FailurePublished(t)
      BY <3>4, BecomePasses, PassAlone DEF FailurePublished, TurnStep
    <3>5. CASE Approval(t)
      BY <3>5, ApprovalStays, NothingStarted DEF Unfinished
    <3>. QED BY <2>5, <2>0, <3>1, <3>2, <3>3, <3>4, <3>5
             DEF Turn, Approval, ClaimSteers, AskUser, TurnStep
  <2>6. ASSUME NEW t \in Tasks, Finish(t)
        PROVE  OneLiveTask'
    <3>1. CASE PopRun(t)
      <4>1. CASE run = t /\ run' = NoTask /\ Become(t, "notify")
        <5>1. \A u \in Tasks : ~Unfinished(u)
          BY <3>1, <4>1 DEF OneLiveTask, PopRun, At, Unfinished
        <5>2. \A u \in Tasks : ~Unfinished(u)'
          BY <4>1, <5>1 DEF Become, TypeOK, Unfinished
        <5>. QED BY <5>2 DEF OneLiveTask
      <4>2. CASE UNCHANGED run /\ task' = Release(t)
        BY <4>2, ReleaseFinishes, NothingStarted DEF Unfinished
      <4>. QED BY <3>1, <4>1, <4>2 DEF PopRun
    <3>2. CASE AfterCallbacks(t)
      <4>1. CASE task' = Release(t)
        BY <3>2, <4>1, ReleaseFinishes, NothingStarted DEF AfterCallbacks, Unfinished
      <4>2. CASE Become(t, "drain")
        BY <3>2, <4>2, BecomePasses, PassAlone DEF AfterCallbacks
      <4>. QED BY <3>2, <4>1, <4>2 DEF AfterCallbacks
    <3>3. CASE DrainAfterRun(t)
      BY <3>3, ReleaseFinishes, DrainAlone DEF DrainAfterRun
    <3>. QED BY <2>6, <3>1, <3>2, <3>3 DEF Finish
  <2>7. CASE Process
    <3>1. CASE LoseMemory
      BY <3>1 DEF LoseMemory, OneLiveTask, Unfinished, FreeTask, NewTask
    <3>. QED BY <2>7, <2>0, <3>1 DEF Process, Crash, CrashInDrain, Restart
  <2>. QED BY <2>2, <2>3, <2>4, <2>5, <2>6, <2>7 DEF Next
<1>. QED BY <1>1, <1>2, TypeCorrect, PTL DEF Spec

-----------------------------------------------------------------------------
(* Exactly one delivery, and none while on hold.                           *)

\* GivenOnce is inductive.  HeldInputStays also needs to know that only a row that can
\* still be edited, or was withdrawn, is ever paused.
HeldRows ==
  \A i \in Inputs : box[i].paused => box[i].status \in Editable \cup {"cancelled"}

BoxInv == GivenOnce /\ HeldRows

HeldStep ==
  \A i \in Inputs : box[i].paused => box'[i].status \notin {"starting", "delivered"}

BoxStep == BoxInv' /\ HeldStep

LEMMA NoDelivery ==
  ASSUME TypeOK, BoxInv, UNCHANGED given, box' \in [Inputs -> Row],
         \A i \in Inputs :
            \/ box'[i] = box[i]
            \/ /\ box[i].status # "delivered"
               /\ box'[i].status \in Editable \cup {"cancelled"}
  PROVE  BoxStep
BY DEF TypeOK, BoxInv, GivenOnce, HeldRows, BoxStep, HeldStep, Editable

LEMMA SameBox ==
  ASSUME TypeOK, BoxInv, UNCHANGED <<box, given>>
  PROVE  BoxStep
BY DEF BoxInv, GivenOnce, HeldRows, BoxStep, HeldStep, Editable

LEMMA RequeueRows ==
  ASSUME TypeOK, BoxInv, NEW E \in SUBSET Expirable
  PROVE  /\ Requeue(E) \in [Inputs -> Row]
         /\ \A i \in Inputs :
              \/ Requeue(E)[i] = box[i]
              \/ /\ box[i].status # "delivered" /\ ~box[i].paused
                 /\ Requeue(E)[i].status = "queued" /\ ~Requeue(E)[i].paused
BY BoxType DEF TypeOK, BoxInv, HeldRows, Expirable, Requeue, Row, Editable

LEMMA DrainBox ==
  ASSUME TypeOK, BoxInv, NEW tk, Drain(tk)
  PROVE  BoxStep
<1>1. CASE DrainRefused(tk)
  BY <1>1, SameBox DEF DrainRefused
<1>2. ASSUME NEW E \in SUBSET Expirable, DrainEmpty(tk, E)
      PROVE  BoxStep
  BY <1>2, RequeueRows, NoDelivery DEF DrainEmpty, Editable
<1>3. ASSUME NEW E \in SUBSET Expirable, NEW i \in Inputs, DrainOne(tk, E, i)
      PROVE  BoxStep
  <2>1. Requeue(E)[i].status = "queued" /\ ~Requeue(E)[i].paused
    BY <1>3 DEF DrainOne, FirstOf, Waiting
  <2>2. Requeue(E) \in [Inputs -> Row]
    BY RequeueRows
  <2>3. box[i].status # "delivered" /\ ~box[i].paused /\ given[i] = 0
    BY <2>1, RequeueRows DEF BoxInv, GivenOnce
  <2>4. box'[i].status = "delivered" /\ ~box'[i].paused /\ given'[i] = 1
    BY <1>3, <2>1, <2>2, <2>3 DEF DrainOne, TypeOK, Row
  <2>5. \A j \in Inputs \ {i} : box'[j] = Requeue(E)[j] /\ given'[j] = given[j]
    BY <1>3, <2>2 DEF DrainOne, TypeOK
  <2>. QED BY <2>3, <2>4, <2>5, RequeueRows
           DEF BoxStep, BoxInv, GivenOnce, HeldRows, HeldStep, Editable
<1>. QED BY <1>1, <1>2, <1>3 DEF Drain

LEMMA PauseRows ==
  ASSUME TypeOK
  PROVE  \A i \in Inputs :
           \/ PauseActive[i] = box[i]
           \/ box[i].status \in Editable /\ PauseActive[i].status = box[i].status
BY DEF TypeOK, PauseActive, Row

LEMMA BoxNext ==
  ASSUME TypeOK, TypeOK', BoxInv, [Next]_vars
  PROVE  BoxStep
<1>0. box' \in [Inputs -> Row]
  BY DEF TypeOK
<1>a. ASSUME Recover, UNCHANGED given
      PROVE  BoxStep
  BY <1>a, <1>0, PauseRows, NoDelivery, SameBox DEF Recover, store, Editable
<1>1. CASE UNCHANGED vars
  BY <1>1, SameBox DEF vars
<1>2. CASE User
  <2>1. ASSUME NEW i \in Inputs, NEW m \in Modes, SubmitInput(i, m)
        PROVE  BoxStep
    <3>1. CASE UNCHANGED box
      BY <2>1, <3>1, SameBox DEF SubmitInput, SubmitPending, SubmitDirect
    <3>2. ASSUME NEW status \in Editable, CreateOrGet(i, status), UNCHANGED given
          PROVE  BoxStep
      <4>1. \/ UNCHANGED box
            \/ /\ box[i].status = "none" /\ box'[i].status = status
               /\ \A j \in Inputs \ {i} : box'[j] = box[j]
        BY <3>2 DEF CreateOrGet, TypeOK
      <4>. QED BY <1>0, <3>2, <4>1, NoDelivery, SameBox
    <3>. QED BY <2>1, <3>1, <3>2
             DEF SubmitInput, SubmitPending, SubmitDirect, SubmittedStatus, Editable
  <2>2. ASSUME NEW i \in Inputs, NEW s \in Editable, UpdatePendingInput(i, s)
        PROVE  BoxStep
    BY <1>0, <2>2, NoDelivery DEF UpdatePendingInput, Edit, TypeOK, Row, Editable
  <2>3. ASSUME NEW i \in Inputs, CancelPendingInput(i)
        PROVE  BoxStep
    BY <1>0, <2>3, NoDelivery DEF CancelPendingInput, Edit, TypeOK, Row, Editable
  <2>4. ASSUME NEW S \in SUBSET Inputs, NEW f \in [S -> S], ReorderPendingInputs(S, f)
        PROVE  BoxStep
    BY <1>0, <2>4, NoDelivery DEF ReorderPendingInputs, Edit, TypeOK, Row, Editable
  <2>5. ASSUME NEW S \in SUBSET Inputs, NEW s \in Editable, Resume(S, s)
        PROVE  BoxStep
    <3>1. \A i \in S : box[i].status = s
      BY <2>5 DEF Resume, Selection, PausedIn
    <3>2. \A i \in Inputs : \/ Unpause(S)[i] = box[i]
                            \/ i \in S /\ Unpause(S)[i].status = box[i].status
      BY DEF Unpause, TypeOK, Row
    <3>3. \A i \in Inputs : \/ box'[i] = box[i]
                            \/ i \in S /\ box'[i].status \in {s, "queued"}
      BY <2>5, <3>1, <3>2, BoxType DEF Resume, FirstOf, Row
    <3>. QED BY <1>0, <2>5, <3>1, <3>3, NoDelivery DEF Resume, Editable
  <2>6. CASE Cancel
    BY <1>0, <1>a, <2>6, PauseRows, NoDelivery DEF Cancel, Editable
  <2>7. CASE ContinueThreadTask \/ AnswerInteraction \/ DecideOrphan
    BY <2>7, SameBox DEF ContinueThreadTask, AnswerInteraction, DecideOrphan
  <2>. QED BY <1>2, <2>1, <2>2, <2>3, <2>4, <2>5, <2>6, <2>7 DEF User
<1>3. CASE Handlers
  BY <1>3, DrainBox, SameBox DEF Handlers, DrainHandler, StartResume, ResumeRefused
<1>4. ASSUME NEW t \in Tasks, Turn(t)
      PROVE  BoxStep
  <2>1. ASSUME NEW S \in SUBSET Inputs, ClaimSteers(t, S)
        PROVE  BoxStep
    <3>1. \A i \in S : box[i].status = "pending_steer" /\ ~box[i].paused
      BY <2>1 DEF ClaimSteers, SteerBatch, Waiting
    <3>2. \A i \in S : box'[i].status = "delivered" /\ ~box'[i].paused
                       /\ given'[i] = given[i] + 1
      BY <2>1, <3>1 DEF ClaimSteers, TypeOK, Row
    <3>3. \A i \in Inputs \ S : box'[i] = box[i] /\ given'[i] = given[i]
      BY <2>1 DEF ClaimSteers
    <3>. QED BY <3>1, <3>2, <3>3
             DEF BoxStep, BoxInv, GivenOnce, HeldRows, HeldStep, Editable
  <2>2. CASE UNCHANGED <<box, given>>
    BY <2>2, SameBox
  <2>. QED BY <1>4, <2>1, <2>2, EndPasses, ApprovalStays
           DEF Turn, Approval, BeginTurn, AbortTurn, AskUser, FailurePublished
<1>5. ASSUME NEW t \in Tasks, Finish(t)
      PROVE  BoxStep
  <2>1. CASE PopRun(t)
    BY <2>1, SameBox DEF PopRun
  <2>2. CASE AfterCallbacks(t)
    <3>1. \A i \in Inputs : \/ box'[i] = box[i]
                            \/ box[i].status = "pending_steer" /\ box'[i].status = "queued"
      BY <2>2 DEF AfterCallbacks, Waiting, TypeOK, Row
    <3>. QED BY <1>0, <2>2, <3>1, NoDelivery DEF AfterCallbacks, Editable
  <2>3. CASE DrainAfterRun(t)
    BY <2>3, DrainBox DEF DrainAfterRun
  <2>. QED BY <1>5, <2>1, <2>2, <2>3 DEF Finish
<1>6. CASE Process
  <2>1. CASE Crash
    BY <2>1, SameBox DEF Crash, LoseMemory
  <2>2. CASE CrashInDrain
    <3>1. PICK i \in Inputs : /\ box[i].status = "queued" /\ ~box[i].paused
                             /\ box' = [box EXCEPT ![i].status = "starting"]
      BY <2>2, ClaimCrash
    <3>2. box'[i].status = "starting" /\ ~box'[i].paused
      BY <3>1 DEF TypeOK, Row
    <3>3. \A j \in Inputs \ {i} : box'[j] = box[j]
      BY <3>1 DEF TypeOK
    <3>4. UNCHANGED given
      BY <2>2 DEF CrashInDrain, LoseMemory
    <3>. QED BY <3>1, <3>2, <3>3, <3>4
             DEF BoxStep, BoxInv, GivenOnce, HeldRows, HeldStep, Editable
  <2>3. CASE Restart
    BY <2>3, <1>a DEF Restart
  <2>. QED BY <1>6, <2>1, <2>2, <2>3 DEF Process
<1>. QED BY <1>1, <1>2, <1>3, <1>4, <1>5, <1>6 DEF Next

LEMMA BoxInvariant == Spec => []BoxInv
<1>1. Init => BoxInv
  BY DEF Init, BoxInv, GivenOnce, HeldRows, NoRow
<1>2. TypeOK /\ TypeOK' /\ BoxInv /\ [Next]_vars => BoxInv'
  BY BoxNext DEF BoxStep
<1>. QED BY <1>1, <1>2, TypeCorrect, PTL DEF Spec

\* A pending input is handed to a turn exactly once, over crashes, expiring claims, resent
\* and reordered messages.
THEOREM Once == Spec => []GivenOnce
<1>1. BoxInv => GivenOnce
  BY DEF BoxInv
<1>. QED BY <1>1, BoxInvariant, PTL

\* No step starts an input the user's stop has put on hold.
THEOREM Held == Spec => HeldInputStays
<1>1. TypeOK /\ TypeOK' /\ BoxInv /\ [Next]_vars => [HeldStep]_vars
  BY BoxNext DEF BoxStep
<1>2. [][HeldStep]_vars => HeldInputStays
  BY PTL DEF HeldInputStays, HeldStep
<1>. QED BY <1>1, <1>2, TypeCorrect, BoxInvariant, PTL DEF Spec

-----------------------------------------------------------------------------
(* The session row and the task behind it.                                 *)

Active == session.status \in {"running", "waiting_approval"}

\* A chat task that has not begun has not written the row yet: RunningRowHasOwner is not
\* inductive without saying which task may stand behind an active row.
InTurn(t) == \/ task[t].phase = "turn"
             \/ task[t].phase = "created" /\ task[t].kind = "managed"

RowInv == up /\ Active => stray \/ session.orphan = "decided"
                             \/ (run # NoTask /\ InTurn(run))

LEMMA RowKept ==
  ASSUME RowInv, UNCHANGED <<up, stray>>, session'.status = session.status,
         session'.orphan = session.orphan,
         Live => UNCHANGED run /\ (InTurn(run) => InTurn(run)')
  PROVE  RowInv'
BY DEF RowInv, Active, InTurn, Live, Unfinished

LEMMA RowQuiet ==
  ASSUME session'.status \notin {"running", "waiting_approval"}
  PROVE  RowInv'
BY DEF RowInv, Active

LEMMA DrainRow ==
  ASSUME RowInv, NEW tk, Drain(tk), UNCHANGED <<up, stray, session>>,
         Live => tk[run].phase = task[run].phase /\ tk[run].kind = task[run].kind
  PROVE  RowInv'
<1>1. CASE DrainRefused(tk)
  BY <1>1, RowKept DEF DrainRefused, InTurn
<1>2. CASE ~Live
  BY <1>2, RowKept
<1>. QED BY <1>1, <1>2 DEF Drain, DrainEmpty, DrainOne

LEMMA RowNext ==
  ASSUME TypeOK, OneLiveTask, RowInv, [Next]_vars
  PROVE  RowInv'
<1>1. CASE UNCHANGED vars
  BY <1>1, RowKept DEF vars, InTurn
<1>a. ASSUME Recover
      PROVE  session'.status \notin {"running", "waiting_approval"}
  BY <1>a DEF Recover, store, TypeOK, Session
<1>2. CASE User
  <2>1. ASSUME NEW i \in Inputs, NEW m \in Modes, SubmitInput(i, m)
        PROVE  RowInv'
    BY <2>1, RowKept DEF SubmitInput, SubmitPending, SubmitDirect, InTurn
  <2>2. CASE UNCHANGED <<up, session, run, task, stray>>
    BY <2>2, RowKept DEF InTurn
  <2>3. CASE Cancel
    <3>1. CASE Live /\ task' = [task EXCEPT ![run].stop = TRUE] /\ UNCHANGED session
      <4>1. InTurn(run) => InTurn(run)'
        BY <2>3, <3>1 DEF Cancel, Live, InTurn, TypeOK, Task
      <4>. QED BY <2>3, <3>1, <4>1, RowKept DEF Cancel
    <3>2. CASE Recover
      BY <1>a, <3>2, RowQuiet
    <3>. QED BY <2>3, <3>1, <3>2 DEF Cancel
  <2>4. CASE ContinueThreadTask
    BY <2>4, RowKept DEF ContinueThreadTask
  <2>5. CASE AnswerInteraction
    <3>1. session'.status = session.status /\ session'.orphan = session.orphan
      BY <2>5 DEF AnswerInteraction, TypeOK, Session
    <3>. QED BY <2>5, <3>1, RowKept DEF AnswerInteraction, InTurn
  <2>6. CASE DecideOrphan
    <3>1. session'.orphan = "decided"
      BY <2>6 DEF DecideOrphan, TypeOK, Session
    <3>. QED BY <3>1 DEF RowInv
  <2>. QED BY <1>2, <2>1, <2>2, <2>3, <2>4, <2>5, <2>6
           DEF User, UpdatePendingInput, CancelPendingInput, ReorderPendingInputs, Edit, Resume
<1>3. CASE Handlers
  <2>1. CASE DrainHandler
    BY <2>1, DrainRow DEF DrainHandler
  <2>2. CASE StartResume
    <3>1. CASE ~Live /\ Launch(task, NoInput, "managed")
      <4>1. PICK t \in Tasks : run' = t /\ InTurn(t)'
        BY <3>1 DEF Launch, NewTask, InTurn, TypeOK
      <4>. QED BY <4>1, SlotAssumption DEF RowInv, InTurn
    <3>2. CASE stray'
      BY <3>2 DEF RowInv
    <3>. QED BY <2>2, <3>1, <3>2 DEF StartResume
  <2>3. CASE ResumeRefused
    BY <2>3 DEF ResumeRefused, RowInv
  <2>. QED BY <1>3, <2>1, <2>2, <2>3 DEF Handlers
<1>4. ASSUME NEW t \in Tasks, Turn(t)
      PROVE  RowInv'
  <2>a. Unfinished(t) => run = t /\ run # NoTask
    BY SlotAssumption DEF OneLiveTask
  <2>b. ASSUME NEW p, Become(t, p)
        PROVE  task'[t].phase = p /\ task'[t].kind = task[t].kind
    BY <2>b DEF Become, TypeOK, Task
  <2>1. CASE BeginTurn(t)
    <3>1. run' = t /\ run' # NoTask /\ InTurn(t)'
      BY <2>1, <2>a, <2>b DEF BeginTurn, At, TurnStep, Unfinished, InTurn
    <3>. QED BY <3>1 DEF RowInv, InTurn
  <2>2. CASE AbortTurn(t)
    <3>1. CASE task[t].kind = "managed"
      BY <2>2, <3>1 DEF AbortTurn, RowInv
    <3>2. CASE task[t].kind # "managed"
      <4>1. ~InTurn(run)
        BY <2>2, <3>2, <2>a DEF AbortTurn, At, Unfinished, InTurn
      <4>2. UNCHANGED <<up, stray, session, run>>
        BY <2>2, <3>2 DEF AbortTurn, TurnStep, TypeOK
      <4>. QED BY <4>1, <4>2, RowKept
    <3>. QED BY <3>1, <3>2
  <2>3. CASE UNCHANGED <<up, session, run, task, stray>>
    BY <2>3, RowKept DEF InTurn
  <2>4. CASE Approval(t)
    <3>1. run' = t /\ run' # NoTask /\ InTurn(t)'
      BY <2>4, <2>a, ApprovalStays DEF Unfinished, InTurn
    <3>. QED BY <3>1 DEF RowInv, InTurn
  <2>5. CASE AskUser(t)
    BY <2>5, RowQuiet DEF AskUser, TypeOK, Session
  <2>6. ASSUME NEW p, NEW s, Leave(t, p, s), s \notin {"running", "waiting_approval"}
        PROVE  RowInv'
    BY <2>6, RowQuiet DEF Leave, TypeOK, Session
  <2>7. CASE EndTurn(t)
    <3>1. CASE stray'
      BY <3>1 DEF RowInv
    <3>2. CASE session' = [session EXCEPT !.status = "active", !.orphan = "none"]
      BY <3>2, RowQuiet DEF TypeOK, Session
    <3>. QED BY <2>6, <2>7, <3>1, <3>2
             DEF EndTurn, CompleteTurn, SuspendTurn, CancelTurn, FailTurn
  <2>9. CASE FailurePublished(t)
    <3>1. ~InTurn(run)
      BY <2>9, <2>a DEF FailurePublished, At, Unfinished, InTurn
    <3>. QED BY <2>9, <3>1, RowKept DEF FailurePublished, TurnStep
  <2>. QED BY <1>4, <2>1, <2>2, <2>3, <2>4, <2>5, <2>7, <2>9
           DEF Turn, Approval, ClaimSteers, TurnStep
<1>5. ASSUME NEW t \in Tasks, Finish(t)
      PROVE  RowInv'
  <2>1. Live => run # t /\ run \in Tasks
    BY <1>5 DEF Finish, PopRun, AfterCallbacks, DrainAfterRun, At, Live, Unfinished, TypeOK
  <2>2. CASE PopRun(t)
    BY <2>1, <2>2, RowKept DEF PopRun, FinishStep, Become, Release, InTurn, TypeOK
  <2>3. CASE AfterCallbacks(t)
    BY <2>1, <2>3, RowKept DEF AfterCallbacks, FinishStep, Become, Release, InTurn, TypeOK
  <2>4. CASE DrainAfterRun(t)
    <3>1. Live => Release(t)[run] = task[run]
      BY <2>1 DEF Release, TypeOK
    <3>. QED BY <2>4, <3>1, DrainRow DEF DrainAfterRun, FinishStep
  <2>. QED BY <1>5, <2>2, <2>3, <2>4 DEF Finish
<1>6. CASE Process
  <2>1. CASE LoseMemory
    BY <2>1 DEF LoseMemory, RowInv
  <2>2. CASE Restart
    BY <2>2, <1>a, RowQuiet DEF Restart
  <2>. QED BY <1>6, <2>1, <2>2 DEF Process, Crash, CrashInDrain
<1>. QED BY <1>1, <1>2, <1>3, <1>4, <1>5, <1>6 DEF Next

\* A session row says that a turn is running or waits for an approval only while a task
\* stands behind it, unless an A2UI resume ended without writing the row or an approval was
\* decided after its turn.
THEOREM RowOwned == Spec => []RunningRowHasOwner
<1>1. Init => RowInv
  BY DEF Init, RowInv, Active
<1>2. TypeOK /\ OneLiveTask /\ RowInv /\ [Next]_vars => RowInv'
  BY RowNext
<1>3. RowInv => RunningRowHasOwner
  BY DEF RowInv, Active, InTurn, RunningRowHasOwner, Live, Unfinished
<1>. QED BY <1>1, <1>2, <1>3, TypeCorrect, OneLive, PTL DEF Spec

-----------------------------------------------------------------------------
(* The scheduler implements InputDelivery.                                 *)

SameStages == \A i \in Inputs : Stage(i)' = Stage(i)

\* The rows in S move to stage s and no other row moves.
Moved(S, s) == \A i \in Inputs : Stage(i)' = IF i \in S THEN s ELSE Stage(i)

LEMMA StepStutter ==
  ASSUME SameStages, Live' <=> Live
  PROVE  UNCHANGED Delivery!vars
BY DEF SameStages, Delivery!vars

LEMMA StepStartOther ==
  ASSUME SameStages, ~Live, Live'
  PROVE  Delivery!Next
BY DEF SameStages, Delivery!Next, Delivery!StartOther

LEMMA StepEnd ==
  ASSUME SameStages, Live, ~Live'
  PROVE  Delivery!Next
BY DEF SameStages, Delivery!Next, Delivery!End

LEMMA StepAccept ==
  ASSUME NEW i \in Inputs, Moved({i}, "waiting"), Stage(i) = "absent", Live' <=> Live
  PROVE  Delivery!Next
BY DEF Moved, Delivery!Next, Delivery!Accept, Delivery!Move, Delivery!At

LEMMA StepWithdraw ==
  ASSUME NEW i \in Inputs, Moved({i}, "withdrawn"), Stage(i) \in {"waiting", "held"},
         Live' <=> Live
  PROVE  Delivery!Next
BY DEF Moved, Delivery!Next, Delivery!Withdraw, Delivery!Move, Delivery!At

LEMMA StepHold ==
  ASSUME NEW S \in SUBSET Inputs, Moved(S, "held"), \A i \in S : Stage(i) = "waiting",
         Live' <=> Live
  PROVE  Delivery!Next
BY DEF Moved, Delivery!Next, Delivery!Hold, Delivery!Move, Delivery!At

LEMMA StepRelease ==
  ASSUME NEW S \in SUBSET Inputs, Moved(S, "waiting"), \A i \in S : Stage(i) = "held",
         Live' <=> Live
  PROVE  Delivery!Next
BY DEF Moved, Delivery!Next, Delivery!Release, Delivery!Move, Delivery!At

LEMMA StepJoin ==
  ASSUME NEW S \in SUBSET Inputs, Moved(S, "delivered"), \A i \in S : Stage(i) = "waiting",
         Live, Live'
  PROVE  Delivery!Next
BY DEF Moved, Delivery!Next, Delivery!Join, Delivery!Move, Delivery!At

LEMMA StepStartNext ==
  ASSUME NEW i \in Inputs, Moved({i}, "delivered"), Stage(i) = "waiting", ~Live, Live'
  PROVE  Delivery!Next
BY DEF Moved, Delivery!Next, Delivery!StartNext, Delivery!Move, Delivery!At

LEMMA LaunchLive ==
  ASSUME NEW tk \in [Tasks -> Task], NEW i, NEW kind, Launch(tk, i, kind)
  PROVE  Live'
BY SlotAssumption DEF Launch, NewTask, Live, Unfinished

\* A row that changes its status among the waiting ones, and not its pause, stays where
\* it is for InputDelivery.
LEMMA SameStage ==
  ASSUME NEW i \in Inputs,
         \/ box'[i] = box[i]
         \/ /\ box[i].status \in Editable \cup {"starting"}
            /\ box'[i].status \in Editable \cup {"starting"}
            /\ box'[i].paused = box[i].paused
  PROVE  Stage(i)' = Stage(i)
BY DEF Stage, Editable

LEMMA UnchangedStages ==
  ASSUME UNCHANGED box
  PROVE  SameStages
BY DEF SameStages, Stage

LEMMA RequeueStages ==
  ASSUME TypeOK, NEW E \in SUBSET Expirable, NEW i \in Inputs
  PROVE  \/ Requeue(E)[i] = box[i]
         \/ /\ box[i].status = "starting" /\ Requeue(E)[i].status = "queued"
            /\ Requeue(E)[i].paused = box[i].paused
BY DEF TypeOK, Expirable, Requeue, Row

\* pause_active_for_session holds the rows that wait and can be edited.
LEMMA PauseStep ==
  ASSUME TypeOK, box' = PauseActive, Live' <=> Live
  PROVE  Delivery!Next
<1>. DEFINE S == {i \in Inputs : box[i].status \in Editable /\ ~box[i].paused}
<1>1. \A i \in S : Stage(i) = "waiting" /\ Stage(i)' = "held"
  BY DEF PauseActive, Stage, TypeOK, Row, Editable
<1>2. \A i \in Inputs \ S : Stage(i)' = Stage(i)
  BY DEF PauseActive, Stage, TypeOK, Row, Editable
<1>3. Moved(S, "held")
  BY <1>1, <1>2 DEF Moved
<1>4. S \in SUBSET Inputs /\ \A i \in S : Stage(i) = "waiting"
  BY <1>1
<1>. QED BY <1>3, <1>4, StepHold

LEMMA DrainStep ==
  ASSUME TypeOK, NEW tk \in [Tasks -> Task], Drain(tk),
         Live => tk[run] = task[run], ~Live => \A t \in Tasks : run = t =>
             tk[t].phase \notin {"created", "turn", "failing"}
  PROVE  Delivery!Next \/ UNCHANGED Delivery!vars
<1>a. ASSUME UNCHANGED run, task' = tk
      PROVE  Live' <=> Live
  BY <1>a, SlotAssumption DEF Live, Unfinished, TypeOK
<1>1. CASE DrainRefused(tk)
  BY <1>1, <1>a, UnchangedStages, StepStutter DEF DrainRefused
<1>2. ASSUME NEW E \in SUBSET Expirable, DrainEmpty(tk, E)
      PROVE  UNCHANGED Delivery!vars
  <2>1. SameStages
    BY <1>2, RequeueStages, SameStage DEF DrainEmpty, SameStages, Editable
  <2>. QED BY <1>2, <1>a, <2>1, StepStutter DEF DrainEmpty
<1>3. ASSUME NEW E \in SUBSET Expirable, NEW i \in Inputs, DrainOne(tk, E, i)
      PROVE  Delivery!Next
  <2>1. ~Live /\ Live'
    BY <1>3, LaunchLive DEF DrainOne
  <2>2. Requeue(E) \in [Inputs -> Row]
    BY BoxType
  <2>3. Requeue(E)[i].status = "queued" /\ ~Requeue(E)[i].paused
    BY <1>3 DEF DrainOne, FirstOf, Waiting
  <2>4. Stage(i) = "waiting"
    BY <2>3, RequeueStages DEF Stage
  <2>5. Stage(i)' = "delivered"
    BY <1>3, <2>2 DEF DrainOne, Stage, Row
  <2>6. \A j \in Inputs \ {i} : box'[j] = Requeue(E)[j]
    BY <1>3, <2>2 DEF DrainOne
  <2>7. \A j \in Inputs \ {i} : Stage(j)' = Stage(j)
    BY <2>6, RequeueStages, SameStage DEF Editable
  <2>8. Moved({i}, "delivered")
    BY <2>5, <2>7 DEF Moved
  <2>. QED BY <2>1, <2>4, <2>8, StepStartNext
<1>. QED BY <1>1, <1>2, <1>3 DEF Drain

LEMMA UserStep ==
  ASSUME TypeOK, OneLiveTask, User
  PROVE  Delivery!Next \/ UNCHANGED Delivery!vars
<1>a. ASSUME UNCHANGED <<run, task>>
      PROVE  Live' <=> Live
  BY <1>a DEF Live, Unfinished
<1>b. ASSUME UNCHANGED <<box, run, task>>
      PROVE  UNCHANGED Delivery!vars
  BY <1>a, <1>b, UnchangedStages, StepStutter
<1>c. ASSUME ~Live, NEW i, NEW kind, Launch(task, i, kind), UNCHANGED box
      PROVE  Delivery!Next
  BY <1>c, LaunchLive, UnchangedStages, StepStartOther DEF TypeOK
<1>1. ASSUME NEW i \in Inputs, NEW m \in Modes, SubmitInput(i, m)
      PROVE  Delivery!Next \/ UNCHANGED Delivery!vars
  <2>1. ASSUME NEW status \in Editable, CreateOrGet(i, status), UNCHANGED <<run, task>>
        PROVE  Delivery!Next \/ UNCHANGED Delivery!vars
    <3>1. CASE UNCHANGED box
      BY <1>b, <2>1, <3>1
    <3>2. CASE /\ box[i].status = "none" /\ box'[i].status = status /\ ~box'[i].paused
               /\ \A j \in Inputs \ {i} : box'[j] = box[j]
      <4>1. Stage(i) = "absent" /\ Stage(i)' = "waiting"
        BY <3>2 DEF Stage, Editable
      <4>2. Moved({i}, "waiting")
        BY <3>2, <4>1, SameStage DEF Moved
      <4>. QED BY <1>a, <2>1, <4>1, <4>2, StepAccept
    <3>3. \/ UNCHANGED box
          \/ /\ box[i].status = "none" /\ box'[i].status = status /\ ~box'[i].paused
             /\ \A j \in Inputs \ {i} : box'[j] = box[j]
      BY <2>1 DEF CreateOrGet, TypeOK
    <3>. QED BY <3>1, <3>2, <3>3
  <2>2. CASE SubmitDirect(i, m)
    BY <1>c, <2>2 DEF SubmitDirect
  <2>. QED BY <1>1, <2>1, <2>2 DEF SubmitInput, SubmitPending, SubmittedStatus, Editable
<1>2. ASSUME NEW i \in Inputs, NEW s \in Editable, UpdatePendingInput(i, s)
      PROVE  UNCHANGED Delivery!vars
  <2>1. SameStages
    BY <1>2, SameStage DEF UpdatePendingInput, SameStages, TypeOK, Row
  <2>. QED BY <1>a, <1>2, <2>1, StepStutter DEF UpdatePendingInput, Edit
<1>3. ASSUME NEW i \in Inputs, CancelPendingInput(i)
      PROVE  Delivery!Next
  <2>1. Stage(i) \in {"waiting", "held"} /\ Stage(i)' = "withdrawn"
    BY <1>3 DEF CancelPendingInput, Stage, Editable, TypeOK, Row
  <2>2. Moved({i}, "withdrawn")
    BY <1>3, <2>1, SameStage DEF Moved, CancelPendingInput, TypeOK
  <2>. QED BY <1>a, <1>3, <2>1, <2>2, StepWithdraw DEF CancelPendingInput, Edit
<1>4. ASSUME NEW S \in SUBSET Inputs, NEW f \in [S -> S], ReorderPendingInputs(S, f)
      PROVE  UNCHANGED Delivery!vars
  <2>1. SameStages
    BY <1>4, SameStage DEF ReorderPendingInputs, SameStages, TypeOK, Row
  <2>. QED BY <1>a, <1>4, <2>1, StepStutter DEF ReorderPendingInputs, Edit
<1>5. ASSUME NEW S \in SUBSET Inputs, NEW s \in Editable, Resume(S, s)
      PROVE  Delivery!Next
  <2>1. \A i \in S : box[i].status = s /\ box[i].paused
    BY <1>5 DEF Resume, Selection, PausedIn
  <2>a. Unpause(S) \in [Inputs -> Row]
    BY BoxType
  <2>b. \A i \in Inputs \ S : Unpause(S)[i] = box[i]
    BY DEF Unpause
  <2>c. \A i \in S : Unpause(S)[i].status = s /\ ~Unpause(S)[i].paused
    BY <2>1 DEF Unpause, TypeOK, Row
  <2>d. box' = Unpause(S) \/ \E i \in S : box' = [Unpause(S) EXCEPT ![i].status = "queued"]
    BY <1>5 DEF Resume, FirstOf
  <2>2. \A i \in Inputs \ S : box'[i] = box[i]
    BY <2>a, <2>b, <2>d
  <2>3. \A i \in S : box'[i].status \in Editable /\ ~box'[i].paused
    BY <2>a, <2>c, <2>d DEF Row, Editable
  <2>4. \A i \in S : Stage(i) = "held" /\ Stage(i)' = "waiting"
    BY <2>1, <2>3 DEF Stage, Editable
  <2>5. Moved(S, "waiting")
    BY <2>2, <2>4, SameStage DEF Moved
  <2>. QED BY <1>a, <1>5, <2>4, <2>5, StepRelease DEF Resume
<1>6. CASE Cancel
  <2>1. Live' <=> Live
    <3>1. CASE Live /\ task' = [task EXCEPT ![run].stop = TRUE] /\ UNCHANGED run
      BY <3>1 DEF Live, Unfinished, TypeOK, Task
    <3>. QED BY <1>a, <1>6, <3>1 DEF Cancel
  <2>2. box' = PauseActive \/ UNCHANGED box
    BY <1>6 DEF Cancel, Recover, store
  <2>. QED BY <2>1, <2>2, PauseStep, UnchangedStages, StepStutter
<1>7. CASE ContinueThreadTask
  BY <1>c, <1>7 DEF ContinueThreadTask
<1>8. CASE AnswerInteraction \/ DecideOrphan
  BY <1>b, <1>8 DEF AnswerInteraction, DecideOrphan
<1>. QED BY <1>1, <1>2, <1>3, <1>4, <1>5, <1>6, <1>7, <1>8 DEF User

LEMMA TurnRefines ==
  ASSUME TypeOK, OneLiveTask, NEW t \in Tasks, Turn(t)
  PROVE  Delivery!Next \/ UNCHANGED Delivery!vars
<1>a. Unfinished(t) => run = t /\ Live
  BY SlotAssumption DEF OneLiveTask, Live
<1>b. UNCHANGED run
  BY EndPasses, ApprovalStays
     DEF Turn, Approval, TurnStep, BeginTurn, AbortTurn, ClaimSteers, AskUser, FailurePublished
<1>1. ASSUME NEW p, Passes(t, p), UNCHANGED box, Unfinished(t)
      PROVE  Delivery!Next \/ UNCHANGED Delivery!vars
  <2>1. Live' <=> p \in {"created", "turn", "failing"}
    BY <1>1, <1>a, <1>b, SlotAssumption DEF Passes, Live, Unfinished
  <2>. QED BY <1>1, <1>a, <2>1, UnchangedStages, StepStutter, StepEnd
<1>2. ASSUME NEW S \in SUBSET Inputs, ClaimSteers(t, S)
      PROVE  Delivery!Next
  <2>1. Live /\ Live'
    BY <1>2, <1>a, <1>b DEF ClaimSteers, At, Unfinished, Live
  <2>2. \A i \in S : Stage(i) = "waiting"
    BY <1>2 DEF ClaimSteers, SteerBatch, Waiting, Stage
  <2>3. \A i \in S : Stage(i)' = "delivered"
    BY <1>2 DEF ClaimSteers, Stage, TypeOK, Row
  <2>4. \A i \in Inputs \ S : box'[i] = box[i]
    BY <1>2 DEF ClaimSteers
  <2>5. Moved(S, "delivered")
    BY <2>3, <2>4, SameStage DEF Moved
  <2>. QED BY <2>1, <2>2, <2>5, StepJoin
<1>3. CASE Approval(t)
  <2>1. Live' <=> Live
    BY <1>3, <1>a, <1>b, ApprovalStays DEF Live, Unfinished
  <2>. QED BY <1>3, <2>1, ApprovalStays, UnchangedStages, StepStutter
<1>4. CASE AskUser(t)
  <2>1. UNCHANGED <<box, task>>
    BY <1>4 DEF AskUser
  <2>. QED BY <1>b, <2>1, UnchangedStages, StepStutter DEF Live, Unfinished
<1>5. CASE EndTurn(t)
  BY <1>1, <1>5, EndPasses DEF Unfinished
<1>6. CASE BeginTurn(t) \/ AbortTurn(t) \/ FailurePublished(t)
  BY <1>1, <1>6, BecomePasses DEF BeginTurn, AbortTurn, FailurePublished, At, Unfinished
<1>. QED BY <1>2, <1>3, <1>4, <1>5, <1>6 DEF Turn, Approval

LEMMA FinishRefines ==
  ASSUME TypeOK, NEW t \in Tasks, Finish(t)
  PROVE  Delivery!Next \/ UNCHANGED Delivery!vars
<1>a. task[t].phase \in {"done", "notify", "drain"}
  BY DEF Finish, PopRun, AfterCallbacks, DrainAfterRun, At
<1>b. Live => run # t /\ run \in Tasks
  BY <1>a DEF Live, Unfinished, TypeOK
<1>c. Release(t) \in [Tasks -> Task] /\ Release(t)[t].phase = "free"
  BY TaskType DEF Release, FreeTask, NewTask, TypeOK
<1>d. \A u \in Tasks \ {t} : Release(t)[u] = task[u]
  BY DEF Release, TypeOK
<1>1. ASSUME task' = Release(t), UNCHANGED run
      PROVE  Live' <=> Live
  BY <1>1, <1>a, <1>c, <1>d DEF Live, Unfinished, TypeOK
<1>2. ASSUME NEW p, Become(t, p), p \in {"notify", "drain"}, UNCHANGED run
      PROVE  Live' <=> Live
  BY <1>2, <1>a, <1>b DEF Become, Live, Unfinished, TypeOK, Task
<1>3. CASE PopRun(t)
  <2>1. Live' <=> Live
    BY <1>1, <1>3, <1>a DEF PopRun, Live, Unfinished
  <2>. QED BY <1>3, <2>1, UnchangedStages, StepStutter DEF PopRun
<1>4. CASE AfterCallbacks(t)
  <2>1. Live' <=> Live
    BY <1>1, <1>2, <1>4 DEF AfterCallbacks
  <2>2. \A i \in Inputs :
          \/ box'[i] = box[i]
          \/ /\ box[i].status = "pending_steer" /\ box'[i].status = "queued"
             /\ box'[i].paused = box[i].paused
    BY <1>4 DEF AfterCallbacks, Waiting, TypeOK, Row
  <2>3. SameStages
    BY <2>2, SameStage DEF SameStages, Editable
  <2>. QED BY <2>1, <2>3, StepStutter
<1>5. CASE DrainAfterRun(t)
  <2>1. Drain(Release(t))
    BY <1>5 DEF DrainAfterRun
  <2>2. Live => Release(t)[run] = task[run]
    BY <1>b, <1>d
  <2>3. ~Live => \A u \in Tasks : run = u =>
               Release(t)[u].phase \notin {"created", "turn", "failing"}
    BY <1>c, <1>d, SlotAssumption DEF Live, Unfinished
  <2>. QED BY <1>c, <2>1, <2>2, <2>3, DrainStep
<1>. QED BY <1>3, <1>4, <1>5 DEF Finish

LEMMA ProcessRefines ==
  ASSUME TypeOK, Process
  PROVE  Delivery!Next \/ UNCHANGED Delivery!vars
<1>1. CASE Crash
  <2>1. SameStages /\ ~Live'
    BY <1>1, UnchangedStages DEF Crash, LoseMemory, Live
  <2>. QED BY <2>1, StepEnd, StepStutter
<1>2. CASE CrashInDrain
  <2>1. ~Live /\ ~Live'
    BY <1>2 DEF CrashInDrain, LoseMemory, Live
  <2>2. PICK i \in Inputs : /\ box[i].status = "queued" /\ ~box[i].paused
                           /\ box' = [box EXCEPT ![i].status = "starting"]
    BY <1>2, ClaimCrash
  <2>3. box'[i].status = "starting" /\ box'[i].paused = box[i].paused
    BY <2>2 DEF TypeOK, Row
  <2>4. \A j \in Inputs \ {i} : box'[j] = box[j]
    BY <2>2 DEF TypeOK
  <2>5. SameStages
    BY <2>2, <2>3, <2>4, SameStage DEF SameStages, Editable
  <2>. QED BY <2>1, <2>5, StepStutter
<1>3. CASE Restart
  <2>1. Live' <=> Live
    BY <1>3 DEF Restart, Live, Unfinished
  <2>2. box' = PauseActive \/ UNCHANGED box
    BY <1>3 DEF Restart, Recover, store
  <2>. QED BY <2>1, <2>2, PauseStep, UnchangedStages, StepStutter
<1>. QED BY <1>1, <1>2, <1>3 DEF Process

\* Every step of the scheduler is a step of the box its users see, or changes nothing in it.
THEOREM Implements == Spec => ImplementsDelivery
<1>1. Init => Delivery!Init
  BY DEF Init, NoRow, Stage, Live, Delivery!Init
<1>2. TypeOK /\ OneLiveTask /\ [Next]_vars => [Delivery!Next]_(Delivery!vars)
  <2>. SUFFICES ASSUME TypeOK, OneLiveTask, [Next]_vars
                PROVE  Delivery!Next \/ UNCHANGED Delivery!vars
    OBVIOUS
  <2>1. CASE UNCHANGED vars
    BY <2>1, UnchangedStages, StepStutter DEF vars, Live, Unfinished
  <2>2. CASE Handlers
    <3>1. CASE DrainHandler
      <4>1. task \in [Tasks -> Task] /\ Drain(task)
        BY <3>1 DEF DrainHandler, TypeOK
      <4>2. ~Live => \A t \in Tasks : run = t =>
                   task[t].phase \notin {"created", "turn", "failing"}
        BY SlotAssumption DEF Live, Unfinished
      <4>. QED BY <4>1, <4>2, DrainStep
    <3>2. CASE StartResume
      <4>1. CASE UNCHANGED <<run, task>>
        BY <3>2, <4>1, UnchangedStages, StepStutter DEF StartResume, Live, Unfinished
      <4>2. CASE ~Live /\ Launch(task, NoInput, "managed")
        BY <3>2, <4>2, LaunchLive, UnchangedStages, StepStartOther DEF StartResume, TypeOK
      <4>. QED BY <3>2, <4>1, <4>2 DEF StartResume
    <3>3. CASE ResumeRefused
      BY <3>3, UnchangedStages, StepStutter DEF ResumeRefused, Live, Unfinished
    <3>. QED BY <2>2, <3>1, <3>2, <3>3 DEF Handlers
  <2>. QED BY <2>1, <2>2, UserStep, TurnRefines, FinishRefines, ProcessRefines DEF Next
<1>. QED BY <1>1, <1>2, TypeCorrect, OneLive, PTL DEF Spec, ImplementsDelivery, Delivery!Spec

-----------------------------------------------------------------------------
(* What comes to rest.                                                     *)

\* The steps that leave an input behind, each by itself (TLC has a counterexample for each): a stop, a death of
\* the process, a row made a steer or an input forced into the box when no turn will look for it.
Disturbance ==
  \/ Cancel \/ Crash \/ CrashInDrain
  \/ ~Live /\ \E i \in Inputs : UpdatePendingInput(i, "pending_steer")
  \/ ~Live /\ ~WaitingInput /\ \E i \in Inputs, m \in Modes : SubmitPending(i, m, TRUE)

\* Task t has ended and will still convert the leftover steers.
Closing(t) == task[t].phase = "notify" \/ (task[t].phase = "done" /\ run = t)

Converting == Live \/ \E t \in Tasks : Closing(t)

\* Somebody is going to drain the box, or the user's answer will start a turn, or it was lost.
Coming ==
  \/ Converting \/ session.asking \/ answering \/ stray \/ drains > 0
  \/ \E t \in Tasks : task[t].phase = "drain"

\* Nothing was held, claimed or stopped.
Undisturbed ==
  /\ up
  /\ \A i \in Inputs : ~box[i].paused /\ box[i].status # "starting"
  /\ \A t \in Tasks : ~task[t].stop

\* A row that waits for an answer has a question, an answer on its way, or a lost one.
Asked == session.status = "waiting_input" => session.asking \/ answering \/ stray

\* No steer without a turn that will take or convert it, nothing queued without a drain.
Expected ==
  /\ (\E i \in Inputs : box[i].status = "pending_steer") => Converting
  /\ (\E i \in Inputs : box[i].status = "queued") => Coming

RestInv == Undisturbed /\ Asked /\ Expected

\* Steps that leave the tasks alone, keep the questions and the drains, and add no row.
LEMMA SameRest ==
  ASSUME RestInv, UNCHANGED <<up, run, task>>, Asked',
         Coming => Coming',
         \A i \in Inputs : /\ ~box'[i].paused
                           /\ box'[i].status = box[i].status \/ box'[i].status \notin {"queued", "pending_steer", "starting"}
  PROVE  RestInv'
<1>1. Converting' = Converting
  BY DEF Converting, Closing, Live, Unfinished
<1>2. Undisturbed'
  BY DEF RestInv, Undisturbed
<1>3. Expected'
  BY <1>1 DEF RestInv, Expected
<1>. QED BY <1>2, <1>3 DEF RestInv

\* A step after which a turn is live or will convert the steers.
LEMMA ConvertingRest ==
  ASSUME Undisturbed', Asked', Converting'
  PROVE  RestInv'
BY DEF RestInv, Expected, Coming

\* A start into an idle session, with the box as it was or one row less.
LEMMA StartRest ==
  ASSUME RestInv, NEW tk \in [Tasks -> Task], \A t \in Tasks : ~tk[t].stop,
         NEW i, NEW kind, Launch(tk, i, kind), UNCHANGED up, Asked',
         \A j \in Inputs : ~box'[j].paused /\ box'[j].status # "starting"
  PROVE  RestInv'
<1>1. PICK t \in Tasks : task' = [tk EXCEPT ![t] = NewTask("created", i, kind)] /\ run' = t
  BY DEF Launch
<1>2. task'[t] = NewTask("created", i, kind) /\ \A u \in Tasks : u # t => task'[u] = tk[u]
  BY <1>1
<1>3. \A u \in Tasks : ~task'[u].stop
  BY <1>2 DEF NewTask
<1>4. Live'
  BY <1>1, <1>2, SlotAssumption DEF NewTask, Live, Unfinished
<1>. QED BY <1>3, <1>4, ConvertingRest DEF RestInv, Undisturbed, Converting

\* No claim can expire, nothing is held: a drain sees the rows as they are.
LEMMA PlainBox ==
  ASSUME TypeOK, Undisturbed, NEW E \in SUBSET Expirable
  PROVE  Requeue(E) = box /\ \A s : Waiting(box, s) = {i \in Inputs : box[i].status = s}
<1>1. E = {}
  BY DEF Undisturbed, Expirable
<1>2. Requeue(E) = box
  BY <1>1 DEF Requeue, TypeOK
<1>. QED BY <1>2 DEF Waiting, Undisturbed

\* A drain refuses because something else is coming, finds nothing queued, or starts a turn.
LEMMA DrainRest ==
  ASSUME TypeOK, RestInv, NEW tk \in [Tasks -> Task], Drain(tk), UNCHANGED <<up, session, answering, stray>>,
         \A t \in Tasks : ~tk[t].stop,
         \A t \in Tasks : tk[t] = task[t] \/ (task[t].phase = "drain" /\ tk[t].phase = "free")
  PROVE  RestInv'
<1>0. Asked'
  BY DEF RestInv, Asked
<1>1. ASSUME task' = tk, UNCHANGED <<box, run>>
      PROVE  (Live => Live') /\ (Converting => Converting') /\ Undisturbed'
  <2>1. \A t \in Tasks : Unfinished(t) => task'[t] = task[t]
    BY <1>1 DEF Unfinished
  <2>2. Live => Live'
    BY <1>1, <2>1 DEF Live, Unfinished, TypeOK
  <2>3. \A t \in Tasks : Closing(t) => task'[t] = task[t] /\ Closing(t)'
    BY <1>1 DEF Closing
  <2>4. Undisturbed'
    BY <1>1 DEF RestInv, Undisturbed
  <2>. QED BY <2>2, <2>3, <2>4 DEF Converting
<1>2. CASE DrainRefused(tk)
  <2>1. task' = tk /\ UNCHANGED <<box, run>>
    BY <1>2 DEF DrainRefused
  <2>2. Live \/ session.asking \/ answering \/ stray
    BY <1>2 DEF DrainRefused, WaitingInput, RestInv, Asked
  <2>3. Coming'
    BY <1>1, <2>1, <2>2 DEF Coming, Converting
  <2>. QED BY <1>0, <1>1, <2>1, <2>3 DEF RestInv, Expected
<1>3. ASSUME NEW E \in SUBSET Expirable, DrainEmpty(tk, E) PROVE RestInv'
  <2>1. task' = tk /\ UNCHANGED <<box, run>> /\ \A i \in Inputs : box[i].status # "queued"
    BY <1>3, PlainBox DEF DrainEmpty, RestInv
  <2>. QED BY <1>0, <1>1, <2>1 DEF RestInv, Expected
<1>4. ASSUME NEW E \in SUBSET Expirable, NEW i \in Inputs, DrainOne(tk, E, i) PROVE RestInv'
  <2>1. Launch(tk, i, "chat") /\ box' = [box EXCEPT ![i].status = "delivered"]
    BY <1>4, PlainBox DEF DrainOne, RestInv
  <2>2. \A j \in Inputs : ~box'[j].paused /\ box'[j].status # "starting"
    BY <2>1 DEF RestInv, Undisturbed, TypeOK, Row
  <2>. QED BY <1>0, <2>1, <2>2, StartRest
<1>. QED BY <1>2, <1>3, <1>4, Zenon DEF Drain

\* A submission that is stored joins a turn, a question or a drain.
LEMMA SubmitRest ==
  ASSUME TypeOK, RestInv, NEW i \in Inputs, NEW m \in Modes, NEW force \in BOOLEAN, SubmitPending(i, m, force),
         ~Disturbance
  PROVE  RestInv'
<1>1. /\ UNCHANGED <<up, session, run, task, answering, stray>> /\ CreateOrGet(i, SubmittedStatus(m))
      /\ drains' \in {drains, drains + 1} /\ drains \in Nat
  BY DEF SubmitPending, TypeOK
<1>2. ~force \/ Live \/ WaitingInput
  BY Zenon DEF Disturbance
<1>3. Converting' = Converting /\ (Coming => Coming') /\ Asked'
  BY <1>1 DEF Converting, Closing, Live, Unfinished, Coming, RestInv, Asked
<1>4. CASE UNCHANGED box
  BY <1>1, <1>3, <1>4, SameRest DEF RestInv, Undisturbed
<1>5. CASE box[i].status = "none" /\ ~UNCHANGED box
  <2>1. PICK p : box' = [box EXCEPT ![i] = [status |-> SubmittedStatus(m), paused |-> FALSE, pos |-> p]]
    BY <1>1, <1>5 DEF CreateOrGet
  <2>2. box'[i].status = SubmittedStatus(m) /\ ~box'[i].paused /\ \A j \in Inputs : j # i => box'[j] = box[j]
    BY <2>1 DEF TypeOK
  <2>3. Undisturbed'
    BY <1>1, <2>2 DEF SubmittedStatus, RestInv, Undisturbed
  <2>4. CASE Live
    <3>1. Live'
      BY <1>1, <2>4 DEF Live, Unfinished
    <3>. QED BY <1>3, <2>3, <3>1, ConvertingRest DEF Converting
  <2>5. CASE ~Live
    <3>1. WaitingInput \/ HasActiveQueue
      BY <1>2, <2>5 DEF SubmitPending
    <3>2. SubmittedStatus(m) = "queued"
      BY <2>5, <3>1 DEF SubmittedStatus
    <3>3. CASE WaitingInput
      <4>1. session.asking \/ answering \/ stray
        BY <3>3 DEF WaitingInput, RestInv, Asked
      <4>2. Coming'
        BY <1>1, <4>1 DEF Coming
      <4>. QED BY <1>3, <2>2, <2>3, <3>2, <4>2 DEF RestInv, Expected
    <3>4. CASE ~WaitingInput
      <4>1. drains' = drains + 1
        BY <1>2, <2>5, <3>4 DEF SubmitPending
      <4>2. Coming'
        BY <1>1, <4>1 DEF Coming
      <4>. QED BY <1>3, <2>2, <2>3, <3>2, <4>2 DEF RestInv, Expected
    <3>. QED BY <3>3, <3>4
  <2>. QED BY <2>4, <2>5
<1>. QED BY <1>1, <1>4, <1>5 DEF CreateOrGet

\* Requests of the user that are no disturbance: every row they leave in the box is expected.
LEMMA UserRest ==
  ASSUME TypeOK, RestInv, User, ~Disturbance
  PROVE  RestInv'
<1>0. task \in [Tasks -> Task] /\ \A t \in Tasks : ~task[t].stop
  BY DEF TypeOK, RestInv, Undisturbed
<1>1. ASSUME NEW i \in Inputs, NEW m \in Modes, SubmitInput(i, m) PROVE RestInv'
  <2>1. CASE SubmitDirect(i, m)
    BY <1>0, <2>1, StartRest DEF SubmitDirect, RestInv, Undisturbed, Asked
  <2>. QED BY <1>1, <2>1, SubmitRest DEF SubmitInput
<1>2. ASSUME NEW i \in Inputs, NEW s \in Editable, UpdatePendingInput(i, s) PROVE RestInv'
  <2>1. /\ UNCHANGED <<up, session, run, task, drains, answering, stray>>
        /\ box[i].status \in Editable /\ box' = [box EXCEPT ![i].status = s]
    BY <1>2 DEF UpdatePendingInput, Edit
  <2>2. box'[i].status = s /\ box'[i].paused = box[i].paused /\ \A j \in Inputs : j # i => box'[j] = box[j]
    BY <2>1 DEF TypeOK, Row
  <2>3. Converting' = Converting /\ Coming' = Coming /\ Asked' /\ Undisturbed'
    <3>1. Converting' = Converting
      BY <2>1 DEF Converting, Closing, Live, Unfinished
    <3>2. Coming' = Coming
      BY <2>1, <3>1 DEF Coming
    <3>3. Asked'
      BY <2>1 DEF RestInv, Asked
    <3>4. Undisturbed'
      BY <2>1, <2>2 DEF RestInv, Undisturbed, Editable
    <3>. QED BY <3>1, <3>2, <3>3, <3>4
  <2>4. CASE s = "pending_steer"
    <3>1. Live
      BY <1>2, <2>4, Zenon DEF Disturbance
    <3>. QED BY <2>3, <3>1, ConvertingRest DEF Converting
  <2>5. CASE s = "queued"
    <3>1. Coming
      BY <2>1 DEF RestInv, Expected, Coming, Editable
    <3>. QED BY <2>2, <2>3, <2>5, <3>1 DEF RestInv, Expected
  <2>. QED BY <2>4, <2>5 DEF Editable
<1>3. ASSUME NEW i \in Inputs, CancelPendingInput(i) PROVE RestInv'
  <2>1. \A j \in Inputs : /\ ~box'[j].paused
                          /\ box'[j].status = box[j].status \/ box'[j].status = "cancelled"
    BY <1>3 DEF CancelPendingInput, RestInv, Undisturbed, TypeOK, Row
  <2>. QED BY <1>3, <2>1, SameRest
           DEF CancelPendingInput, Edit, RestInv, Asked, Coming, Converting, Closing, Live, Unfinished
<1>4. ASSUME NEW S \in SUBSET Inputs, NEW f \in [S -> S], ReorderPendingInputs(S, f) PROVE RestInv'
  <2>1. \A j \in Inputs : ~box'[j].paused /\ box'[j].status = box[j].status
    BY <1>4 DEF ReorderPendingInputs, RestInv, Undisturbed, TypeOK, Row
  <2>. QED BY <1>4, <2>1, SameRest
           DEF ReorderPendingInputs, Edit, RestInv, Asked, Coming, Converting, Closing, Live, Unfinished
<1>5. ASSUME NEW S \in SUBSET Inputs, NEW s \in Editable, Resume(S, s) PROVE FALSE
  BY <1>5 DEF Resume, Selection, PausedIn, RestInv, Undisturbed
<1>6. CASE ContinueThreadTask
  BY <1>0, <1>6, StartRest DEF ContinueThreadTask, RestInv, Undisturbed, Asked
<1>7. CASE AnswerInteraction \/ DecideOrphan
  <2>1. UNCHANGED <<up, box, run, task, drains, stray>> /\ (answering => answering')
    BY <1>7 DEF AnswerInteraction, DecideOrphan
  <2>2. Asked' /\ (session.asking \/ answering => session'.asking \/ answering')
    BY <1>7 DEF AnswerInteraction, DecideOrphan, RestInv, Asked, TypeOK, Session
  <2>3. Coming => Coming'
    BY <2>1, <2>2 DEF Coming, Converting, Closing, Live, Unfinished
  <2>. QED BY <2>1, <2>2, <2>3, SameRest DEF RestInv, Undisturbed
<1>8. ~Cancel
  BY DEF Disturbance
<1>. QED BY <1>1, <1>2, <1>3, <1>4, <1>5, <1>6, <1>7, <1>8 DEF User

\* The handlers: a drain, a resume that starts or is lost.
LEMMA HandlersRest ==
  ASSUME TypeOK, RestInv, Handlers
  PROVE  RestInv'
<1>0. task \in [Tasks -> Task] /\ \A t \in Tasks : ~task[t].stop
  BY DEF TypeOK, RestInv, Undisturbed
<1>1. CASE DrainHandler
  BY <1>0, <1>1, DrainRest DEF DrainHandler
<1>2. CASE StartResume
  <2>1. Asked'
    BY <1>2 DEF StartResume, TypeOK, Session, Asked
  <2>2. CASE Launch(task, NoInput, "managed")
    BY <1>0, <1>2, <2>1, <2>2, StartRest DEF StartResume, RestInv, Undisturbed
  <2>3. CASE stray' = TRUE /\ UNCHANGED <<run, task>>
    BY <1>2, <2>1, <2>3, SameRest DEF StartResume, RestInv, Undisturbed, Coming
  <2>. QED BY <1>2, <2>2, <2>3 DEF StartResume
<1>3. CASE ResumeRefused
  BY <1>3, SameRest DEF ResumeRefused, RestInv, Undisturbed, Asked, Coming
<1>. QED BY <1>1, <1>2, <1>3 DEF Handlers

\* The steps of a turn: it is live, or done and still the one _runs names.
LEMMA TurnRest ==
  ASSUME TypeOK, OneLiveTask, RestInv, NEW t \in Tasks, Turn(t)
  PROVE  RestInv'
<1>0. run \in Tasks => run # NoTask
  BY SlotAssumption
<1>1. ASSUME NEW p, p \in {"turn", "failing", "done"}, Passes(t, p), UNCHANGED run, Unfinished(t)
      PROVE  Converting'
  <2>1. run = t
    BY <1>1 DEF OneLiveTask
  <2>. QED BY <1>0, <1>1, <2>1 DEF Passes, Converting, Closing, Live, Unfinished
<1>2. Converting'
  <2>1. CASE BeginTurn(t)
    BY <1>1, <2>1, BecomePasses DEF BeginTurn, TurnStep, At, Unfinished
  <2>2. CASE AbortTurn(t)
    BY <1>1, <2>2, BecomePasses DEF AbortTurn, TurnStep, At, Unfinished
  <2>3. CASE EndTurn(t)
    BY <1>1, <2>3, EndPasses DEF Unfinished
  <2>4. CASE FailurePublished(t)
    BY <1>1, <2>4, BecomePasses DEF FailurePublished, TurnStep, At, Unfinished
  <2>5. ASSUME task[t].phase = "turn", task'[t].phase = "turn", UNCHANGED run PROVE Converting'
    BY <1>0, <2>5 DEF OneLiveTask, Unfinished, Converting, Live
  <2>6. CASE Approval(t)
    BY <2>5, <2>6, ApprovalStays
  <2>7. CASE (\E S \in SUBSET Inputs : ClaimSteers(t, S)) \/ AskUser(t)
    BY <2>5, <2>7 DEF ClaimSteers, AskUser, TurnStep, At
  <2>. QED BY <2>1, <2>2, <2>3, <2>4, <2>6, <2>7 DEF Turn, Approval
<1>3. UNCHANGED <<up, answering>>
  BY DEF Turn, BeginTurn, AbortTurn, ClaimSteers, RequestApproval, DecideApproval, ApprovalSeen, Approve, AskUser,
         EndTurn, CompleteTurn, SuspendTurn, CancelTurn, FailTurn, FailurePublished, TurnStep
<1>4. \A i \in Inputs : ~box'[i].paused /\ box'[i].status # "starting"
  <2>1. ASSUME NEW S \in SUBSET Inputs, ClaimSteers(t, S)
        PROVE  \A i \in Inputs : ~box'[i].paused /\ box'[i].status # "starting"
    BY <2>1 DEF ClaimSteers, RestInv, Undisturbed, TypeOK, Row
  <2>2. UNCHANGED box => \A i \in Inputs : ~box'[i].paused /\ box'[i].status # "starting"
    BY DEF RestInv, Undisturbed
  <2>. QED BY <2>1, <2>2 DEF Turn, BeginTurn, AbortTurn, RequestApproval, DecideApproval, ApprovalSeen, Approve,
              AskUser, EndTurn, CompleteTurn, SuspendTurn, CancelTurn, FailTurn, FailurePublished
<1>5. \A u \in Tasks : ~task'[u].stop
  <2>1. \A u \in Tasks : task'[u].stop = task[u].stop
    <3>1. \A p : Become(t, p) => \A u \in Tasks : task'[u].stop = task[u].stop
      BY DEF Become, TypeOK, Task
    <3>2. \A p, s : Leave(t, p, s) => \A u \in Tasks : task'[u].stop = task[u].stop
      BY DEF Leave, TypeOK, Task
    <3>3. \A a : Approve(t, a) => \A u \in Tasks : task'[u].stop = task[u].stop
      BY DEF Approve, TypeOK, Task
    <3>4. ~task[t].stop
      BY DEF RestInv, Undisturbed
    <3>. QED BY <3>1, <3>2, <3>3, <3>4
             DEF Turn, BeginTurn, AbortTurn, ClaimSteers, RequestApproval, DecideApproval, ApprovalSeen, AskUser,
                 EndTurn, CompleteTurn, SuspendTurn, CancelTurn, FailTurn, FailurePublished
  <2>. QED BY <2>1 DEF RestInv, Undisturbed
<1>6. Asked'
  <2>0. session \in Session /\ ~task[t].stop /\ Asked
    BY DEF TypeOK, RestInv, Undisturbed
  <2>1. CASE BeginTurn(t)
    <3>1. session'.status = "running" \/ UNCHANGED <<session, stray>>
      <4>1. CASE task[t].kind = "chat"
        BY <2>0, <2>1, <4>1 DEF BeginTurn, Session
      <4>2. CASE task[t].kind # "chat"
        BY <2>1, <4>2 DEF BeginTurn
      <4>. QED BY <4>1, <4>2
    <3>. QED BY <1>3, <2>0, <3>1 DEF Asked
  <2>2. CASE AbortTurn(t) \/ (\E S \in SUBSET Inputs : ClaimSteers(t, S)) \/ FailurePublished(t)
    BY <1>3, <2>0, <2>2 DEF AbortTurn, ClaimSteers, FailurePublished, Asked
  <2>3. CASE Approval(t)
    <3>1. PICK a : Approve(t, a)
      BY <2>3 DEF Approval, RequestApproval, DecideApproval, ApprovalSeen
    <3>. QED BY <2>0, <3>1 DEF Approve, SetRow, Session, Asked
  <2>4. CASE AskUser(t)
    BY <2>0, <2>4 DEF AskUser, Session, Asked
  <2>5. ASSUME NEW p, NEW s, Leave(t, p, s) PROVE session'.status = s /\ session'.asking = session.asking
    BY <2>0, <2>5 DEF Leave, Session
  <2>6. CASE CompleteTurn(t)
    BY <2>5, <2>6 DEF CompleteTurn, Asked
  <2>7. CASE SuspendTurn(t)
    BY <2>5, <2>7 DEF SuspendTurn, Asked
  <2>8. CASE FailTurn(t)
    BY <2>5, <2>8 DEF FailTurn, Asked
  <2>. QED BY <2>0, <2>1, <2>2, <2>3, <2>4, <2>6, <2>7, <2>8 DEF Turn, Approval, EndTurn, CancelTurn
<1>. QED BY <1>2, <1>3, <1>4, <1>5, <1>6, ConvertingRest DEF RestInv, Undisturbed

\* The end of a run: popped, it converts the steers; converted, it drains.
LEMMA FinishRest ==
  ASSUME TypeOK, RestInv, NEW t \in Tasks, Finish(t)
  PROVE  RestInv'
<1>0. /\ UNCHANGED <<up, session, answering, stray, drains>> /\ Asked'
      /\ task \in [Tasks -> Task] /\ \A u \in Tasks : ~task[u].stop
  BY DEF Finish, PopRun, AfterCallbacks, DrainAfterRun, FinishStep, TypeOK, RestInv, Undisturbed, Asked
<1>1. Release(t) \in [Tasks -> Task] /\ Release(t)[t].phase = "free" /\ ~Release(t)[t].stop
      /\ \A u \in Tasks : u # t => Release(t)[u] = task[u]
  BY <1>0, TaskType DEF Release, FreeTask, NewTask
<1>2. \A p : Become(t, p) => /\ task'[t].phase = p /\ \A u \in Tasks : ~task'[u].stop
                             /\ \A u \in Tasks : u # t => task'[u] = task[u]
  BY <1>0 DEF Become, Task
<1>3. CASE PopRun(t)
  <2>0. task[t].phase = "done" /\ UNCHANGED box
    BY <1>3 DEF PopRun, At
  <2>1. CASE run = t /\ run' = NoTask /\ Become(t, "notify")
    <3>1. Converting'
      BY <1>2, <2>1 DEF Converting, Closing
    <3>2. Undisturbed'
      BY <1>0, <1>2, <2>0, <2>1 DEF RestInv, Undisturbed
    <3>. QED BY <1>0, <3>1, <3>2, ConvertingRest
  <2>2. CASE run # t /\ task' = Release(t) /\ UNCHANGED run
    <3>1. Live => Live'
      BY <1>1, <2>2 DEF Live, Unfinished, TypeOK
    <3>2. \A u \in Tasks : Closing(u) => u # t /\ Closing(u)'
      BY <1>1, <2>0, <2>2 DEF Closing
    <3>3. Converting => Converting'
      BY <3>1, <3>2 DEF Converting
    <3>4. \A u \in Tasks : task[u].phase = "drain" => task'[u].phase = "drain"
      BY <1>1, <2>0, <2>2
    <3>5. Coming => Coming'
      BY <1>0, <3>3, <3>4 DEF Coming
    <3>6. Undisturbed'
      BY <1>0, <1>1, <2>0, <2>2 DEF RestInv, Undisturbed
    <3>. QED BY <1>0, <2>0, <3>3, <3>5, <3>6 DEF RestInv, Expected
  <2>. QED BY <1>3, <2>1, <2>2 DEF PopRun
<1>4. CASE AfterCallbacks(t)
  <2>1. /\ Become(t, "drain")
        /\ box' = [i \in Inputs |-> IF i \in Waiting(box, "pending_steer")
                                    THEN [box[i] EXCEPT !.status = "queued"] ELSE box[i]]
    BY <1>0, <1>4 DEF AfterCallbacks
  <2>2. \A i \in Inputs : ~box'[i].paused /\ box'[i].status \notin {"starting", "pending_steer"}
    BY <2>1 DEF Waiting, RestInv, Undisturbed, TypeOK, Row
  <2>3. Coming'
    BY <1>2, <2>1 DEF Coming
  <2>4. Undisturbed'
    BY <1>0, <1>2, <2>1, <2>2 DEF RestInv, Undisturbed
  <2>. QED BY <1>0, <2>2, <2>3, <2>4 DEF RestInv, Expected
<1>5. CASE DrainAfterRun(t)
  <2>1. Drain(Release(t)) /\ task[t].phase = "drain"
    BY <1>5 DEF DrainAfterRun, At
  <2>2. \A u \in Tasks : ~Release(t)[u].stop
    BY <1>0, <1>1
  <2>3. \A u \in Tasks : Release(t)[u] = task[u] \/ (task[u].phase = "drain" /\ Release(t)[u].phase = "free")
    BY <1>1, <2>1
  <2>. QED BY <1>0, <1>1, <2>1, <2>2, <2>3, DrainRest
<1>. QED BY <1>3, <1>4, <1>5 DEF Finish

LEMMA RestInit == Init => RestInv
BY DEF Init, RestInv, Undisturbed, Asked, Expected, NoRow, FreeTask, NewTask

LEMMA RestStep ==
  ASSUME TypeOK, OneLiveTask, RestInv, [Next]_vars, [~Disturbance]_vars
  PROVE  RestInv'
<1>1. CASE UNCHANGED vars
  BY <1>1, SameRest DEF vars, RestInv, Undisturbed, Asked, Coming, Converting, Closing, Live, Unfinished
<1>2. CASE ~Disturbance /\ Next
  <2>1. CASE Process
    <3>1. up /\ ~Crash /\ ~CrashInDrain
      BY <1>2 DEF RestInv, Undisturbed, Disturbance
    <3>. QED BY <2>1, <3>1 DEF Process, Restart
  <2>. QED BY <1>2, <2>1, UserRest, HandlersRest, TurnRest, FinishRest DEF Next
<1>. QED BY <1>1, <1>2

LEMMA RestIsServed == RestInv => NoStrandedInput
BY DEF RestInv, Undisturbed, Expected, Coming, Converting, Closing, NoStrandedInput, Quiet, WaitingInput, Editable

\* As long as nobody stops a turn, the process lives, and no input is made a steer or forced into the box while
\* no turn runs, the session never comes to rest with an input that waits for nothing: every stored
\* input is followed by a turn, a conversion, a drain or an answer, whatever tasks continue by
\* themselves, fail, suspend, resume or are overtaken, for any number of inputs and tasks.
THEOREM NoneStranded == Spec /\ [][~Disturbance]_vars => []NoStrandedInput
<1>1. TypeOK /\ OneLiveTask /\ RestInv /\ [Next]_vars /\ [~Disturbance]_vars => RestInv'
  BY RestStep
<1>. QED BY <1>1, RestInit, RestIsServed, TypeCorrect, OneLive, PTL DEF Spec

\* The environment is allowed none of it.
Undisturbing == \A b \in Budgets : \A k \in {"stop", "crash", "edit", "force"} : b[k] = 0

Spent == \A k \in {"stop", "crash", "edit", "force"} : budget[k] = 0

\* What a step takes from the bounds.
LEMMA BudgetStep ==
  ASSUME TypeOK, Spent, [Next]_vars
  PROVE  Spent'
<1>1. \A k \in Kinds : Spend(k) => Spent'
  BY DEF Spend, Spent, TypeOK, Kinds
<1>2. UNCHANGED budget \/ \E k \in Kinds : Spend(k)
  <2>1. CASE UNCHANGED vars
    BY <2>1 DEF vars
  <2>2. CASE User
    BY <2>2 DEF User, SubmitInput, SubmitPending, SubmitDirect, Attempt, UpdatePendingInput, CancelPendingInput,
                ReorderPendingInputs, Edit, Resume, Cancel, ContinueThreadTask, AnswerInteraction, DecideOrphan, Kinds
  <2>3. CASE Handlers
    BY <2>3 DEF Handlers, DrainHandler, StartResume, ResumeRefused
  <2>4. CASE Process
    BY <2>4 DEF Process, Crash, CrashInDrain, Restart, Kinds
  <2>5. ASSUME NEW t \in Tasks, Turn(t) PROVE UNCHANGED budget \/ \E k \in Kinds : Spend(k)
    BY <2>5 DEF Turn, BeginTurn, AbortTurn, ClaimSteers, RequestApproval, DecideApproval, ApprovalSeen, Approve,
                AskUser, EndTurn, CompleteTurn, SuspendTurn, CancelTurn, FailTurn, FailurePublished, Kinds
  <2>6. ASSUME NEW t \in Tasks, Finish(t) PROVE UNCHANGED budget
    BY <2>6 DEF Finish, PopRun, AfterCallbacks, DrainAfterRun, FinishStep
  <2>. QED BY <2>1, <2>2, <2>3, <2>4, <2>5, <2>6 DEF Next
<1>. QED BY <1>1, <1>2 DEF Spent

LEMMA NoDisturbance ==
  ASSUME Spent
  PROVE  ~Disturbance
BY DEF Spent, Disturbance, Cancel, Crash, CrashInDrain, UpdatePendingInput, Edit, SubmitPending, Attempt, Spend

\* So the instance that chat_served checks has no bound to blame: with any bounds on continuations,
\* questions and resent messages the session strands nothing.
COROLLARY NoneStrandedUndisturbed ==
  ASSUME Undisturbing
  PROVE  Spec => []NoStrandedInput
<1>1. Init => Spent
  BY DEF Init, Undisturbing, Spent
<1>2. TypeOK /\ Spent /\ [Next]_vars => Spent' /\ [~Disturbance]_vars
  BY BudgetStep, NoDisturbance
<1>. QED BY <1>1, <1>2, NoneStranded, TypeCorrect, PTL DEF Spec
=============================================================================
