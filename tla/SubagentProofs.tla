--------------------------- MODULE SubagentProofs ---------------------------
(***************************************************************************)
(* Theorems about SubagentRuns, for any sets of runs, guidance and tasks   *)
(* and any budget.                                                         *)
(***************************************************************************)
EXTENDS SubagentRuns, TLAPS

-----------------------------------------------------------------------------
(* Typing of the operations the actions are built from.                    *)

\* A phase change, a stop and the release of a slot keep the task table well typed.
LEMMA TaskType ==
  ASSUME TypeOK, NEW t \in Tasks
  PROVE  /\ \A p \in TaskPhases : [task EXCEPT ![t].phase = p] \in [Tasks -> Task]
         /\ [task EXCEPT ![t].stop = TRUE] \in [Tasks -> Task]
         /\ [task EXCEPT ![t] = FreeTask] \in [Tasks -> Task]
<1>. USE DEF TypeOK, Task
<1>1. FreeTask \in Task
  BY DEF FreeTask, NewTask, TaskPhases
<1>2. ASSUME NEW p \in TaskPhases
      PROVE  [task EXCEPT ![t].phase = p] \in [Tasks -> Task]
  OBVIOUS
<1>3. [task EXCEPT ![t].stop = TRUE] \in [Tasks -> Task]
  OBVIOUS
<1>4. [task EXCEPT ![t] = FreeTask] \in [Tasks -> Task]
  BY <1>1
<1>. QED BY <1>2, <1>3, <1>4

\* The box operations keep every row well typed.
LEMMA BoxType ==
  ASSUME TypeOK
  PROVE  /\ PauseActive \in [Steers -> Row]
         /\ \A S : \A status \in Editable \cup {"delivered", "cancelled"} :
              Mark(S, status) \in [Steers -> Row]
<1>. USE DEF TypeOK, Row
<1>1. PauseActive \in [Steers -> Row]
  BY DEF PauseActive
<1>2. ASSUME NEW S, NEW status \in Editable \cup {"delivered", "cancelled"}
      PROVE  Mark(S, status) \in [Steers -> Row]
  BY DEF Mark
<1>. QED BY <1>1, <1>2

\* So do the task table and the entry after a start.
LEMMA StartType ==
  ASSUME NEW tk \in [Tasks -> Task], NEW r \in Runs \cup {NoRun}, StartChat(tk, r)
  PROVE  task' \in [Tasks -> Task] /\ entry' \in Tasks \cup {NoTask}
BY DEF StartChat, Task, TaskPhases, NewTask

\* And a drain.
LEMMA DrainType ==
  ASSUME TypeOK, NEW tk \in [Tasks -> Task], Drain(tk)
  PROVE  /\ task' \in [Tasks -> Task]
         /\ entry' \in Tasks \cup {NoTask}
         /\ box' \in [Steers -> Row]
<1>1. CASE task' = tk /\ UNCHANGED <<box, entry>>
  BY <1>1 DEF TypeOK
<1>2. CASE (\E s \in Waiting("queued") : box' = Mark({s}, "delivered")) /\ StartChat(tk, NoRun)
  BY <1>2, BoxType, StartType
<1>. QED BY <1>1, <1>2 DEF Drain

-----------------------------------------------------------------------------
(* Type correctness.                                                       *)

\* The parent's tool calls keep the state well typed.
LEMMA ParentType == TypeOK /\ Parent => TypeOK'
<1>. SUFFICES ASSUME TypeOK, NEW r \in Runs,
                     \/ Create(r) \/ Launch(r) \/ LaunchRefused(r) \/ Reported(r)
                     \/ WaitReturns(r) \/ ParentStops(r) \/ ParentStopped(r)
              PROVE  TypeOK'
  BY DEF Parent
<1>. USE DEF child, Call, CallPhases, Active, Terminal
<1>1. CASE Create(r)
  BY <1>1 DEF Create, TypeOK
<1>2. CASE Launch(r)
  <2>1. task' \in [Tasks -> Task] /\ entry' \in Tasks \cup {NoTask}
    BY <1>2, StartType DEF Launch, TypeOK
  <2>. QED BY <1>2, <2>1 DEF Launch, TypeOK
<1>3. CASE LaunchRefused(r)
  BY <1>3 DEF LaunchRefused, TypeOK
<1>4. CASE Reported(r)
  BY <1>4 DEF Reported, TypeOK
<1>5. CASE WaitReturns(r)
  BY <1>5 DEF WaitReturns, TypeOK
<1>6. CASE ParentStops(r)
  BY <1>6 DEF ParentStops, TypeOK, Spend, Kinds
<1>7. CASE ParentStopped(r)
  BY <1>7 DEF ParentStopped, TypeOK
<1>. QED BY <1>1, <1>2, <1>3, <1>4, <1>5, <1>6, <1>7

\* So do the controls.
LEMMA ControlType == TypeOK /\ Control => TypeOK'
<1>. USE DEF child, Hold, Active, Terminal
<1>1. ASSUME TypeOK, NEW r \in Runs, NEW s \in Steers, SteerPending(r, s)
      PROVE  TypeOK'
  <2>1. ASSUME NEW status \in Editable, Submit(s, status, r)
        PROVE  box' \in [Steers -> Row]
    BY <1>1, <2>1 DEF Submit, TypeOK, Row
  <2>2. box' \in [Steers -> Row] /\ draining' \subseteq Steers
    BY <1>1, <2>1 DEF SteerPending, TypeOK, Editable
  <2>. QED BY <1>1, <2>2 DEF SteerPending, TypeOK
<1>2. ASSUME TypeOK, NEW r \in Runs, NEW s \in Steers, SteerDirect(r, s)
      PROVE  TypeOK'
  <2>1. task' \in [Tasks -> Task] /\ entry' \in Tasks \cup {NoTask}
    BY <1>2, StartType DEF SteerDirect, TypeOK
  <2>. QED BY <1>2, <2>1 DEF SteerDirect, TypeOK
<1>3. ASSUME TypeOK, NEW r \in Runs, NEW s \in Steers, SteerReturns(r, s)
      PROVE  TypeOK'
  BY <1>3, BoxType DEF SteerReturns, TypeOK
<1>4. ASSUME TypeOK, NEW s \in Steers, SteerDrains(s)
      PROVE  TypeOK'
  <2>1. /\ task' \in [Tasks -> Task] /\ entry' \in Tasks \cup {NoTask}
        /\ box' \in [Steers -> Row]
    BY <1>4, DrainType DEF SteerDrains, TypeOK
  <2>. QED BY <1>4, <2>1 DEF SteerDrains, TypeOK
<1>5. ASSUME TypeOK, NEW r \in Runs, CancelLive(r)
      PROVE  TypeOK'
  <2>1. budget' \in [Kinds -> Nat]
    BY <1>5 DEF CancelLive, CancelAsked, Spend, Kinds, TypeOK
  <2>2. task' \in [Tasks -> Task]
    BY <1>5, TaskType DEF CancelLive, Live, TypeOK
  <2>. QED BY <1>5, <2>1, <2>2, BoxType DEF CancelLive, TypeOK
<1>6. ASSUME TypeOK, NEW r \in Runs, CancelIdle(r)
      PROVE  TypeOK'
  <2>1. budget' \in [Kinds -> Nat]
    BY <1>6 DEF CancelIdle, CancelAsked, Spend, Kinds, TypeOK
  <2>. QED BY <1>6, <2>1, BoxType DEF CancelIdle, TypeOK
<1>7. ASSUME TypeOK, NEW r \in Runs, CancelCommits(r)
      PROVE  TypeOK'
  BY <1>7 DEF CancelCommits, TypeOK
<1>8. ASSUME TypeOK, NEW r \in Runs, Told(r)
      PROVE  TypeOK'
  <2>1. task' \in [Tasks -> Task]
    BY <1>8 DEF Told, TypeOK, Task, TaskPhases
  <2>. QED BY <1>8, <2>1 DEF Told, TypeOK
<1>. QED BY <1>1, <1>2, <1>3, <1>4, <1>5, <1>6, <1>7, <1>8 DEF Control

\* So does the child's turn.
LEMMA TurnType == TypeOK /\ Turn => TypeOK'
<1>. SUFFICES ASSUME TypeOK, NEW t \in Tasks,
                     \/ ClaimSteers(t) \/ EndTurn(t) \/ PopRun(t) \/ NothingToReport(t)
                     \/ Report(t) \/ Convert(t) \/ DrainAfterRun(t)
              PROVE  TypeOK'
  BY DEF Turn
<1>0. \A p \in TaskPhases : [task EXCEPT ![t].phase = p] \in [Tasks -> Task]
  BY TaskType
<1>a. [task EXCEPT ![t] = FreeTask] \in [Tasks -> Task]
  BY TaskType
<1>. USE DEF TurnStep, At
<1>1. CASE ClaimSteers(t)
  BY <1>1, BoxType DEF ClaimSteers, TypeOK, Waiting
<1>2. CASE EndTurn(t)
  BY <1>2, <1>0 DEF EndTurn, TypeOK, Become, TaskPhases
<1>3. CASE PopRun(t)
  BY <1>3, <1>0, <1>a DEF PopRun, TypeOK, Become, TaskPhases
<1>4. CASE NothingToReport(t)
  BY <1>4, <1>0 DEF NothingToReport, TypeOK, Become, TaskPhases
<1>5. CASE Report(t)
  BY <1>5, <1>0 DEF Report, TypeOK, Become, TaskPhases, Hold, Terminal
<1>6. CASE Convert(t)
  BY <1>6, <1>0, <1>a, BoxType DEF Convert, TypeOK, Become, TaskPhases, Editable
<1>7. CASE DrainAfterRun(t)
  <2>1. /\ task' \in [Tasks -> Task] /\ entry' \in Tasks \cup {NoTask}
        /\ box' \in [Steers -> Row]
    BY <1>7, <1>a, DrainType DEF DrainAfterRun
  <2>. QED BY <1>7, <2>1 DEF DrainAfterRun, TypeOK
<1>. QED BY <1>1, <1>2, <1>3, <1>4, <1>5, <1>6, <1>7

\* So do a crash and a restart.
LEMMA ProcessType == TypeOK /\ (Crash \/ Restart) => TypeOK'
<1>1. ASSUME TypeOK, Crash
      PROVE  TypeOK'
  <2>1. task' \in [Tasks -> Task]
    BY <1>1 DEF Crash, Task, TaskPhases, FreeTask, NewTask
  <2>2. caller' \in [Runs -> CallPhases]
    BY <1>1 DEF Crash, CallPhases
  <2>3. budget' \in [Kinds -> Nat]
    BY <1>1 DEF Crash, TypeOK, Spend, Kinds
  <2>. QED BY <1>1, <2>1, <2>2, <2>3 DEF Crash, TypeOK
<1>2. ASSUME TypeOK, Restart
      PROVE  TypeOK'
  BY <1>2, BoxType DEF Restart, TypeOK, Terminal
<1>. QED BY <1>1, <1>2

LEMMA InitType == Init => TypeOK
BY LimitAssumption DEF Init, TypeOK, CallPhases, Task, TaskPhases, FreeTask, NewTask, Row, NoRow

LEMMA StepType == TypeOK /\ [Next]_vars => TypeOK'
<1>1. TypeOK /\ UNCHANGED vars => TypeOK'
  BY DEF TypeOK, vars
<1>. QED BY <1>1, ParentType, ControlType, TurnType, ProcessType DEF Next

\* Every reachable state of the sub-agent runtime is well typed.
THEOREM TypeCorrect == Spec => []TypeOK
BY InitType, StepType, PTL DEF Spec

-----------------------------------------------------------------------------
(* The life of a run.                                                      *)

Started(r) == state[r] \notin {"none", "queued"}

\* A task belongs to no run or to one that has started.
OwnersStarted == \A t \in Tasks : task[t].owner # NoRun => Started(task[t].owner)

\* A run whose caller is about to launch it exists.
CalledExists == \A r \in Runs : caller[r] = "announcing" => state[r] # "none"

\* The instance has at most one run that has not ended.
OneActive == \A q, r \in Runs : IsActive(q) /\ IsActive(r) => q = r

\* A start keeps every task but the new one, which belongs to the run it was started for.
LEMMA StartOwner ==
  ASSUME NEW tk \in [Tasks -> Task], NEW r \in Runs \cup {NoRun}, StartChat(tk, r)
  PROVE  \A t \in Tasks : task'[t] = tk[t] \/ task'[t] = NewTask("turn", r)
BY DEF StartChat

\* The owner of a task changes only when its slot is freed or reused, and what is started
\* belongs to no run or to one that has started.
LEMMA OwnerStep ==
  ASSUME TypeOK, CalledExists, Next
  PROVE  \A t \in Tasks : \/ task'[t].owner \in {task[t].owner, NoRun}
                          \/ Started(task[t].owner)'
<1>. DEFINE Same == \A t \in Tasks : task'[t].owner \in {task[t].owner, NoRun}
            New(r) == \A t \in Tasks : \/ task'[t].owner \in {task[t].owner, NoRun}
                                       \/ task'[t].owner = r
<1>. USE DEF Started
<1>a. \A t \in Tasks : [task EXCEPT ![t] = FreeTask] \in [Tasks -> Task]
  BY TaskType
<1>b. ASSUME NEW r \in Runs \cup {NoRun}, StartChat(task, r)
      PROVE  New(r)
  <2>1. \A t \in Tasks : task'[t] = task[t] \/ task'[t] = NewTask("turn", r)
    BY <1>b, StartOwner DEF TypeOK
  <2>. QED BY <2>1 DEF NewTask
<1>c. ASSUME NEW tk \in [Tasks -> Task], Drain(tk),
             \A t \in Tasks : tk[t].owner \in {task[t].owner, NoRun}
      PROVE  Same
  <2>1. CASE task' = tk
    BY <1>c, <2>1
  <2>2. CASE StartChat(tk, NoRun)
    <3>1. \A t \in Tasks : task'[t] = tk[t] \/ task'[t] = NewTask("turn", NoRun)
      BY <2>2, StartOwner
    <3>. QED BY <1>c, <3>1 DEF NewTask
  <2>. QED BY <1>c, <2>1, <2>2 DEF Drain
<1>1. ASSUME NEW r \in Runs, Launch(r)
      PROVE  New(r) /\ Started(r)'
  <2>1. New(r)
    BY <1>1, <1>b DEF Launch
  <2>2. Started(r)'
    BY <1>1 DEF Launch, TypeOK, CalledExists
  <2>. QED BY <2>1, <2>2
<1>2. ASSUME NEW r \in Runs, NEW s \in Steers, SteerDirect(r, s)
      PROVE  New(r) /\ Started(r)'
  <2>1. New(r)
    BY <1>2, <1>b DEF SteerDirect
  <2>2. Started(r)'
    BY <1>2 DEF SteerDirect
  <2>. QED BY <2>1, <2>2
<1>3. ASSUME NEW s \in Steers, SteerDrains(s)
      PROVE  Same
  BY <1>3, <1>c DEF SteerDrains, TypeOK
<1>4. ASSUME NEW t \in Tasks, DrainAfterRun(t)
      PROVE  Same
  BY <1>4, <1>a, <1>c DEF DrainAfterRun, FreeTask, NewTask, TypeOK
<1>5. ASSUME UNCHANGED task
      PROVE  Same
  BY <1>5
<1>6. ASSUME NEW r \in Runs,
             \/ Create(r) \/ LaunchRefused(r) \/ Reported(r) \/ WaitReturns(r)
             \/ ParentStops(r) \/ ParentStopped(r) \/ CancelIdle(r) \/ CancelCommits(r)
             \/ \E s \in Steers : SteerPending(r, s) \/ SteerReturns(r, s)
      PROVE  UNCHANGED task
  BY <1>6 DEF Create, LaunchRefused, Reported, WaitReturns, ParentStops, ParentStopped,
              CancelIdle, CancelCommits, SteerPending, SteerReturns, child
<1>7. ASSUME NEW r \in Runs, CancelLive(r) \/ Told(r)
      PROVE  Same
  BY <1>7 DEF CancelLive, Told, TypeOK, Task
<1>8. ASSUME NEW t \in Tasks,
             \/ ClaimSteers(t) \/ EndTurn(t) \/ PopRun(t) \/ NothingToReport(t)
             \/ Report(t) \/ Convert(t)
      PROVE  Same
  BY <1>8 DEF ClaimSteers, EndTurn, PopRun, NothingToReport, Report, Convert, Become,
              FreeTask, NewTask, TypeOK, Task
<1>9. ASSUME Crash \/ Restart
      PROVE  Same
  <2>1. CASE Crash
    BY <2>1 DEF Crash, FreeTask, NewTask
  <2>2. CASE Restart
    BY <2>2 DEF Restart
  <2>. QED BY <1>9, <2>1, <2>2
<1>10. CASE Parent
  <2>1. (\E r \in Runs : New(r) /\ Started(r)') \/ Same
    BY <1>10, <1>1, <1>5, <1>6 DEF Parent
  <2>. QED BY <2>1
<1>11. CASE Control
  <2>1. (\E r \in Runs : New(r) /\ Started(r)') \/ Same
    BY <1>11, <1>2, <1>3, <1>5, <1>6, <1>7 DEF Control
  <2>. QED BY <2>1
<1>12. CASE Turn
  <2>1. Same
    BY <1>12, <1>4, <1>8 DEF Turn
  <2>. QED BY <2>1
<1>13. CASE Crash \/ Restart
  BY <1>9, <1>13
<1>. QED BY <1>10, <1>11, <1>12, <1>13 DEF Next

\* Every step of the runtime is a step of SubagentLifecycle or leaves the runs alone.
LEMMA LifeStep ==
  ASSUME TypeOK, OwnersStarted, OneActive, [Next]_vars
  PROVE  [Lifecycle!Next]_state
<1>. USE DEF IsActive, IsTerminal, Active, Terminal, Lifecycle!Active, Lifecycle!Terminal,
             Lifecycle!Become
<1>1. ASSUME NEW r \in Runs, Create(r)
      PROVE  Lifecycle!Queue(r)
  BY <1>1 DEF Create, Lifecycle!Queue
<1>2. ASSUME NEW r \in Runs, Launch(r)
      PROVE  Lifecycle!Start(r) \/ UNCHANGED state
  BY <1>2 DEF Launch, Lifecycle!Start
<1>3. ASSUME NEW r \in Runs, LaunchRefused(r)
      PROVE  Lifecycle!End(r, "failed") \/ UNCHANGED state
  BY <1>3 DEF LaunchRefused, Lifecycle!End
<1>4. ASSUME NEW r \in Runs, CancelIdle(r) \/ CancelCommits(r)
      PROVE  Lifecycle!End(r, "cancelled") \/ UNCHANGED state
  BY <1>4 DEF CancelIdle, CancelCommits, Lifecycle!End
<1>5. ASSUME NEW t \in Tasks, Report(t)
      PROVE  \E r \in Runs, s \in Terminal : Lifecycle!End(r, s)
  <2>. DEFINE r == task[t].owner
  <2>1. r \in Runs /\ state[r] = "running"
    BY <1>5 DEF Report, TypeOK, Task, OwnersStarted, Started
  <2>2. PICK s \in Terminal : state' = [state EXCEPT ![r] = s]
    BY <1>5 DEF Report
  <2>. QED BY <2>1, <2>2 DEF Lifecycle!End
<1>6. ASSUME Restart
      PROVE  (\E r \in Runs : Lifecycle!End(r, "interrupted")) \/ UNCHANGED state
  <2>1. CASE \A r \in Runs : ~IsActive(r)
    BY <1>6, <2>1 DEF Restart, TypeOK
  <2>2. ASSUME NEW r \in Runs, IsActive(r)
        PROVE  Lifecycle!End(r, "interrupted")
    <3>1. \A q \in Runs : q # r => ~IsActive(q)
      BY <2>2 DEF OneActive
    <3>2. state' = [state EXCEPT ![r] = "interrupted"]
      BY <1>6, <2>2, <3>1 DEF Restart, TypeOK
    <3>. QED BY <2>2, <3>2 DEF Lifecycle!End
  <2>. QED BY <2>1, <2>2
<1>7. ASSUME NEW r \in Runs,
             \/ Reported(r) \/ WaitReturns(r) \/ ParentStops(r) \/ ParentStopped(r)
             \/ CancelLive(r) \/ Told(r)
             \/ \E s \in Steers : SteerPending(r, s) \/ SteerDirect(r, s) \/ SteerReturns(r, s)
      PROVE  UNCHANGED state
  BY <1>7 DEF Reported, WaitReturns, ParentStops, ParentStopped, CancelLive, Told,
              SteerPending, SteerDirect, SteerReturns
<1>8. ASSUME NEW t \in Tasks,
             \/ ClaimSteers(t) \/ EndTurn(t) \/ PopRun(t) \/ NothingToReport(t)
             \/ Convert(t) \/ DrainAfterRun(t)
      PROVE  UNCHANGED state
  BY <1>8 DEF ClaimSteers, EndTurn, PopRun, NothingToReport, Convert, DrainAfterRun
<1>9. (\E s \in Steers : SteerDrains(s)) \/ Crash \/ UNCHANGED vars => UNCHANGED state
  BY DEF SteerDrains, Crash, vars
<1>10. CASE Parent
  BY <1>10, <1>1, <1>2, <1>3, <1>7 DEF Parent, Lifecycle!Next
<1>11. CASE Control
  BY <1>11, <1>4, <1>7, <1>9 DEF Control, Lifecycle!Next
<1>12. CASE Turn
  BY <1>12, <1>5, <1>8 DEF Turn, Lifecycle!Next
<1>. QED BY <1>6, <1>9, <1>10, <1>11, <1>12 DEF Next, Lifecycle!Next

\* What such a step may do to a run: it never goes back, and never leaves an end.
LEMMA LifeOnly ==
  ASSUME TypeOK, [Lifecycle!Next]_state
  PROVE  /\ OneActive => OneActive'
         /\ \A r \in Runs : Started(r) => Started(r)'
         /\ \A r \in Runs : IsTerminal(r) => state'[r] = state[r]
<1>. USE DEF TypeOK, OneActive, Started, IsActive, IsTerminal, Active, Terminal,
             Lifecycle!Active, Lifecycle!Terminal, Lifecycle!Become
<1>1. CASE UNCHANGED state
  BY <1>1
<1>2. ASSUME NEW r \in Runs, Lifecycle!Queue(r) \/ Lifecycle!Start(r)
      PROVE  /\ OneActive => OneActive'
             /\ \A q \in Runs : Started(q) => Started(q)'
             /\ \A q \in Runs : IsTerminal(q) => state'[q] = state[q]
  BY <1>2 DEF Lifecycle!Queue, Lifecycle!Start
<1>3. ASSUME NEW r \in Runs, NEW s \in Terminal, Lifecycle!End(r, s)
      PROVE  /\ OneActive => OneActive'
             /\ \A q \in Runs : Started(q) => Started(q)'
             /\ \A q \in Runs : IsTerminal(q) => state'[q] = state[q]
  BY <1>3 DEF Lifecycle!End
<1>. QED BY <1>1, <1>2, <1>3 DEF Lifecycle!Next

\* Only Create makes a call announce its run; a run that exists does not vanish.
LEMMA CallerStep ==
  ASSUME TypeOK, CalledExists, Next
  PROVE  CalledExists'
<1>. USE DEF CalledExists, TypeOK, Active, Terminal
<1>1. ASSUME NEW r \in Runs,
             \/ Create(r) \/ Launch(r) \/ LaunchRefused(r) \/ Reported(r)
             \/ WaitReturns(r) \/ ParentStops(r) \/ ParentStopped(r)
      PROVE  CalledExists'
  BY <1>1 DEF Create, Launch, LaunchRefused, Reported, WaitReturns, ParentStops, ParentStopped,
              Call
<1>2. CASE Control
  BY <1>2 DEF Control, CancelLive, CancelIdle, CancelCommits, Told, SteerPending, SteerDirect,
              SteerReturns, SteerDrains, IsActive
<1>3. CASE Turn
  <2>1. UNCHANGED caller /\ \A r \in Runs : state[r] # "none" => state'[r] # "none"
    BY <1>3 DEF Turn, TurnStep, ClaimSteers, EndTurn, PopRun, NothingToReport, Report, Convert,
                DrainAfterRun
  <2>. QED BY <2>1
<1>4. CASE Crash
  BY <1>4 DEF Crash
<1>5. CASE Restart
  BY <1>5 DEF Restart
<1>. QED BY <1>1, <1>2, <1>3, <1>4, <1>5 DEF Next, Parent

LifeInv == OwnersStarted /\ CalledExists /\ OneActive

LEMMA LifeInit == Init => LifeInv
BY DEF Init, LifeInv, OwnersStarted, CalledExists, OneActive, IsActive, Active, FreeTask, NewTask

LEMMA LifeInvStep == TypeOK /\ LifeInv /\ [Next]_vars => LifeInv'
<1>. SUFFICES ASSUME TypeOK, OwnersStarted, CalledExists, OneActive, [Next]_vars
              PROVE  LifeInv'
  BY DEF LifeInv
<1>0. [Lifecycle!Next]_state
  BY LifeStep
<1>1. OneActive'
  BY <1>0, LifeOnly
<1>2. CASE UNCHANGED vars
  BY <1>1, <1>2 DEF LifeInv, OwnersStarted, CalledExists, Started, vars
<1>3. CASE Next
  <2>1. \A t \in Tasks : task[t].owner \in Runs \cup {NoRun}
    BY DEF TypeOK, Task
  <2>2. \A t \in Tasks : \/ task'[t].owner \in {task[t].owner, NoRun}
                         \/ Started(task[t].owner)'
    BY <1>3, OwnerStep
  <2>3. \A r \in Runs : Started(r) => Started(r)'
    BY <1>0, LifeOnly
  <2>5. CalledExists'
    BY <1>3, CallerStep
  <2>4. ASSUME NEW t \in Tasks, task'[t].owner # NoRun
        PROVE  Started(task[t].owner)'
    <3>1. CASE task'[t].owner = task[t].owner
      BY <2>1, <2>3, <2>4, <3>1 DEF OwnersStarted, Started
    <3>. QED BY <2>2, <2>4, <3>1
  <2>. QED BY <1>1, <2>4, <2>5 DEF LifeInv, OwnersStarted
<1>. QED BY <1>2, <1>3

LEMMA LifeInvariant == Spec => []LifeInv
BY LifeInit, LifeInvStep, TypeCorrect, PTL DEF Spec

\* The runtime implements SubagentLifecycle: one active run of the instance, ends that are
\* final, completion of started runs only (transition_run, resume, handle_chat_finished).
THEOREM Implements == Spec => ImplementsLifecycle
<1>1. Init => Lifecycle!Init
  BY DEF Init, Lifecycle!Init
<1>2. TypeOK /\ LifeInv /\ [Next]_vars => [Lifecycle!Next]_state
  BY LifeStep DEF LifeInv
<1>. QED
  BY <1>1, <1>2, TypeCorrect, LifeInvariant, PTL DEF Spec, Lifecycle!Spec, ImplementsLifecycle

-----------------------------------------------------------------------------
(* What an ended run leaves in the box.                                    *)

\* A stopped task belongs to no run, to one that is being cancelled or to one that has ended.
StoppedOwners ==
  \A t \in Tasks : task[t].stop => \/ task[t].owner = NoRun
                                   \/ lock[task[t].owner] = "stopping"
                                   \/ IsTerminal(task[t].owner)

\* The box is already on hold while a run is being cancelled.
HeldEarly ==
  \A r \in Runs : (lock[r] = "stopping" \/ state[r] \in {"cancelled", "interrupted"})
                    => HoldsInputs(r)

HoldInv == StoppedOwners /\ HeldEarly

\* Only a cancellation stops a task, and it stops the live one.
LEMMA StopStep ==
  ASSUME TypeOK, Next
  PROVE  \A t \in Tasks : task'[t].stop =>
           /\ task'[t].owner = task[t].owner
           /\ ~task[t].stop => t = entry /\ \E r \in Runs : CancelLive(r)
<1>. DEFINE Same == \A t \in Tasks : task'[t].stop =>
                                       task'[t].owner = task[t].owner /\ task[t].stop
<1>a. ASSUME NEW tk \in [Tasks -> Task], NEW r \in Runs \cup {NoRun}, StartChat(tk, r),
             \A t \in Tasks : tk[t].stop => tk[t].owner = task[t].owner /\ task[t].stop
      PROVE  Same
  <2>1. \A t \in Tasks : task'[t] = tk[t] \/ task'[t] = NewTask("turn", r)
    BY <1>a, StartOwner
  <2>. QED BY <1>a, <2>1 DEF NewTask
<1>b. ASSUME NEW tk \in [Tasks -> Task], Drain(tk),
             \A t \in Tasks : tk[t].stop => tk[t].owner = task[t].owner /\ task[t].stop
      PROVE  Same
  <2>1. CASE task' = tk
    BY <1>b, <2>1
  <2>2. CASE StartChat(tk, NoRun)
    BY <1>a, <1>b, <2>2
  <2>. QED BY <1>b, <2>1, <2>2 DEF Drain
<1>1. ASSUME NEW r \in Runs, Launch(r) \/ \E s \in Steers : SteerDirect(r, s)
      PROVE  Same
  <2>1. StartChat(task, r)
    BY <1>1 DEF Launch, SteerDirect
  <2>. QED BY <1>a, <2>1 DEF TypeOK
<1>2. ASSUME NEW s \in Steers, SteerDrains(s)
      PROVE  Same
  BY <1>2, <1>b DEF SteerDrains, TypeOK
<1>3. ASSUME NEW t \in Tasks, DrainAfterRun(t)
      PROVE  Same
  <2>1. [task EXCEPT ![t] = FreeTask] \in [Tasks -> Task]
    BY TaskType
  <2>. QED BY <1>3, <1>b, <2>1 DEF DrainAfterRun, FreeTask, NewTask, TypeOK
<1>4. ASSUME NEW r \in Runs,
             \/ Create(r) \/ LaunchRefused(r) \/ Reported(r) \/ WaitReturns(r)
             \/ ParentStops(r) \/ ParentStopped(r) \/ CancelIdle(r) \/ CancelCommits(r)
             \/ \E s \in Steers : SteerPending(r, s) \/ SteerReturns(r, s)
      PROVE  Same
  <2>1. UNCHANGED task
    BY <1>4 DEF Create, LaunchRefused, Reported, WaitReturns, ParentStops, ParentStopped,
                CancelIdle, CancelCommits, SteerPending, SteerReturns, child
  <2>. QED BY <2>1
<1>5. ASSUME NEW r \in Runs, Told(r)
      PROVE  Same
  BY <1>5 DEF Told, TypeOK, Task
<1>6. ASSUME NEW t \in Tasks,
             \/ ClaimSteers(t) \/ EndTurn(t) \/ PopRun(t) \/ NothingToReport(t)
             \/ Report(t) \/ Convert(t)
      PROVE  Same
  BY <1>6 DEF ClaimSteers, EndTurn, PopRun, NothingToReport, Report, Convert, Become,
              FreeTask, NewTask, TypeOK, Task
<1>7. CASE Crash \/ Restart
  <2>1. CASE Crash
    BY <2>1 DEF Crash, FreeTask, NewTask
  <2>2. CASE Restart
    BY <2>2 DEF Restart
  <2>. QED BY <1>7, <2>1, <2>2
<1>8. ASSUME NEW r \in Runs, CancelLive(r)
      PROVE  \A t \in Tasks : task'[t].stop => task'[t].owner = task[t].owner
                                               /\ (~task[t].stop => t = entry)
  BY <1>8 DEF CancelLive, TypeOK, Task
<1>9. CASE Parent
  <2>1. Same
    BY <1>9, <1>1, <1>4 DEF Parent
  <2>. QED BY <2>1
<1>10. CASE Control
  <2>1. Same \/ \E r \in Runs : CancelLive(r)
    BY <1>10, <1>1, <1>2, <1>4, <1>5 DEF Control
  <2>. QED BY <1>8, <2>1
<1>11. CASE Turn
  <2>1. Same
    BY <1>11, <1>3, <1>6 DEF Turn
  <2>. QED BY <2>1
<1>. QED BY <1>7, <1>9, <1>10, <1>11 DEF Next

\* The lock of a run that is being cancelled is given back when the run has ended.
LEMMA StoppingStep ==
  ASSUME TypeOK, Next, NEW r \in Runs, lock[r] = "stopping", Started(r), ~Crash
  PROVE  lock'[r] = "stopping" \/ IsTerminal(r)'
<1>. USE DEF TypeOK, Hold
<1>1. CASE Parent
  BY <1>1 DEF Parent, Create, Launch, LaunchRefused, Reported, WaitReturns, ParentStops,
              ParentStopped
<1>2. CASE Control
  <2>1. ASSUME NEW q \in Runs, CancelCommits(q)
        PROVE  lock'[r] = "stopping" \/ IsTerminal(r)'
    BY <2>1 DEF CancelCommits, IsActive, IsTerminal, Active, Terminal, Started
  <2>2. ASSUME NEW q \in Runs, Told(q) \/ CancelLive(q) \/ CancelIdle(q)
        PROVE  lock'[r] = "stopping"
    BY <2>2 DEF Told, CancelLive, CancelIdle
  <2>3. ASSUME NEW q \in Runs, NEW s \in Steers,
               SteerPending(q, s) \/ SteerDirect(q, s) \/ SteerReturns(q, s)
        PROVE  lock'[r] = "stopping"
    BY <2>3, SteerAssumption DEF SteerPending, SteerDirect, SteerReturns
  <2>4. ASSUME NEW s \in Steers, SteerDrains(s)
        PROVE  lock'[r] = "stopping"
    BY <2>4 DEF SteerDrains
  <2>. QED BY <1>2, <2>1, <2>2, <2>3, <2>4 DEF Control
<1>3. CASE Turn
  BY <1>3 DEF Turn, ClaimSteers, EndTurn, PopRun, NothingToReport, Report, Convert,
              DrainAfterRun
<1>4. CASE Restart
  BY <1>4 DEF Restart
<1>. QED BY <1>1, <1>2, <1>3, <1>4 DEF Next

LEMMA StoppedStep ==
  ASSUME TypeOK, TypeOK', LifeInv, StoppedOwners, Next
  PROVE  StoppedOwners'
<1>1. CASE Crash
  BY <1>1 DEF Crash, StoppedOwners, FreeTask, NewTask
<1>2. ASSUME ~Crash, NEW t \in Tasks, task'[t].stop, task'[t].owner # NoRun
      PROVE  lock'[task'[t].owner] = "stopping" \/ IsTerminal(task[t].owner)'
  <2>. DEFINE r == task[t].owner
  <2>1. task'[t].owner = r
    BY <1>2, StopStep
  <2>2. r \in Runs /\ Started(r)
    BY <1>2, <2>1 DEF LifeInv, OwnersStarted, TypeOK, Task
  <2>3. \A q \in Runs : IsTerminal(q) => state'[q] = state[q]
    BY LifeStep, LifeOnly DEF LifeInv
  <2>4. CASE task[t].stop
    <3>1. CASE lock[r] = "stopping"
      BY <1>2, <2>1, <2>2, <3>1, StoppingStep DEF IsTerminal
    <3>2. CASE IsTerminal(r)
      BY <2>1, <2>2, <2>3, <3>2 DEF IsTerminal
    <3>. QED BY <1>2, <2>1, <2>4, <3>1, <3>2 DEF StoppedOwners
  <2>5. CASE ~task[t].stop
    <3>1. PICK q \in Runs : CancelLive(q)
      BY <1>2, <2>5, StopStep
    <3>2. CASE q = r
      BY <2>1, <3>1, <3>2 DEF CancelLive, Hold, TypeOK
    <3>3. CASE q # r
      <4>1. ~IsActive(r)
        BY <2>2, <3>1, <3>3 DEF CancelLive, LifeInv, OneActive
      <4>2. IsTerminal(r)
        BY <2>2, <4>1 DEF IsActive, IsTerminal, Active, Terminal, Started, TypeOK
      <4>. QED BY <2>1, <2>2, <2>3, <4>2 DEF IsTerminal
    <3>. QED BY <3>2, <3>3
  <2>. QED BY <2>4, <2>5
<1>3. CASE ~Crash
  BY <1>2, <1>3 DEF StoppedOwners
<1>. QED BY <1>1, <1>3

\* Pausing the box holds everything in it; moving rows on keeps it held.
LEMMA BoxHolds ==
  ASSUME TypeOK, NEW r \in Runs
  PROVE  /\ box' = PauseActive => HoldsInputs(r)'
         /\ HoldsInputs(r) => \A S, status :
              (status \notin Editable \/ S = Waiting("pending_steer")) /\ box' = Mark(S, status)
                => HoldsInputs(r)'
<1>. USE DEF TypeOK, Row, HoldsInputs
<1>1. ASSUME box' = PauseActive
      PROVE  HoldsInputs(r)'
  BY <1>1 DEF PauseActive
<1>2. ASSUME HoldsInputs(r), NEW S, NEW status, status \notin Editable, box' = Mark(S, status)
      PROVE  HoldsInputs(r)'
  BY <1>2 DEF Mark
<1>3. ASSUME HoldsInputs(r), NEW status, box' = Mark(Waiting("pending_steer"), status)
      PROVE  HoldsInputs(r)'
  BY <1>3 DEF Mark, Waiting, Editable
<1>. QED BY <1>1, <1>2, <1>3

\* Only a steer of the run itself brings the box something for it.
LEMMA KeepsHeld ==
  ASSUME TypeOK, Next, NEW r \in Runs, HoldsInputs(r)
  PROVE  HoldsInputs(r)' \/ \E s \in Steers : SteerPending(r, s)
<1>a. ASSUME UNCHANGED box
      PROVE  HoldsInputs(r)'
  BY <1>a DEF HoldsInputs
<1>b. ASSUME NEW tk, Drain(tk)
      PROVE  HoldsInputs(r)'
  <2>1. ASSUME NEW s \in Steers, box' = Mark({s}, "delivered")
        PROVE  HoldsInputs(r)'
    BY <2>1, BoxHolds DEF Editable
  <2>. QED BY <1>a, <1>b, <2>1 DEF Drain, Waiting
<1>1. CASE Parent
  BY <1>1, <1>a DEF Parent, Create, Launch, LaunchRefused, Reported, WaitReturns, ParentStops,
                    ParentStopped, child
<1>2. ASSUME NEW q \in Runs, NEW s \in Steers, SteerPending(q, s), q # r
      PROVE  HoldsInputs(r)'
  BY <1>2 DEF SteerPending, Submit, HoldsInputs, TypeOK, Row
<1>3. ASSUME NEW q \in Runs, NEW s \in Steers, SteerDirect(q, s) \/ SteerReturns(q, s)
      PROVE  HoldsInputs(r)'
  BY <1>3, <1>a, BoxHolds DEF SteerDirect, SteerReturns, Editable
<1>4. ASSUME NEW s \in Steers, SteerDrains(s)
      PROVE  HoldsInputs(r)'
  BY <1>4, <1>b DEF SteerDrains
<1>5. ASSUME NEW q \in Runs, CancelLive(q) \/ CancelIdle(q) \/ CancelCommits(q) \/ Told(q)
      PROVE  HoldsInputs(r)'
  BY <1>5, <1>a, BoxHolds DEF CancelLive, CancelIdle, CancelCommits, Told, child
<1>6. ASSUME NEW t \in Tasks,
             \/ EndTurn(t) \/ PopRun(t) \/ NothingToReport(t) \/ Report(t)
      PROVE  HoldsInputs(r)'
  BY <1>6, <1>a DEF EndTurn, PopRun, NothingToReport, Report
<1>7. ASSUME NEW t \in Tasks, ClaimSteers(t) \/ Convert(t)
      PROVE  HoldsInputs(r)'
  BY <1>7, <1>a, BoxHolds DEF ClaimSteers, Convert
<1>8. ASSUME NEW t \in Tasks, DrainAfterRun(t)
      PROVE  HoldsInputs(r)'
  BY <1>8, <1>b DEF DrainAfterRun
<1>9. CASE Crash \/ Restart
  BY <1>9, <1>a, BoxHolds DEF Crash, Restart
<1>10. CASE Control
  BY <1>10, <1>2, <1>3, <1>4, <1>5 DEF Control
<1>11. CASE Turn
  BY <1>11, <1>6, <1>7, <1>8 DEF Turn
<1>. QED BY <1>1, <1>9, <1>10, <1>11 DEF Next

\* A run comes under a cancellation, or ends cancelled or interrupted, in a step that holds
\* the box, or is under a cancellation already.
LEMMA HeldFirst ==
  ASSUME TypeOK, LifeInv, HoldInv, Next, NEW r \in Runs,
         lock'[r] = "stopping" \/ state'[r] \in {"cancelled", "interrupted"}
  PROVE  HoldsInputs(r) \/ HoldsInputs(r)'
<1>. DEFINE Was == lock[r] = "stopping" \/ state[r] \in {"cancelled", "interrupted"}
<1>0. Was => HoldsInputs(r)
  BY DEF HoldInv, HeldEarly
<1>. USE DEF TypeOK, Hold
<1>1. CASE Parent
  <2>1. Was
    BY <1>1 DEF Parent, Create, Launch, LaunchRefused, Reported, WaitReturns, ParentStops,
                ParentStopped
  <2>. QED BY <1>0, <2>1
<1>2. CASE Control
  <2>1. ASSUME NEW q \in Runs, CancelLive(q) \/ CancelIdle(q)
        PROVE  HoldsInputs(r)'
    BY <2>1, BoxHolds DEF CancelLive, CancelIdle
  <2>2. ASSUME NEW q \in Runs, CancelCommits(q) \/ Told(q)
        PROVE  Was
    BY <2>2 DEF CancelCommits, Told
  <2>3. ASSUME NEW q \in Runs, NEW s \in Steers,
               SteerPending(q, s) \/ SteerDirect(q, s) \/ SteerReturns(q, s)
        PROVE  Was
    BY <2>3, SteerAssumption DEF SteerPending, SteerDirect, SteerReturns
  <2>4. ASSUME NEW s \in Steers, SteerDrains(s)
        PROVE  Was
    BY <2>4 DEF SteerDrains
  <2>. QED BY <1>0, <1>2, <2>1, <2>2, <2>3, <2>4 DEF Control
<1>3. CASE Turn
  <2>1. ASSUME NEW t \in Tasks, Report(t)
        PROVE  Was
    <3>1. task[t].owner \in Runs /\ task[t].owner # NoRun
      BY <2>1, RunAssumption DEF Report, Task
    <3>2. ~task[t].stop
      BY <2>1, <3>1 DEF Report, HoldInv, StoppedOwners, IsActive, IsTerminal, Active, Terminal
    <3>. QED BY <2>1, <3>1, <3>2 DEF Report
  <2>2. ASSUME NEW t \in Tasks,
               \/ ClaimSteers(t) \/ EndTurn(t) \/ PopRun(t) \/ NothingToReport(t)
               \/ Convert(t) \/ DrainAfterRun(t)
        PROVE  Was
    BY <2>2 DEF ClaimSteers, EndTurn, PopRun, NothingToReport, Convert, DrainAfterRun
  <2>. QED BY <1>0, <1>3, <2>1, <2>2 DEF Turn
<1>4. CASE Crash
  BY <1>0, <1>4 DEF Crash
<1>5. CASE Restart
  <2>1. CASE box' = PauseActive
    BY <2>1, BoxHolds
  <2>2. CASE \A q \in Runs : ~IsActive(q)
    BY <1>0, <1>5, <2>2 DEF Restart
  <2>. QED BY <1>5, <2>1, <2>2 DEF Restart
<1>. QED BY <1>1, <1>2, <1>3, <1>4, <1>5 DEF Next

LEMMA HoldInit == Init => HoldInv
BY DEF Init, HoldInv, StoppedOwners, HeldEarly, FreeTask, NewTask

LEMMA HoldStep == TypeOK /\ TypeOK' /\ LifeInv /\ HoldInv /\ [Next]_vars => HoldInv'
<1>1. ASSUME HoldInv, UNCHANGED vars
      PROVE  HoldInv'
  BY <1>1 DEF HoldInv, StoppedOwners, HeldEarly, HoldsInputs, IsTerminal, vars
<1>2. ASSUME TypeOK, TypeOK', LifeInv, HoldInv, Next
      PROVE  HoldInv'
  <2>1. StoppedOwners'
    BY <1>2, StoppedStep DEF HoldInv
  <2>2. ASSUME NEW r \in Runs,
               lock'[r] = "stopping" \/ state'[r] \in {"cancelled", "interrupted"}
        PROVE  HoldsInputs(r)'
    <3>1. HoldsInputs(r) \/ HoldsInputs(r)'
      BY <1>2, <2>2, HeldFirst
    <3>2. ~\E s \in Steers : SteerPending(r, s)
      BY <1>2, <2>2, SteerAssumption
      DEF SteerPending, Hold, TypeOK, IsActive, Active
    <3>. QED BY <1>2, <3>1, <3>2, KeepsHeld
  <2>. QED BY <2>1, <2>2 DEF HoldInv, HeldEarly
<1>. QED BY <1>1, <1>2

\* A run that was cancelled or interrupted leaves nothing behind that could still be sent
\* (_cancel_locked, reconcile_interrupted_runs).
THEOREM EndedHolds == Spec => []EndedRunHoldsInputs
<1>1. HoldInv => EndedRunHoldsInputs
  BY DEF HoldInv, HeldEarly, EndedRunHoldsInputs
<1>. QED BY <1>1, HoldInit, HoldStep, TypeCorrect, LifeInvariant, PTL DEF Spec

-----------------------------------------------------------------------------
(* Who stands behind an active run.                                        *)

\* While a call of the parent is open no other run of the instance is active.
CallerAlone ==
  \A q, r \in Runs : (caller[r] \in {"announcing", "reporting", "waiting", "stopping"} /\ q # r)
                       => ~IsActive(q)

\* A queued run is about to be launched, or its parent was stopped.
QueuedCalled ==
  up => \A r \in Runs : state[r] = "queued" => caller[r] \in {"announcing", "stopped"}

\* What the sub-agent has heard is no longer in the box.
HeardLeft == \A s \in heard : box[s].status \notin Editable

RunningDriven ==
  (up /\ ~GuidanceLost) =>
    \A r \in Runs : state[r] = "running" => WillReport(r) \/ lock[r] = "stopping"

CallInv == CallerAlone /\ QueuedCalled

LEMMA CallInit == Init => CallInv
BY DEF Init, CallInv, CallerAlone, QueuedCalled

LEMMA CallStep == TypeOK /\ CallInv /\ [Next]_vars => CallInv'
<1>. SUFFICES ASSUME TypeOK, CallInv, [Next]_vars
              PROVE  CallInv'
  OBVIOUS
<1>. USE DEF CallInv, CallerAlone, QueuedCalled, TypeOK, IsActive, Active
<1>a. ASSUME UNCHANGED caller, up' => up,
             \A r \in Runs : state'[r] \in {state[r]} \cup Terminal
      PROVE  CallInv'
  BY <1>a DEF Terminal
<1>1. ASSUME NEW r \in Runs, Create(r)
      PROVE  CallInv'
  BY <1>1 DEF Create, Call
<1>2. ASSUME NEW r \in Runs, Launch(r) \/ LaunchRefused(r)
      PROVE  CallInv'
  BY <1>2 DEF Launch, LaunchRefused, Call
<1>3. ASSUME NEW r \in Runs,
             Reported(r) \/ WaitReturns(r) \/ ParentStops(r) \/ ParentStopped(r)
      PROVE  CallInv'
  BY <1>3 DEF Reported, WaitReturns, ParentStops, ParentStopped, Call, IsTerminal, Terminal
<1>4. CASE Control
  <2>1. /\ UNCHANGED <<caller, up>>
        /\ \A r \in Runs : state'[r] \in {state[r]} \cup Terminal
    BY <1>4 DEF Control, CancelLive, CancelIdle, CancelCommits, Told, SteerPending, SteerDirect,
                SteerReturns, SteerDrains, Terminal
  <2>. QED BY <1>a, <2>1
<1>5. CASE Turn
  <2>1. /\ UNCHANGED <<caller, up>>
        /\ \A r \in Runs : state'[r] \in {state[r]} \cup Terminal
    BY <1>5 DEF Turn, TurnStep, ClaimSteers, EndTurn, PopRun, NothingToReport, Report, Convert,
                DrainAfterRun, Terminal
  <2>. QED BY <1>a, <2>1
<1>6. CASE Crash
  BY <1>6 DEF Crash
<1>7. CASE Restart
  BY <1>7 DEF Restart
<1>8. CASE UNCHANGED vars
  BY <1>8, <1>a DEF vars
<1>. QED BY <1>1, <1>2, <1>3, <1>4, <1>5, <1>6, <1>7, <1>8 DEF Next, Parent

LEMMA CallInvariant == Spec => []CallInv
BY CallInit, CallStep, TypeCorrect, PTL DEF Spec

\* How a step changes the box and what was heard: an editable row leaves the box, and what
\* is heard now for the first time was in the box or never was there.
LEMMA HeardStep ==
  ASSUME TypeOK, HeardLeft, Next
  PROVE  HeardLeft' /\ (GuidanceLost => GuidanceLost')
<1>. DEFINE Goal == HeardLeft' /\ (GuidanceLost => GuidanceLost')
<1>. USE DEF TypeOK, Row, HeardLeft, GuidanceLost, Editable
<1>a. ASSUME UNCHANGED heard,
             \A s \in Steers : \/ box'[s].status = box[s].status
                               \/ box[s].status \in Editable
      PROVE  Goal
  BY <1>a
<1>b. ASSUME NEW tk, Drain(tk), UNCHANGED heard
      PROVE  Goal
  <2>1. ASSUME NEW s \in Waiting("queued"), box' = Mark({s}, "delivered")
        PROVE  Goal
    BY <1>a, <1>b, <2>1 DEF Waiting, Mark
  <2>2. CASE UNCHANGED box
    BY <1>a, <1>b, <2>2
  <2>. QED BY <1>b, <2>1, <2>2 DEF Drain
<1>c. ASSUME box' = PauseActive, UNCHANGED heard
      PROVE  Goal
  BY <1>a, <1>c DEF PauseActive
<1>1. CASE Parent
  <2>1. UNCHANGED <<box, heard>>
    BY <1>1 DEF Parent, Create, Launch, LaunchRefused, Reported, WaitReturns, ParentStops,
                ParentStopped, child
  <2>. QED BY <1>a, <2>1
<1>2. ASSUME NEW r \in Runs, NEW s \in Steers, SteerPending(r, s)
      PROVE  Goal
  BY <1>2 DEF SteerPending, Submit
<1>3. ASSUME NEW r \in Runs, NEW s \in Steers, SteerDirect(r, s)
      PROVE  Goal
  BY <1>3 DEF SteerDirect
<1>4. ASSUME NEW r \in Runs, NEW s \in Steers, SteerReturns(r, s)
      PROVE  Goal
  <2>1. CASE box[s].status \in Editable /\ box' = Mark({s}, "cancelled")
    BY <1>4, <1>a, <2>1 DEF SteerReturns, Mark
  <2>2. CASE UNCHANGED box
    BY <1>4, <1>a, <2>2 DEF SteerReturns
  <2>. QED BY <1>4, <2>1, <2>2 DEF SteerReturns
<1>5. ASSUME NEW s \in Steers, SteerDrains(s)
      PROVE  Goal
  BY <1>5, <1>b DEF SteerDrains
<1>6. ASSUME NEW r \in Runs, CancelLive(r) \/ CancelIdle(r) \/ CancelCommits(r) \/ Told(r)
      PROVE  Goal
  <2>1. UNCHANGED heard /\ (box' = PauseActive \/ UNCHANGED box)
    BY <1>6 DEF CancelLive, CancelIdle, CancelCommits, Told, child
  <2>. QED BY <1>a, <1>c, <2>1
<1>7. ASSUME NEW t \in Tasks, ClaimSteers(t)
      PROVE  Goal
  BY <1>7 DEF ClaimSteers, Mark, Waiting
<1>8. ASSUME NEW t \in Tasks, Convert(t)
      PROVE  Goal
  <2>1. CASE UNCHANGED box
    BY <1>8, <1>a, <2>1 DEF Convert
  <2>2. CASE box' = Mark(Waiting("pending_steer"), "queued")
    BY <1>8, <1>a, <2>2 DEF Convert, Waiting, Mark
  <2>. QED BY <1>8, <2>1, <2>2 DEF Convert
<1>9. ASSUME NEW t \in Tasks, DrainAfterRun(t)
      PROVE  Goal
  BY <1>9, <1>b DEF DrainAfterRun
<1>10. ASSUME NEW t \in Tasks, EndTurn(t) \/ PopRun(t) \/ NothingToReport(t) \/ Report(t)
       PROVE  Goal
  <2>1. UNCHANGED <<box, heard>>
    BY <1>10 DEF EndTurn, PopRun, NothingToReport, Report
  <2>. QED BY <1>a, <2>1
<1>11. CASE Crash \/ Restart
  <2>1. UNCHANGED heard /\ (box' = PauseActive \/ UNCHANGED box)
    BY <1>11 DEF Crash, Restart
  <2>. QED BY <1>a, <1>c, <2>1
<1>12. CASE Control
  BY <1>12, <1>2, <1>3, <1>4, <1>5, <1>6 DEF Control
<1>13. CASE Turn
  BY <1>13, <1>7, <1>8, <1>9, <1>10 DEF Turn
<1>. QED BY <1>1, <1>11, <1>12, <1>13 DEF Next

\* A drain that starts a turn loses the guidance it delivers.
LEMMA DrainLoses ==
  ASSUME TypeOK, HeardLeft, NEW tk, Drain(tk), UNCHANGED heard
  PROVE  (task' = tk /\ UNCHANGED entry) \/ GuidanceLost'
<1>1. ASSUME NEW s \in Waiting("queued"), box' = Mark({s}, "delivered")
      PROVE  GuidanceLost'
  <2>1. s \in Steers /\ s \notin heard /\ box'[s].status = "delivered"
    BY <1>1 DEF Waiting, HeardLeft, Editable, Mark, TypeOK, Row
  <2>. QED BY <2>1 DEF GuidanceLost
<1>. QED BY <1>1 DEF Drain

\* A task keeps its promise to report its run until it has.
LEMMA ReportStep ==
  ASSUME TypeOK, HeardLeft, LifeInv, CallInv, Next, up', ~GuidanceLost',
         NEW r \in Runs, state[r] = "running", state'[r] = "running", WillReport(r)
  PROVE  WillReport(r)'
<1>. USE DEF TypeOK, Task, TaskPhases
<1>a. ASSUME UNCHANGED <<task, entry>>
      PROVE  WillReport(r)'
  BY <1>a DEF WillReport
<1>b. ASSUME StartChat(task, r)
      PROVE  WillReport(r)'
  BY <1>b DEF StartChat, NewTask, WillReport
<1>c. \A q \in Runs : q # r => ~IsActive(q)
  BY DEF LifeInv, OneActive, IsActive, Active
<1>1. ASSUME NEW q \in Runs, Launch(q)
      PROVE  WillReport(r)'
  <2>1. q = r
    BY <1>1 DEF Launch, CallInv, CallerAlone, IsActive, Active
  <2>. QED BY <1>1, <1>b, <2>1 DEF Launch
<1>2. ASSUME NEW q \in Runs,
             \/ Create(q) \/ LaunchRefused(q) \/ Reported(q)
             \/ WaitReturns(q) \/ ParentStops(q) \/ ParentStopped(q) \/ CancelIdle(q)
             \/ CancelCommits(q) \/ \E s \in Steers : SteerPending(q, s) \/ SteerReturns(q, s)
      PROVE  WillReport(r)'
  BY <1>2, <1>a DEF Create, LaunchRefused, Reported, WaitReturns, ParentStops, ParentStopped,
                    CancelIdle, CancelCommits, SteerPending, SteerReturns, child
<1>3. ASSUME NEW q \in Runs, NEW s \in Steers, SteerDirect(q, s)
      PROVE  WillReport(r)'
  <2>1. q = r
    BY <1>3, <1>c DEF SteerDirect, IsActive, Active
  <2>. QED BY <1>3, <1>b, <2>1 DEF SteerDirect
<1>4. ASSUME NEW s \in Steers, SteerDrains(s)
      PROVE  WillReport(r)'
  BY <1>4, <1>a, DrainLoses DEF SteerDrains
<1>5. ASSUME NEW q \in Runs, CancelLive(q)
      PROVE  WillReport(r)'
  BY <1>5 DEF CancelLive, WillReport
<1>6. ASSUME NEW q \in Runs, Told(q)
      PROVE  WillReport(r)'
  BY <1>6 DEF Told, WillReport
<1>7. ASSUME NEW t \in Tasks, DrainAfterRun(t)
      PROVE  WillReport(r)'
  <2>1. task' = [task EXCEPT ![t] = FreeTask] /\ UNCHANGED entry
    BY <1>7, DrainLoses DEF DrainAfterRun
  <2>. QED BY <1>7, <2>1 DEF DrainAfterRun, At, WillReport
<1>8. ASSUME NEW t \in Tasks, ClaimSteers(t) \/ EndTurn(t) \/ Convert(t)
      PROVE  WillReport(r)'
  BY <1>8 DEF ClaimSteers, EndTurn, Convert, At, Become, WillReport
<1>9. ASSUME NEW t \in Tasks, PopRun(t)
      PROVE  WillReport(r)'
  BY <1>9, TaskAssumption DEF PopRun, At, Become, WillReport
<1>10. ASSUME NEW t \in Tasks, NothingToReport(t)
       PROVE  WillReport(r)'
  <2>1. task[t].owner # r
    BY <1>10, RunAssumption DEF NothingToReport, IsTerminal, Terminal
  <2>. QED BY <1>10, <2>1 DEF NothingToReport, At, Become, WillReport
<1>11. ASSUME NEW t \in Tasks, Report(t)
       PROVE  WillReport(r)'
  <2>1. task[t].owner # r
    BY <1>11 DEF Report
  <2>. QED BY <1>11, <2>1 DEF Report, At, Become, WillReport
<1>12. CASE Crash \/ Restart
  BY <1>12, <1>a DEF Crash, Restart
<1>13. CASE Parent
  BY <1>13, <1>1, <1>2 DEF Parent
<1>14. CASE Control
  BY <1>14, <1>2, <1>3, <1>4, <1>5, <1>6 DEF Control
<1>15. CASE Turn
  BY <1>15, <1>7, <1>8, <1>9, <1>10, <1>11 DEF Turn
<1>. QED BY <1>12, <1>13, <1>14, <1>15 DEF Next

\* A run begins to run in the step that gives it a task.
LEMMA RunsFirst ==
  ASSUME TypeOK, Next, NEW r \in Runs, state[r] # "running", state'[r] = "running"
  PROVE  WillReport(r)'
<1>. USE DEF TypeOK
<1>1. ASSUME NEW q \in Runs, Launch(q)
      PROVE  WillReport(r)'
  <2>1. q = r
    BY <1>1 DEF Launch
  <2>. QED BY <1>1, <2>1 DEF Launch, StartChat, NewTask, WillReport, Task
<1>2. CASE Parent
  BY <1>1, <1>2 DEF Parent, Create, LaunchRefused, Reported, WaitReturns, ParentStops,
                    ParentStopped
<1>3. CASE Control
  BY <1>3 DEF Control, CancelLive, CancelIdle, CancelCommits, Told, SteerPending, SteerDirect,
              SteerReturns, SteerDrains
<1>4. CASE Turn
  BY <1>4 DEF Turn, ClaimSteers, EndTurn, PopRun, NothingToReport, Report, Convert,
              DrainAfterRun
<1>5. CASE Crash \/ Restart
  BY <1>5 DEF Crash, Restart
<1>. QED BY <1>1, <1>2, <1>3, <1>4, <1>5 DEF Next

DriveInv == HeardLeft /\ RunningDriven

LEMMA DriveInit == Init => DriveInv
BY DEF Init, DriveInv, HeardLeft, RunningDriven

LEMMA DriveStep == TypeOK /\ LifeInv /\ CallInv /\ DriveInv /\ [Next]_vars => DriveInv'
<1>1. ASSUME DriveInv, UNCHANGED vars
      PROVE  DriveInv'
  BY <1>1 DEF DriveInv, HeardLeft, RunningDriven, GuidanceLost, WillReport, vars
<1>2. ASSUME TypeOK, LifeInv, CallInv, DriveInv, Next
      PROVE  DriveInv'
  <2>1. HeardLeft' /\ (GuidanceLost => GuidanceLost')
    BY <1>2, HeardStep DEF DriveInv
  <2>2. ASSUME up', ~GuidanceLost', NEW r \in Runs, state'[r] = "running"
        PROVE  WillReport(r)' \/ lock'[r] = "stopping"
    <3>1. ~Crash /\ ~Restart
      BY <2>2 DEF Crash, Restart, IsActive, Active, TypeOK
    <3>2. up
      BY <1>2, <3>1 DEF Next, Parent, Control, Turn, At, Create, Launch, LaunchRefused,
                        Reported, WaitReturns, ParentStops, ParentStopped, CancelLive,
                        CancelIdle, CancelCommits, Told, SteerPending, SteerDirect,
                        SteerReturns, SteerDrains, ClaimSteers, EndTurn, PopRun,
                        NothingToReport, Report, Convert, DrainAfterRun
    <3>3. CASE state[r] # "running"
      BY <1>2, <2>2, <3>3, RunsFirst
    <3>4. CASE state[r] = "running" /\ WillReport(r)
      BY <1>2, <2>2, <3>4, ReportStep DEF DriveInv
    <3>5. CASE state[r] = "running" /\ lock[r] = "stopping"
      BY <1>2, <2>2, <3>1, <3>5, StoppingStep DEF Started, IsTerminal, Terminal
    <3>. QED BY <1>2, <2>1, <2>2, <3>2, <3>3, <3>4, <3>5 DEF DriveInv, RunningDriven
  <2>. QED BY <2>1, <2>2 DEF DriveInv, RunningDriven
<1>. QED BY <1>1, <1>2

\* Somebody stands behind an active run: a caller about to launch it, a task that will report
\* it, or a cancellation that will end it (wait_terminal, handle_chat_finished).
THEOREM Driven == Spec => []RunIsDriven
<1>1. CallInv /\ DriveInv => RunIsDriven
  BY DEF CallInv, QueuedCalled, DriveInv, RunningDriven, RunIsDriven
<1>. QED
  BY <1>1, DriveInit, DriveStep, TypeCorrect, LifeInvariant, CallInvariant, PTL DEF Spec
=============================================================================
