# A TLA+ verification of Keydex

Keydex is a desktop agent: a Python backend (`backend/app`) runs the turns of chat
sessions with LangGraph and stores everything in SQLite, a TypeScript renderer
(`desktop/src`) shows them, and a Rust shell (`desktop/src-tauri`) owns the processes
and the windows. What makes the backend hard to get right is not the model calls but the
bookkeeping around them: who may start the next turn of a session, what happens to
a message the user sends while a turn is running, and what the stored rows say after a
stop, a failure or a crash. The desktop has the mirror image of the problem: what it shows of
a terminal or of a repository is a copy, fed by events that race with the snapshots they
belong to. This directory models that bookkeeping, checks it with TLC on small instances and
proves its central invariants with TLAPS.

    tlc -workers 4 -config ChatStreamSafety.cfg MCChatStream.tla    # any of the .cfg files
    tlc -workers 4 -config SubagentUser.cfg MCSubagentRuns.tla
    tlc -workers 4 -config Terminal.cfg MCTerminalStream.tla
    tlc -workers 4 -config GitView.cfg MCGitView.tla
    tlc -workers 4 -config Migration.cfg CheckpointMigration.tla
    tlapm ChatStreamProofs.tla
    tlapm SubagentProofs.tla
    tlapm TerminalProofs.tla
    tlapm TerminalFlow.tla
    tlapm TerminalQueues.tla
    tlapm TerminalWindow.tla
    tlapm GitViewProofs.tla
    tlapm CheckpointProofs.tla

## 1. Inventory

Paths are relative to `backend/app`, those of the last four rows to `desktop`. "Hard" is what a test hardly reaches.

| Component | State it keeps | Operations | Hard |
|---|---|---|---|
| Turn scheduler, `services/chat_stream_manager.py` | `_runs`: the live asyncio task of each session; finish tasks; drain handlers between two awaits | submit, update, reorder, withdraw, pause, resume, stop, start chat and managed runs, finish, drain, recover | two tasks of one session; stop against submit; finish of an old run against a new one |
| Pending-input table, `PendingInputsRepository` in `storage/repositories.py` | one row per `client_input_id`: status, mode, `paused_at`, queue position, claim lock | create_or_get, claim, mark delivered, expire, convert steers, pause, resume, reorder | claim and mark are two commits; claims expire on a clock |
| Steering middleware, `agent/middleware/pending_inputs.py` | none of its own | before each model call, moves a batch of steers into the running turn | delivers before it emits |
| Chat turn, `services/chat_service.py` | session status, traces, active-session record | begin, complete, suspend for a question, cancel, fail | the order of its last writes and its last events |
| Approvals, `command_approval.py`, `mcp/approval*.py` | request rows with a status; a polling waiter | create, wait, resolve, cancel for session, time out | a decision that arrives after its turn is gone |
| A2UI, `a2ui/*.py` | interactions, peers in a checkpoint, resume rows | ask, submit, cancel, start_resume, run resume | an answer while the asking turn still unwinds |
| Thread tasks, `services/thread_task_runtime.py` | the task of a session, run rows | continue if idle, observe finish, account | a stale idle check; a run row that survives a crash |
| Sub-agent runtime, `subagents/runtime.py` | instances, runs with a version, the per-run control lock, waiters | spawn, steer, cancel, resume, close, wait, reconcile | every operation awaits between its write and its effect |
| Startup and shutdown, `main.py` | which services are ready | migrate, recover, serve, drain and stop | recovery must precede requests |
| Checkpoint storage and migration, `agent/checkpoint_*.py`, `api/checkpoint_migration.py` | three database files, a journal, the migration row in each database | start, build, collapse, swap, smoke check, restore, clean up, acknowledge, recover | a crash between two durable steps; a step that fails after another has succeeded |
| File history and change hub | snapshots, mutation generations | record, restore, watch | a restore beside a write |
| Reverse, fork, archive, purge | lifecycle operations rows | multi-step deletes | resuming half an operation |
| Context compression | staging rows | stage, apply | a staged summary overtaken by a turn |
| Git workspace, MCP client, capabilities cache, tools, web, annotations | locks, connections, caches, processes | calls to external programs | cancellation and cache staleness |
| Terminal stream, `src-tauri/src/terminal/`, `src/runtime/terminal.ts`, `src/renderer/features/terminal/` | shell: ring, one subscriber, its delivery window; webview: an attachment with its queues, the store's cursor, xterm | print, attach, acknowledge, detach, close, end; mount, unmount, consume | replay against live chunks; a late detach; a reader that waits for credit nobody returns |
| Git view, `src/renderer/features/git/store/`, `providers/GitProvider.tsx`, with the watch and the queries in `backend/app/git/events.py` and `query_service.py` | watch: sequence, subscribers; queries: a version and a cache of refs; webview: snapshots, invalidated domains, a debounce timer, a serial drain with epochs | bind, unbind, notify, resync, query, invalidate, refresh, filter paths, end of a command | a result older than the event that overtook it; a cache that missed a change; rebinding; a domain nobody refreshes |
| WebSocket client, `src/runtime/wsClient.ts` | the connection, what is to be bound | connect, lose, reconnect, bind again | old and new connection at once |
| Other renderer stores, desktop shell | event streams merged into stores; processes | reduce; spawn, supervise | out-of-order and repeated events |

How the core interacts:

* Before anything else, `create_app` repairs the path of the database, `recover` finishes or
  undoes an interrupted swap, and a migration that is due keeps the conversations closed until
  the user has started and acknowledged it.
* The HTTP and WebSocket handlers call the scheduler. A submission either starts a turn
  (`start_chat`) or stores a row of the pending-input table and, when no turn is live,
  drains the table after its broadcast.
* The scheduler creates an asyncio task for a turn. The task runs `handle_chat` (or, for a
  managed run, `A2UIResumeService._run_resume`), which writes the session row, calls the
  model and, through the steering middleware, takes rows out of the table.
* When the task is done, its done-callback creates a finish task. That pops the registry
  entry if it is still its own, awaits the observers (thread tasks, sub-agents), converts
  leftover steers and starts the next queued input.
* A stop pauses the rows that wait and cancels the task; what is paused stays in the table
  until the user resumes it.
* A delegation tool of the parent's turn creates a run and a child session, starts the child's
  turn with the scheduler and waits. The scheduler's observer tells the runtime how the
  child's turn ended; the runtime's listeners wake the waiting tool. Guidance goes through
  the child session's box.
* The shell's reader thread numbers each chunk of a terminal, keeps it in a ring and sends it
  to the one subscriber while the window has room. A surface that mounts attaches with the
  cursor of the store; the result carries the replay, the channel the live chunks, and each
  chunk is acknowledged when xterm has parsed it.
* A Git repository of the active project is bound over the WebSocket. The backend watches the
  gitdir and sends numbered events; each marks domains invalid, which a timer or a resync
  turns into queries, one after another. The backend answers refs from a cache under a version
  that the watch and the ends of commands invalidate, and joins identical questions of
  several clients. Edits of the worktree come in by another way, through the filter of ignored
  paths.
* Tools inside the turn write the same session row: approvals say `waiting_approval` and
  `running`, A2UI says `waiting_input`.

What makes each correct:

* Scheduler: never two turns of one session; the finish of an old turn never disturbs a
  newer one; nothing that was accepted is left behind or given to a turn twice; what the
  user has put on hold stays there.
* Session row: says `running` or `waiting_approval` only while a task stands behind it, and
  is repaired at startup.
* Approvals: decided at most once, and only for a turn that still waits.
* Sub-agents: at most one active run of an instance; an ended run is never revived; somebody
  stands behind every active run, and whoever waits for it learns its end; what is left over
  when a run is cancelled is not sent.
* Terminal: nothing is missing on the screen that was not announced as truncated; the mounted
  surface owns the stream; the end is shown and stays shown; the process is never blocked.
* Git view: a snapshot that is out of date is marked, or the news is on its way; what is marked
  and wanted is refreshed; the cache holds nothing older than the watch has reported; the watch is
  bound exactly when it is wanted.
* Migration: at every moment some file has every conversation, the next start knows which, and
  what is opened is complete.

`PROJECT.json` lists the hazards one by one, with the line and the properties that
would catch them.

## 2. Modules

    InputDelivery        what the pending-input box promises (abstract)
        ^  implemented by
    ChatStream           the turn scheduler of a session, its box and its row
        ^                     ^
    MCChatStream         ChatStreamProofs
    (TLC instances)      (TLAPS)

    SubagentLifecycle    what the sub-agent runtime promises about runs (abstract)
        ^  implemented by
    SubagentRuns         the runs of one instance, the parent's call, the child session
        ^                     ^
    MCSubagentRuns       SubagentProofs

    TerminalFeed         what a terminal promises its reader (abstract)
        ^  implemented by
    TerminalStream       one terminal, from the shell's threads to the screen
        ^                     ^
    MCTerminalStream     TerminalProofs <- TerminalFlow <- TerminalQueues <- TerminalWindow

    GitView              one repository, from its watch to the snapshots of the store
        ^                     ^
    MCGitView            GitViewProofs

    CheckpointStore      what the migration promises about the conversations (abstract)
        ^  implemented by
    CheckpointMigration  the files, the journal, the task, the start of the backend
        ^
    CheckpointProofs     (TLC checks CheckpointMigration itself: its one constant is a set)

Backend and desktop do not meet in a module: the desktop's WebSocket is the only contact, and
`GitView` has both of its ends.

### InputDelivery

Two variables. `stage[i]` follows one input through absent, waiting, held, delivered or
withdrawn; `busy` says that a turn is in progress. Inputs leave the box in two ways only:
any number of waiting ones *join* the turn in progress, or a single one *starts* the next
turn when none is. Delivered and withdrawn are final, and what is held must be released
first.

### ChatStream

Everything in `ChatStreamManager` is keyed by the session and no operation relates two
sessions, so the module follows one session.

| Variable | In the code |
|---|---|
| `up` | the process runs |
| `session` | `sessions.status`; whether an A2UI interaction is open (`asking`); an approval request that outlived its turn (`orphan`) |
| `box` | `session_pending_inputs`: status, `paused_at`, queue position of each input |
| `run` | `_runs.get(session_id)` |
| `task` | the asyncio tasks: created, in the turn, publishing a failure, done, then the finish task's two halves (`notify`, `drain`); the cancellation token (`stop`); the pending approval of the turn |
| `drains` | handlers of submit and resume that are still in their broadcast and drain after it |
| `answering` | the A2UI route between the stored answer and `start_resume` |
| `sent`, `given`, `stray` | history, read by properties and by the client's own choice to resend |
| `budget` | a bound, see below |

**Where a step ends.** The backend is one event loop, so a step is the code between two
points that suspend: awaiting a subscriber, an observer, a model, another thread.
`async with self._lock` is no such point: no holder of that lock awaits anything while it
holds it, so the lock is free whenever it is asked for and asyncio grants it without
suspending. It follows that `start_chat` cannot find a live run after the check just above
it in `submit_input` and in `_drain_next_pending_input`; their `AlreadyRunning` branches and
the `mark_failed` behind one of them are dead, and the statuses `failed`, `running` and
`converted` of a pending row are never written by this path. An action is the whole step:
`SubmitPending` chooses the mode, stores the row and decides about the drain, `Drain` expires
claims, claims, starts the task and marks the row delivered.

**Data.** `mode` is not kept: for a row that can still be edited, `mode = "steer"` exactly
when its status is `pending_steer`. Message text, attachments, events and traces are left
out. A claim's 60 second lock is a time-out, so any set of `starting` rows may have expired
when a drain looks. Parallel approval requests of one turn are abstracted to one.

**Turns.** What a turn does between its begin and its end is the environment of the
scheduler: it claims steers, asks for an approval, asks the user a question, and ends in one
of four ways, with the writes and in the order of the code. A stopped turn may still end
otherwise: `handle_chat` looks for an open interaction before it looks for a
cancellation, so a stopped turn that has just asked is suspended.

**Crashes.** `Crash` loses memory and keeps the tables. SQLite commits one by one, so
`CrashInDrain` leaves the claim of a drain in `starting`. `Restart` runs the recovery that
`main.py` completes before it serves a request.

### SubagentLifecycle

One variable, the state of each run. A run is queued when no other is active, starts once,
and ends once: completed only if it had started, otherwise failed, cancelled or interrupted.

### SubagentRuns

The runtime relates the runs of one sub-agent instance and nothing beyond it, so the module
follows one instance: its runs, its one child session, and the parent's calls.

| Variable | In the code |
|---|---|
| `state` | `subagent_run.state` |
| `caller` | the coroutine of `delegate_subagent` or `continue_subagent` that created the run: publishing the queued snapshot, publishing the next one, in `wait_terminal`, in `cancel_by_parent_trace` |
| `lock` | `_run_control_locks`: free, or what its holder awaits (a steer's broadcast, the stop of the chat run, the terminal snapshot) |
| `draining` | steers whose `submit_input` drains after its broadcast |
| `box` | `session_pending_inputs` of the child session, with the run a row was meant for |
| `entry`, `task` | `_runs` of the child session; its tasks, with the run named in their request |
| `heard` | history: guidance that is part of a turn of the sub-agent |

The child session is not a copy of `ChatStream`: a user cannot submit to it, edit its box or
resume it, approvals and questions do not matter to the runtime, and queue order and claims
are `ChatStream`'s. What is kept is what the two components do to each other: who owns the
registry entry, in which step the observers are told, and what the drain sends.
`cancel`, `steer` and `handle_chat_finished` hold the control lock over their awaits;
`spawn`, `resume` and the start of the turn do not. A run's version is its number of
transitions, which its state determines, so the version checks of `transition` succeed or
fail as the re-read state does. `close` and `blocked_on` exist in the runtime, but nothing in
the application calls them.

### Properties of SubagentRuns

| Property | Kind | Says |
|---|---|---|
| `TypeOK` | invariant | types |
| `RunIsDriven` | invariant | a queued run has its caller (or a stopped parent), a running run a task that will report it or a cancellation that will end it |
| `EndedRunHoldsInputs` | invariant | a cancelled or interrupted run leaves only paused guidance |
| `ImplementsLifecycle` | refinement | every step is a step of `SubagentLifecycle` |
| `CallReturns` | liveness | the parent's call comes back, with the report or stopped |
| `GuidanceIsHeard` | invariant, violated | delivered guidance has reached the sub-agent |
| `NoDetachedRun` | invariant, violated | a run does not outlive the call that created it |

`RunIsDriven` and `CallReturns` speak about states in which no guidance has been lost. The
turn that loses it belongs to no run; when a second guidance makes a drain start that turn
while the run's own task waits to be popped, it takes the registry entry, and the end of the
run is reported to nobody. That is finding 3 once more, and the exception is named
`GuidanceLost`.

### TerminalFeed

Three numbers: chunks produced, the cursor of the store, and the highest chunk below which
truncation was announced. Chunks are shown in order, and one is passed over only behind an
announcement.

### TerminalStream

| Variable | In the code |
|---|---|
| `latest` | `ReplayRing.next_seq - 1`; the ring holds the last `Ring` chunks |
| `sub`, `inflight` | the subscriber of the terminal and the chunks of its `DeliveryWindow` |
| `reader` | the thread of `start_reader`: reading, at its second lock, waiting on `stream_credit`, sending |
| `ended`, `closed` | `finalize_exited` or `finalize_failed` (snapshot set, then event sent); how far `close` is: no, the subscriber cleared, the entry removed |
| `calls`, `chan` | commands not yet run; messages of each attachment's channel |
| `att` | attachments of `createTerminalRuntime`: promise, queues, `lastSeq`, where `consume` waits |
| `surface`, `writes` | the mounted `TerminalSurface`; xterm writes that have not called back |
| `cursor`, `shown` | the store: `cursorByTerminalId`, whether its snapshot has ended |
| `screen`, `reported` | history: what was written to xterm, what was announced as truncated |

**Where a step ends.** In the shell at the stream lock, so publishing a chunk is two locked
sections and a send outside them, and `attach` is a locked section and the clone of the
snapshot behind it. In the webview at an `await`. `attach`, `ack` and `detach` are synchronous
commands: they run in the order they were issued and their results return in the order
they ended; messages of a channel are ordered among themselves and not against results. A
terminal that is read to the end or fails is one `Finalize`. `close` runs on a thread of its own and is
two steps, `CloseStream` (`clear_subscriber`) and `CloseEntry` (`kill_entry` and `remove_entry`): a
command may fall between them, and an attachment that does subscribes to a terminal about to be
removed. What refers to a removed terminal finds no entry; its acknowledgements and its detach return
without error and without effect.

**Data.** A chunk is its number. Limits in bytes work like the limits in chunks and are left
out, as is decoding. `Slack` is the room of four messages the webview's queues have above
the window; it is a constant because only its being positive matters.

| Property | Kind | Says |
|---|---|---|
| `TypeOK` | invariant | types |
| `MountedIsSubscriber` | invariant | late commands and results of earlier mounts never take the stream |
| `NoSilentLoss` | invariant | replay and live chunks meet without a hole |
| `NeverBackwards` | invariant | no older chunk after a newer one, over remounts |
| `NoOverflow` | invariant | `terminal_backpressure_overflow` cannot be raised |
| `EndIsFinal` | action | an ended terminal is never shown as running again |
| `ImplementsFeed` | refinement | every step is a step of `TerminalFeed` |
| `OutputIsShown`, `EndIsShown` | liveness | output and end reach a surface that stays mounted |
| `ReaderIsFree` | liveness | the reader does not stay blocked on credit, unless an attachment came between the two steps of `close` (`Abandoned`) |

### GitView

One repository, discovered and selected, which is not bare; repositories share nothing but
the connection.

| Variable | In the code |
|---|---|
| `disk`, `version` | the repository, as the number of changes to each domain, and of changes to what `repository_version` hashes |
| `memo`, `cache` | `_repository_versions`: the version kept until it is invalidated; `_cache`: the refs kept under a version |
| `query` | the query that holds the repository's lock: version taken, read, or found in the cache, and whether the drain waits for its answer |
| `watch`, `noticed`, `batch` | `_RepositoryWatch`: its loop, sequence and subscribers; changes not yet taken; `handle_raw_changes` before it sends |
| `conn`, `up`, `down` | the WebSocket and its messages both ways |
| `project`, `desired` | `GitProvider`: active, and `activateProject` still awaited; `desiredGitRepositoryWatches` |
| `shown`, `invalid`, `lastSeq` | the store's snapshots, `invalidatedDomainsByRepository`, `lastEventSequence` |
| `timer`, `requested`, `drain` | debounce timer, `requestedDomains`, the loop of `drainRepositoryRefreshes`: about to ask, waiting, or with an answer, and whether its epoch is still the current one |
| `surface` | `foregroundActive`: which domains are demanded |
| `paths` | the filter of worktree paths with its timer, its query and its backoff |
| `command` | a Git command that has changed the repository, or has ended and is yet to be polled |
| `ignored`, `skipped`, `shared`, `unheard`, `without` | history, see below |

**Queries.** A query of the backend (`query_service.py`) holds the repository's lock. It begins by taking
the version and looking into the cache (`Begin`), git reads the repository (`ReadRepository`), and the
result is kept, if it is refs, and answered (`EndQuery`). Other clients of the backend ask too
(`OtherAsks`), and a question that is already being answered is joined and not asked again
(`coalesced_query`, 147-192). The version is computed once and kept until something invalidates it
(1966-1978); `status` alone computes it anew. It hashes HEAD, the index, packed-refs and the refs and
not `.git/config` (2193-2212), although an upstream is read from there: `Kinds` says for each kind of
change whether it is `hashed`. A batch of the watch and the end of a command drop the version and what
is cached (`Forget`); binding does not.

The watch's task has to start its watcher (`WatcherStarts`) before it notices anything, and an exception
of the watcher ends the task while the watch stays in `_watches` (`WatcherFails`): whoever binds later
joins a watch that reports nothing. The numbers of events without a mapped domain are left out,
because they only leave gaps. A subscription that the backend refuses is not modelled.

**What does not reach the view** is recorded in five notes rather than assumed away; the properties
except what they name, and section 4 says how each comes about.

* `ignored`: an event dropped by its number (finding 5).
* `skipped`: a change while the watcher was not listening, in a batch it took with it, or in a batch
  of paths whose filter failed within two seconds of an earlier failure (`gitStoreController.ts:277`).
* `shared`: the question has joined the read of another client that was older than a change.
* `unheard`: the cache was not told of a change to refs, because no watch was listening, or it was
  told while a query that had read before the change was yet to keep its result.
* `without`: a domain whose load failed, or whose result was thrown away because an event that nobody
  demands had moved the epoch (`:405`); the mark stays and no refresh is scheduled.

An accepted load removes a domain from `without`, and from the others if it has caught up; `unheard`
goes only when the cache holds no older refs either (`Worn`).

| Property | Kind | Says |
|---|---|---|
| `TypeOK` | invariant | types; a running drain has a domain, and waits for a query of it |
| `BindingFollowsWish` | invariant | when its messages are read, the backend watches exactly when it should |
| `FreshOrMarked` | invariant | an outdated snapshot is marked, or the news is on its way, or it is `ignored`, `skipped`, `shared` or `unheard` |
| `CacheFollowsWatch` | invariant | the cache holds older refs only while the watch or the end of a command is about to drop them, or after a change that went `unheard` |
| `DemandedIsScheduled` | invariant | what is marked and demanded has a timer, a query or a request, or is `without` |
| `CatchesUp` | liveness | a watched background domain does not stay out of date, except for the five notes |
| `NoNewsIgnored` | invariant, violated | the sequence number drops duplicates only |

### CheckpointStore

Two variables: the form in which every conversation can be continued, `legacy` or `compact`,
and whether the conversations are open. The form changes once, while they are closed, and they
are opened only in the new form.

### CheckpointMigration

| Variable | In the code |
|---|---|
| `heads` | the namespaces the user had before the upgrade |
| `active`, `target`, `backup` | `app.db`, the `.tmp` and the `.backup` beside it: the form of their checkpoint tables, the namespaces whose latest checkpoint they hold, the status of their row in `checkpoint_migration_state` |
| `journal` | the phase in the `.swap.json` file |
| `pc` | the next durable step of the backend, or where it rests: not running, given up, in the dialog, serving |
| `job` | who runs the swap: `create_app`, `recover` or the task the user started |
| `denied` | history: the system has refused an operation on a file |

**Where a step ends.** At whatever a crash can separate: each rename, each unlink, each journal
entry (a temporary file renamed over the old one) and each committed transaction. The copy
of the business rows and of the migration row is one transaction, the collapse one per
namespace. `Crash` is possible at every step and loses nothing but `pc`.

**Data.** The six statuses from `preflighting` to `ready_to_swap` are one, `running`: no code
path tells them apart, and the model does not write the progress figures. `Sound` is the smoke
check as it is written; it looks at the form and the row and not at the namespaces, and
whatever else it reads may fail (`SmokeFails`). The journal's paths and fingerprint always
match, since one process writes them.

**What fails.** Checks and the build may fail at any time, the process may die at any step, and a
temporary database may vanish while the backend is down. The system may refuse any operation on a file,
as Windows does while another program has the file open; `denied` records it. The operation is an
`os.replace` or an `unlink`, or the write of the journal, whose own temporary file or rename is refused
(`OperationFails`); the `_fsync_file` or `_remove_sidecars` behind a rename that has been made
(`SyncFails`); or the second operation of a step that makes two (`SecondFails`). A refusal in a start
ends the start, which is a crash at that point. The transaction in which a failure is recorded is taken
to commit. `ServedIsSettled` and `AcknowledgedIsFinal` hold whatever fails, the former with the
exception it names. The properties about the conversations hold until `denied`, because the failure
handler is then wrong about what it finds (the observations at the end of section 4); nothing is
assumed about how often the rest happens.

| Property | Kind | Says |
|---|---|---|
| `TypeOK` | invariant | types; no row is written to a missing database |
| `ServedIsComplete` | invariant | until `denied`: what is opened has every conversation |
| `RecoversVerified` | invariant | until `denied`: recovery drops the backup for a complete database only |
| `ServedIsSettled` | invariant | no journal and no backup beside an open database, and no target unless the open database is the empty file that the failure handler makes after a refusal |
| `OldKeptUntilVerified` | action | until `denied`: the last old copy goes after its successor is complete and completed |
| `AcknowledgedIsFinal` | action | what the user has acknowledged is never replaced |
| `ImplementsStore` | refinement | until `denied`: every step is a step of `CheckpointStore` |
| `OpensInTheEnd` | liveness | when the mishaps stop, the conversations are opened or the backend has given up |

### Properties of ChatStream

| Property | Kind | Says |
|---|---|---|
| `TypeOK` | invariant | types |
| `OneLiveTask` | invariant | one unfinished task, and `_runs` names it |
| `RunningRowHasOwner` | invariant | a row that claims activity has a live task, with two named exceptions |
| `GivenOnce` | invariant | delivered exactly once, whatever expires, crashes or is resent |
| `NoStrandedInput` | invariant | a session at rest holds only paused inputs |
| `HeldInputStays` | action | no step claims or delivers a held input |
| `FailedTurnStaysFailed` | action | a failed session is not shown as running before the next turn |
| `ImplementsDelivery` | refinement | every step is a step of `InputDelivery` |
| `AcceptedInputIsServed` | liveness | an accepted input leaves the box, unless held or the user is being waited for |

The exceptions of `RunningRowHasOwner` are real behaviours of the code. `stray`: an A2UI
answer is taken while the asking turn (kept alive by another tool call) is still there, so
`start_resume` writes `running` and is then refused; or a resume ends, by failure or by a stop
before its `try`, without writing the row. `orphan = "decided"`: the user decides an
approval whose turn has already failed.

## 3. Runs

| Run | Budget | States | Shows |
|---|---|---|---|
| `chat_safety` | one stop with an edit, a continuation and a question, or with a crash, a resend and a forced input | 0.92 M | the safety of a session that keeps running, and exactly-once, held and owned rows over a crash at any point |
| `chat_served` | one continuation, a question; `FairSpec` | 0.5 M | without a stop nothing is stranded and every accepted input is served |
| `chat_stop` | one stop | violated | finding 1 |
| `chat_late` | nothing | violated | finding 2 |
| `sub_user` | one cancellation, stop, crash | 1.4 M | the safety of an instance's runs |
| `sub_served` | the same, one run; `FairSpec` | 0.1 M | the parent's call returns |
| `sub_guidance` | nothing | violated | finding 3 |
| `sub_detached` | one stop of the parent | violated | finding 4 |
| `terminal` | two mounts, three chunks, a ring of two, a window of one; `FairSpec` | 0.6 M | the feed of a terminal, safety and liveness |
| `git` | ten budgets, below; `FairSpec` | 1.33 M | the view of a repository and the cache behind it, safety and liveness |
| `git_rebind` | a switch of project and two changes | violated | finding 5 |
| `migration` | two namespaces, no budget; `FairSpec` | 9,476 | no conversation is lost and the store opens, over crashes, failing checks and refused file operations |

**Bounds.** Two inputs are the least for which order, batches and the competition of a
steer and a queued row exist; one session because sessions are independent. Three task slots
are enough for a live task, a finished one whose finish task has not popped it, and one that
is in its observers; a slot is used again when its finish task has ended, so the
number of turns is not bounded by it. `BatchSize = 1` makes the middleware's batch smaller
than the box. `Budget` bounds only what the environment could repeat for ever: stops,
crashes, edits, resent or forced submissions, continuations and questions. Turns, steers,
approvals, resumes and drains are not charged. All budgets at one together exceed a few
minutes, so a behaviour of `chat_safety` chooses one of the two in `SafetyBudgets`, and liveness
has a run of its own; the proofs have no bounds.
Inputs and tasks are symmetric, and symmetry is used except where the property is temporal
under fairness. `CHECK_DEADLOCK FALSE`: a session at rest with an exhausted budget has
nothing left to do.

Two runs are the least for which a continuation can meet what its predecessor left behind,
two guidance messages the least for which a drain can send one while the other is handled,
and three task slots hold a live turn beside two that are still being finished. What a run
does by itself is not bounded; cancellations by the user, stops of the parent and crashes are.

Two mounts are the least for which a late command or result of one meets the other. Three
chunks against a ring of two make truncation possible, and against a window of one they make
the reader wait for credit. Unmounting, closing and the end of the process happen at any
point. With `Slack = 1` the end of the process, which needs no credit, fills the webview's queues to
the last place.

`GitView` has three domains, two that are refreshed in the background and one only for an
open surface, and three kinds of change: the logs touch the history; HEAD and the refs touch all
three and are hashed; the config touches the refs and is not. All bounds at one together give too
many states, so a behaviour chooses one of ten profiles: two changes around a switch, or beside
the queries of another client; a change with a loss, a surface, an edit and a failure, a command, or a
failure and another client; an edit with a switch and a loss; two edits whose filter fails twice; and
an edit beside a command. Reconnects, refreshes and queries of the view are not charged. The safety
properties were also checked once on fourteen larger profiles (two changes with a loss or a surface,
and a change with two of a switch, a loss, a surface and another client; 4.2 M states), and the proofs
are about any bounds.

`CheckpointMigration` has no counters: crashes, failures and retries may happen any number of
times. Two namespaces are the least for a target that is collapsed in part.

**Fairness.** `FairSpec` of `ChatStream` assumes that the event loop runs a task that is ready, hence weak
fairness of handlers, of the first step of a task and of the finish task; and that every turn
ends: a model call returns, fails or is cancelled by its time-out, and an approval
expires. It assumes nothing of the user. `AcceptedInputIsServed` is checked without a stop,
because of finding 1. `FairSpec` of `SubagentRuns` assumes the same of tasks and turns, and
that the control lock reaches each of its waiters, which `asyncio.Lock` serves in order; that
a parent that was stopped goes through with its cancellation; and nothing of the user.
`FairSpec` of `TerminalStream` assumes that the shell's threads run and serve commands, that
the webview's event loop turns, and that xterm parses what it is given; nobody has to mount,
unmount or close, and the process need not print or end. `FairSpec` of `GitView` assumes that
tasks and timers go on, that a query reads and ends, since every git process has a time-out, that a
command that has changed the repository ends, and that messages on an open connection arrive; nothing
of the user, of the repository or of the connection, which need not come back.
`FairSpec` of `CheckpointMigration` assumes that the backend goes on with its task, that it is
started again after it has ended, and that the user answers the dialog, which offers nothing else;
that mishaps stop is the premise of `OpensInTheEnd`, not an assumption.

## 4. Findings

1. *An input sent while a stopped turn unwinds is neither sent nor held* (`chat_stop`).
   `cancel` sweeps the box once; the end of a cancelled run returns before it converts or
   drains (`chat_stream_manager.py:807`). What arrives between the two waits, unpaused, until
   the user sends something else.
2. *An approval decided after its turn has failed shows the session as running*
   (`chat_late`). A failed turn leaves its pending requests in the table, and `resolve` writes
   `running` for any of them (`command_approval.py:471`). The row is repaired by the next turn,
   a stop or a restart.

3. *Guidance that no model call takes is lost* (`sub_guidance`). It is drained after the turn
   into a request that names no run, which `_ensure_session` refuses (`chat_service.py:2692`);
   its row says delivered. Guidance for a queued run always goes this way.
4. *A parent stopped while it announces a run leaves it queued for ever* (`sub_detached`).
   The `try` that cancels the run begins after `spawn` and `resume` have returned
   (`chat_service.py:2134`).
5. *After a rebind the Git view ignores events* (`git_rebind`). The controller keeps the highest
   sequence it has seen (`gitStoreController.ts:206`), and the backend's watch is dropped with
   its last subscriber and counts from one again (`events.py:90`). Changes after a switch to
   another project and back go unseen until the count has passed its old value.

What the migration does after a mishap, seen while modelling it (pc `refused` and the history
`denied` stand for it; the old or the verified database is intact at the first mishap):

* A crash between a rename and its journal entry needs manual recovery. `app.db` is there and
  the journal still says `source_backed_up`, a pair `recover` refuses at every start
  (`checkpoint_migration_swap.py:125`). The same after a restore that dies before it removes the
  journal. The old database is kept.
* A refused rename of the target, or a refused write of the journal before it
  (`checkpoint_migration_swap.py:105`), leaves an empty `app.db`: the handler reads the migration
  row, and connecting to a missing path creates the database (`api/checkpoint_migration.py:290`).
  If the journal still says `prepared`, the next start renames the empty file over the backup, the
  smoke check of what it then activates may fail, the empty file is restored, and `fail` asserts
  on its missing row; the start after that opens it, with the compact database still beside it.
  `ServedIsSettled` says that this is the only way a second database survives.
* A refused rename of the source leaves the journal at `prepared`; the retry rebuilds the target
  under it, and a crash in between makes the next start finish a swap that was never
  prepared (`checkpoint_migration_swap.py:117`). The smoke check does not compare namespaces.
* A refused clean-up marks the swapped database failed (`api/checkpoint_migration.py:292`); the
  retry copies it without its checkpoint tables and finds nothing to collapse.

More observations have no run of their own. A surface that is unmounted while xterm parses a chunk
and mounted again attaches with a cursor that lacks the chunk (`TerminalProvider.tsx:211`), so the
chunk is replayed and written to the same xterm twice; `NeverBackwards` therefore allows
repetition. An attachment that comes between the two steps of `close` (`manager.rs:353-355`)
leaves the reader of the removed terminal waiting for credit: its acknowledgements no longer find
the terminal and are taken as done (`:234`). A submission that starts a turn directly stores no
row, so a resent one starts a turn again or is queued (`chat_stream_manager.py:295`); `GivenOnce`
is about what went through the box. And an input sent between the pop of a run and its drain may
start before those queued during the run (`:880`); the code orders queued rows only.

The Git view is out of date and unmarked in three more ways than finding 5, and TLC violates
`FreshOrMarked` without the note of each. A watcher that has failed is never started again as long as
somebody subscribes (`skipped`). A change of `.git/config`, for instance by `git branch -u`, while no
watch is bound, or during a running read of the refs, leaves older refs in the cache under an unchanged
version; the resync of the next binding is answered with them and clears the mark, until the next event
(`unheard`). And a question that joins an older read of another client (`query_service.py:147`) is
accepted, because the epoch of this client has not moved since it asked (`shared`).

Three steps besides the stop of finding 1 leave an input in the box with nothing to start it, each by
itself; they are what the theorem `NoneStranded` excludes. A death of the process while no row is
active, for instance between `start_chat` and the turn's first write: recovery looks only for rows
that are `running` or `waiting_approval` (`:522`), so the box is not paused either. A row that
is made a steer after the leftover steers were converted and before the drain (`:344`). And an input
forced into the box while no turn runs, which is not drained: the sub-agent runtime does that on
purpose, before it starts the run itself.

## 5. Proofs

### ChatStream

`ChatStreamProofs.tla` proves, for any sets of inputs and tasks, any batch size and any budget:

| Theorem | Statement |
|---|---|
| `TypeCorrect` | `Spec => []TypeOK` |
| `OneLive` | `Spec => []OneLiveTask` |
| `Once` | `Spec => []GivenOnce` |
| `Held` | `Spec => HeldInputStays` |
| `RowOwned` | `Spec => []RunningRowHasOwner` |
| `NoneStranded` | `Spec /\ [][~Disturbance]_vars => []NoStrandedInput` |
| `NoneStrandedUndisturbed` | `ASSUME Undisturbing PROVE Spec => []NoStrandedInput` |
| `Implements` | `Spec => ImplementsDelivery` |

The assumptions are the three named ones of `ChatStream`: `NoTask` and `NoInput` are no
members of the sets they extend, the batch size is positive, budgets are natural numbers.

The argument:

* *Types* first: one lemma per group of actions, then induction.
* *OneLive* is inductive over `TypeOK`. Each action that launches a task has `~Live` as a
  guard, so no other task is unfinished; the pop clears `run` only when the popped task is the
  one it names, and that task is done.
* *Once* is not inductive by itself. A claim that expires must not be one that was
  delivered, and a row that is held must be neither claimed nor delivered, since resuming it
  would queue it again. The invariant is `BoxInv`: `GivenOnce` together with `HeldRows`
  (a paused row is editable or withdrawn). *Held* follows from the guards of the claims and
  from `HeldRows`.
* *RowOwned* is not inductive because a chat task that has not begun is live without having
  written the row. `RowInv` says which task may stand behind an active row: one in its turn,
  or a managed one that `start_resume` wrote `running` for. The end of a turn is then the only
  place where ownership is lost, and each ending writes a final status or is recorded in
  `stray` or `orphan`.
* *Implements* maps each step: submissions to Accept, pauses to Hold, resumes to Release,
  steers to Join, drains to StartNext, other launches to StartOther, the ends of a turn and
  a crash to End, everything else to a stutter. It uses the three invariants above.

* *NoneStranded* says what is true of finding 1. `Disturbance` names the steps that strand an input:
  a stop, a death of the process, a row made a steer while no turn is live, an input forced into
  the box while neither a turn nor a question is open. TLC violates `NoStrandedInput` with
  each of them alone, so none can be left out; without them it holds. The invariant is `RestInv`:
  nothing is held, claimed or stopped (`Undisturbed`); a row that waits for an answer has a question, an
  answer on its way, or a lost one (`Asked`); and (`Expected`) a steer has a task that will still
  convert it (`Converting`: live, done and named by `run`, or in the first half of its
  finish), a queued row has that, a drain, a question or an answer (`Coming`). The delicate steps are
  the finish task's: when another run has taken the registry entry, the old task converts nothing,
  and it must be the new one that is `Converting`. The corollary puts the condition on the budget:
  `Undisturbing` allows any continuations, questions and resends, so `chat_served`, which checks one
  such budget, has no bound to blame.

Only model-checked: `AcceptedInputIsServed` (liveness under fairness is beyond the
prover).

### SubagentRuns

`SubagentProofs.tla` proves, for any sets of runs, guidance and tasks and any budget, from
the assumptions that `NoRun` and `NoTask` are not members of the sets they extend, that
guidance is not named like a holder of the lock, and that budgets are natural numbers:

| Theorem | Statement |
|---|---|
| `TypeCorrect` | `Spec => []TypeOK` |
| `Implements` | `Spec => ImplementsLifecycle` |
| `EndedHolds` | `Spec => []EndedRunHoldsInputs` |
| `Driven` | `Spec => []RunIsDriven` |

* *Implements* needs that a turn's run has started, otherwise its report could complete a
  queued run, and that one run is active at most, otherwise a restart would end several in
  one step. `LifeInv` says so. A step of `SubagentLifecycle` keeps both, so the proof that
  the steps map (`LifeStep`) is also the heart of the proof that `LifeInv` is inductive.
* *EndedHolds*: the box is swept when a cancellation begins, and the run ends two awaits later.
  `HoldInv` carries the sweep over to the end: while the lock is held for a cancellation
  nothing new enters the box for this run (a steer needs the lock), and rows that move on stay
  held. The report of a stopped turn could also write `cancelled`; it never does, because
  a stopped task belongs to a run whose lock is held or which has ended (`StoppedOwners`).
* *Driven*: the registry entry of a running run is only overwritten by a turn of the same run
  (`SteerDirect`), by the launch of another run, or by a drain. The second cannot be, because
  no other run is active while a call is open (`CallerAlone`); the third loses guidance
  (`DrainLoses`), and guidance that is lost stays lost (`HeardStep`).

Only model-checked: `CallReturns`.

### TerminalStream

`TerminalProofs.tla` and the modules that extend it, one after the other, `TerminalFlow.tla`,
`TerminalQueues.tla` and `TerminalWindow.tla`, prove, for any number of mounts and chunks, any ring and any window, from
the assumptions that the limits are positive and that `Nobody` is no attachment:

| Theorem | Statement |
|---|---|
| `TypeCorrect` | `Spec => []TypeOK` |
| `Owner` | `Spec => []MountedIsSubscriber` |
| `Final` | `Spec => EndIsFinal` |
| `FlowInvariant` | `Spec => []FlowInv` |
| `NoHole` | `Spec => []NoSilentLoss` |
| `Implements` | `Spec => ImplementsFeed` |
| `Newer` | `Spec => []NeverBackwards` |
| `NeverOverflows` | `Spec => []NoOverflow` |

* *Types* are not inductive: that the chunk written or acknowledged is a chunk follows from who
  waits for it. `Typing` adds `Busy` (a reader between its locks has a chunk and an addressee)
  and `Waits` (one write for each attachment that waits for xterm, one call for each that waits
  for an acknowledgement).
* *Owner*: attach of a newer mount and detach of the mounted one are the only commands that
  could take the stream. `Order` excludes both: attachments are mounted one after another
  (`Newest`), the calls of attach wait in that order (`InLine`) and are served and answered in
  it (`Served`); a detach in the queue is of an attachment that is no longer mounted.
* *Final*: results are answered in the order of the mounts, so one that is still on its way was
  cut later than one that has arrived. `Announced` says so, and that nothing claims the end
  before it; `Quiet` says the latter of the events in every queue.

* *NoHole* and *Implements* (the last three, in `TerminalFlow.tla`): a chunk passes the ring or
  the replay, the pending and the raw queue, the channel and the reader before it is shown, and
  a cut can happen at several of them. `FlowInv` is `Typing` with three parts. `Phases` says
  which queues are in use when, and that nobody sends to an attachment before attach has run.
  `Counts` says that what is acknowledged is within the cursor, that the chunk being written
  may be shown, and that the cursor of a call is never ahead of the store's. `Flow` takes the
  replay, the two queues and the channel of an active attachment as one queue and asks that it
  be `Linked`: every chunk in it may be shown now, or follows its predecessor or an announced
  truncation that is earlier in the queue; and that the next chunk, the one the reader holds or
  the next one printed, may join it (`Due`, `DueNext`, `Open`). Every step keeps this and
  is one of `FeedMoves`, which the refinement mapping takes to `Produce`, `Announce`, `Show` or
  a stutter.

* *Newer* (`TerminalQueues.tla`): the screen has no memory of who wrote to it, so a chunk that is
  queued for one attachment must not be older than what another has shown. `QueueInv` is `FlowInv` and
  `Order` with `Over` (a disposed or refused attachment has empty queues) and `ScreenInv`: nothing on
  the screen is newer than the chunk that may come next (`Allowed`), the announced truncation is not
  ahead of the ring, and `Ahead`: no queued chunk is older than the announced truncation, no queued
  truncation is newer than a chunk queued behind it or for a later mount. The last part is needed because
  a remount's replay starts at the cursor the store had then, while the cut that announces the
  loss may still wait in the queue of the mount before. The steps are reduced to four moves of a
  queue (`Kept`, `Mounted`, `Sends`, `Takes`), which `TerminalWindow` uses again.
* *NeverOverflows* (`TerminalWindow.tla`): what an attachment queues was charged to the subscriber's
  window, and it is paid back by the attachment's own acknowledgements only. `WindowInv` adds to
  `QueueInv` that the shell never has more than `Window` chunks in flight (`InFlight`), that an acknowledgement
  is for the chunk its attachment waits for (`Acks`), and for every active attachment `WindowOf`: its
  queue holds only outputs, each once and in order, and at most one end of the process; they are newer
  than what came before them and older than what the reader holds; and, while it is the
  subscriber, they are all in flight. A mount that has lost the stream keeps the bound by
  itself, since nothing is sent to it any more. Length follows from cardinality (`Counting`): the
  queues, channel included, never hold more than `Window + 1` events, so the slack the webview adds
  to the window is never used up.

TLC has checked both invariants as they stand (`ScreenInv`, `WindowInv`) before they were proved, on
three mounts and three chunks with ring and window of one (3.6 M states) and on two mounts and four
chunks with ring and window of two (1.1 M states).

Only model-checked: `OutputIsShown`, `EndIsShown` and `ReaderIsFree` (liveness).

### GitView

`GitViewProofs.tla` proves, for any domains, kinds of change and bounds, from the assumptions
that the background domains are domains with `status` and `refs` among them, that a change
touches something and is or is not hashed, and that bounds are natural numbers:

| Theorem | Statement |
|---|---|
| `TypeCorrect` | `Spec => []TypeOK` |
| `Bound` | `Spec => []BindingFollowsWish` |
| `CacheFollows` | `Spec => []CacheFollowsWatch` |
| `Fresh` | `Spec => []FreshOrMarked` |
| `Served` | `Spec => []DemandedIsScheduled` |

* *Bound*: the last message to the backend decides. `BindInv` adds that a project which is
  still being opened has no wish yet, so the bind at the end of `activateProject` is the first
  (`Opening`); that the backend knows no connection that was not opened yet, so a new one is
  not among its subscribers (`Subscribers`); and that a lost connection holds no messages.
* *CacheFollows*: an entry of the cache is found only under the key of today (`Key`), and a change that is
  hashed moves the version but not the one that is kept. `CacheInv` adds `KeysGrow`: the kept version is
  none or not above the computed one, and no entry and no running query has a key above it. Hence an
  entry is not found under a version that is new. What remains is a change that leaves the key as it is,
  or a query that keeps a result it read before (`Told`): the watch has noticed the change, or it
  is written down in `unheard`.
* *Fresh*: a mark is cleared only by a result that is accepted, and such a result may be older
  than the repository. `FreshInv` says of the answer, and of the running query the drain waits for, that
  then the news of the change is still on its way (`Outrun`) or noted: had it arrived, it would have
  moved the epoch and the result would be refused. `QueryFresh` and `BeginFresh` show it of the three
  ways to an answer: a read of one's own is as new as the repository at that moment; an entry of the
  cache is so by `CacheFollows`, up to what is noticed or `unheard`; a joined read that is older is noted
  in `shared`. That the news reaches this connection at all uses `Bound`.

* *Served* is inductive over `TypeOK` and `BindInv`. Each lemma says where a domain is found that a
  step has taken from the timer, the request or the round: a timer that fires, or an immediate
  invalidation that clears it, queues everything demanded and invalid (`NowQueues`,
  `RequestSchedules`); the drain continues with what was requested meanwhile (`AdvanceQueues`);
  a result that is refused or does not come leaves its domain to the timer, to a request, or to
  the note `without` (`LoadedSchedules`). Binding makes the promise anew, and the resync that keeps it is
  on one of the wires until then (`WireSchedules`, `AdvanceSyncs`). Opening the surface demands
  more domains at once; that it also queues them needs `Opening` of `BindInv`.

Only model-checked: `CatchesUp` (liveness).

### CheckpointMigration

`CheckpointProofs.tla` proves, for any set of namespaces and without assumptions:

| Theorem | Statement |
|---|---|
| `TypeCorrect` | `Spec => []TypeOK` |
| `SettledWhenServed` | `Spec => []ServedIsSettled` |
| `FinalWhenAcknowledged` | `Spec => AcknowledgedIsFinal` |

and, with their condition that no operation on a file has been refused so far:

| Theorem | Statement |
|---|---|
| `ContentInvariant` | `Spec => []ContentInv` |
| `CompleteWhenServed` | `Spec => []ServedIsComplete` |
| `VerifiedWhenRecovered` | `Spec => []RecoversVerified` |
| `OldKept` | `Spec => OldKeptUntilVerified` |
| `Implements` | `Spec => ImplementsStore` |

The second group is false without the condition, as the observations in section 4 say.

* *Types* need `FilesAtHand`: which files exist, by what the backend is doing.
* *Settled* and *Final* hold whatever fails, *Settled* with the exception of a target beside an
  empty `app.db` after a refusal. `RestInv` relates journal, statuses and leftovers: `Journaled`
  says what the journal reads at each step of the swap, `Staged` which status the row has,
  `Leftovers` that a backup never outlives the journal and that a database without an unfinished
  migration has no target beside it, unless it has no migration row at all. Then `Final` follows:
  no step that could touch an acknowledged database has its guard.
* For the rest, `Contents` says what the files hold. With a journal they are in one of four
  situations: `Before` (old database in place), `Between` (no `app.db`), `After` (new one in
  place, old one kept), `Done`; `Stages` says in which of them each step may happen. Without a
  journal `app.db` is the old database or a complete new one. `RecoversVerified` needs no more,
  since the journal is written only over a complete target and the target is not rebuilt while
  there is a journal, which is exactly what a refused rename of the source breaks. The invariant is
  `RestInv /\ (denied \/ Contents)`; `DeniedStays` says that a refusal is not forgotten.
* *OldKept* and *Implements* add that the old database is given up in `DropBackup` only
  (`GivenUp`); that step is `Commit`, the opening `Open`, a crash while serving `Close`, all
  others stutter.

Only model-checked: `OpensInTheEnd` (liveness).

## 6. What is not modelled, and the plan

Left out of the scheduler's model: soft deletion, and the archive, purge and fork rewrites of
the box; shutdown, which stops the loop without further promises and is a crash for the
tables.

Left out of the sub-agent runtime's model: events and subscriptions, validation of requests,
`close` and `blocked_on`, and several instances of one parent, which share nothing but the
parent's call.

Left out of the terminal: creation and its limits, input, resize, kill and rename, the list of
a session's terminals and its hydration, sends that fail, limits in bytes.

Left out of the migration: the saver and the serializer, what a collapsed checkpoint holds and
its checks, the space and version checks of the preflight (they fail like any other), WAL
sidecars, a journal that cannot be read, the maintenance gate in front of the API, and a second
process on the data directory, which the shell's single instance excludes.

Left out of the Git view: discovery, several repositories, bare ones, retry and cancellation of
commands and what a failed command invalidates, pagination, the persisted state of the interface;
the cached answers that the view does not ask for (worktrees, submodules, commit details and the
like); `remotes`, which reads refs without the lock, and the other write paths of the backend,
which invalidate as a command does. No change restores an earlier content, so a version that
returns does not occur; the order in which a drain takes its domains is arbitrary. Of the
WebSocket client only the Git watch is modelled; sessions and file watches are bound by the same
pattern.

Most of the desktop is React components, some 200,000 lines that lay out, format and edit. They
hold little state that outlives a render, and this project does not model them. What
has state of that kind, and is not modelled yet, is the conversation store, which merges
history and events, and the annotation and preview caches.

Planned, in this order:

1. `Approvals`: several requests of one turn, decisions, time-outs and cancellation against
   the polling waiter. Theorem: decided at most once.
2. `A2UIResume`: peers, the answer group, the resume rows and their claims.
3. `ThreadTask`: the Goal's run rows, its stale idle check and its accounting.
4. `LifecycleOperations`: archive and purge resumed after a crash.
5. `ConversationStore`: the merge of history and live events after a reconnect.
6. The repository locks of the Git service and the mutation generations of the change hub.

Out of reach: the model calls and LangGraph's own scheduling (external and
nondeterministic: they are the turn of `ChatStream`), child processes, the renderer's
layout, the Rust shell's windows and its supervision of processes.
