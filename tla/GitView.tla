------------------------------ MODULE GitView ------------------------------
(***************************************************************************)
(* How the desktop's view of one Git repository follows the repository:    *)
(* the backend's metadata watch (GitMetadataEventService), the WebSocket   *)
(* that binds to it and carries its events, and in the webview the client  *)
(* that binds again after a reconnect, GitProvider, GitStoreController     *)
(* with its debounce timer and its serial refreshes, and the snapshots and *)
(* invalidated domains of the Git store.                                   *)
(*                                                                         *)
(* Granularity.  A step of the webview runs from one await to the next; a  *)
(* microtask queued by a step belongs to it.  A query of the backend is up *)
(* to three steps, between which everything may happen: it begins when it  *)
(* holds the lock of the repository, takes the version and looks into the  *)
(* cache; git reads the repository; the result is kept and answered.  The  *)
(* state of a domain is the number of changes made to it, the version the  *)
(* number of changes to what repository_version hashes: no change restores *)
(* an earlier content.                                                     *)
(*                                                                         *)
(* The project is discovered, with this repository selected; it is not     *)
(* bare.  The numbers of events with no mapped domain are left out: they   *)
(* only leave gaps in the sequence.                                        *)
(***************************************************************************)
EXTENDS Naturals, Sequences, FiniteSets

CONSTANTS
  Domains,      \* "status", "refs" and the domains only an open Git surface refreshes
  Background,   \* isBackgroundRefreshDomain
  Kinds,        \* metadata changes: the domains git_metadata_domains gives for one, and
                \* whether repository_version hashes the file
  Budgets       \* the bounds on the steps the environment may repeat at will: one is chosen

Limited == {"change", "edit", "command", "switch", "loss", "surface", "failure", "reader"}

ASSUME DomainAssumption == Background \subseteq Domains /\ {"status", "refs"} \subseteq Background
ASSUME KindAssumption == Kinds \subseteq [domains : (SUBSET Domains) \ {{}}, hashed : BOOLEAN]
ASSUME BudgetAssumption == Budgets \subseteq [Limited -> Nat]

VARIABLES
  disk,       \* the repository: changes made to each domain
  version,    \* what repository_version would compute
  memo,       \* _repository_versions: the version kept, or 0
  cache,      \* _cache: the refs kept under a version
  query,      \* the query that holds the lock of the repository
  watch,      \* the _RepositoryWatch: its loop ("none": no watch), its sequence, its subscribers
  noticed,    \* domains changed since the watch loop took its last batch
  batch,      \* handle_raw_changes between taking its number and sending
  conn,       \* the WebSocket: number of the connection, and whether it is open
  up, down,   \* its messages on the way to the backend and to the webview
  project,    \* GitProvider: is the project active, is activateProject still awaited
  desired,    \* desiredGitRepositoryWatches holds the repository
  shown,      \* the snapshots of the store
  invalid,    \* invalidatedDomainsByRepository
  lastSeq,    \* lastEventSequence
  timer,      \* timers holds a debounce timer
  requested,  \* requestedDomains
  drain,      \* drainRepositoryRefreshes
  surface,    \* foregroundActive
  paths,      \* the filter of worktree paths
  command,    \* a Git command: it has changed the repository, it has ended, its end is polled
  ignored,    \* history: domains of events dropped by their sequence number
  skipped,    \* history: domains with a change nobody was told of, for a failure or a late start
  shared,     \* history: domains whose query has joined one that had read before a change
  unheard,    \* history: refs, when the cache was not told of a change, or was too early
  without,    \* history: domains whose last load left no snapshot and nothing scheduled
  budget      \* what is left of the chosen bounds

served == <<memo, cache, query>>
server == <<watch, noticed, batch, served>>
wire   == <<conn, up, down>>
page   == <<project, desired, surface>>
store  == <<shown, invalid, lastSeq>>
queue  == <<timer, requested, drain>>
notes  == <<ignored, skipped, without, shared, unheard>>
vars   == <<disk, version, server, wire, page, store, queue, paths, command, notes, budget>>

Idle    == [on |-> FALSE, left |-> {}, cur |-> "none", phase |-> "ask", val |-> 0, current |-> TRUE]
NoBatch == [on |-> FALSE, seq |-> 0, domains |-> {}, subs |-> {}]
NoWatch == [loop |-> "none", seq |-> 0, subs |-> {}]
NoQuery == [on |-> FALSE, domain |-> "none", step |-> "keyed", key |-> 0, val |-> 0, waited |-> FALSE]

Spend(kind) == budget[kind] > 0 /\ budget' = [budget EXCEPT ![kind] = @ - 1]

Init ==
  /\ disk = [d \in Domains |-> 1] /\ version = 1
  /\ memo = 0 /\ cache = {} /\ query = NoQuery
  /\ watch = NoWatch /\ noticed = {} /\ batch = NoBatch
  /\ conn = [id |-> 1, open |-> TRUE] /\ up = <<>> /\ down = <<>>
  /\ project = [active |-> FALSE, opening |-> FALSE] /\ desired = FALSE /\ surface = FALSE
  /\ shown = [d \in Domains |-> 0] /\ invalid = {} /\ lastSeq = 0
  /\ timer = FALSE /\ requested = {} /\ drain = Idle
  /\ paths = [pending |-> FALSE, timer |-> FALSE, asked |-> FALSE, backoff |-> FALSE]
  /\ command = "none"
  /\ ignored = {} /\ skipped = {} /\ without = {} /\ shared = {} /\ unheard = {}
  /\ budget \in Budgets

-----------------------------------------------------------------------------
(* The repository and its watch. *)

Touched(ds) == [d \in Domains |-> IF d \in ds THEN disk[d] + 1 ELSE disk[d]]

\* What the watch loop makes of a change: it notices, or it is there and does not listen.
\* A change it does not notice leaves the cache as it is.
Notice(ds) ==
  /\ noticed' = IF watch.loop = "running" THEN noticed \cup ds ELSE noticed
  /\ skipped' = IF watch.loop \in {"starting", "dead"} THEN skipped \cup ds ELSE skipped
  /\ unheard' = IF watch.loop = "running" THEN unheard ELSE unheard \cup (ds \cap {"refs"})

\* Somebody writes to the gitdir.
Change(k) ==
  /\ Spend("change")
  /\ disk' = Touched(k.domains) /\ Notice(k.domains)
  /\ version' = IF k.hashed THEN version + 1 ELSE version
  /\ UNCHANGED <<watch, batch, served, wire, page, store, queue, paths, command, ignored, without, shared>>

\* Somebody writes to a file of the worktree: FileChangeProvider passes the path on, and
\* handleExternalWorktreePaths collects it and starts its debounce timer again.  GitProvider
\* listens to the active project only.
Edit ==
  /\ Spend("edit")
  /\ disk' = Touched({"status"})
  /\ paths' = IF project.active THEN [paths EXCEPT !.pending = TRUE, !.timer = TRUE] ELSE paths
  /\ UNCHANGED <<version, server, wire, page, store, queue, command, notes>>

\* A Git command of the user has changed the repository.
Command ==
  /\ Spend("command") /\ command = "none"
  /\ command' = "ran"
  /\ disk' = Touched(Domains) /\ Notice(Domains)
  /\ version' = version + 1
  /\ UNCHANGED <<watch, batch, served, wire, page, store, queue, paths, ignored, without, shared>>

\* The version the queries go by.
Key == IF memo = 0 THEN version ELSE memo

\* Refs that were read too early are about to be kept under the version of today.
Belated ==
  /\ query.on /\ query.domain = "refs" /\ query.step = "read"
  /\ query.key = version /\ query.val < disk["refs"]

\* Faulty: the version is computed anew, and what was kept under it stays.
ForgetVersion(v) ==
  /\ memo' = v /\ UNCHANGED cache
  /\ unheard' = IF Belated THEN unheard \cup {"refs"} ELSE unheard

\* invalidate: the version and what is kept under it are dropped; v is the version kept next.
Forget(v) ==
  /\ memo' = v /\ cache' = {}
  /\ unheard' = IF Belated THEN unheard \cup {"refs"} ELSE unheard

\* The command succeeds: invalidate, and the version for its answer; runCommand has yet to poll it.
CommandEnds ==
  /\ command = "ran" /\ command' = "ended"
  /\ Forget(version)
  /\ UNCHANGED <<disk, version, watch, noticed, batch, query, wire, page, store, queue, paths,
                 ignored, skipped, without, shared, budget>>

\* The task of the watch has started the watcher: changes are noticed from here on.
WatcherStarts ==
  /\ watch.loop = "starting" /\ watch' = [watch EXCEPT !.loop = "running"]
  /\ UNCHANGED <<disk, version, noticed, batch, served, wire, page, store, queue, paths, command, notes, budget>>

\* The watcher fails; the watch stays, and nobody starts its loop again.
WatcherFails ==
  /\ watch.loop = "running" /\ Spend("failure")
  /\ watch' = [watch EXCEPT !.loop = "dead"]
  /\ noticed' = {} /\ batch' = NoBatch
  /\ skipped' = skipped \cup noticed \cup batch.domains
  /\ unheard' = unheard \cup (noticed \cap {"refs"})
  /\ UNCHANGED <<disk, version, served, wire, page, store, queue, paths, command, ignored, without, shared>>

\* handle_raw_changes up to its await: the batch takes its number and its subscribers, and the
\* cache is invalidated.
TakeBatch ==
  /\ watch.loop = "running" /\ noticed # {} /\ ~batch.on
  /\ watch' = [watch EXCEPT !.seq = @ + 1]
  /\ batch' = [on |-> TRUE, seq |-> watch.seq + 1, domains |-> noticed, subs |-> watch.subs]
  /\ noticed' = {}
  /\ Forget(0)
  /\ UNCHANGED <<disk, version, query, wire, page, store, queue, paths, command,
                 ignored, skipped, without, shared, budget>>

\* The rest of it: the event goes to the subscribers that were there.
SendBatch ==
  /\ batch.on
  /\ batch' = NoBatch
  /\ down' = IF conn.open /\ conn.id \in batch.subs
             THEN Append(down, [type |-> "event", seq |-> batch.seq, domains |-> batch.domains])
             ELSE down
  /\ UNCHANGED <<disk, version, watch, noticed, served, conn, up, page, store, queue, paths, command, notes, budget>>

\* The watch after a subscriber has left: the last one takes the watch, its sequence and
\* its loop with it, and what the loop had noticed.
Leave(c) ==
  IF watch.subs \subseteq {c}
  THEN /\ watch' = NoWatch /\ noticed' = {} /\ batch' = NoBatch
       /\ unheard' = unheard \cup (noticed \cap {"refs"})
  ELSE /\ watch' = [watch EXCEPT !.subs = @ \ {c}]
       /\ UNCHANGED <<noticed, batch, unheard>>

\* websocket: bind_git_repository_watch.
ServeBind ==
  /\ up # <<>> /\ Head(up) = "bind"
  /\ up' = Tail(up)
  /\ watch' = [loop |-> IF watch.loop = "none" THEN "starting" ELSE watch.loop,
               seq |-> watch.seq, subs |-> watch.subs \cup {conn.id}]
  /\ down' = Append(down, [type |-> "bound", seq |-> watch.seq, domains |-> Domains])
  /\ UNCHANGED <<disk, version, noticed, batch, served, conn, page, store, queue, paths, command, notes, budget>>

\* websocket: unbind_git_repository_watch.
ServeUnbind ==
  /\ up # <<>> /\ Head(up) = "unbind"
  /\ up' = Tail(up)
  /\ Leave(conn.id)
  /\ UNCHANGED <<disk, version, served, conn, down, page, store, queue, paths, command,
                 ignored, skipped, without, shared, budget>>

\* The backend finds a connection gone: the finally of the websocket handler.
ServeGone(c) ==
  /\ c \in watch.subs /\ ~(conn.open /\ conn.id = c)
  /\ Leave(c)
  /\ UNCHANGED <<disk, version, served, wire, page, store, queue, paths, command,
                 ignored, skipped, without, shared, budget>>

-----------------------------------------------------------------------------
(* The connection. *)

Lose ==
  /\ conn.open /\ Spend("loss")
  /\ conn' = [conn EXCEPT !.open = FALSE] /\ up' = <<>> /\ down' = <<>>
  /\ UNCHANGED <<disk, version, server, page, store, queue, paths, command, notes>>

\* Faulty: the watches are not bound again.
ReconnectUnbound ==
  /\ ~conn.open
  /\ conn' = [id |-> conn.id + 1, open |-> TRUE]
  /\ UNCHANGED <<disk, version, server, up, down, page, store, queue, paths, command, notes, budget>>

\* scheduleReconnect and onopen: every desired watch is bound again.
Reconnect ==
  /\ ~conn.open
  /\ conn' = [id |-> conn.id + 1, open |-> TRUE]
  /\ up' = IF desired THEN <<"bind">> ELSE <<>>
  /\ UNCHANGED <<disk, version, server, down, page, store, queue, paths, command, notes, budget>>

-----------------------------------------------------------------------------
(* Refreshing: the drain of the controller. *)

\* Faulty: the round begins before it has taken its first domain.
RoundUntaken(ds, d) == [on |-> TRUE, left |-> ds, cur |-> "none", phase |-> "ask", val |-> 0, current |-> TRUE]

\* The drain begins a round with the domains ds: epoch captured, first domain asked.
Round(ds, d) == [on |-> TRUE, left |-> ds \ {d}, cur |-> d, phase |-> "ask", val |-> 0, current |-> TRUE]

\* refreshRepository: add to the requested domains; start a drain unless one runs.
Request(ds) ==
  IF ds = {} THEN UNCHANGED <<requested, drain>>
  ELSE IF drain.on THEN requested' = requested \cup ds /\ UNCHANGED drain
  ELSE /\ requested' = {}
       /\ \E d \in requested \cup ds : drain' = Round(requested \cup ds, d)

Demanded == IF surface THEN Domains ELSE Background

\* Faulty: the epoch does not move, a result asked before stays acceptable.
NotOutdated(r) == r

\* invalidateRepository: the domains are marked and the epoch moves on.
Outdated(r) == IF r.on THEN [r EXCEPT !.current = FALSE] ELSE r

\* Faulty: the timer is cleared before it is known whether anything is demanded.
InvalidateLaterCleared(ds) ==
  /\ invalid' = invalid \cup ds
  /\ drain' = Outdated(drain)
  /\ timer' = (ds \cap Demanded # {})
  /\ UNCHANGED requested

\* invalidateAndSchedule, debounced: the epoch moves on whatever is demanded.
InvalidateLater(ds) ==
  /\ invalid' = invalid \cup ds
  /\ drain' = Outdated(drain)
  /\ timer' = (timer \/ ds \cap Demanded # {})
  /\ UNCHANGED requested

\* invalidateAndSchedule, immediate: the timer is cleared and the refresh requested.
InvalidateNow(ds) ==
  /\ invalid' = invalid \cup ds
  /\ timer' = FALSE
  /\ IF drain.on
     THEN requested' = requested \cup (invalid' \cap Demanded) /\ drain' = Outdated(drain)
     ELSE Request(invalid' \cap Demanded)

\* The debounce timer fires.
TimerFires ==
  /\ timer /\ timer' = FALSE
  /\ Request(invalid \cap Demanded)
  /\ UNCHANGED <<disk, version, server, wire, page, store, paths, command, notes, budget>>

\* Faulty: one round only; what was requested meanwhile waits for another request.
AdvanceOnce ==
  \/ /\ drain.left # {}
     /\ \E d \in drain.left : drain' = [drain EXCEPT !.left = @ \ {d}, !.cur = d, !.phase = "ask", !.val = 0]
     /\ UNCHANGED <<requested, project, desired, up>>
  \/ /\ drain.left = {}
     /\ drain' = Idle
     /\ UNCHANGED requested
     /\ project' = [project EXCEPT !.opening = FALSE]
     /\ IF project.opening
        THEN desired' = TRUE /\ up' = IF conn.open THEN Append(up, "bind") ELSE up
        ELSE UNCHANGED <<desired, up>>

\* The loop of the drain after a domain: the next one of the round, a new round for what
\* was requested meanwhile, or the end, on which an awaited activateProject binds the watch.
Advance ==
  \/ /\ drain.left # {}
     /\ \E d \in drain.left : drain' = [drain EXCEPT !.left = @ \ {d}, !.cur = d, !.phase = "ask", !.val = 0]
     /\ UNCHANGED <<requested, project, desired, up>>
  \/ /\ drain.left = {} /\ requested # {}
     /\ \E d \in requested : drain' = Round(requested, d)
     /\ requested' = {}
     /\ UNCHANGED <<project, desired, up>>
  \/ /\ drain.left = {} /\ requested = {}
     /\ drain' = Idle
     /\ UNCHANGED requested
     /\ project' = [project EXCEPT !.opening = FALSE]
     /\ IF project.opening
        THEN desired' = TRUE /\ up' = IF conn.open THEN Append(up, "bind") ELSE up
        ELSE UNCHANGED <<desired, up>>

-----------------------------------------------------------------------------
(* The queries of the backend. *)

Hits == {e \in cache : e.key = Key}

Running(d, step, key, val, mine) ==
  [on |-> TRUE, domain |-> d, step |-> step, key |-> key, val |-> val, waited |-> mine]

\* A query begins, one of a repository at a time: status runs git, the others take the version
\* first, and refs are answered from the cache if they are kept under it.
Begin(d, mine) ==
  /\ ~query.on
  /\ memo' = IF d = "status" THEN memo ELSE Key
  /\ \/ d = "status" /\ query' = Running(d, "read", 0, disk[d], mine)
     \/ d = "refs" /\ \E e \in Hits : query' = Running(d, "hit", e.key, e.val, mine)
     \/ d # "status" /\ (d = "refs" => Hits = {}) /\ query' = Running(d, "keyed", Key, 0, mine)

\* loadDomain: the question of the drain begins a query, or joins the same one of another client.
Ask ==
  /\ drain.on /\ drain.phase = "ask"
  /\ drain' = [drain EXCEPT !.phase = "wait"]
  /\ \/ Begin(drain.cur, TRUE) /\ UNCHANGED shared
     \/ /\ query.on /\ query.domain = drain.cur
        /\ query' = [query EXCEPT !.waited = TRUE] /\ UNCHANGED memo
        /\ shared' = IF query.step # "keyed" /\ query.val < disk[drain.cur]
                     THEN shared \cup {drain.cur} ELSE shared
  /\ UNCHANGED <<disk, version, watch, noticed, batch, cache, wire, page, store, timer, requested, paths,
                 command, ignored, skipped, without, unheard, budget>>

\* Another client of the backend asks.
OtherAsks(d) ==
  /\ Spend("reader") /\ Begin(d, FALSE)
  /\ UNCHANGED <<disk, version, watch, noticed, batch, cache, wire, page, store, queue, paths, command, notes>>

\* git reads the repository.
ReadRepository ==
  /\ query.on /\ query.step = "keyed"
  /\ query' = [query EXCEPT !.step = "read", !.val = disk[query.domain]]
  /\ UNCHANGED <<disk, version, watch, noticed, batch, memo, cache, wire, page, store, queue, paths,
                 command, notes, budget>>

\* The query ends: status computes the version anew, refs are kept under the version taken
\* at the beginning, and who waits for it is answered.
EndQuery ==
  /\ query.on /\ query.step \in {"read", "hit"}
  /\ memo' = IF query.domain = "status" THEN version ELSE memo
  /\ cache' = IF query.domain = "refs" /\ query.step = "read"
              THEN {e \in cache : e.key # query.key} \cup {[key |-> query.key, val |-> query.val]}
              ELSE cache
  /\ query' = NoQuery
  /\ drain' = IF query.waited THEN [drain EXCEPT !.phase = "answered", !.val = query.val] ELSE drain
  /\ UNCHANGED <<disk, version, watch, noticed, batch, wire, page, store, timer, requested, paths,
                 command, notes, budget>>

\* Refs older than the repository would be answered from the cache, or are about to be kept there.
Worn ==
  \/ \E e \in Hits : e.val < disk["refs"]
  \/ /\ query.on /\ query.domain = "refs" /\ query.step = "read"
     /\ query.key = Key /\ query.val < disk["refs"]

-----------------------------------------------------------------------------
(* The webview: the results. *)

\* refreshDomain: the result arrives; it is stored only if the epoch is still the same.
Install ==
  /\ drain.on /\ drain.phase = "answered"
  /\ IF drain.current
     THEN /\ shown' = [shown EXCEPT ![drain.cur] = drain.val]
          /\ invalid' = invalid \ {drain.cur}
          /\ without' = without \ {drain.cur}
          /\ LET caught == IF drain.val = disk[drain.cur] THEN {drain.cur} ELSE {} IN
               /\ ignored' = ignored \ caught /\ skipped' = skipped \ caught
               /\ shared' = shared \ caught
               /\ unheard' = IF Worn THEN unheard ELSE unheard \ caught
     ELSE /\ without' = IF timer \/ drain.cur \in requested THEN without ELSE without \cup {drain.cur}
          /\ UNCHANGED <<shown, invalid, ignored, skipped, shared, unheard>>
  /\ Advance
  /\ UNCHANGED <<disk, version, server, conn, down, surface, lastSeq, timer, paths, command, budget>>

\* refreshDomain: the query fails, or the request alone; the domain stays as it is.
Fail ==
  /\ drain.on /\ Spend("failure")
  /\ without' = without \cup {drain.cur}
  /\ query' \in IF drain.phase = "wait" THEN {NoQuery, [query EXCEPT !.waited = FALSE]} ELSE {query}
  /\ Advance
  /\ UNCHANGED <<disk, version, watch, noticed, batch, memo, cache, conn, down, surface, store, timer,
                 paths, command, ignored, skipped, shared, unheard>>

-----------------------------------------------------------------------------
(* The webview: what triggers a refresh. *)

\* GitProvider receives gitMetadataChanged: handleMetadataEvent.
ReceiveEvent ==
  /\ down # <<>> /\ Head(down).type = "event"
  /\ down' = Tail(down)
  /\ IF Head(down).seq <= lastSeq
     THEN /\ ignored' = ignored \cup Head(down).domains
          /\ UNCHANGED <<store, queue>>
     ELSE /\ lastSeq' = Head(down).seq
          /\ InvalidateLater(Head(down).domains)
          /\ UNCHANGED <<shown, ignored>>
  /\ UNCHANGED <<disk, version, server, conn, up, page, paths, command, skipped, without, shared, unheard, budget>>

\* GitProvider receives gitRepositoryWatchBound: handleRepositoryWatchResync.
ReceiveBound ==
  /\ down # <<>> /\ Head(down).type = "bound"
  /\ down' = Tail(down)
  /\ InvalidateNow(Domains)
  /\ UNCHANGED <<disk, version, server, conn, up, page, shown, lastSeq, paths, command, notes, budget>>

\* GitProvider: the project becomes active; activateProject refreshes the summary, and the
\* watch is bound when that is done.
Activate ==
  /\ ~project.active
  /\ project' = [active |-> TRUE, opening |-> TRUE]
  /\ Request({"status", "refs"})
  /\ UNCHANGED <<disk, version, server, wire, desired, surface, store, timer, paths, command, notes, budget>>

\* GitProvider: the cleanup of the effect, when another project becomes active.
Deactivate ==
  /\ project.active /\ Spend("switch")
  /\ project' = [active |-> FALSE, opening |-> FALSE]
  /\ desired' = FALSE
  /\ up' = IF desired /\ conn.open THEN Append(up, "unbind") ELSE up
  /\ UNCHANGED <<disk, version, server, conn, down, surface, store, queue, paths, command, notes>>

\* setForegroundActive: opening the surface refreshes everything that is invalid.
OpenSurface ==
  /\ ~surface /\ Spend("surface")
  /\ surface' = TRUE
  /\ IF project.active /\ invalid # {} THEN timer' = FALSE /\ Request(invalid) ELSE UNCHANGED queue
  /\ UNCHANGED <<disk, version, server, wire, project, desired, store, paths, command, notes>>

CloseSurface ==
  /\ surface /\ surface' = FALSE
  /\ UNCHANGED <<disk, version, server, wire, project, desired, store, queue, paths, command, notes, budget>>

\* runCommand polls the operation and finds that it has succeeded.
CommandPolled ==
  /\ command = "ended" /\ command' = "none"
  /\ InvalidateNow(Domains)
  /\ UNCHANGED <<disk, version, server, wire, page, shown, lastSeq, paths, notes, budget>>

\* The timer of the path filter fires: one query at a time.
FlushPaths ==
  /\ paths.timer
  /\ paths' = IF paths.asked THEN [paths EXCEPT !.timer = FALSE]
              ELSE [paths EXCEPT !.timer = FALSE, !.pending = FALSE, !.asked = TRUE]
  /\ UNCHANGED <<disk, version, server, wire, page, store, queue, command, notes, budget>>

\* After a flush: what was collected meanwhile waits for another timer.
Flushed == [paths EXCEPT !.asked = FALSE, !.timer = paths.timer \/ paths.pending]

\* The filter answers that paths of the batch are not ignored: status is invalid.
PathsRelevant ==
  /\ paths.asked
  /\ paths' = [Flushed EXCEPT !.backoff = FALSE]
  /\ InvalidateLater({"status"})
  /\ UNCHANGED <<disk, version, server, wire, page, shown, lastSeq, command, notes, budget>>

\* The filter fails: the first failure counts as relevant, one within the backoff is dropped.
PathsFail ==
  /\ paths.asked /\ Spend("failure")
  /\ paths' = [Flushed EXCEPT !.backoff = TRUE]
  /\ IF paths.backoff
     THEN skipped' = skipped \cup {"status"} /\ UNCHANGED <<invalid, queue>>
     ELSE InvalidateLater({"status"}) /\ UNCHANGED skipped
  /\ UNCHANGED <<disk, version, server, wire, page, shown, lastSeq, command, ignored, without, shared, unheard>>

BackoffEnds ==
  /\ paths.backoff /\ paths' = [paths EXCEPT !.backoff = FALSE]
  /\ UNCHANGED <<disk, version, server, wire, page, store, queue, command, notes, budget>>

-----------------------------------------------------------------------------
(* The specification. *)

Environment ==
  \/ \E k \in Kinds : Change(k)
  \/ Edit \/ Command \/ Lose \/ Reconnect \/ Activate \/ Deactivate
  \/ OpenSurface \/ CloseSurface \/ WatcherFails \/ Fail \/ PathsFail
  \/ \E d \in Domains : OtherAsks(d)

Server ==
  \/ WatcherStarts \/ TakeBatch \/ SendBatch \/ ServeBind \/ ServeUnbind \/ CommandEnds
  \/ Ask \/ ReadRepository \/ EndQuery
  \/ \E c \in watch.subs : ServeGone(c)

Webview ==
  \/ TimerFires \/ Install \/ ReceiveEvent \/ ReceiveBound \/ CommandPolled
  \/ FlushPaths \/ PathsRelevant \/ BackoffEnds

Next == Environment \/ Server \/ Webview

Spec == Init /\ [][Next]_vars

\* Tasks and timers run, messages on an open connection arrive, queries are answered.
\* Nothing is assumed of the user, of the connection or of the repository.
Fairness ==
  /\ WF_vars(WatcherStarts) /\ WF_vars(TakeBatch) /\ WF_vars(SendBatch)
  /\ WF_vars(ServeBind) /\ WF_vars(ServeUnbind) /\ WF_vars(CommandEnds)
  /\ WF_vars(Ask) /\ WF_vars(ReadRepository) /\ WF_vars(EndQuery)
  /\ WF_vars(TimerFires) /\ WF_vars(Install) /\ WF_vars(ReceiveEvent) /\ WF_vars(ReceiveBound)
  /\ WF_vars(CommandPolled) /\ WF_vars(FlushPaths) /\ WF_vars(PathsRelevant)

FairSpec == Spec /\ Fairness

-----------------------------------------------------------------------------
(* Properties. *)

Message == [type : {"event", "bound"}, seq : Nat, domains : SUBSET Domains]

WatchType ==
  /\ watch \in [loop : {"none", "starting", "running", "dead"}, seq : Nat, subs : SUBSET Nat]
  /\ noticed \subseteq Domains
  /\ batch \in [on : BOOLEAN, seq : Nat, domains : SUBSET Domains, subs : SUBSET Nat]

WireType ==
  conn \in [id : Nat, open : BOOLEAN] /\ up \in Seq({"bind", "unbind"}) /\ down \in Seq(Message)

PageType ==
  /\ project \in [active : BOOLEAN, opening : BOOLEAN]
  /\ desired \in BOOLEAN /\ surface \in BOOLEAN

StoreType == shown \in [Domains -> Nat] /\ invalid \subseteq Domains /\ lastSeq \in Nat

\* An idle drain loads nothing, a running one a domain.
QueueType ==
  /\ timer \in BOOLEAN /\ requested \subseteq Domains
  /\ drain \in [on : BOOLEAN, left : SUBSET Domains, cur : Domains \cup {"none"},
               phase : {"ask", "wait", "answered"}, val : Nat, current : BOOLEAN]
  /\ drain.on => drain.cur \in Domains

ServedType ==
  /\ version \in Nat \ {0} /\ memo \in Nat /\ cache \subseteq [key : Nat, val : Nat]
  /\ query \in [on : BOOLEAN, domain : Domains \cup {"none"}, step : {"keyed", "read", "hit"},
               key : Nat, val : Nat, waited : BOOLEAN]
  /\ query.on => query.domain \in Domains

\* The drain waits for a query of its domain, or for none.
Awaited ==
  /\ query.waited <=> drain.on /\ drain.phase = "wait"
  /\ query.waited => query.on /\ query.domain = drain.cur

NotesType ==
  /\ ignored \subseteq Domains /\ skipped \subseteq Domains /\ without \subseteq Domains
  /\ shared \subseteq Domains /\ unheard \subseteq {"refs"}

Paths == [pending : BOOLEAN, timer : BOOLEAN, asked : BOOLEAN, backoff : BOOLEAN]

\* Every variable keeps its type; a running drain has a domain to load, and waits for a query of it.
TypeOK ==
  /\ WatchType /\ WireType /\ PageType /\ StoreType /\ QueueType /\ ServedType /\ Awaited /\ NotesType
  /\ disk \in [Domains -> Nat] /\ paths \in Paths /\ command \in {"none", "ran", "ended"}
  /\ budget \in [Limited -> Nat]

\* What the backend will hold of this connection when it has read all its messages.
WillBeBound == IF up = <<>> THEN conn.id \in watch.subs ELSE up[Len(up)] = "bind"

\* A connected webview and the backend agree, once the messages on the way are read: the
\* watch is bound exactly when the project's watch is wanted.  Whatever the order of switches
\* of project, losses, reconnects and late discoveries of dead connections, no wanted watch
\* is missing and none is left behind.
BindingFollowsWish == conn.open => (desired <=> WillBeBound)

\* News of a change to d that is still on its way: noticed by the watch, in its batch, in an
\* event, in a resync that a new binding brings, in the path filter, in a command's end.
OnItsWay(d) ==
  \/ d \in noticed
  \/ batch.on /\ d \in batch.domains /\ conn.id \in batch.subs
  \/ \E i \in DOMAIN up : up[i] = "bind"
  \/ \E i \in DOMAIN down : d \in down[i].domains
  \/ d = "status" /\ (paths.pending \/ paths.asked)
  \/ command # "none"

\* The watch of the repository reaches the webview.
Watched == desired /\ conn.open

Stale(d) == shown[d] # 0 /\ shown[d] < disk[d]

\* The exceptions the notes name: news dropped by its sequence number or for a failure; a
\* question that has joined an older read; refs, when the cache has missed a change.
Excused == ignored \cup skipped \cup shared \cup unheard

\* While the repository is watched, a snapshot older than the repository is marked invalid or
\* the news is on its way: no order of changes, batches, loads, losses and bindings clears
\* the mark of a domain with a result read before the change, except for what is excused.
FreshOrMarked ==
  Watched => \A d \in Domains : Stale(d) => d \in invalid \/ OnItsWay(d) \/ d \in Excused

\* What the backend would answer from its cache is as new as the repository, unless the watch
\* or the end of a command is about to drop it, or a change has gone unheard: one made, or
\* noticed and not handled, while no watch listened, or one that was handled, without moving
\* the version, while older refs were on their way into the cache.
CacheFollowsWatch == Worn => "refs" \in noticed \cup unheard \/ command = "ran"

\* The same with no news dropped by its number: the sequence number filters duplicates, and
\* the connection makes none.  Does not hold: a new watch numbers its events from one again.
NoNewsIgnored ==
  Watched => \A d \in Domains :
    Stale(d) => d \in invalid \/ OnItsWay(d) \/ d \in skipped \cup shared \cup unheard

\* A new binding is still to bring its resync.
Resyncing == (\E i \in DOMAIN up : up[i] = "bind") \/ (\E i \in DOMAIN down : down[i].type = "bound")

Loading(d) == drain.on /\ (d = drain.cur \/ d \in drain.left)

\* While the repository is watched, an invalid domain that is demanded is going to be
\* refreshed: by the debounce timer, by the running drain or by its next round.  Except
\* for one whose last load failed, or was dropped by an invalidation that scheduled nothing.
DemandedIsScheduled ==
  Watched /\ ~Resyncing => \A d \in invalid \cap Demanded :
    timer \/ d \in requested \/ Loading(d) \/ d \in without

\* A watched domain refreshed in the background does not stay out of date.
CatchesUp ==
  \A d \in Background :
    (Watched /\ shown[d] < disk[d]) ~>
      (~Watched \/ shown[d] = disk[d] \/ d \in Excused \cup without)

=============================================================================
