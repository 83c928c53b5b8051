--------------------------- MODULE TerminalStream ---------------------------
(***************************************************************************)
(* The output of one desktop terminal on its way from the process to the   *)
(* screen: the reader and waiter threads, the replay ring and the single   *)
(* subscriber of TerminalManager (Rust), the IPC between the shell and the *)
(* webview, and in the webview an attachment of createTerminalRuntime, the *)
(* provider and the store that count what was shown, and the xterm handle  *)
(* that outlives the surface that mounted it.                              *)
(*                                                                         *)
(* Granularity.  A native step is what a thread does under the stream      *)
(* lock; a webview step runs from one await to the next.  attach, ack and  *)
(* detach are synchronous commands: the shell runs them one after another, *)
(* in the order the webview issued them.  Messages of one channel arrive   *)
(* in order; nothing orders them against the result of a command, except   *)
(* that results come back in the order the commands ended.  close runs on  *)
(* a pool thread beside them: it clears the subscriber under the stream    *)
(* lock and removes the entry under the registry's.  A command's lookup in *)
(* the registry is one step with what it does under the stream lock: only  *)
(* lookups read the registry, and they are one after another, so a removal *)
(* between the two can as well come after both.                            *)
(*                                                                         *)
(* A chunk is its sequence number; every chunk counts one against the ring *)
(* and the delivery window (the byte limits work like the chunk limits).   *)
(***************************************************************************)
EXTENDS Naturals, Sequences, FiniteSets

CONSTANTS
  MaxAttach,  \* bound: how often the surface is mounted
  MaxChunks,  \* bound: how many chunks the process prints
  Ring,       \* TERMINAL_REPLAY_LIMIT_CHUNKS
  Window,     \* TERMINAL_DELIVERY_WINDOW_CHUNKS
  Slack,      \* room the webview's queues have above the window
  Nobody      \* no subscriber, no mounted surface

Attachments == 1 .. MaxAttach

ASSUME BoundAssumption == MaxAttach \in Nat /\ MaxChunks \in Nat
ASSUME LimitAssumption == Ring \in Nat \ {0} /\ Window \in Nat \ {0} /\ Slack \in Nat \ {0}
ASSUME NobodyAssumption == Nobody \notin Attachments

VARIABLES
  latest,    \* ReplayRing.next_seq - 1
  sub,       \* subscriber.id
  inflight,  \* its DeliveryWindow: chunks sent and not acknowledged
  reader,    \* the thread of start_reader inside publish_output
  ended,     \* finalize_exited or finalize_failed: not yet, snapshot set, event sent
  closed,    \* TerminalManager::close: not called, subscriber cleared, entry removed
  calls,     \* commands issued by the webview and not yet run
  chan,      \* messages of each attachment's channel on their way
  att,       \* the attachments
  surface,   \* the attachment of the mounted TerminalSurface
  writes,    \* attachments whose xterm write has not called back, oldest first
  cursor,    \* cursorByTerminalId: last chunk the store accepted
  shown,     \* the store's snapshot says that the process has ended
  screen,    \* history: chunks written to the xterm handle
  reported   \* history: highest earliest_seq of a replayTruncated event

native == <<latest, sub, inflight, reader, ended, closed>>
store  == <<cursor, shown, screen, reported>>
vars   == <<latest, sub, inflight, reader, ended, closed, calls, chan, att, surface,
            writes, cursor, shown, screen, reported>>

Chunks == 1 .. MaxChunks

Event  == [kind : {"output", "truncated"}, seq : Chunks] \cup [kind : {"ended"}, seq : {0}]
Call   == [op : {"attach", "detach"}, id : Attachments, seq : 0 .. MaxChunks]
            \cup [op : {"ack"}, id : Attachments, seq : Chunks]

Output(s) == [kind |-> "output", seq |-> s]
Ended     == [kind |-> "ended", seq |-> 0]

\* One attachment: its closure in attach() and the promise of the command.
Attachment ==
  [st      : {"none", "called", "subscribed", "replied", "open", "failed"},
   active  : BOOLEAN,          \* events are still wanted
   started : BOOLEAN,          \* the replay has been consumed
   replay  : Seq(Event),       \* what is left of attached.replay
   ended   : BOOLEAN,          \* the snapshot in the result
   raw     : Seq(Event),       \* pendingRaw
   pend    : Seq(Event),       \* pendingEvents
   last    : 0 .. MaxChunks,   \* lastSeq
   step    : {"idle", "write", "ack"},   \* where consume() waits
   now     : 0 .. MaxChunks]   \* the chunk it waits for

Unused == [st |-> "none", active |-> FALSE, started |-> FALSE, replay |-> <<>>,
           ended |-> FALSE, raw |-> <<>>, pend |-> <<>>, last |-> 0,
           step |-> "idle", now |-> 0]

Reader == [pc : {"read", "credit", "waiting", "send"}, seq : 0 .. MaxChunks,
           for : Attachments \cup {Nobody}]

Reading == [pc |-> "read", seq |-> 0, for |-> Nobody]

Init ==
  /\ latest = 0 /\ sub = Nobody /\ inflight = {} /\ reader = Reading
  /\ ended = "no" /\ closed = "no"
  /\ calls = <<>> /\ chan = [a \in Attachments |-> <<>>]
  /\ att = [a \in Attachments |-> Unused] /\ surface = Nobody /\ writes = <<>>
  /\ cursor = 0 /\ shown = FALSE /\ screen = <<>> /\ reported = 0

-----------------------------------------------------------------------------
(* The replay ring. *)

\* ReplayRing.earliest_seq: with nothing printed, the next chunk.
Earliest == IF latest > Ring THEN latest - Ring + 1 ELSE 1

\* Faulty: the replay runs one chunk ahead of the process.
ReplayedAhead(after) ==
  LET truncated == after + 1 < Earliest
      first     == IF truncated THEN Earliest ELSE after + 1
      chunks    == [i \in 1 .. latest + 2 - first |-> Output(first + i - 1)]
  IN  IF truncated THEN <<[kind |-> "truncated", seq |-> Earliest]>> \o chunks ELSE chunks

\* Faulty: the boundary between stale and current cursors is one too low.
LateTruncation(after) ==
  LET truncated == after + 2 < Earliest
      first     == IF after + 1 < Earliest THEN Earliest ELSE after + 1
      chunks    == [i \in 1 .. latest + 1 - first |-> Output(first + i - 1)]
  IN  IF truncated THEN <<[kind |-> "truncated", seq |-> Earliest]>> \o chunks ELSE chunks

\* ReplayRing.events_after, with the truncation event attach puts in front.
Replayed(after) ==
  LET truncated == after + 1 < Earliest
      first     == IF truncated THEN Earliest ELSE after + 1
      chunks    == [i \in 1 .. latest + 1 - first |-> Output(first + i - 1)]
  IN  IF truncated THEN <<[kind |-> "truncated", seq |-> Earliest]>> \o chunks ELSE chunks

-----------------------------------------------------------------------------
(* The threads of the shell. *)

\* stream_credit.notify_all
Woken(r) == IF r.pc = "waiting" THEN [r EXCEPT !.pc = "credit"] ELSE r

\* publish_output, first lock: number the chunk, remember whom it is for.
ReadChunk ==
  /\ reader.pc = "read" /\ latest < MaxChunks
  /\ latest' = latest + 1
  /\ reader' = IF sub = Nobody THEN Reading
               ELSE [pc |-> "credit", seq |-> latest + 1, for |-> sub]
  /\ UNCHANGED <<sub, inflight, ended, closed, calls, chan, att, surface, writes, store>>

\* publish_output, second lock: the subscriber changed, the chunk is in the ring.
SkipReplaced ==
  /\ reader.pc = "credit" /\ reader.for # sub
  /\ reader' = Reading
  /\ UNCHANGED <<latest, sub, inflight, ended, closed, calls, chan, att, surface, writes, store>>

\* Faulty: one chunk more than the window holds.
ReserveOneMore ==
  /\ reader.pc = "credit" /\ reader.for = sub /\ Cardinality(inflight) <= Window
  /\ inflight' = inflight \cup {reader.seq}
  /\ reader' = [reader EXCEPT !.pc = "send"]
  /\ UNCHANGED <<latest, sub, ended, closed, calls, chan, att, surface, writes, store>>

\* publish_output, second lock: try_reserve.
ReserveCredit ==
  /\ reader.pc = "credit" /\ reader.for = sub /\ Cardinality(inflight) < Window
  /\ inflight' = inflight \cup {reader.seq}
  /\ reader' = [reader EXCEPT !.pc = "send"]
  /\ UNCHANGED <<latest, sub, ended, closed, calls, chan, att, surface, writes, store>>

\* publish_output, second lock: no credit, wait on stream_credit.
WaitForCredit ==
  /\ reader.pc = "credit" /\ reader.for = sub /\ Cardinality(inflight) >= Window
  /\ reader' = [reader EXCEPT !.pc = "waiting"]
  /\ UNCHANGED <<latest, sub, inflight, ended, closed, calls, chan, att, surface, writes, store>>

\* publish_output: send on the channel, outside the lock.
SendChunk ==
  /\ reader.pc = "send"
  /\ chan' = [chan EXCEPT ![reader.for] = Append(@, Output(reader.seq))]
  /\ reader' = Reading
  /\ UNCHANGED <<latest, sub, inflight, ended, closed, calls, att, surface, writes, store>>

\* finalize_exited / finalize_failed by the thread that wins the swap.
Finalize ==
  /\ ended = "no"
  /\ ended' = "set"
  /\ UNCHANGED <<latest, sub, inflight, reader, closed, calls, chan, att, surface, writes, store>>

\* send_terminal_event: to whoever is the subscriber by now, without credit.
SendEnded ==
  /\ ended = "set"
  /\ ended' = "sent"
  /\ chan' = IF sub = Nobody THEN chan ELSE [chan EXCEPT ![sub] = Append(@, Ended)]
  /\ UNCHANGED <<latest, sub, inflight, reader, closed, calls, att, surface, writes, store>>

\* TerminalManager::close, first step: clear_subscriber.
CloseStream ==
  /\ closed = "no"
  /\ closed' = "cleared"
  /\ sub' = Nobody /\ inflight' = {} /\ reader' = Woken(reader)
  /\ UNCHANGED <<latest, ended, calls, chan, att, surface, writes, store>>

\* The rest: kill_entry and remove_entry.  Whoever has subscribed meanwhile stays in the entry.
CloseEntry ==
  /\ closed = "cleared"
  /\ closed' = "removed"
  /\ UNCHANGED <<latest, sub, inflight, reader, ended, calls, chan, att, surface, writes, store>>

-----------------------------------------------------------------------------
(* The commands of the shell. *)

HeadIs(op, a) == calls # <<>> /\ Head(calls).op = op /\ Head(calls).id = a

\* entry(terminal_id) finds the terminal.  ack and detach take it for done when it does not.
Found == closed # "removed"

\* TerminalManager::attach under the stream lock: the replay is cut and the new
\* subscriber installed in one step.
RunAttach(a) ==
  /\ HeadIs("attach", a) /\ att[a].st = "called" /\ Found
  /\ att' = [att EXCEPT ![a].st = "subscribed", ![a].replay = Replayed(Head(calls).seq)]
  /\ sub' = a /\ inflight' = {} /\ reader' = Woken(reader)
  /\ UNCHANGED <<latest, ended, closed, calls, chan, surface, writes, store>>

\* Faulty: the result carries the snapshot the terminal was created with.
ReplyCreated(a) ==
  /\ HeadIs("attach", a) /\ att[a].st = "subscribed"
  /\ calls' = Tail(calls)
  /\ att' = [att EXCEPT ![a].st = "replied", ![a].ended = FALSE]
  /\ UNCHANGED <<native, chan, surface, writes, store>>

\* TerminalManager::attach, the rest: the snapshot is cloned after the lock is released.
ReplyAttach(a) ==
  /\ HeadIs("attach", a) /\ att[a].st = "subscribed"
  /\ calls' = Tail(calls)
  /\ att' = [att EXCEPT ![a].st = "replied", ![a].ended = (ended # "no")]
  /\ UNCHANGED <<native, chan, surface, writes, store>>

\* TerminalManager::attach of a terminal that is gone.
RefuseAttach(a) ==
  /\ HeadIs("attach", a) /\ att[a].st = "called" /\ ~Found
  /\ calls' = Tail(calls)
  /\ att' = [att EXCEPT ![a].st = "failed", ![a].active = FALSE, ![a].raw = <<>>]
  /\ UNCHANGED <<native, chan, surface, writes, store>>

\* DeliveryWindow::acknowledge: chunks up to s leave the window.
Released(s) == {c \in inflight : c > s}

\* TerminalManager::acknowledge, and the consumer that awaited it: lastSeq advances.
RunAck(a) ==
  /\ HeadIs("ack", a)
  /\ calls' = Tail(calls)
  /\ LET s == Head(calls).seq IN
       /\ IF Found /\ sub = a /\ Released(s) # inflight
          THEN inflight' = Released(s) /\ reader' = Woken(reader)
          ELSE UNCHANGED <<inflight, reader>>
       /\ att' = [att EXCEPT ![a].step = "idle", ![a].now = 0,
                             ![a].last = IF s > @ THEN s ELSE @]
  /\ UNCHANGED <<latest, sub, ended, closed, chan, surface, writes, store>>

\* Faulty: whoever detaches clears the subscriber.
DetachAnyone(a) ==
  /\ HeadIs("detach", a)
  /\ calls' = Tail(calls)
  /\ sub' = Nobody /\ inflight' = {} /\ reader' = Woken(reader)
  /\ UNCHANGED <<latest, ended, closed, chan, att, surface, writes, store>>

\* Faulty: the reader that waits for credit is not notified.
DetachSilently(a) ==
  /\ HeadIs("detach", a)
  /\ calls' = Tail(calls)
  /\ IF Found /\ sub = a THEN sub' = Nobody /\ inflight' = {} ELSE UNCHANGED <<sub, inflight>>
  /\ UNCHANGED <<latest, reader, ended, closed, chan, att, surface, writes, store>>

\* TerminalManager::detach: only the current subscriber is removed.
RunDetach(a) ==
  /\ HeadIs("detach", a)
  /\ calls' = Tail(calls)
  /\ IF Found /\ sub = a
     THEN sub' = Nobody /\ inflight' = {} /\ reader' = Woken(reader)
     ELSE UNCHANGED <<sub, inflight, reader>>
  /\ UNCHANGED <<latest, ended, closed, chan, att, surface, writes, store>>

-----------------------------------------------------------------------------
(* The webview: mounting and unmounting. *)

Fresh(a) == att[a].st = "none" /\ \A b \in Attachments : b < a => att[b].st # "none"

\* The effect of TerminalSurface runs attachTerminal: the cursor of the store is read now.
Mount(a) ==
  /\ surface = Nobody /\ Fresh(a)
  /\ surface' = a
  /\ att' = [att EXCEPT ![a] = [Unused EXCEPT !.st = "called", !.active = TRUE, !.last = cursor]]
  /\ calls' = Append(calls, [op |-> "attach", id |-> a, seq |-> cursor])
  /\ UNCHANGED <<native, chan, writes, store>>

\* Faulty: the queues are cleared and the attachment stays active.
ClearedOnly(r) == [r EXCEPT !.raw = <<>>, !.pend = <<>>]

\* dispose() of an attachment.
Disposed(r) == [r EXCEPT !.active = FALSE, !.raw = <<>>, !.pend = <<>>]

Detach(a) == [op |-> "detach", id |-> a, seq |-> 0]

\* The cleanup of the effect: an attachment that is not there yet is disposed when it comes.
Unmount ==
  /\ surface # Nobody
  /\ surface' = Nobody
  /\ IF att[surface].st = "open" /\ att[surface].active
     THEN /\ att' = [att EXCEPT ![surface] = Disposed(@)]
          /\ calls' = Append(calls, Detach(surface))
     ELSE UNCHANGED <<att, calls>>
  /\ UNCHANGED <<native, chan, writes, store>>

-----------------------------------------------------------------------------
(* The webview: consuming events. *)

Pending(r) == IF r.started THEN r.pend ELSE r.replay

\* The event is a chunk that neither consume nor applyTerminalEvent drops as stale.
Wanted(r, e) == e.kind = "output" /\ e.seq > r.last /\ e.seq > cursor

\* consume() of an event up to its first wait.  A chunk goes to xterm or, when it is
\* stale, straight to its acknowledgement; any other event is applied at once.
Consumed(r) ==
  LET e    == Head(Pending(r))
      left == IF r.started THEN [r EXCEPT !.pend = Tail(@)] ELSE [r EXCEPT !.replay = Tail(@)]
  IN  IF e.kind = "output"
      THEN [left EXCEPT !.step = IF Wanted(r, e) THEN "write" ELSE "ack", !.now = e.seq]
      ELSE left

\* Faulty: the truncation event is ignored.
AppliedSilently(a, e) ==
  /\ screen' = IF Wanted(att[a], e) THEN Append(screen, e.seq) ELSE screen
  /\ writes' = IF Wanted(att[a], e) THEN Append(writes, a) ELSE writes
  /\ UNCHANGED <<reported, cursor>>

\* What that does to the store, the screen and the queue of writes.
Applied(a, e) ==
  /\ screen'   = IF Wanted(att[a], e) THEN Append(screen, e.seq) ELSE screen
  /\ writes'   = IF Wanted(att[a], e) THEN Append(writes, a) ELSE writes
  /\ reported' = IF e.kind = "truncated" /\ e.seq > reported THEN e.seq ELSE reported
  /\ UNCHANGED cursor

\* The acknowledgement of a stale chunk.
StaleAck(a, e) ==
  IF e.kind = "output" /\ ~Wanted(att[a], e)
  THEN <<[op |-> "ack", id |-> a, seq |-> e.seq]>> ELSE <<>>

\* Faulty: the snapshot in the result is not stored.
AttachedUnread(a) ==
  /\ att[a].st = "replied" /\ \A b \in Attachments : b < a => att[b].st # "replied"
  /\ LET r    == [att[a] EXCEPT !.st = "open"]
         next == IF r.replay = <<>> THEN r ELSE Consumed(r)
         acks == IF r.replay = <<>> THEN <<>> ELSE StaleAck(a, Head(r.replay))
     IN  /\ IF r.replay = <<>>
            THEN UNCHANGED <<screen, writes, reported, cursor>>
            ELSE Applied(a, Head(r.replay))
         /\ att' = [att EXCEPT ![a] = IF surface = a THEN next ELSE Disposed(next)]
         /\ calls' = calls \o acks \o (IF surface = a THEN <<>> ELSE <<Detach(a)>>)
  /\ UNCHANGED <<native, chan, surface, shown>>

\* The result of the command arrives: attachTerminal stores the snapshot, and ready()
\* takes the first event of the replay before the surface hears of the attachment and,
\* when it was unmounted meanwhile, disposes it.
Attached(a) ==
  /\ att[a].st = "replied" /\ \A b \in Attachments : b < a => att[b].st # "replied"
  /\ LET r    == [att[a] EXCEPT !.st = "open"]
         next == IF r.replay = <<>> THEN r ELSE Consumed(r)
         acks == IF r.replay = <<>> THEN <<>> ELSE StaleAck(a, Head(r.replay))
     IN  /\ IF r.replay = <<>>
            THEN UNCHANGED <<screen, writes, reported, cursor>>
            ELSE Applied(a, Head(r.replay))
         /\ att' = [att EXCEPT ![a] = IF surface = a THEN next ELSE Disposed(next)]
         /\ calls' = calls \o acks \o (IF surface = a THEN <<>> ELSE <<Detach(a)>>)
  /\ shown' = att[a].ended
  /\ UNCHANGED <<native, chan, surface>>

\* The loop of ready(), and then the loop of drain(), goes on to the next event.
Consume(a) ==
  /\ att[a].st = "open" /\ att[a].active /\ att[a].step = "idle"
  /\ Pending(att[a]) # <<>>
  /\ LET e == Head(Pending(att[a])) IN
       /\ Applied(a, e)
       /\ shown' = (shown \/ e.kind = "ended")
       /\ att' = [att EXCEPT ![a] = Consumed(@)]
       /\ calls' = calls \o StaleAck(a, e)
  /\ UNCHANGED <<native, chan, surface>>

\* Faulty: messages that arrived during the replay are dropped.
StartEmpty(a) ==
  /\ att[a].st = "open" /\ att[a].active /\ att[a].step = "idle"
  /\ ~att[a].started /\ att[a].replay = <<>>
  /\ att' = [att EXCEPT ![a].started = TRUE, ![a].raw = <<>>]
  /\ UNCHANGED <<native, calls, chan, surface, writes, store>>

\* The end of ready(): the early messages become pending events.
Start(a) ==
  /\ att[a].st = "open" /\ att[a].active /\ att[a].step = "idle"
  /\ ~att[a].started /\ att[a].replay = <<>>
  /\ att' = [att EXCEPT ![a].started = TRUE, ![a].pend = @ \o att[a].raw, ![a].raw = <<>>]
  /\ UNCHANGED <<native, calls, chan, surface, writes, store>>

\* xterm has parsed the oldest write: acceptOutput, then the acknowledgement.
Written(a) ==
  /\ writes # <<>> /\ Head(writes) = a
  /\ writes' = Tail(writes)
  /\ cursor' = IF att[a].now > cursor THEN att[a].now ELSE cursor
  /\ IF att[a].active
     THEN /\ calls' = Append(calls, [op |-> "ack", id |-> a, seq |-> att[a].now])
          /\ att' = [att EXCEPT ![a].step = "ack"]
     ELSE /\ att' = [att EXCEPT ![a].step = "idle", ![a].now = 0]
          /\ UNCHANGED calls
  /\ UNCHANGED <<native, chan, surface, shown, screen, reported>>

\* The handler of the channel: nothing for an inactive attachment; else queue the message.
\* (The queues are checked for terminal_backpressure_overflow: see NoOverflow.)
Receive(a) ==
  /\ chan[a] # <<>>
  /\ chan' = [chan EXCEPT ![a] = Tail(@)]
  /\ att' = IF ~att[a].active THEN att
            ELSE IF att[a].started THEN [att EXCEPT ![a].pend = Append(@, Head(chan[a]))]
            ELSE [att EXCEPT ![a].raw = Append(@, Head(chan[a]))]
  /\ UNCHANGED <<native, calls, surface, writes, store>>

-----------------------------------------------------------------------------
ReaderStep == ReadChunk \/ SkipReplaced \/ ReserveCredit \/ WaitForCredit \/ SendChunk

Command(a) == RunAttach(a) \/ ReplyAttach(a) \/ RefuseAttach(a) \/ RunAck(a) \/ RunDetach(a)

View(a) == Attached(a) \/ Consume(a) \/ Start(a) \/ Written(a) \/ Receive(a)

Next ==
  \/ ReaderStep \/ Finalize \/ SendEnded \/ CloseStream \/ CloseEntry
  \/ \E a \in Attachments : Mount(a) \/ Command(a) \/ View(a)
  \/ Unmount

Spec == Init /\ [][Next]_vars

\* The threads of the shell run, it serves the commands, the webview's event loop turns
\* and xterm parses what it is given.  Nobody has to mount, unmount or close, nor does
\* the process have to print or to end.
Fairness ==
  /\ WF_vars(SkipReplaced \/ ReserveCredit \/ WaitForCredit \/ SendChunk)
  /\ WF_vars(SendEnded)
  /\ \A a \in Attachments :
       /\ WF_vars(Command(a))
       /\ WF_vars(Attached(a)) /\ WF_vars(Consume(a) \/ Start(a))
       /\ WF_vars(Written(a)) /\ WF_vars(Receive(a))

FairSpec == Spec /\ Fairness

-----------------------------------------------------------------------------
(* Properties. *)

ShellType ==
  /\ latest \in 0 .. MaxChunks
  /\ sub \in Attachments \cup {Nobody}
  /\ inflight \subseteq Chunks
  /\ reader \in Reader
  /\ ended \in {"no", "set", "sent"}
  /\ closed \in {"no", "cleared", "removed"}

WireType == calls \in Seq(Call) /\ chan \in [Attachments -> Seq(Event)]

ViewType ==
  /\ att \in [Attachments -> Attachment]
  /\ surface \in Attachments \cup {Nobody}
  /\ writes \in Seq(Attachments)

StoreType ==
  /\ cursor \in 0 .. MaxChunks
  /\ shown \in BOOLEAN
  /\ screen \in Seq(Chunks)
  /\ reported \in 0 .. MaxChunks

\* Every variable holds what the code can put there.
TypeOK == ShellType /\ WireType /\ ViewType /\ StoreType

\* The mounted surface, once it has its attachment, is the shell's subscriber: a late
\* detach or a late result of an earlier mount never takes the stream away from it.
MountedIsSubscriber ==
  surface # Nobody /\ att[surface].st = "open" => sub = surface \/ closed # "no"

\* Whatever the store counts as shown was written to the screen, unless the terminal had
\* announced that it was truncated: replay and live output meet without a hole, whoever
\* was subscribed while the reader was between its two locks.
NoSilentLoss ==
  \A s \in 1 .. cursor : (\E i \in DOMAIN screen : screen[i] = s) \/ s < reported

\* The screen never shows an older chunk after a newer one, remounts included.
NeverBackwards ==
  \A i, j \in DOMAIN screen : i < j => screen[i] <= screen[j]

\* The delivery window bounds the webview's queues too: the overflow errors of the channel
\* handler and of enqueue (terminal_backpressure_overflow) cannot be raised, even when the
\* end of the process, which needs no credit, is queued behind a full window.
NoOverflow ==
  \A a \in Attachments : Len(att[a].raw) <= Window + Slack /\ Len(att[a].pend) <= Window + Slack

\* A terminal once shown as ended is never shown as running again by the snapshot of a
\* later attachment.
EndIsFinal == [][shown => shown']_vars

\* Output reaches a surface that stays mounted.
OutputIsShown ==
  \A s \in Chunks : surface # Nobody /\ latest >= s ~> cursor >= s \/ surface = Nobody \/ closed # "no"

\* The end of the process reaches a surface that stays mounted, whichever of the snapshot
\* and the event carries it.
EndIsShown ==
  surface # Nobody /\ ended # "no" ~> shown \/ surface = Nobody \/ closed # "no"

\* The reader never stays blocked on credit, whatever becomes of the surface: the process
\* is not stopped by a full pipe.  The exception is an attachment that came between the two
\* steps of close: the entry it has subscribed to is not found any more, so neither its
\* acknowledgements nor its detach give credit.
Abandoned == ~Found /\ sub # Nobody
ReaderIsFree == reader.pc # "read" ~> reader.pc = "read" \/ Abandoned

\* The detailed feed implements the abstract one.
Feed == INSTANCE TerminalFeed WITH produced <- latest

ImplementsFeed == Feed!FeedSpec
=============================================================================
