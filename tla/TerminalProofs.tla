--------------------------- MODULE TerminalProofs ---------------------------
(***************************************************************************)
(* Theorems about TerminalStream, for any number of mounts and chunks, any *)
(* length of the ring and any delivery window.                             *)
(***************************************************************************)
EXTENDS TerminalStream, TLAPS

-----------------------------------------------------------------------------
(* Events and sequences of them.                                           *)

LEMMA EventType ==
  /\ \A s \in Chunks : Output(s) \in Event /\ [kind |-> "truncated", seq |-> s] \in Event
  /\ Ended \in Event
  /\ \A e \in Event : e.seq \in 0 .. MaxChunks /\ (e.kind # "ended" => e.seq \in Chunks)
<1>1. \A s \in Chunks : Output(s) \in Event /\ [kind |-> "truncated", seq |-> s] \in Event
  BY DEF Output, Event
<1>2. Ended \in Event
  BY DEF Ended, Event
<1>3. \A e \in Event : e.seq \in 0 .. MaxChunks /\ (e.kind # "ended" => e.seq \in Chunks)
  BY BoundAssumption DEF Event, Chunks
<1>. QED BY <1>1, <1>2, <1>3

\* The head of a queue and what is left of it.
LEMMA HeadTail ==
  ASSUME NEW S, NEW s \in Seq(S), s # <<>>
  PROVE  /\ Head(s) \in S /\ Head(s) = s[1] /\ Tail(s) \in Seq(S)
         /\ Len(s) \in Nat \ {0} /\ Len(Tail(s)) = Len(s) - 1
         /\ \A i \in 1 .. Len(Tail(s)) : Tail(s)[i] = s[i + 1]
OBVIOUS

\* The replay is a sequence of events, whatever cursor it was asked for.
LEMMA ReplayType ==
  ASSUME ShellType, NEW after \in 0 .. MaxChunks
  PROVE  Replayed(after) \in Seq(Event)
<1>. DEFINE truncated == after + 1 < Earliest
            first     == IF truncated THEN Earliest ELSE after + 1
            chunks    == [i \in 1 .. latest + 1 - first |-> Output(first + i - 1)]
<1>1. latest \in Nat /\ latest <= MaxChunks /\ MaxChunks \in Nat /\ Ring \in Nat \ {0}
  BY BoundAssumption, LimitAssumption DEF ShellType
<1>2. Earliest \in Nat /\ Earliest >= 1 /\ (truncated => Earliest \in Chunks)
  BY <1>1 DEF Earliest, Chunks
<1>3. first \in Nat /\ first >= 1
  BY <1>2
<1>4. chunks \in Seq(Event)
  <2>1. \A i \in 1 .. latest + 1 - first : first + i - 1 \in Chunks
    BY <1>1, <1>3 DEF Chunks
  <2>2. \A i \in 1 .. latest + 1 - first : Output(first + i - 1) \in Event
    BY <2>1, EventType
  <2>3. PICK n \in Nat : 1 .. latest + 1 - first = 1 .. n
    <3>1. CASE first <= latest + 1
      BY <1>1, <1>3, <3>1
    <3>2. CASE first > latest + 1
      <4>1. 1 .. latest + 1 - first = 1 .. 0
        BY <1>1, <1>3, <3>2
      <4>. QED BY <4>1
    <3>. QED BY <1>1, <1>3, <3>1, <3>2
  <2>. HIDE DEF first
  <2>4. chunks \in [1 .. latest + 1 - first -> Event]
    BY <2>2
  <2>. HIDE DEF chunks
  <2>5. chunks \in [1 .. n -> Event]
    BY <2>3, <2>4
  <2>. QED BY <2>5
<1>5. truncated => <<[kind |-> "truncated", seq |-> Earliest]>> \in Seq(Event)
  BY <1>2, EventType
<1>6. Replayed(after) = IF truncated THEN <<[kind |-> "truncated", seq |-> Earliest]>> \o chunks ELSE chunks
  BY DEF Replayed
<1>. HIDE DEF truncated, chunks
<1>. QED BY <1>4, <1>5, <1>6

-----------------------------------------------------------------------------
(* Attachments.                                                            *)

\* One attachment changes.
LEMMA OneAttachment ==
  ASSUME ViewType, NEW a \in Attachments, NEW r \in Attachment, att' = [att EXCEPT ![a] = r]
  PROVE  /\ att' \in [Attachments -> Attachment]
         /\ att'[a] = r /\ \A b \in Attachments : b # a => att'[b] = att[b]
BY DEF ViewType

\* The fields of an attachment.
LEMMA Fields ==
  ASSUME NEW r \in Attachment
  PROVE  /\ r.st \in {"none", "called", "subscribed", "replied", "open", "failed"}
         /\ r.active \in BOOLEAN /\ r.started \in BOOLEAN /\ r.ended \in BOOLEAN
         /\ r.replay \in Seq(Event) /\ r.raw \in Seq(Event) /\ r.pend \in Seq(Event)
         /\ r.last \in 0 .. MaxChunks /\ r.now \in 0 .. MaxChunks
         /\ r.step \in {"idle", "write", "ack"}
         /\ Pending(r) \in Seq(Event)
BY DEF Attachment, Pending

LEMMA UnusedType == Unused \in Attachment
<1>1. <<>> \in Seq(Event) /\ 0 \in 0 .. MaxChunks
  BY BoundAssumption
<1>. QED BY <1>1 DEF Unused, Attachment

\* consume() changes the queue it takes from and what it waits for.
LEMMA ConsumedType ==
  ASSUME NEW r \in Attachment, Pending(r) # <<>>
  PROVE  /\ Consumed(r) \in Attachment
         /\ Consumed(r).st = r.st /\ Consumed(r).active = r.active /\ Consumed(r).ended = r.ended
         /\ Consumed(r).started = r.started
         /\ Head(Pending(r)) \in Event
         /\ Head(Pending(r)).kind # "output" => Consumed(r).step = r.step /\ Consumed(r).now = r.now
         /\ Head(Pending(r)).kind = "output" =>
              /\ Consumed(r).step = IF Wanted(r, Head(Pending(r))) THEN "write" ELSE "ack"
              /\ Consumed(r).now = Head(Pending(r)).seq /\ Consumed(r).now \in Chunks
<1>. DEFINE e    == Head(Pending(r))
            left == IF r.started THEN [r EXCEPT !.pend = Tail(@)] ELSE [r EXCEPT !.replay = Tail(@)]
            step == IF Wanted(r, e) THEN "write" ELSE "ack"
<1>1. e \in Event /\ Tail(Pending(r)) \in Seq(Event)
  BY Fields, HeadTail
<1>2. e.seq \in 0 .. MaxChunks /\ (e.kind = "output" => e.seq \in Chunks)
  BY <1>1, EventType
<1>3. /\ left \in Attachment /\ left.st = r.st /\ left.active = r.active /\ left.ended = r.ended
      /\ left.started = r.started /\ left.step = r.step /\ left.now = r.now
  <2>1. CASE r.started
    <3>1. Tail(r.pend) \in Seq(Event)
      BY <1>1, <2>1 DEF Pending
    <3>. QED BY <2>1, <3>1 DEF Attachment
  <2>2. CASE ~r.started
    <3>1. Tail(r.replay) \in Seq(Event)
      BY <1>1, <2>2 DEF Pending
    <3>. QED BY <2>2, <3>1 DEF Attachment
  <2>. QED BY <2>1, <2>2
<1>4. Consumed(r) = IF e.kind = "output" THEN [left EXCEPT !.step = step, !.now = e.seq] ELSE left
  BY DEF Consumed
<1>5. step \in {"write", "ack"}
  OBVIOUS
<1>. HIDE DEF left, step
<1>6. CASE e.kind = "output"
  <2>. DEFINE r2 == [left EXCEPT !.step = step, !.now = e.seq]
  <2>1. /\ r2 \in Attachment /\ r2.st = left.st /\ r2.active = left.active /\ r2.ended = left.ended
        /\ r2.started = left.started /\ r2.step = step /\ r2.now = e.seq
    BY <1>2, <1>3, <1>5 DEF Attachment
  <2>. HIDE DEF r2
  <2>2. Consumed(r) = r2
    BY <1>4, <1>6 DEF r2
  <2>. QED BY <1>1, <1>2, <1>3, <1>6, <2>1, <2>2 DEF step
<1>7. CASE e.kind # "output"
  BY <1>1, <1>3, <1>4, <1>7
<1>. QED BY <1>6, <1>7

LEMMA DisposedType ==
  ASSUME NEW r \in Attachment
  PROVE  /\ Disposed(r) \in Attachment /\ Disposed(r).st = r.st /\ ~Disposed(r).active
         /\ Disposed(r).step = r.step /\ Disposed(r).now = r.now /\ Disposed(r).ended = r.ended
<1>1. <<>> \in Seq(Event)
  OBVIOUS
<1>. QED BY <1>1 DEF Disposed, Attachment

\* What a consumed event adds to the screen, and the acknowledgement of a stale one.
LEMMA AppliedType ==
  ASSUME ViewType, StoreType, NEW a \in Attachments, NEW e \in Event, Applied(a, e)
  PROVE  /\ screen' \in Seq(Chunks) /\ reported' \in 0 .. MaxChunks /\ cursor' \in 0 .. MaxChunks
         /\ writes' \in Seq(Attachments) /\ StaleAck(a, e) \in Seq(Call)
<1>1. e.seq \in 0 .. MaxChunks /\ (e.kind = "output" => e.seq \in Chunks)
  BY EventType
<1>2. screen' \in Seq(Chunks)
  BY <1>1 DEF StoreType, Applied, Wanted
<1>3. writes' \in Seq(Attachments)
  BY DEF ViewType, Applied
<1>4. reported' \in 0 .. MaxChunks /\ cursor' \in 0 .. MaxChunks
  BY <1>1 DEF StoreType, Applied
<1>5. e.kind = "output" => [op |-> "ack", id |-> a, seq |-> e.seq] \in Call
  BY <1>1 DEF Call
<1>6. StaleAck(a, e) \in Seq(Call)
  BY <1>5 DEF StaleAck
<1>. QED BY <1>2, <1>3, <1>4, <1>6

-----------------------------------------------------------------------------
(* Type correctness.                                                       *)

\* The reader between its locks has a chunk and somebody to send it to.
Busy == reader.pc # "read" => reader.seq \in Chunks /\ reader.for \in Attachments

\* Only an attachment that is open has started or waits, for a chunk; who waits for xterm has one write, who
\* waits for an acknowledgement one call.
Waits ==
  /\ \A a \in Attachments : /\ att[a].step # "idle" \/ att[a].started => att[a].st = "open"
                            /\ att[a].step # "idle" => att[a].now \in Chunks
  /\ \A i \in DOMAIN writes : att[writes[i]].step = "write"
  /\ \A i, j \in DOMAIN writes : writes[i] = writes[j] => i = j
  /\ \A i \in DOMAIN calls : calls[i].op = "ack" => att[calls[i].id].step = "ack"
  /\ \A i, j \in DOMAIN calls :
       calls[i].op = "ack" /\ calls[j].op = "ack" /\ calls[i].id = calls[j].id => i = j

Typing == TypeOK /\ Busy /\ Waits

\* A queue with at most one more element.
LEMMA Longer ==
  ASSUME NEW S, NEW q \in Seq(S), NEW x \in Seq(S), Len(x) <= 1
  PROVE  /\ q \o x \in Seq(S)
         /\ \A i \in DOMAIN q : i \in DOMAIN (q \o x) /\ (q \o x)[i] = q[i]
         /\ \A i \in DOMAIN (q \o x) :
              i \in DOMAIN q \/ (i = Len(q) + 1 /\ Len(x) = 1 /\ (q \o x)[i] = x[1])
<1>1. /\ q \o x \in Seq(S) /\ Len(q \o x) = Len(q) + Len(x)
      /\ Len(q) \in Nat /\ Len(x) \in Nat /\ Len(x) \in {0, 1}
  <2>1. Len(x) \in Nat /\ Len(q) \in Nat
    OBVIOUS
  <2>2. Len(x) \in {0, 1}
    <3>1. \A n \in Nat : n <= 1 => n \in {0, 1}
      OBVIOUS
    <3>. QED BY <2>1, <3>1, Zenon
  <2>3. q \o x \in Seq(S)
    OBVIOUS
  <2>4. Len(q \o x) = Len(q) + Len(x)
    OBVIOUS
  <2>. QED BY <2>1, <2>2, <2>3, <2>4
<1>2. \A i \in 1 .. Len(q) : (q \o x)[i] = q[i]
  OBVIOUS
<1>3. Len(x) = 1 => (q \o x)[Len(q) + 1] = x[1]
  BY <1>1
<1>4. DOMAIN q = 1 .. Len(q) /\ DOMAIN (q \o x) = 1 .. Len(q) + Len(x)
  BY <1>1
<1>5. \A i \in DOMAIN (q \o x) : i \in DOMAIN q \/ (i = Len(q) + 1 /\ Len(x) = 1)
  BY <1>1, <1>4
<1>. QED BY <1>1, <1>2, <1>3, <1>4, <1>5

LEMMA OneMore ==
  ASSUME NEW S, NEW q \in Seq(S), NEW x \in S
  PROVE  /\ Append(q, x) \in Seq(S)
         /\ \A i \in DOMAIN q : i \in DOMAIN Append(q, x) /\ Append(q, x)[i] = q[i]
         /\ \A i \in DOMAIN Append(q, x) :
              i \in DOMAIN q \/ (i = Len(q) + 1 /\ Append(q, x)[i] = x)
OBVIOUS

LEMMA OneLess ==
  ASSUME NEW S, NEW q \in Seq(S), q # <<>>
  PROVE  /\ Tail(q) \in Seq(S) /\ 1 \in DOMAIN q /\ Head(q) = q[1]
         /\ \A i \in DOMAIN Tail(q) : i + 1 \in DOMAIN q /\ i + 1 # 1 /\ Tail(q)[i] = q[i + 1] /\ i \in Nat
OBVIOUS

\* The fields of a call.
LEMMA CallType ==
  /\ \A c \in Call : c.op \in {"attach", "detach", "ack"} /\ c.id \in Attachments /\ c.seq \in 0 .. MaxChunks
  /\ \A c \in Call : c.op = "ack" => c.seq \in Chunks
  /\ \A a \in Attachments : Detach(a) \in Call /\ Detach(a).op = "detach" /\ Detach(a).id = a
<1>1. \A c \in Call : c.op \in {"attach", "detach", "ack"} /\ c.id \in Attachments /\ c.seq \in 0 .. MaxChunks
  BY BoundAssumption DEF Call, Chunks
<1>2. \A c \in Call : c.op = "ack" => c.seq \in Chunks
  BY DEF Call
<1>3. \A a \in Attachments : Detach(a) \in Call /\ Detach(a).op = "detach" /\ Detach(a).id = a
  BY BoundAssumption DEF Call, Detach
<1>. QED BY <1>1, <1>2, <1>3

\* Waking the reader keeps what it holds.
LEMMA WokenType ==
  ASSUME ShellType
  PROVE  /\ Woken(reader) \in Reader
         /\ Woken(reader).seq = reader.seq /\ Woken(reader).for = reader.for
         /\ Woken(reader).pc # "read" <=> reader.pc # "read"
<1>1. CASE reader.pc = "waiting"
  <2>1. Woken(reader) = [reader EXCEPT !.pc = "credit"]
    BY <1>1 DEF Woken
  <2>2. reader \in [pc : {"read", "credit", "waiting", "send"}, seq : 0 .. MaxChunks,
                   for : Attachments \cup {Nobody}]
    BY DEF ShellType, Reader
  <2>. QED BY <1>1, <2>1, <2>2 DEF Reader
<1>2. CASE reader.pc # "waiting"
  BY <1>2 DEF Woken, ShellType
<1>. QED BY <1>1, <1>2

LEMMA ReadingType == Reading \in Reader /\ Reading.pc = "read"
BY BoundAssumption DEF Reading, Reader

\* A step that leaves attachments, writes and calls alone.
LEMMA SameWaits ==
  ASSUME Waits, UNCHANGED <<att, writes, calls>>
  PROVE  Waits'
BY DEF Waits

\* The steps of the threads.
LEMMA ThreadTyping ==
  ASSUME Typing, ReaderStep \/ Finalize \/ SendEnded \/ CloseStream \/ CloseEntry
  PROVE  Typing'
<1>1. UNCHANGED <<calls, att, surface, writes, store>>
  BY DEF ReaderStep, ReadChunk, SkipReplaced, ReserveCredit, WaitForCredit, SendChunk, Finalize,
         SendEnded, CloseStream, CloseEntry
<1>2. Waits' /\ ViewType' /\ StoreType'
  BY <1>1, SameWaits DEF Typing, TypeOK, ViewType, StoreType, store
<1>. SUFFICES ASSUME TRUE PROVE ShellType' /\ Busy' /\ chan' \in [Attachments -> Seq(Event)]
  BY <1>1, <1>2 DEF Typing, TypeOK, WireType
<1>. USE DEF Typing, TypeOK
<1>3. MaxChunks \in Nat
  BY BoundAssumption
<1>4. CASE ReadChunk
  <2>1. latest' \in 0 .. MaxChunks /\ latest + 1 \in Chunks
    BY <1>3, <1>4 DEF ReadChunk, ShellType, Chunks
  <2>2. reader' \in Reader /\ Busy'
    <3>1. CASE sub = Nobody
      BY <1>4, <3>1, ReadingType DEF ReadChunk, Busy
    <3>2. CASE sub # Nobody
      BY <1>4, <2>1, <3>2 DEF ReadChunk, Busy, Reader, ShellType, Chunks
    <3>. QED BY <3>1, <3>2
  <2>. QED BY <1>4, <2>1, <2>2 DEF ReadChunk, ShellType, WireType
<1>5. CASE SkipReplaced
  BY <1>5, ReadingType DEF SkipReplaced, ShellType, WireType, Busy
<1>6. CASE ReserveCredit
  <2>1. reader' \in Reader /\ Busy' /\ inflight' \subseteq Chunks
    BY <1>6 DEF ReserveCredit, Busy, Reader, ShellType
  <2>. QED BY <1>6, <2>1 DEF ReserveCredit, ShellType, WireType
<1>7. CASE WaitForCredit
  <2>1. reader' \in Reader /\ Busy'
    BY <1>7 DEF WaitForCredit, Busy, Reader, ShellType
  <2>. QED BY <1>7, <2>1 DEF WaitForCredit, ShellType, WireType
<1>8. CASE SendChunk
  <2>1. Output(reader.seq) \in Event /\ reader.for \in Attachments
    BY <1>8, EventType DEF SendChunk, Busy
  <2>2. chan' \in [Attachments -> Seq(Event)]
    BY <1>8, <2>1 DEF SendChunk, WireType
  <2>. QED BY <1>8, <2>2, ReadingType DEF SendChunk, ShellType, Busy
<1>9. CASE Finalize
  BY <1>9 DEF Finalize, ShellType, WireType, Busy
<1>10. CASE SendEnded
  <2>1. chan' \in [Attachments -> Seq(Event)]
    BY <1>10, EventType DEF SendEnded, WireType, ShellType
  <2>. QED BY <1>10, <2>1 DEF SendEnded, ShellType, Busy
<1>11. CASE CloseStream \/ CloseEntry
  BY <1>11, WokenType DEF CloseStream, CloseEntry, ShellType, WireType, Busy
<1>. QED BY <1>4, <1>5, <1>6, <1>7, <1>8, <1>9, <1>10, <1>11 DEF ReaderStep

\* A step of the commands: what became of the attachments, of the calls, and of the subscriber.
LEMMA CommandTyping ==
  ASSUME Typing, NEW a \in Attachments, Command(a)
  PROVE  Typing'
<1>. USE DEF Typing, TypeOK
<1>1. calls \in Seq(Call) /\ calls # <<>> /\ Head(calls) \in Call /\ Head(calls) = calls[1] /\ 1 \in DOMAIN calls
  BY HeadTail, OneLess DEF Command, RunAttach, ReplyAttach, RefuseAttach, RunAck, RunDetach, HeadIs, WireType
<1>2. StoreType' /\ UNCHANGED <<surface, writes, chan>>
  BY DEF Command, RunAttach, ReplyAttach, RefuseAttach, RunAck, RunDetach, store, StoreType
<1>3. CASE RunAttach(a)
  <2>1. Head(calls).seq \in 0 .. MaxChunks
    BY <1>1, CallType
  <2>2. Replayed(Head(calls).seq) \in Seq(Event)
    BY <2>1, ReplayType
  <2>. DEFINE r == [att[a] EXCEPT !.st = "subscribed", !.replay = Replayed(Head(calls).seq)]
  <2>3. att[a] \in Attachment
    BY DEF ViewType
  <2>4. r \in Attachment /\ r.step = att[a].step /\ r.now = att[a].now /\ r.started = att[a].started
        /\ r.st = "subscribed"
    BY <2>2, <2>3 DEF Attachment
  <2>5. att' = [att EXCEPT ![a] = r]
    BY <1>3, <2>3 DEF RunAttach, ViewType
  <2>. HIDE DEF r
  <2>6. ViewType' /\ att'[a] = r /\ \A b \in Attachments : b # a => att'[b] = att[b]
    BY <1>2, <2>4, <2>5, OneAttachment DEF ViewType
  <2>7. ShellType' /\ Busy'
    BY <1>3, WokenType DEF RunAttach, ShellType, Busy
  <2>8. att[a].st = "called"
    BY <1>3 DEF RunAttach
  <2>9. Waits'
    BY <1>2, <1>3, <2>4, <2>6, <2>8, CallType DEF Waits, RunAttach, WireType, ViewType
  <2>. QED BY <1>2, <1>3, <2>6, <2>7, <2>9 DEF RunAttach, WireType
<1>4. CASE ReplyAttach(a) \/ RefuseAttach(a)
  <2>. DEFINE r == IF ReplyAttach(a) THEN [att[a] EXCEPT !.st = "replied", !.ended = (ended # "no")]
                   ELSE [att[a] EXCEPT !.st = "failed", !.active = FALSE, !.raw = <<>>]
  <2>1. att[a] \in Attachment /\ <<>> \in Seq(Event)
    BY DEF ViewType
  <2>2. r \in Attachment /\ r.step = att[a].step /\ r.now = att[a].now /\ r.started = att[a].started
    BY <2>1 DEF Attachment
  <2>3. att' = [att EXCEPT ![a] = r]
    BY <1>4, <2>1 DEF ReplyAttach, RefuseAttach, ViewType
  <2>. HIDE DEF r
  <2>4. ViewType' /\ att'[a] = r /\ \A b \in Attachments : b # a => att'[b] = att[b]
    BY <1>2, <2>2, <2>3, OneAttachment DEF ViewType
  <2>5. calls' = Tail(calls) /\ UNCHANGED native /\ att[a].st \in {"called", "subscribed"}
    BY <1>4 DEF ReplyAttach, RefuseAttach
  <2>6. ShellType' /\ Busy'
    BY <2>5 DEF native, ShellType, Busy
  <2>7. WireType'
    BY <1>1, <1>2, <2>5, HeadTail DEF WireType
  <2>8. att[a].step = "idle"
    BY <2>5 DEF Waits
  <2>9. \A b \in Attachments : att'[b].step = att[b].step /\ att'[b].now = att[b].now
                              /\ att'[b].started = att[b].started
                              /\ (att[b].st = "open" => att'[b].st = "open")
    BY <2>2, <2>4, <2>5
  <2>10. \A i \in DOMAIN calls' : calls[i + 1].id \in Attachments /\ i + 1 \in DOMAIN calls /\ calls'[i] = calls[i + 1] /\ i \in Nat
    BY <1>1, <2>5, OneLess, CallType
  <2>11. \A i \in DOMAIN writes : writes[i] \in Attachments
    BY DEF ViewType
  <2>12. Waits'
    BY <1>2, <2>9, <2>10, <2>11 DEF Waits
  <2>. QED BY <1>2, <2>4, <2>6, <2>7, <2>12
<1>5. CASE RunAck(a)
  <2>. DEFINE s == Head(calls).seq
              r == [att[a] EXCEPT !.step = "idle", !.now = 0, !.last = IF s > @ THEN s ELSE @]
  <2>1. att[a] \in Attachment /\ s \in Chunks /\ calls[1].op = "ack" /\ calls[1].id = a
    BY <1>1, <1>5, CallType DEF ViewType, RunAck, HeadIs
  <2>2. r \in Attachment /\ r.step = "idle" /\ r.st = att[a].st /\ r.started = att[a].started
    <3>1. 0 \in 0 .. MaxChunks /\ s \in 0 .. MaxChunks
      BY <2>1, BoundAssumption DEF Chunks
    <3>. HIDE DEF s
    <3>. QED BY <2>1, <3>1 DEF Attachment
  <2>3. att' = [att EXCEPT ![a] = r]
    BY <1>5, <2>1 DEF RunAck, ViewType
  <2>. HIDE DEF r
  <2>4. ViewType' /\ att'[a] = r /\ \A b \in Attachments : b # a => att'[b] = att[b]
    BY <1>2, <2>2, <2>3, OneAttachment DEF ViewType
  <2>5. calls' = Tail(calls) /\ UNCHANGED <<latest, sub, ended, closed>>
    BY <1>5 DEF RunAck
  <2>6. Released(s) \subseteq Chunks
    BY DEF Released, ShellType
  <2>7. ShellType' /\ Busy'
    <3>1. (inflight' = Released(s) /\ reader' = Woken(reader)) \/ UNCHANGED <<inflight, reader>>
      BY <1>5 DEF RunAck
    <3>. QED BY <2>5, <2>6, <3>1, WokenType DEF ShellType, Busy
  <2>8. WireType'
    BY <1>1, <1>2, <2>5, HeadTail DEF WireType
  <2>9. att[a].step = "ack"
    BY <1>1, <2>1 DEF Waits
  <2>10. \A i \in DOMAIN calls' : calls[i + 1].id \in Attachments /\ i + 1 \in DOMAIN calls /\ i + 1 # 1 /\ calls'[i] = calls[i + 1] /\ i \in Nat
    BY <1>1, <2>5, OneLess, CallType
  <2>11. \A i \in DOMAIN writes : writes[i] \in Attachments
    BY DEF ViewType
  <2>12. \A i \in DOMAIN calls' : calls'[i].op = "ack" => calls'[i].id # a
    BY <1>1, <2>1, <2>10 DEF Waits
  <2>13. \A i \in DOMAIN writes : writes[i] # a
    BY <2>9 DEF Waits
  <2>14. Waits'
    BY <1>2, <2>2, <2>4, <2>10, <2>11, <2>12, <2>13 DEF Waits
  <2>. QED BY <1>2, <2>4, <2>7, <2>8, <2>14
<1>6. CASE RunDetach(a)
  <2>1. calls' = Tail(calls) /\ UNCHANGED <<latest, ended, closed, att>>
    BY <1>6 DEF RunDetach
  <2>2. ShellType' /\ Busy'
    <3>1. (sub' = Nobody /\ inflight' = {} /\ reader' = Woken(reader)) \/ UNCHANGED <<sub, inflight, reader>>
      BY <1>6 DEF RunDetach
    <3>. QED BY <2>1, <3>1, WokenType DEF ShellType, Busy
  <2>3. WireType'
    BY <1>1, <1>2, <2>1, HeadTail DEF WireType
  <2>4. ViewType'
    BY <1>2, <2>1 DEF ViewType
  <2>5. \A i \in DOMAIN calls' : i + 1 \in DOMAIN calls /\ calls'[i] = calls[i + 1] /\ i \in Nat
    BY <1>1, <2>1, OneLess
  <2>6. Waits'
    BY <1>2, <2>1, <2>5 DEF Waits
  <2>. QED BY <1>2, <2>2, <2>3, <2>4, <2>6
<1>. QED BY <1>3, <1>4, <1>5, <1>6 DEF Command

\* The chunk is stale: consume() acknowledges it at once.
Stale(a, e) == e.kind = "output" /\ ~Wanted(att[a], e)

\* An event is taken from the queue of an attachment that waits for nothing: what it waits for
\* then, the one write and the one acknowledgement.
LEMMA TakeWaits ==
  ASSUME Typing, NEW a \in Attachments, NEW e \in Event, att[a].step = "idle", Applied(a, e),
         att'[a].st = "open", \A b \in Attachments : b # a => att'[b] = att[b],
         e.kind # "output" => att'[a].step = "idle",
         e.kind = "output" => /\ att'[a].now \in Chunks
                              /\ att'[a].step = IF Wanted(att[a], e) THEN "write" ELSE "ack",
         \A i \in DOMAIN calls : calls'[i] = calls[i],
         \A i \in DOMAIN calls' : \/ i \in DOMAIN calls
                                  \/ calls'[i].op # "ack"
                                  \/ i = Len(calls) + 1 /\ Stale(a, e) /\ calls'[i].id = a
  PROVE  Waits'
<1>1. \A b \in Attachments : /\ att'[b].step # "idle" \/ att'[b].started => att'[b].st = "open"
                             /\ att'[b].step # "idle" => att'[b].now \in Chunks
  BY DEF Typing, Waits
<1>2. writes \in Seq(Attachments) /\ \A i \in DOMAIN writes : writes[i] \in Attachments /\ writes[i] # a
  BY DEF Typing, TypeOK, ViewType, Waits
<1>3. \A i \in DOMAIN calls : calls[i].id \in Attachments /\ (calls[i].op = "ack" => calls[i].id # a)
  BY CallType DEF Typing, TypeOK, WireType, Waits
<1>4. /\ \A i \in DOMAIN writes' : att'[writes'[i]].step = "write"
      /\ \A i, j \in DOMAIN writes' : writes'[i] = writes'[j] => i = j
  <2>1. CASE Wanted(att[a], e)
    <3>1. e.kind = "output" /\ att'[a].step = "write" /\ writes' = Append(writes, a)
      BY <2>1 DEF Wanted, Applied
    <3>2. \A i \in DOMAIN writes' : \/ i \in DOMAIN writes /\ writes'[i] = writes[i]
                                    \/ i = Len(writes) + 1 /\ writes'[i] = a
      BY <1>2, <3>1, OneMore
    <3>. QED BY <1>2, <3>1, <3>2 DEF Typing, Waits
  <2>2. CASE ~Wanted(att[a], e)
    BY <1>2, <2>2 DEF Applied, Typing, Waits
  <2>. QED BY <2>1, <2>2
<1>5. \A i \in DOMAIN calls' : calls'[i].op = "ack" => att'[calls'[i].id].step = "ack"
  <2>. SUFFICES ASSUME NEW i \in DOMAIN calls', calls'[i].op = "ack"
                PROVE  att'[calls'[i].id].step = "ack"
    OBVIOUS
  <2>1. CASE i \in DOMAIN calls
    BY <1>3, <2>1 DEF Typing, Waits
  <2>2. CASE Stale(a, e) /\ calls'[i].id = a
    BY <2>2 DEF Stale
  <2>. QED BY <2>1, <2>2
<1>6. \A i, j \in DOMAIN calls' :
        calls'[i].op = "ack" /\ calls'[j].op = "ack" /\ calls'[i].id = calls'[j].id => i = j
  BY <1>3 DEF Typing, Waits
<1>. QED BY <1>1, <1>4, <1>5, <1>6 DEF Waits

\* What the calls are after a consumed event and, perhaps, a detach.
LEMMA TakeCalls ==
  ASSUME Typing, NEW a \in Attachments, NEW e \in Event, NEW x \in Seq(Call), Len(x) <= 1,
         Len(x) = 1 => x[1] = Detach(a), calls' = (calls \o StaleAck(a, e)) \o x
  PROVE  /\ calls' \in Seq(Call)
         /\ \A i \in DOMAIN calls : i \in DOMAIN calls' /\ calls'[i] = calls[i]
         /\ \A i \in DOMAIN calls' :
              \/ i \in DOMAIN calls
              \/ calls'[i] = Detach(a) /\ calls'[i].op = "detach" /\ calls'[i].id = a /\ Len(x) = 1
              \/ /\ i = Len(calls) + 1 /\ Stale(a, e)
                 /\ calls'[i].op = "ack" /\ calls'[i].id = a
<1>. DEFINE y == StaleAck(a, e)
            q == calls \o y
<1>1. e.kind = "output" => e.seq \in Chunks /\ [op |-> "ack", id |-> a, seq |-> e.seq] \in Call
  BY EventType DEF Call
<1>2. y \in Seq(Call) /\ Len(y) <= 1 /\ (Len(y) = 1 => Stale(a, e) /\ y[1].op = "ack" /\ y[1].id = a)
  BY <1>1 DEF StaleAck, Stale
<1>. HIDE DEF y
<1>3. calls \in Seq(Call)
  BY DEF Typing, TypeOK, WireType
<1>4. /\ q \in Seq(Call)
      /\ \A i \in DOMAIN calls : i \in DOMAIN q /\ q[i] = calls[i]
      /\ \A i \in DOMAIN q : i \in DOMAIN calls \/ (i = Len(calls) + 1 /\ Len(y) = 1 /\ q[i] = y[1])
  BY <1>2, <1>3, Longer
<1>. HIDE DEF q
<1>5. calls' = q \o x
  BY DEF q, y
<1>6. /\ q \o x \in Seq(Call)
      /\ \A i \in DOMAIN q : i \in DOMAIN (q \o x) /\ (q \o x)[i] = q[i]
      /\ \A i \in DOMAIN (q \o x) : i \in DOMAIN q \/ (i = Len(q) + 1 /\ Len(x) = 1 /\ (q \o x)[i] = x[1])
  BY <1>4, Longer
<1>7. Detach(a).op = "detach" /\ Detach(a).id = a
  BY CallType
<1>. QED BY <1>2, <1>4, <1>5, <1>6, <1>7

\* An event is consumed where nothing is waited for.
LEMMA ConsumeTyping ==
  ASSUME Typing, NEW a \in Attachments, Consume(a)
  PROVE  /\ Typing'
         /\ att'[a].st = att[a].st /\ att'[a].active = att[a].active /\ att'[a].ended = att[a].ended
         /\ \A b \in Attachments : b # a => att'[b] = att[b]
         /\ \A i \in DOMAIN calls : i \in DOMAIN calls' /\ calls'[i] = calls[i]
         /\ \A i \in DOMAIN calls' :
              i \in DOMAIN calls \/ (calls'[i].op = "ack" /\ calls'[i].id = a)
<1>. DEFINE e == Head(Pending(att[a]))
<1>1. att[a] \in Attachment /\ Pending(att[a]) # <<>> /\ e \in Event
  BY ConsumedType DEF Typing, TypeOK, ViewType, Consume
<1>2. att' = [att EXCEPT ![a] = Consumed(att[a])]
  BY DEF Consume, Typing, TypeOK, ViewType
<1>3. /\ att' \in [Attachments -> Attachment]
      /\ att'[a] = Consumed(att[a]) /\ \A b \in Attachments : b # a => att'[b] = att[b]
  BY <1>1, <1>2, OneAttachment, ConsumedType DEF Typing, TypeOK
<1>4. Applied(a, e) /\ UNCHANGED <<native, chan, surface>> /\ att[a].step = "idle" /\ att[a].st = "open"
      /\ shown' \in BOOLEAN /\ calls' = calls \o StaleAck(a, e)
  BY DEF Consume, Typing, TypeOK, StoreType
<1>. HIDE DEF e
<1>5. screen' \in Seq(Chunks) /\ reported' \in 0 .. MaxChunks /\ cursor' \in 0 .. MaxChunks
      /\ writes' \in Seq(Attachments) /\ StaleAck(a, e) \in Seq(Call)
  BY <1>1, <1>4, AppliedType DEF Typing, TypeOK
<1>6. calls' = (calls \o StaleAck(a, e)) \o <<>> /\ Len(<<>>) = 0 /\ <<>> \in Seq(Call)
  BY <1>4, <1>5 DEF Typing, TypeOK, WireType
<1>7. /\ calls' \in Seq(Call)
      /\ \A i \in DOMAIN calls : i \in DOMAIN calls' /\ calls'[i] = calls[i]
      /\ \A i \in DOMAIN calls' : i \in DOMAIN calls
           \/ (i = Len(calls) + 1 /\ Stale(a, e) /\ calls'[i].op = "ack" /\ calls'[i].id = a)
  <2>. DEFINE x == <<>>
  <2>1. x \in Seq(Call) /\ Len(x) = 0 /\ calls' = (calls \o StaleAck(a, e)) \o x
    BY <1>6
  <2>2. Len(x) <= 1 /\ Len(x) # 1
    BY <2>1
  <2>. HIDE DEF x
  <2>3. /\ calls' \in Seq(Call)
        /\ \A i \in DOMAIN calls : i \in DOMAIN calls' /\ calls'[i] = calls[i]
        /\ \A i \in DOMAIN calls' :
             \/ i \in DOMAIN calls
             \/ calls'[i] = Detach(a) /\ calls'[i].op = "detach" /\ calls'[i].id = a /\ Len(x) = 1
             \/ /\ i = Len(calls) + 1 /\ Stale(a, e)
                /\ calls'[i].op = "ack" /\ calls'[i].id = a
    BY <1>1, <2>1, <2>2, TakeCalls
  <2>. QED BY <2>2, <2>3
<1>8. /\ e.kind # "output" => att'[a].step = "idle"
      /\ e.kind = "output" => /\ att'[a].now \in Chunks
                              /\ att'[a].step = IF Wanted(att[a], e) THEN "write" ELSE "ack"
  BY <1>1, <1>3, <1>4, ConsumedType DEF e
<1>9. att'[a].st = att[a].st /\ att'[a].active = att[a].active /\ att'[a].ended = att[a].ended
  BY <1>1, <1>3, ConsumedType
<1>10. Waits'
  BY <1>1, <1>3, <1>4, <1>7, <1>8, <1>9, TakeWaits
<1>11. ShellType' /\ Busy'
  BY <1>4 DEF native, Typing, TypeOK, ShellType, Busy
<1>12. TypeOK'
  BY <1>3, <1>4, <1>5, <1>7, <1>11 DEF Typing, TypeOK, WireType, ViewType, StoreType
<1>. QED BY <1>3, <1>7, <1>9, <1>10, <1>11, <1>12 DEF Typing

\* The result of attach arrives: the attachment is open, and stays active only on the surface.
LEMMA AttachedTyping ==
  ASSUME Typing, NEW a \in Attachments, Attached(a)
  PROVE  /\ Typing'
         /\ att[a].st = "replied" /\ att'[a].st = "open" /\ att'[a].ended = att[a].ended
         /\ surface # a => ~att'[a].active
         /\ \A b \in Attachments : b # a => att'[b] = att[b]
         /\ \A i \in DOMAIN calls : i \in DOMAIN calls' /\ calls'[i] = calls[i]
         /\ \A i \in DOMAIN calls' :
              \/ i \in DOMAIN calls
              \/ calls'[i].op = "ack" /\ calls'[i].id = a
              \/ calls'[i].op = "detach" /\ calls'[i].id = a /\ surface # a
<1>. DEFINE r    == [att[a] EXCEPT !.st = "open"]
            next == IF r.replay = <<>> THEN r ELSE Consumed(r)
            e    == Head(r.replay)
            acks == IF r.replay = <<>> THEN <<>> ELSE StaleAck(a, e)
            x    == IF surface = a THEN <<>> ELSE <<Detach(a)>>
            n    == IF surface = a THEN next ELSE Disposed(next)
<1>1. att[a] \in Attachment /\ att[a].st = "replied"
  BY DEF Typing, TypeOK, ViewType, Attached
<1>2. /\ r \in Attachment /\ r.st = "open" /\ r.active = att[a].active /\ r.ended = att[a].ended
      /\ r.step = att[a].step /\ r.started = att[a].started /\ r.replay = att[a].replay /\ r.last = att[a].last
  BY <1>1 DEF Attachment
<1>3. r.step = "idle" /\ ~r.started /\ Pending(r) = r.replay
  BY <1>1, <1>2 DEF Typing, Waits, Pending
<1>4. /\ IF r.replay = <<>> THEN UNCHANGED <<screen, writes, reported, cursor>> ELSE Applied(a, e)
      /\ att' = [att EXCEPT ![a] = n] /\ calls' = (calls \o acks) \o x
      /\ shown' = att[a].ended /\ UNCHANGED <<native, chan, surface>>
  BY DEF Attached
<1>5. x \in Seq(Call) /\ Len(x) <= 1 /\ (Len(x) = 1 => x[1] = Detach(a) /\ surface # a)
  BY CallType
<1>. HIDE DEF r, x, e
<1>6. /\ next \in Attachment /\ next.st = "open" /\ next.active = r.active /\ next.ended = r.ended
      /\ r.replay = <<>> => next.step = "idle"
      /\ r.replay # <<>> =>
           /\ e \in Event
           /\ e.kind # "output" => next.step = "idle"
           /\ e.kind = "output" => /\ next.now \in Chunks
                                   /\ next.step = IF Wanted(r, e) THEN "write" ELSE "ack"
  BY <1>2, <1>3, ConsumedType DEF e
<1>7. next.started = r.started
  BY <1>2, <1>3, ConsumedType
<1>. HIDE DEF next
<1>8. n \in Attachment /\ n.st = "open" /\ n.step = next.step /\ n.now = next.now /\ n.ended = att[a].ended
      /\ (surface # a => ~n.active)
  BY <1>2, <1>6, DisposedType
<1>. HIDE DEF n
<1>9. /\ att' \in [Attachments -> Attachment]
      /\ att'[a] = n /\ \A b \in Attachments : b # a => att'[b] = att[b]
  BY <1>4, <1>8, OneAttachment DEF Typing, TypeOK
<1>10. shown' \in BOOLEAN /\ ShellType' /\ Busy'
  BY <1>1, <1>4, Fields DEF native, Typing, TypeOK, ShellType, Busy
<1>11. CASE r.replay = <<>>
  <2>1. calls \in Seq(Call)
    BY DEF Typing, TypeOK, WireType
  <2>2. calls' = calls \o x
    BY <1>4, <1>11, <2>1
  <2>3. /\ calls' \in Seq(Call)
        /\ \A i \in DOMAIN calls : i \in DOMAIN calls' /\ calls'[i] = calls[i]
        /\ \A i \in DOMAIN calls' : i \in DOMAIN calls \/ (Len(x) = 1 /\ calls'[i] = x[1])
    BY <1>5, <2>1, <2>2, Longer
  <2>4. \A i \in DOMAIN calls' : i \in DOMAIN calls
           \/ (calls'[i].op = "detach" /\ calls'[i].id = a /\ surface # a)
    BY <1>5, <2>3, CallType
  <2>5. UNCHANGED <<screen, writes, reported, cursor>>
    BY <1>4, <1>11
  <2>6. TypeOK'
    BY <1>4, <1>9, <1>10, <2>3, <2>5 DEF Typing, TypeOK, WireType, ViewType, StoreType
  <2>7. att'[a].step = "idle" /\ att[a].step = "idle" /\ att'[a].st = "open"
    BY <1>2, <1>3, <1>6, <1>8, <1>9, <1>11
  <2>8. \A i \in DOMAIN calls : calls[i].id \in Attachments
    BY <2>1, CallType
  <2>9. \A i \in DOMAIN writes : writes[i] \in Attachments
    BY DEF Typing, TypeOK, ViewType
  <2>10. Waits'
    BY <1>9, <2>3, <2>4, <2>5, <2>7, <2>8, <2>9 DEF Typing, Waits
  <2>. QED BY <1>1, <1>8, <1>9, <1>10, <2>3, <2>4, <2>6, <2>10 DEF Typing
<1>12. CASE r.replay # <<>>
  <2>1. e \in Event /\ Applied(a, e) /\ calls' = (calls \o StaleAck(a, e)) \o x
    BY <1>4, <1>6, <1>12
  <2>2. /\ calls' \in Seq(Call)
        /\ \A i \in DOMAIN calls : i \in DOMAIN calls' /\ calls'[i] = calls[i]
        /\ \A i \in DOMAIN calls' :
             \/ i \in DOMAIN calls
             \/ calls'[i] = Detach(a) /\ calls'[i].op = "detach" /\ calls'[i].id = a /\ Len(x) = 1
             \/ /\ i = Len(calls) + 1 /\ Stale(a, e)
                /\ calls'[i].op = "ack" /\ calls'[i].id = a
    BY <1>5, <2>1, TakeCalls
  <2>3. screen' \in Seq(Chunks) /\ reported' \in 0 .. MaxChunks /\ cursor' \in 0 .. MaxChunks
        /\ writes' \in Seq(Attachments)
    BY <2>1, AppliedType DEF Typing, TypeOK
  <2>4. TypeOK'
    BY <1>4, <1>9, <1>10, <2>2, <2>3 DEF Typing, TypeOK, WireType, ViewType, StoreType
  <2>5. Wanted(r, e) <=> Wanted(att[a], e)
    BY <1>2 DEF Wanted
  <2>6. Waits'
    BY <1>2, <1>3, <1>6, <1>8, <1>9, <1>12, <2>1, <2>2, <2>5, TakeWaits
  <2>7. Len(x) = 1 => surface # a
    BY <1>5
  <2>. QED BY <1>1, <1>8, <1>9, <1>10, <2>2, <2>4, <2>6, <2>7 DEF Typing
<1>. QED BY <1>11, <1>12

\* Attachments whose queues alone have changed.
LEMMA QueueTyping ==
  ASSUME Typing, NEW a \in Attachments, NEW r \in Attachment, att' = [att EXCEPT ![a] = r],
         r.step = att[a].step, r.now = att[a].now, r.st = att[a].st,
         r.started => att[a].started \/ att[a].st = "open",
         chan' \in [Attachments -> Seq(Event)], UNCHANGED <<native, calls, surface, writes, store>>
  PROVE  Typing'
<1>1. ViewType' /\ att'[a] = r /\ \A b \in Attachments : b # a => att'[b] = att[b]
  BY OneAttachment DEF Typing, TypeOK, ViewType
<1>2. ShellType' /\ WireType' /\ StoreType' /\ Busy'
  BY DEF native, store, Typing, TypeOK, ShellType, WireType, StoreType, Busy
<1>3. \A i \in DOMAIN calls : calls[i].id \in Attachments
  BY CallType DEF Typing, TypeOK, WireType
<1>4. \A i \in DOMAIN writes : writes[i] \in Attachments
  BY DEF Typing, TypeOK, ViewType
<1>5. \A b \in Attachments : att'[b].step = att[b].step /\ att'[b].now = att[b].now
        /\ att'[b].st = att[b].st /\ (att'[b].started => att[b].started \/ att[b].st = "open")
  BY <1>1
<1>6. Waits'
  BY <1>3, <1>4, <1>5 DEF Typing, Waits
<1>. QED BY <1>1, <1>2, <1>6 DEF Typing, TypeOK

\* xterm calls back.
LEMMA WrittenTyping ==
  ASSUME Typing, NEW a \in Attachments, Written(a)
  PROVE  /\ Typing'
         /\ att'[a].st = att[a].st /\ att'[a].active = att[a].active /\ att'[a].ended = att[a].ended
         /\ att[a].st = "open"
         /\ \A b \in Attachments : b # a => att'[b] = att[b]
         /\ \A i \in DOMAIN calls : i \in DOMAIN calls' /\ calls'[i] = calls[i]
         /\ \A i \in DOMAIN calls' :
              i \in DOMAIN calls \/ (calls'[i].op = "ack" /\ calls'[i].id = a)
<1>1. writes \in Seq(Attachments) /\ writes # <<>> /\ Head(writes) = a /\ writes' = Tail(writes)
  BY DEF Typing, TypeOK, ViewType, Written
<1>2. /\ writes' \in Seq(Attachments) /\ writes[1] = a /\ 1 \in DOMAIN writes
      /\ \A i \in DOMAIN writes' : i + 1 \in DOMAIN writes /\ i + 1 # 1 /\ writes'[i] = writes[i + 1] /\ i \in Nat
  BY <1>1, OneLess
<1>3. att[a].step = "write" /\ att[a].st = "open" /\ att[a].now \in Chunks
  BY <1>2 DEF Typing, Waits
<1>4. \A i \in DOMAIN writes' : writes'[i] # a /\ writes'[i] \in Attachments /\ att[writes'[i]].step = "write"
  BY <1>2 DEF Typing, Waits
<1>5. \A i, j \in DOMAIN writes' : writes'[i] = writes'[j] => i = j
  BY <1>2 DEF Typing, Waits
<1>6. \A i \in DOMAIN calls : calls[i].id \in Attachments /\ (calls[i].op = "ack" => calls[i].id # a)
  BY <1>3, CallType DEF Typing, TypeOK, WireType, Waits
<1>7. att[a] \in Attachment /\ 0 \in 0 .. MaxChunks
  BY BoundAssumption DEF Typing, TypeOK, ViewType
<1>8. cursor' \in 0 .. MaxChunks /\ UNCHANGED <<native, chan, surface, shown, screen, reported>>
  BY <1>3 DEF Written, Typing, TypeOK, StoreType, Chunks
<1>9. ShellType' /\ Busy' /\ StoreType'
  BY <1>8 DEF native, Typing, TypeOK, ShellType, Busy, StoreType
<1>10. CASE att[a].active
  <2>. DEFINE r == [att[a] EXCEPT !.step = "ack"]
              c == [op |-> "ack", id |-> a, seq |-> att[a].now]
  <2>1. /\ r \in Attachment /\ r.step = "ack" /\ r.st = att[a].st /\ r.now = att[a].now
        /\ r.active = att[a].active /\ r.ended = att[a].ended
    BY <1>7 DEF Attachment
  <2>2. att' = [att EXCEPT ![a] = r] /\ calls' = Append(calls, c)
    BY <1>10 DEF Written, Typing, TypeOK, ViewType
  <2>. HIDE DEF r
  <2>3. ViewType' /\ att'[a] = r /\ \A b \in Attachments : b # a => att'[b] = att[b]
    BY <1>2, <1>8, <2>1, <2>2, OneAttachment DEF Typing, TypeOK, ViewType
  <2>4. c \in Call /\ c.op = "ack" /\ c.id = a
    BY <1>3 DEF Call
  <2>. HIDE DEF c
  <2>5. /\ calls' \in Seq(Call)
        /\ \A i \in DOMAIN calls : i \in DOMAIN calls' /\ calls'[i] = calls[i]
        /\ \A i \in DOMAIN calls' : i \in DOMAIN calls \/ (i = Len(calls) + 1 /\ calls'[i] = c)
    BY <2>2, <2>4, OneMore DEF Typing, TypeOK, WireType
  <2>6. /\ \A i \in DOMAIN calls' : calls'[i].op = "ack" => att'[calls'[i].id].step = "ack"
        /\ \A i, j \in DOMAIN calls' :
             calls'[i].op = "ack" /\ calls'[j].op = "ack" /\ calls'[i].id = calls'[j].id => i = j
    BY <1>6, <2>1, <2>3, <2>4, <2>5 DEF Typing, Waits
  <2>7. Waits'
    BY <1>3, <1>4, <1>5, <2>1, <2>3, <2>6 DEF Typing, Waits
  <2>8. WireType'
    BY <1>8, <2>5 DEF Typing, TypeOK, WireType
  <2>. QED BY <1>3, <1>9, <2>1, <2>3, <2>4, <2>5, <2>7, <2>8 DEF Typing, TypeOK
<1>11. CASE ~att[a].active
  <2>. DEFINE r == [att[a] EXCEPT !.step = "idle", !.now = 0]
  <2>1. /\ r \in Attachment /\ r.step = "idle" /\ r.st = att[a].st
        /\ r.active = att[a].active /\ r.ended = att[a].ended
    BY <1>7 DEF Attachment
  <2>2. att' = [att EXCEPT ![a] = r] /\ calls' = calls
    BY <1>11 DEF Written, Typing, TypeOK, ViewType
  <2>. HIDE DEF r
  <2>3. ViewType' /\ att'[a] = r /\ \A b \in Attachments : b # a => att'[b] = att[b]
    BY <1>2, <1>8, <2>1, <2>2, OneAttachment DEF Typing, TypeOK, ViewType
  <2>4. Waits'
    BY <1>3, <1>4, <1>5, <1>6, <2>1, <2>2, <2>3 DEF Typing, Waits
  <2>5. WireType'
    BY <1>8, <2>2 DEF Typing, TypeOK, WireType
  <2>. QED BY <1>3, <1>9, <2>1, <2>2, <2>3, <2>4, <2>5 DEF Typing, TypeOK
<1>. QED BY <1>10, <1>11

\* Start and Receive move events between queues.
LEMMA MoveTyping ==
  ASSUME Typing, NEW a \in Attachments, Start(a) \/ Receive(a)
  PROVE  /\ Typing' /\ UNCHANGED <<calls, sub, surface, closed, shown, ended>>
         /\ \A b \in Attachments : /\ att'[b].st = att[b].st /\ att'[b].active = att[b].active
                                   /\ att'[b].ended = att[b].ended
<1>1. att[a] \in Attachment
  BY DEF Typing, TypeOK, ViewType
<1>2. UNCHANGED <<native, calls, surface, writes, store>>
  BY DEF Start, Receive
<1>3. CASE Start(a)
  <2>. DEFINE r == [att[a] EXCEPT !.started = TRUE, !.pend = @ \o att[a].raw, !.raw = <<>>]
  <2>1. att[a].pend \o att[a].raw \in Seq(Event) /\ <<>> \in Seq(Event)
    BY <1>1, Fields
  <2>2. /\ r \in Attachment /\ r.step = att[a].step /\ r.now = att[a].now /\ r.st = att[a].st
        /\ r.active = att[a].active /\ r.ended = att[a].ended
    BY <1>1, <2>1 DEF Attachment
  <2>3. att' = [att EXCEPT ![a] = r] /\ att[a].st = "open" /\ chan' \in [Attachments -> Seq(Event)]
    BY <1>3 DEF Start, Typing, TypeOK, ViewType, WireType
  <2>. HIDE DEF r
  <2>4. Typing'
    BY <1>2, <2>2, <2>3, QueueTyping
  <2>5. att'[a] = r /\ \A b \in Attachments : b # a => att'[b] = att[b]
    BY <2>2, <2>3, OneAttachment DEF Typing, TypeOK
  <2>. QED BY <1>2, <2>2, <2>4, <2>5 DEF native, store
<1>4. CASE Receive(a)
  <2>1. chan[a] \in Seq(Event) /\ chan[a] # <<>> /\ chan' = [chan EXCEPT ![a] = Tail(@)]
    BY <1>4 DEF Receive, Typing, TypeOK, WireType
  <2>2. Head(chan[a]) \in Event /\ Tail(chan[a]) \in Seq(Event)
    BY <2>1, HeadTail
  <2>3. chan' \in [Attachments -> Seq(Event)]
    BY <2>1, <2>2 DEF Typing, TypeOK, WireType
  <2>. DEFINE r == IF ~att[a].active THEN att[a]
                   ELSE IF att[a].started THEN [att[a] EXCEPT !.pend = Append(@, Head(chan[a]))]
                   ELSE [att[a] EXCEPT !.raw = Append(@, Head(chan[a]))]
  <2>4. Append(att[a].pend, Head(chan[a])) \in Seq(Event) /\ Append(att[a].raw, Head(chan[a])) \in Seq(Event)
    BY <1>1, <2>2, Fields
  <2>5. /\ r \in Attachment /\ r.step = att[a].step /\ r.now = att[a].now /\ r.st = att[a].st
        /\ r.active = att[a].active /\ r.ended = att[a].ended /\ r.started = att[a].started
    BY <1>1, <2>4 DEF Attachment
  <2>6. att' = [att EXCEPT ![a] = r]
    BY <1>4 DEF Receive, Typing, TypeOK, ViewType
  <2>. HIDE DEF r
  <2>7. Typing'
    BY <1>2, <2>3, <2>5, <2>6, QueueTyping
  <2>8. att'[a] = r /\ \A b \in Attachments : b # a => att'[b] = att[b]
    BY <2>5, <2>6, OneAttachment DEF Typing, TypeOK
  <2>. QED BY <1>2, <2>5, <2>7, <2>8 DEF native, store
<1>. QED BY <1>3, <1>4

\* The surface is mounted: a new attachment and its call.
LEMMA MountTyping ==
  ASSUME Typing, NEW a \in Attachments, Mount(a)
  PROVE  /\ Typing' /\ surface = Nobody /\ surface' = a
         /\ att[a].st = "none" /\ att'[a].st = "called" /\ att'[a].active
         /\ \A b \in Attachments : b # a => att'[b] = att[b]
         /\ \A i \in DOMAIN calls : i \in DOMAIN calls' /\ calls'[i] = calls[i]
         /\ Len(calls) + 1 \in DOMAIN calls'
         /\ calls'[Len(calls) + 1].op = "attach" /\ calls'[Len(calls) + 1].id = a
         /\ \A i \in DOMAIN calls' : i \in DOMAIN calls \/ i = Len(calls) + 1
<1>. DEFINE r == [Unused EXCEPT !.st = "called", !.active = TRUE, !.last = cursor]
            c == [op |-> "attach", id |-> a, seq |-> cursor]
<1>1. cursor \in 0 .. MaxChunks
  BY DEF Typing, TypeOK, StoreType
<1>2. r \in Attachment /\ r.step = "idle" /\ r.st = "called" /\ r.active /\ ~r.started
  BY <1>1, UnusedType DEF Unused, Attachment
<1>3. att' = [att EXCEPT ![a] = r] /\ calls' = Append(calls, c) /\ att[a].st = "none"
      /\ UNCHANGED <<native, chan, writes, store>> /\ surface = Nobody /\ surface' = a
  BY DEF Mount, Fresh
<1>. HIDE DEF r
<1>4. ViewType' /\ att'[a] = r /\ \A b \in Attachments : b # a => att'[b] = att[b]
  BY <1>2, <1>3, OneAttachment DEF Typing, TypeOK, ViewType
<1>5. c \in Call /\ c.op = "attach" /\ c.id = a
  BY <1>1 DEF Call
<1>. HIDE DEF c
<1>6. /\ calls' \in Seq(Call)
      /\ \A i \in DOMAIN calls : i \in DOMAIN calls' /\ calls'[i] = calls[i]
      /\ \A i \in DOMAIN calls' : i \in DOMAIN calls \/ (i = Len(calls) + 1 /\ calls'[i] = c)
  BY <1>3, <1>5, OneMore DEF Typing, TypeOK, WireType
<1>7. Len(calls) + 1 \in DOMAIN calls' /\ calls'[Len(calls) + 1] = c
  BY <1>3, <1>5 DEF Typing, TypeOK, WireType
<1>8. att[a].step = "idle"
  BY <1>3 DEF Typing, Waits
<1>9. \A i \in DOMAIN writes : writes[i] \in Attachments /\ writes[i] # a
  BY <1>8 DEF Typing, TypeOK, ViewType, Waits
<1>10. \A i \in DOMAIN calls : calls[i].id \in Attachments /\ (calls[i].op = "ack" => calls[i].id # a)
  BY <1>8, CallType DEF Typing, TypeOK, WireType, Waits
<1>11. writes' = writes
  BY <1>3
<1>12. /\ \A b \in Attachments : /\ att'[b].step # "idle" \/ att'[b].started => att'[b].st = "open"
                                 /\ att'[b].step # "idle" => att'[b].now \in Chunks
       /\ \A i \in DOMAIN writes' : att'[writes'[i]].step = "write"
       /\ \A i, j \in DOMAIN writes' : writes'[i] = writes'[j] => i = j
  BY <1>2, <1>4, <1>9, <1>11 DEF Typing, Waits
<1>13. /\ \A i \in DOMAIN calls' : calls'[i].op = "ack" => att'[calls'[i].id].step = "ack"
       /\ \A i, j \in DOMAIN calls' :
            calls'[i].op = "ack" /\ calls'[j].op = "ack" /\ calls'[i].id = calls'[j].id => i = j
  BY <1>4, <1>5, <1>6, <1>10 DEF Typing, Waits
<1>14. ShellType' /\ WireType' /\ StoreType' /\ Busy'
  BY <1>3, <1>6 DEF native, store, Typing, TypeOK, ShellType, WireType, StoreType, Busy
<1>15. Typing'
  BY <1>4, <1>12, <1>13, <1>14 DEF Typing, TypeOK, Waits
<1>. QED BY <1>2, <1>3, <1>4, <1>5, <1>6, <1>7, <1>15

\* The surface is unmounted: its attachment, if it is there and active, is disposed.
LEMMA UnmountTyping ==
  ASSUME Typing, Unmount
  PROVE  /\ Typing' /\ surface' = Nobody /\ UNCHANGED <<native, shown>> /\ surface \in Attachments
         /\ \A b \in Attachments : att'[b].st = att[b].st /\ att'[b].ended = att[b].ended
         /\ \A b \in Attachments : b # surface => att'[b] = att[b]
         /\ att[surface].st = "open" => ~att'[surface].active
         /\ \A i \in DOMAIN calls : i \in DOMAIN calls' /\ calls'[i] = calls[i]
         /\ \A i \in DOMAIN calls' :
              \/ i \in DOMAIN calls
              \/ calls'[i].op = "detach" /\ calls'[i].id = surface /\ att[surface].st = "open"
<1>1. surface \in Attachments /\ UNCHANGED <<native, chan, writes, store>> /\ surface' = Nobody
  BY DEF Unmount, Typing, TypeOK, ViewType
<1>2. ShellType' /\ StoreType' /\ Busy'
  BY <1>1 DEF native, store, Typing, TypeOK, ShellType, StoreType, Busy
<1>3. CASE att[surface].st = "open" /\ att[surface].active
  <2>. DEFINE r == Disposed(att[surface])
  <2>1. att[surface] \in Attachment
    BY <1>1 DEF Typing, TypeOK, ViewType
  <2>2. /\ r \in Attachment /\ r.st = att[surface].st /\ ~r.active /\ r.step = att[surface].step
        /\ r.now = att[surface].now /\ r.ended = att[surface].ended
    BY <2>1, DisposedType
  <2>3. att' = [att EXCEPT ![surface] = r] /\ calls' = Append(calls, Detach(surface))
    BY <1>1, <1>3 DEF Unmount, Typing, TypeOK, ViewType
  <2>. HIDE DEF r
  <2>4. att' \in [Attachments -> Attachment] /\ att'[surface] = r
        /\ \A b \in Attachments : b # surface => att'[b] = att[b]
    BY <1>1, <2>2, <2>3, OneAttachment DEF Typing, TypeOK
  <2>5. Detach(surface) \in Call /\ Detach(surface).op = "detach" /\ Detach(surface).id = surface
    BY <1>1, CallType
  <2>6. /\ calls' \in Seq(Call)
        /\ \A i \in DOMAIN calls : i \in DOMAIN calls' /\ calls'[i] = calls[i]
        /\ \A i \in DOMAIN calls' : i \in DOMAIN calls \/ (i = Len(calls) + 1 /\ calls'[i] = Detach(surface))
    BY <2>3, <2>5, OneMore DEF Typing, TypeOK, WireType
  <2>7. \A i \in DOMAIN calls : calls[i].id \in Attachments
    BY CallType DEF Typing, TypeOK, WireType
  <2>8. \A i \in DOMAIN writes : writes[i] \in Attachments
    BY DEF Typing, TypeOK, ViewType
  <2>9. Waits'
    BY <1>1, <1>3, <2>2, <2>4, <2>5, <2>6, <2>7, <2>8 DEF Typing, Waits
  <2>10. ViewType' /\ WireType'
    BY <1>1, <2>4, <2>6 DEF Typing, TypeOK, ViewType, WireType
  <2>. QED BY <1>1, <1>2, <1>3, <2>2, <2>4, <2>5, <2>6, <2>9, <2>10 DEF Typing, TypeOK, store
<1>4. CASE ~(att[surface].st = "open" /\ att[surface].active)
  <2>1. UNCHANGED <<att, calls>>
    BY <1>4 DEF Unmount
  <2>2. Waits' /\ ViewType' /\ WireType'
    BY <1>1, <2>1, SameWaits DEF Typing, TypeOK, ViewType, WireType
  <2>3. att[surface].active \in BOOLEAN
    BY <1>1, Fields DEF Typing, TypeOK, ViewType
  <2>. QED BY <1>1, <1>2, <1>4, <2>1, <2>2, <2>3 DEF Typing, TypeOK, store
<1>. QED BY <1>3, <1>4

LEMMA TypingInit == Init => Typing
<1>. SUFFICES ASSUME Init PROVE Typing
  OBVIOUS
<1>1. 0 \in 0 .. MaxChunks
  BY BoundAssumption
<1>2. ShellType /\ Busy
  BY <1>1, ReadingType DEF Init, ShellType, Busy
<1>3. WireType /\ StoreType
  <2>1. <<>> \in Seq(Call) /\ <<>> \in Seq(Event) /\ <<>> \in Seq(Chunks)
    OBVIOUS
  <2>2. WireType
    BY <2>1 DEF Init, WireType
  <2>3. StoreType
    BY <1>1, <2>1 DEF Init, StoreType
  <2>. QED BY <2>2, <2>3
<1>4. ViewType
  BY UnusedType DEF Init, ViewType
<1>5. Unused.step = "idle" /\ ~Unused.started
  BY DEF Unused
<1>6. \A a \in Attachments : att[a] = Unused
  BY DEF Init
<1>7. Waits
  BY <1>5, <1>6 DEF Init, Waits
<1>. QED BY <1>2, <1>3, <1>4, <1>7 DEF Typing, TypeOK

LEMMA TypingStep ==
  ASSUME Typing, [Next]_vars
  PROVE  Typing'
<1>1. CASE UNCHANGED vars
  <2>1. ShellType' /\ WireType' /\ ViewType' /\ StoreType' /\ Busy'
    BY <1>1 DEF vars, Typing, TypeOK, ShellType, WireType, ViewType, StoreType, Busy
  <2>. QED BY <1>1, <2>1, SameWaits DEF vars, Typing, TypeOK
<1>2. CASE ReaderStep \/ Finalize \/ SendEnded \/ CloseStream \/ CloseEntry
  BY <1>2, ThreadTyping
<1>3. CASE Unmount
  BY <1>3, UnmountTyping
<1>4. ASSUME NEW a \in Attachments, Mount(a) \/ Command(a) \/ View(a) PROVE Typing'
  BY <1>4, MountTyping, CommandTyping, AttachedTyping, ConsumeTyping, MoveTyping, WrittenTyping DEF View
<1>. QED BY <1>1, <1>2, <1>3, <1>4 DEF Next

\* The type invariant.  It holds together with what the store, the xterm and the shell have to
\* know of a waiting attachment: one write or one acknowledgement, of one chunk.
THEOREM TypeCorrect == Spec => []TypeOK
<1>1. Init => Typing
  BY TypingInit
<1>2. Typing /\ [Next]_vars => Typing'
  BY TypingStep
<1>3. Typing => TypeOK
  BY DEF Typing
<1>. QED BY <1>1, <1>2, <1>3, PTL DEF Spec

-----------------------------------------------------------------------------
(* The order of the commands, and who is subscribed.                       *)

Asked(a) == att[a].st \in {"called", "subscribed"}

IsAttach(i, a) == i \in DOMAIN calls /\ calls[i].op = "attach" /\ calls[i].id = a

\* Attachments are mounted one after another, and the mounted one is the newest.
Newest ==
  /\ \A a, b \in Attachments : a < b /\ att[a].st = "none" => att[b].st = "none"
  /\ surface # Nobody => /\ att[surface].st # "none"
                         /\ \A b \in Attachments : b > surface => att[b].st = "none"
  /\ \A a \in Attachments : att[a].st = "open" /\ att[a].active => surface = a

\* The calls of attach wait in the order of the mounts.
InLine ==
  /\ \A i \in DOMAIN calls : calls[i].op = "attach" => Asked(calls[i].id)
  /\ \A a \in Attachments : Asked(a) => \E i \in DOMAIN calls : IsAttach(i, a)
  /\ \A a \in Attachments : att[a].st = "subscribed" => IsAttach(1, a)
  /\ \A i, j \in DOMAIN calls :
       i < j /\ calls[i].op = "attach" /\ calls[j].op = "attach" => calls[i].id < calls[j].id
  /\ \A i \in DOMAIN calls :
       calls[i].op = "detach" => calls[i].id # surface /\ att[calls[i].id].st = "open"

\* So they are served, and their results arrive, in that order.
Served ==
  /\ \A a, b \in Attachments : a < b /\ Asked(a) => att[b].st \in {"none", "called"}
  /\ \A a, b \in Attachments : a < b /\ att[a].st = "replied" => att[b].st # "open"

Order == Newest /\ InLine /\ Served

\* The mounted attachment is subscribed from the moment its attach runs.
Subscribed ==
  surface # Nobody /\ att[surface].st \in {"subscribed", "replied", "open"} => sub = surface \/ closed # "no"

\* A step that mounts nothing, calls nothing but acknowledgements and opens nothing.
LEMMA SameOrder ==
  ASSUME Order, UNCHANGED surface,
         \A b \in Attachments : att'[b].st = att[b].st /\ att'[b].active = att[b].active,
         \A i \in DOMAIN calls : i \in DOMAIN calls' /\ calls'[i] = calls[i] /\ calls[i].id \in Attachments,
         \A i \in DOMAIN calls' : i \in DOMAIN calls \/ calls'[i].op = "ack",
         surface \in Attachments \cup {Nobody}
  PROVE  Order'
<1>1. Newest'
  BY DEF Order, Newest
<1>2. Served'
  BY DEF Order, Served, Asked
<1>3. InLine'
  BY DEF Order, InLine, Asked, IsAttach
<1>. QED BY <1>1, <1>2, <1>3 DEF Order

\* The head of the calls is gone.
LEMMA PopCalls ==
  ASSUME Typing, calls # <<>>, calls' = Tail(calls)
  PROVE  /\ 1 \in DOMAIN calls /\ Head(calls) = calls[1]
         /\ \A i \in DOMAIN calls' : i + 1 \in DOMAIN calls /\ i + 1 # 1 /\ i + 1 > 1 /\ calls'[i] = calls[i + 1] /\ i \in Nat
         /\ \A i \in DOMAIN calls : i = 1 \/ (i - 1 \in DOMAIN calls' /\ calls'[i - 1] = calls[i])
         /\ \A i \in DOMAIN calls : calls[i].id \in Attachments /\ i \in Nat
<1>1. calls \in Seq(Call)
  BY DEF Typing, TypeOK, WireType
<1>2. /\ 1 \in DOMAIN calls /\ Head(calls) = calls[1]
      /\ \A i \in DOMAIN calls' : i + 1 \in DOMAIN calls /\ i + 1 # 1 /\ i + 1 > 1 /\ calls'[i] = calls[i + 1] /\ i \in Nat
  BY <1>1, OneLess
<1>3. \A i \in DOMAIN calls : i = 1 \/ (i - 1 \in DOMAIN calls' /\ calls'[i - 1] = calls[i])
  BY <1>1
<1>4. \A i \in DOMAIN calls : calls[i].id \in Attachments /\ i \in Nat
  BY <1>1, CallType
<1>. QED BY <1>2, <1>3, <1>4

\* An acknowledgement or a detach is served.
LEMMA PopOrder ==
  ASSUME Typing, Order, calls # <<>>, Head(calls).op # "attach", calls' = Tail(calls), UNCHANGED surface,
         \A b \in Attachments : att'[b].st = att[b].st /\ att'[b].active = att[b].active
  PROVE  Order'
<1>1. Newest' /\ Served'
  BY DEF Order, Newest, Served, Asked, Typing, TypeOK, ViewType
<1>0. 1 \in DOMAIN calls /\ Head(calls) = calls[1]
  BY PopCalls
<1>2. \A a \in Attachments : att[a].st # "subscribed"
  BY <1>0 DEF Order, InLine, IsAttach
<1>7. \A i \in DOMAIN calls' : i + 1 \in DOMAIN calls /\ calls'[i] = calls[i + 1] /\ calls[i + 1].id \in Attachments
  BY PopCalls
<1>3. \A i \in DOMAIN calls' : /\ calls'[i].op = "attach" => att'[calls'[i].id].st \in {"called", "subscribed"}
                               /\ calls'[i].op = "detach" => calls'[i].id # surface /\ att'[calls'[i].id].st = "open"
  BY <1>7 DEF Order, InLine, Asked
<1>4. \A a \in Attachments : Asked(a) => \E i \in DOMAIN calls' : calls'[i].op = "attach" /\ calls'[i].id = a
  <2>. SUFFICES ASSUME NEW a \in Attachments, Asked(a)
                PROVE  \E i \in DOMAIN calls' : calls'[i].op = "attach" /\ calls'[i].id = a
    OBVIOUS
  <2>1. PICK i \in DOMAIN calls : calls[i].op = "attach" /\ calls[i].id = a
    BY DEF Order, InLine, IsAttach
  <2>2. i # 1
    BY <1>0, <2>1
  <2>3. i - 1 \in DOMAIN calls' /\ calls'[i - 1] = calls[i]
    BY <2>2, PopCalls
  <2>. QED BY <2>1, <2>3
<1>5. \A i, j \in DOMAIN calls' :
        i < j /\ calls'[i].op = "attach" /\ calls'[j].op = "attach" => calls'[i].id < calls'[j].id
  <2>. SUFFICES ASSUME NEW i \in DOMAIN calls', NEW j \in DOMAIN calls', i < j,
                       calls'[i].op = "attach", calls'[j].op = "attach"
                PROVE  calls'[i].id < calls'[j].id
    OBVIOUS
  <2>1. i + 1 < j + 1 /\ i + 1 \in DOMAIN calls /\ j + 1 \in DOMAIN calls
        /\ calls'[i] = calls[i + 1] /\ calls'[j] = calls[j + 1]
    BY PopCalls
  <2>2. calls[i + 1].id < calls[j + 1].id
    BY <2>1 DEF Order, InLine
  <2>. QED BY <2>1, <2>2
<1>6. InLine'
  BY <1>2, <1>3, <1>4, <1>5 DEF InLine, Asked, IsAttach
<1>. QED BY <1>1, <1>6 DEF Order

\* attach runs, or is refused, or ends: the oldest attachment that waits for it goes on.
LEMMA AttachOrder ==
  ASSUME Typing, Order, NEW a \in Attachments, RunAttach(a) \/ ReplyAttach(a) \/ RefuseAttach(a)
  PROVE  /\ Order' /\ Asked(a) /\ UNCHANGED surface
         /\ RunAttach(a) => att'[a].st = "subscribed"
         /\ ReplyAttach(a) => att[a].st = "subscribed" /\ att'[a].st = "replied" /\ att'[a].ended = (ended # "no")
         /\ RefuseAttach(a) => att'[a].st = "failed"
         /\ \A b \in Attachments : b # a => att'[b] = att[b]
<1>1. att \in [Attachments -> Attachment] /\ att[a] \in Attachment
  BY DEF Typing, TypeOK, ViewType
<1>2. calls # <<>> /\ Head(calls).op = "attach" /\ Head(calls).id = a /\ UNCHANGED surface
  BY DEF RunAttach, ReplyAttach, RefuseAttach, HeadIs
<1>3. IsAttach(1, a)
  BY <1>2, OneLess DEF IsAttach, Typing, TypeOK, WireType
<1>4. \A b \in Attachments : Asked(b) => b >= a
  <2>. SUFFICES ASSUME NEW b \in Attachments, Asked(b) PROVE b >= a
    OBVIOUS
  <2>1. PICK j \in DOMAIN calls : IsAttach(j, b)
    BY DEF Order, InLine
  <2>2. a \in Nat /\ b \in Nat /\ j \in Nat /\ j >= 1
    BY BoundAssumption DEF Attachments, Typing, TypeOK, WireType
  <2>3. CASE j = 1
    BY <1>3, <2>1, <2>2, <2>3 DEF IsAttach
  <2>4. CASE j > 1
    <3>1. calls[1].id < calls[j].id
      BY <1>3, <2>1, <2>4 DEF Order, InLine, IsAttach
    <3>. QED BY <1>3, <2>1, <2>2, <3>1 DEF IsAttach
  <2>. QED BY <2>2, <2>3, <2>4
<1>5. Asked(a)
  BY DEF RunAttach, ReplyAttach, RefuseAttach, Asked
<1>6. \A b \in Attachments : b # a => att'[b] = att[b]
  BY <1>1 DEF RunAttach, ReplyAttach, RefuseAttach
<1>7. a \in Nat /\ \A b \in Attachments : b \in Nat /\ (a < b => att[b].st \in {"none", "called"})
  BY <1>5, BoundAssumption DEF Attachments, Order, Served
<1>8. surface # Nobody => surface \in Attachments
  BY DEF Typing, TypeOK, ViewType
<1>9. CASE RunAttach(a)
  <2>1. att'[a].st = "subscribed" /\ att'[a].active = att[a].active /\ UNCHANGED calls
    BY <1>1, <1>9 DEF RunAttach
  <2>2. Newest'
    BY <1>2, <1>5, <1>6, <1>8, <2>1 DEF Order, Newest, Asked
  <2>3. Served'
    BY <1>4, <1>5, <1>6, <1>7, <2>1 DEF Order, Served, Asked
  <2>4. \A i \in DOMAIN calls : calls[i].id \in Attachments
    BY CallType DEF Typing, TypeOK, WireType
  <2>5. InLine'
    BY <1>2, <1>3, <1>5, <1>6, <2>1, <2>4 DEF Order, InLine, Asked, IsAttach
  <2>. QED BY <1>2, <1>5, <1>6, <1>9, <2>1, <2>2, <2>3, <2>5 DEF Order, ReplyAttach, RefuseAttach
<1>10. CASE ReplyAttach(a) \/ RefuseAttach(a)
  <2>1. /\ att'[a].st \in {"replied", "failed"} /\ calls' = Tail(calls)
        /\ ReplyAttach(a) => att[a].st = "subscribed" /\ att'[a].st = "replied" /\ att'[a].ended = (ended # "no")
        /\ RefuseAttach(a) => att'[a].st = "failed"
    <3>1. ReplyAttach(a) => /\ calls' = Tail(calls) /\ att[a].st = "subscribed" /\ att'[a].st = "replied"
                            /\ att'[a].ended = (ended # "no")
      <4>1. (ended # "no") \in BOOLEAN
        OBVIOUS
      <4>. QED BY <1>1, <4>1 DEF ReplyAttach
    <3>2. RefuseAttach(a) => calls' = Tail(calls) /\ att'[a].st = "failed"
      BY <1>1 DEF RefuseAttach
    <3>. QED BY <1>10, <3>1, <3>2
  <2>2. Newest'
    BY <1>2, <1>5, <1>6, <1>8, <2>1 DEF Order, Newest, Asked
  <2>3. Served'
    <3>1. \A b \in Attachments : b < a => ~Asked(b)
      BY <1>4, <1>7
    <3>. QED BY <1>6, <1>7, <2>1, <3>1 DEF Order, Served, Asked
  <2>4. \A i \in DOMAIN calls' : /\ i + 1 \in DOMAIN calls /\ i + 1 > 1 /\ calls'[i] = calls[i + 1]
                                 /\ calls[i + 1].id \in Attachments /\ i \in Nat
    BY <1>2, <2>1, PopCalls
  <2>5. \A i \in DOMAIN calls' : calls'[i].op = "attach" => calls'[i].id # a
    <3>. SUFFICES ASSUME NEW i \in DOMAIN calls', calls'[i].op = "attach" PROVE calls'[i].id # a
      OBVIOUS
    <3>1. calls[1].id < calls[i + 1].id
      BY <1>3, <2>4 DEF Order, InLine, IsAttach
    <3>. QED BY <1>3, <1>7, <2>4, <3>1 DEF IsAttach
  <2>6. \A i \in DOMAIN calls' :
          /\ calls'[i].op = "attach" => att'[calls'[i].id].st \in {"called", "subscribed"}
          /\ calls'[i].op = "detach" => calls'[i].id # surface /\ att'[calls'[i].id].st = "open"
    <3>. SUFFICES ASSUME NEW i \in DOMAIN calls'
                  PROVE  /\ calls'[i].op = "attach" => att'[calls'[i].id].st \in {"called", "subscribed"}
                         /\ calls'[i].op = "detach" => calls'[i].id # surface /\ att'[calls'[i].id].st = "open"
      OBVIOUS
    <3>1. CASE calls'[i].op = "attach"
      BY <1>6, <2>4, <2>5, <3>1 DEF Order, InLine, Asked
    <3>2. CASE calls'[i].op = "detach"
      <4>1. calls[i + 1].id # surface /\ att[calls[i + 1].id].st = "open"
        BY <2>4, <3>2 DEF Order, InLine
      <4>2. calls[i + 1].id # a
        BY <1>5, <4>1 DEF Asked
      <4>. QED BY <1>6, <2>4, <3>2, <4>1, <4>2
    <3>. QED BY <3>1, <3>2
  <2>7. \A b \in Attachments : att'[b].st \in {"called", "subscribed"} =>
          \E i \in DOMAIN calls' : calls'[i].op = "attach" /\ calls'[i].id = b
    <3>. SUFFICES ASSUME NEW b \in Attachments, att'[b].st \in {"called", "subscribed"}
                  PROVE  \E i \in DOMAIN calls' : calls'[i].op = "attach" /\ calls'[i].id = b
      OBVIOUS
    <3>1. b # a /\ Asked(b)
      BY <1>6, <2>1 DEF Asked
    <3>2. PICK i \in DOMAIN calls : calls[i].op = "attach" /\ calls[i].id = b
      BY <3>1 DEF Order, InLine, IsAttach
    <3>3. i # 1
      BY <1>3, <3>1, <3>2 DEF IsAttach
    <3>4. i - 1 \in DOMAIN calls' /\ calls'[i - 1] = calls[i]
      BY <1>2, <2>1, <3>3, PopCalls
    <3>. QED BY <3>2, <3>4
  <2>8. \A b \in Attachments : att'[b].st # "subscribed"
    BY <1>3, <1>6, <2>1 DEF Order, InLine, IsAttach
  <2>9. \A i, j \in DOMAIN calls' :
          i < j /\ calls'[i].op = "attach" /\ calls'[j].op = "attach" => calls'[i].id < calls'[j].id
    <3>. SUFFICES ASSUME NEW i \in DOMAIN calls', NEW j \in DOMAIN calls', i < j,
                         calls'[i].op = "attach", calls'[j].op = "attach"
                  PROVE  calls'[i].id < calls'[j].id
      OBVIOUS
    <3>1. i + 1 < j + 1 /\ i + 1 \in DOMAIN calls /\ j + 1 \in DOMAIN calls
          /\ calls'[i] = calls[i + 1] /\ calls'[j] = calls[j + 1]
      BY <2>4
    <3>2. calls[i + 1].id < calls[j + 1].id
      BY <3>1 DEF Order, InLine
    <3>. QED BY <3>1, <3>2
  <2>10. InLine'
    BY <1>2, <2>6, <2>7, <2>8, <2>9 DEF InLine, Asked, IsAttach
  <2>11. ~RunAttach(a)
    <3>1. RunAttach(a) => att'[a].st = "subscribed"
      BY <1>1 DEF RunAttach
    <3>. QED BY <2>1, <3>1
  <2>. QED BY <1>2, <1>5, <1>6, <2>1, <2>2, <2>3, <2>10, <2>11 DEF Order
<1>. QED BY <1>9, <1>10

LEMMA CallIds == Typing => \A i \in DOMAIN calls : calls[i].id \in Attachments /\ i \in Nat
BY CallType DEF Typing, TypeOK, WireType

\* The surface is mounted: the new attachment is the newest, and the last in line.
LEMMA MountOrder ==
  ASSUME Typing, Order, NEW a \in Attachments, Mount(a)
  PROVE  Order'
<1>1. /\ surface = Nobody /\ surface' = a /\ att[a].st = "none" /\ att'[a].st = "called"
      /\ \A b \in Attachments : b # a => att'[b] = att[b]
      /\ \A i \in DOMAIN calls : i \in DOMAIN calls' /\ calls'[i] = calls[i]
      /\ Len(calls) + 1 \in DOMAIN calls'
      /\ calls'[Len(calls) + 1].op = "attach" /\ calls'[Len(calls) + 1].id = a
      /\ \A i \in DOMAIN calls' : i \in DOMAIN calls \/ i = Len(calls) + 1
  BY MountTyping
<1>2. \A b \in Attachments : b \in Nat /\ (b < a => att[b].st # "none") /\ (b > a => att[b].st = "none")
  BY <1>1, BoundAssumption DEF Mount, Fresh, Order, Newest, Attachments
<1>3. a \in Nat /\ a # Nobody
  BY NobodyAssumption, BoundAssumption DEF Attachments
<1>4. \A b \in Attachments : att[b].st = "open" => ~att[b].active
  <2>1. \A b \in Attachments : att[b].active \in BOOLEAN
    BY Fields DEF Typing, TypeOK, ViewType
  <2>. QED BY <1>1, <2>1, NobodyAssumption DEF Order, Newest
<1>5. Newest'
  <2>1. \A b, c \in Attachments : b < c /\ att'[b].st = "none" => att'[c].st = "none"
    BY <1>1, <1>2, <1>3 DEF Order, Newest
  <2>2. \A b \in Attachments : b > a => att'[b].st = "none"
    BY <1>1, <1>2, <1>3
  <2>3. \A b \in Attachments : att'[b].st = "open" /\ att'[b].active => FALSE
    BY <1>1, <1>4
  <2>. QED BY <1>1, <2>1, <2>2, <2>3 DEF Newest
<1>6. Served'
  BY <1>1, <1>2, <1>3 DEF Order, Served, Asked
<1>7. \A i \in DOMAIN calls : calls[i].id \in Attachments /\ i \in Nat
  BY CallIds
<1>8. calls \in Seq(Call) /\ Len(calls) \in Nat /\ \A i \in DOMAIN calls : i <= Len(calls) /\ i >= 1
  BY DEF Typing, TypeOK, WireType
<1>9. \A i \in DOMAIN calls' :
        /\ calls'[i].op = "attach" => att'[calls'[i].id].st \in {"called", "subscribed"}
        /\ calls'[i].op = "detach" => calls'[i].id # surface' /\ att'[calls'[i].id].st = "open"
  BY <1>1, <1>7 DEF Order, InLine, Asked
<1>10. \A b \in Attachments : att'[b].st \in {"called", "subscribed"} =>
         \E i \in DOMAIN calls' : calls'[i].op = "attach" /\ calls'[i].id = b
  BY <1>1 DEF Order, InLine, Asked, IsAttach
<1>11. \A b \in Attachments : att'[b].st = "subscribed" => 1 \in DOMAIN calls' /\ calls'[1].op = "attach" /\ calls'[1].id = b
  BY <1>1 DEF Order, InLine, IsAttach
<1>12. \A i, j \in DOMAIN calls' :
         i < j /\ calls'[i].op = "attach" /\ calls'[j].op = "attach" => calls'[i].id < calls'[j].id
  <2>. SUFFICES ASSUME NEW i \in DOMAIN calls', NEW j \in DOMAIN calls', i < j,
                       calls'[i].op = "attach", calls'[j].op = "attach"
                PROVE  calls'[i].id < calls'[j].id
    OBVIOUS
  <2>1. i \in DOMAIN calls
    BY <1>1, <1>7, <1>8
  <2>2. CASE j \in DOMAIN calls
    BY <1>1, <2>1, <2>2 DEF Order, InLine
  <2>3. CASE j = Len(calls) + 1
    <3>1. calls[i].op = "attach" /\ att[calls[i].id].st # "none" /\ calls[i].id # a
      BY <1>1, <2>1 DEF Order, InLine, Asked
    <3>2. calls[i].id < a
      <4>1. PICK b \in Attachments : b = calls[i].id
        BY <1>7, <2>1
      <4>2. b \in Nat /\ ~(b > a) /\ b # a
        BY <1>2, <3>1, <4>1
      <4>. QED BY <1>3, <4>1, <4>2
    <3>. QED BY <1>1, <2>1, <2>3, <3>2
  <2>. QED BY <1>1, <2>2, <2>3
<1>13. InLine'
  BY <1>9, <1>10, <1>11, <1>12 DEF InLine, Asked, IsAttach
<1>. QED BY <1>5, <1>6, <1>13 DEF Order

\* An attachment is disposed, or the result of attach arrives: a detach may join the calls.
LEMMA PageOrder ==
  ASSUME Typing, Order, NEW a \in Attachments, Attached(a) \/ (Unmount /\ a = surface)
  PROVE  Order'
<1>1. /\ \A b \in Attachments : b # a => att'[b] = att[b]
      /\ \A i \in DOMAIN calls : i \in DOMAIN calls' /\ calls'[i] = calls[i] /\ calls[i].id \in Attachments
      /\ surface' \in {surface, Nobody} /\ a # Nobody
  BY AttachedTyping, UnmountTyping, CallIds, NobodyAssumption DEF Attached
<1>2. \A i \in DOMAIN calls' :
        \/ i \in DOMAIN calls
        \/ calls'[i].op = "ack"
        \/ calls'[i].op = "detach" /\ calls'[i].id = a /\ surface' # a /\ att'[a].st = "open"
  <2>1. CASE Attached(a)
    <3>1. UNCHANGED surface
      BY <2>1 DEF Attached
    <3>. QED BY <2>1, <3>1, AttachedTyping
  <2>2. CASE Unmount /\ a = surface
    BY <1>1, <2>2, UnmountTyping
  <2>. QED BY <2>1, <2>2
<1>3. /\ att'[a].st = att[a].st \/ (att[a].st = "replied" /\ att'[a].st = "open")
      /\ att'[a].st = "open" => ~att'[a].active \/ surface' = a
      /\ \A b \in Attachments : b < a /\ Attached(a) => att[b].st # "replied"
  BY <1>1, AttachedTyping, UnmountTyping DEF Attached
<1>4. Newest'
  <2>1. \A b, c \in Attachments : b < c /\ att'[b].st = "none" => att'[c].st = "none"
    BY <1>1, <1>3 DEF Order, Newest
  <2>2. surface' # Nobody => /\ surface' = surface /\ surface \in Attachments
                             /\ att'[surface].st # "none" /\ \A b \in Attachments : b > surface => att'[b].st = "none"
    BY <1>1, <1>3 DEF Order, Newest, Typing, TypeOK, ViewType
  <2>3. \A b \in Attachments : att'[b].st = "open" /\ att'[b].active => surface' = b
    <3>1. Attached(a) => UNCHANGED surface
      BY DEF Attached
    <3>2. Unmount /\ a = surface => \A b \in Attachments : b # a => ~(att[b].st = "open" /\ att[b].active)
      BY DEF Order, Newest
    <3>. QED BY <1>1, <1>3, <3>1, <3>2 DEF Order, Newest
  <2>. QED BY <2>1, <2>2, <2>3 DEF Newest
<1>5. Served'
  <2>1. \A b, c \in Attachments : b < c /\ att'[b].st \in {"called", "subscribed"} => att'[c].st \in {"none", "called"}
    BY <1>1, <1>3 DEF Order, Served, Asked
  <2>2. \A b, c \in Attachments : b < c /\ att'[b].st = "replied" => att'[c].st # "open"
    <3>1. att'[a].st = att[a].st \/ Attached(a)
      BY <1>3, UnmountTyping
    <3>. QED BY <1>1, <1>3, <3>1 DEF Order, Served
  <2>. QED BY <2>1, <2>2 DEF Served, Asked
<1>6. \A i \in DOMAIN calls' :
        /\ calls'[i].op = "attach" => att'[calls'[i].id].st \in {"called", "subscribed"}
        /\ calls'[i].op = "detach" => calls'[i].id # surface' /\ att'[calls'[i].id].st = "open"
  <2>. SUFFICES ASSUME NEW i \in DOMAIN calls'
                PROVE  /\ calls'[i].op = "attach" => att'[calls'[i].id].st \in {"called", "subscribed"}
                       /\ calls'[i].op = "detach" => calls'[i].id # surface' /\ att'[calls'[i].id].st = "open"
    OBVIOUS
  <2>1. CASE i \in DOMAIN calls
    <3>1. calls'[i] = calls[i] /\ calls[i].id \in Attachments /\ calls[i].id # Nobody
      BY <1>1, <2>1, NobodyAssumption
    <3>2. CASE calls[i].op = "attach"
      <4>1. att[calls[i].id].st \in {"called", "subscribed"}
        BY <2>1, <3>2 DEF Order, InLine, Asked
      <4>. QED BY <1>1, <1>3, <3>1, <3>2, <4>1
    <3>3. CASE calls[i].op = "detach"
      <4>1. calls[i].id # surface /\ att[calls[i].id].st = "open"
        BY <2>1, <3>3 DEF Order, InLine
      <4>. QED BY <1>1, <1>3, <3>1, <3>3, <4>1
    <3>. QED BY <3>1, <3>2, <3>3
  <2>2. CASE i \notin DOMAIN calls
    BY <1>2, <2>2
  <2>. QED BY <2>1, <2>2
<1>7. /\ \A b \in Attachments : att'[b].st \in {"called", "subscribed"} => att[b].st = att'[b].st
      /\ \A b \in Attachments : att'[b].st \in {"called", "subscribed"} =>
           \E i \in DOMAIN calls' : calls'[i].op = "attach" /\ calls'[i].id = b
      /\ \A b \in Attachments : att'[b].st = "subscribed" => 1 \in DOMAIN calls' /\ calls'[1].op = "attach" /\ calls'[1].id = b
  BY <1>1, <1>3 DEF Order, InLine, Asked, IsAttach
<1>8. \A i, j \in DOMAIN calls' :
        i < j /\ calls'[i].op = "attach" /\ calls'[j].op = "attach" => calls'[i].id < calls'[j].id
  BY <1>1, <1>2 DEF Order, InLine
<1>9. InLine'
  BY <1>6, <1>7, <1>8 DEF InLine, Asked, IsAttach
<1>. QED BY <1>4, <1>5, <1>9 DEF Order

LEMMA OrderInit == Init => Order
BY DEF Init, Order, Newest, InLine, Served, Asked, IsAttach, Unused

LEMMA OrderStep ==
  ASSUME Typing, Order, [Next]_vars
  PROVE  Order'
<1>0. /\ surface \in Attachments \cup {Nobody}
      /\ \A i \in DOMAIN calls : calls[i].id \in Attachments
  BY CallIds DEF Typing, TypeOK, ViewType
<1>1. CASE ReaderStep \/ Finalize \/ SendEnded \/ CloseStream \/ CloseEntry \/ UNCHANGED vars
  <2>1. UNCHANGED <<calls, att, surface>>
    BY <1>1 DEF ReaderStep, ReadChunk, SkipReplaced, ReserveCredit, WaitForCredit, SendChunk,
                Finalize, SendEnded, CloseStream, CloseEntry, vars
  <2>. QED BY <1>0, <2>1, SameOrder
<1>2. ASSUME NEW a \in Attachments, Mount(a) PROVE Order'
  BY <1>2, MountOrder
<1>3. ASSUME NEW a \in Attachments, Command(a) PROVE Order'
  <2>1. CASE RunAttach(a) \/ ReplyAttach(a) \/ RefuseAttach(a)
    BY <2>1, AttachOrder
  <2>2. CASE RunAck(a)
    <3>1. calls # <<>> /\ Head(calls).op # "attach" /\ calls' = Tail(calls) /\ UNCHANGED surface
      BY <2>2 DEF RunAck, HeadIs
    <3>2. \A b \in Attachments : att'[b].st = att[b].st /\ att'[b].active = att[b].active
      <4>1. att \in [Attachments -> Attachment] /\ \A b \in Attachments : att[b] \in Attachment
        BY DEF Typing, TypeOK, ViewType
      <4>2. att' = [att EXCEPT ![a] = [att[a] EXCEPT !.step = "idle", !.now = 0,
                      !.last = IF Head(calls).seq > att[a].last THEN Head(calls).seq ELSE att[a].last]]
        BY <2>2, <4>1 DEF RunAck, Attachment
      <4>. QED BY <4>1, <4>2 DEF Attachment
    <3>. QED BY <3>1, <3>2, PopOrder
  <2>3. CASE RunDetach(a)
    <3>1. calls # <<>> /\ Head(calls).op # "attach" /\ calls' = Tail(calls) /\ UNCHANGED <<surface, att>>
      BY <2>3 DEF RunDetach, HeadIs
    <3>. QED BY <3>1, PopOrder
  <2>. QED BY <1>3, <2>1, <2>2, <2>3 DEF Command
<1>4. ASSUME NEW a \in Attachments, View(a) PROVE Order'
  <2>1. CASE Attached(a)
    BY <2>1, PageOrder
  <2>2. CASE Consume(a)
    <3>1. UNCHANGED surface
      BY <2>2 DEF Consume
    <3>. QED BY <1>0, <2>2, <3>1, ConsumeTyping, SameOrder
  <2>3. CASE Start(a) \/ Receive(a)
    BY <1>0, <2>3, MoveTyping, SameOrder
  <2>4. CASE Written(a)
    <3>1. UNCHANGED surface
      BY <2>4 DEF Written
    <3>. QED BY <1>0, <2>4, <3>1, WrittenTyping, SameOrder
  <2>. QED BY <1>4, <2>1, <2>2, <2>3, <2>4 DEF View
<1>5. CASE Unmount
  <2>1. surface \in Attachments
    BY <1>5, UnmountTyping
  <2>. QED BY <1>5, <2>1, PageOrder
<1>. QED BY <1>1, <1>2, <1>3, <1>4, <1>5 DEF Next

\* Only attach of a newer mount and detach of the mounted one itself could take the
\* stream away, and the order of the commands rules both out.
LEMMA SubscribedStep ==
  ASSUME Typing, Order, Subscribed, [Next]_vars
  PROVE  Subscribed'
<1>0. surface \in Attachments \cup {Nobody}
  BY DEF Typing, TypeOK, ViewType
<1>1. CASE ReaderStep \/ Finalize \/ SendEnded \/ CloseStream \/ CloseEntry \/ UNCHANGED vars
  BY <1>1 DEF ReaderStep, ReadChunk, SkipReplaced, ReserveCredit, WaitForCredit, SendChunk,
              Finalize, SendEnded, CloseStream, CloseEntry, vars, Subscribed
<1>2. ASSUME NEW a \in Attachments, Mount(a) PROVE Subscribed'
  BY <1>2, MountTyping DEF Subscribed
<1>3. ASSUME NEW a \in Attachments, RunAttach(a) PROVE Subscribed'
  <2>1. /\ Asked(a) /\ UNCHANGED surface /\ att'[a].st = "subscribed" /\ sub' = a
        /\ \A b \in Attachments : b # a => att'[b] = att[b]
    BY <1>3, AttachOrder DEF RunAttach
  <2>2. CASE surface = a \/ surface = Nobody
    BY <2>1, <2>2 DEF Subscribed
  <2>3. CASE surface # a /\ surface \in Attachments
    <3>1. surface \in Nat /\ a \in Nat /\ surface # Nobody
      BY <2>3, BoundAssumption, NobodyAssumption DEF Attachments
    <3>2. a < surface
      BY <2>1, <2>3, <3>1 DEF Order, Newest, Asked
    <3>3. att[surface].st \in {"none", "called"}
      BY <2>1, <2>3, <3>2 DEF Order, Served
    <3>. QED BY <2>1, <2>3, <3>3 DEF Subscribed
  <2>. QED BY <1>0, <2>2, <2>3
<1>4. ASSUME NEW a \in Attachments, ReplyAttach(a) \/ RefuseAttach(a) PROVE Subscribed'
  <2>1. /\ UNCHANGED <<surface, sub, closed>>
        /\ att'[a].st = "failed" \/ (att[a].st = "subscribed" /\ att'[a].st = "replied")
        /\ \A b \in Attachments : b # a => att'[b] = att[b]
    <3>1. UNCHANGED <<sub, closed>>
      BY <1>4 DEF ReplyAttach, RefuseAttach, native
    <3>. QED BY <1>4, <3>1, AttachOrder
  <2>2. surface # Nobody => surface \in Attachments
    BY <1>0
  <2>3. CASE surface = a
    BY <2>1, <2>3 DEF Subscribed
  <2>4. CASE surface # a
    BY <2>1, <2>2, <2>4 DEF Subscribed
  <2>. QED BY <2>3, <2>4
<1>5. ASSUME NEW a \in Attachments, RunAck(a) PROVE Subscribed'
  <2>1. UNCHANGED <<sub, closed, surface>>
    BY <1>5 DEF RunAck
  <2>2. \A b \in Attachments : att'[b].st = att[b].st
    <3>1. att \in [Attachments -> Attachment] /\ \A b \in Attachments : att[b] \in Attachment
      BY DEF Typing, TypeOK, ViewType
    <3>2. att' = [att EXCEPT ![a] = [att[a] EXCEPT !.step = "idle", !.now = 0,
                    !.last = IF Head(calls).seq > att[a].last THEN Head(calls).seq ELSE att[a].last]]
      BY <1>5, <3>1 DEF RunAck, Attachment
    <3>. QED BY <3>1, <3>2 DEF Attachment
  <2>. QED BY <1>0, <2>1, <2>2 DEF Subscribed
<1>6. ASSUME NEW a \in Attachments, RunDetach(a) PROVE Subscribed'
  <2>1. calls # <<>> /\ Head(calls).op = "detach" /\ Head(calls).id = a
        /\ UNCHANGED <<surface, att, closed>> /\ (sub' = sub \/ sub = a)
    BY <1>6 DEF RunDetach, HeadIs
  <2>2. 1 \in DOMAIN calls /\ calls[1].op = "detach" /\ calls[1].id = a
    BY <2>1, OneLess DEF Typing, TypeOK, WireType
  <2>3. a # surface
    BY <2>2 DEF Order, InLine
  <2>. QED BY <1>0, <2>1, <2>3 DEF Subscribed
<1>7. ASSUME NEW a \in Attachments, Attached(a) PROVE Subscribed'
  <2>1. UNCHANGED <<surface, sub, closed>>
    BY <1>7 DEF Attached, native
  <2>2. att[a].st = "replied" /\ \A b \in Attachments : b # a => att'[b] = att[b]
    BY <1>7, AttachedTyping
  <2>. QED BY <1>0, <2>1, <2>2 DEF Subscribed
<1>8. ASSUME NEW a \in Attachments, Consume(a) \/ Start(a) \/ Written(a) \/ Receive(a) PROVE Subscribed'
  <2>1. UNCHANGED <<surface, sub, closed>>
    BY <1>8 DEF Consume, Start, Written, Receive, native
  <2>2. \A b \in Attachments : att'[b].st = att[b].st
    BY <1>8, ConsumeTyping, WrittenTyping, MoveTyping
  <2>. QED BY <1>0, <2>1, <2>2 DEF Subscribed
<1>9. CASE Unmount
  BY <1>9, UnmountTyping DEF Subscribed
<1>. QED BY <1>1, <1>2, <1>3, <1>4, <1>5, <1>6, <1>7, <1>8, <1>9 DEF Next, Command, View

\* The mounted surface, once it has its attachment, is the subscriber of the terminal as
\* long as the terminal is there: attach and detach of earlier mounts never take the
\* stream from it, for any number of mounts and any interleaving of results.
THEOREM Owner == Spec => []MountedIsSubscriber
<1>1. Init => Typing /\ Order /\ Subscribed
  BY TypingInit, OrderInit DEF Init, Subscribed
<1>2. Typing /\ Order /\ Subscribed /\ [Next]_vars => (Typing /\ Order /\ Subscribed)'
  BY TypingStep, OrderStep, SubscribedStep
<1>3. Subscribed => MountedIsSubscriber
  BY DEF Subscribed, MountedIsSubscriber
<1>. QED BY <1>1, <1>2, <1>3, PTL DEF Spec

-----------------------------------------------------------------------------
(* The end of the process.                                                 *)

Calm(q) == \A i \in DOMAIN q : q[i].kind # "ended"

CalmView(r) == Calm(r.raw) /\ Calm(r.pend) /\ Calm(r.replay)

\* No queue holds the event of an end that has not happened.
Quiet == ended = "no" => \A a \in Attachments : Calm(chan[a]) /\ CalmView(att[a])

\* Nothing says that the process has ended before it has; once the store says so, every
\* result that is still on its way says it too.
Announced ==
  /\ shown => ended # "no"
  /\ \A a \in Attachments : att[a].ended => ended # "no"
  /\ \A a \in Attachments : shown /\ att[a].st = "replied" => att[a].ended
  /\ \A a, b \in Attachments :
       a < b /\ att[a].st = "replied" /\ att[b].st = "replied" /\ att[a].ended => att[b].ended

\* Queues without the event of the end, and what becomes of them.
LEMMA CalmQueue ==
  /\ Calm(<<>>)
  /\ \A q \in Seq(Event) : Calm(q) /\ q # <<>> => Calm(Tail(q)) /\ Head(q).kind # "ended"
  /\ \A q \in Seq(Event), e \in Event : Calm(q) /\ e.kind # "ended" => Calm(Append(q, e))
  /\ \A q, r \in Seq(Event) : Calm(q) /\ Calm(r) => Calm(q \o r)
<1>1. Calm(<<>>)
  BY DEF Calm
<1>2. \A q \in Seq(Event) : Calm(q) /\ q # <<>> => Calm(Tail(q)) /\ Head(q).kind # "ended"
  BY OneLess DEF Calm
<1>3. \A q \in Seq(Event), e \in Event : Calm(q) /\ e.kind # "ended" => Calm(Append(q, e))
  BY OneMore DEF Calm
<1>4. \A q, r \in Seq(Event) : Calm(q) /\ Calm(r) => Calm(q \o r)
  <2>. SUFFICES ASSUME NEW q \in Seq(Event), NEW r \in Seq(Event), Calm(q), Calm(r), NEW i \in DOMAIN (q \o r)
                PROVE  (q \o r)[i].kind # "ended"
    BY DEF Calm
  <2>1. CASE i \in DOMAIN q
    BY <2>1 DEF Calm
  <2>2. CASE i \notin DOMAIN q
    <3>1. i - Len(q) \in DOMAIN r /\ (q \o r)[i] = r[i - Len(q)]
      BY <2>2
    <3>. QED BY <3>1 DEF Calm
  <2>. QED BY <2>1, <2>2
<1>. QED BY <1>1, <1>2, <1>3, <1>4

\* The replay never holds the end.
LEMMA CalmReplay ==
  ASSUME ShellType, NEW after \in 0 .. MaxChunks
  PROVE  Calm(Replayed(after))
<1>. DEFINE truncated == after + 1 < Earliest
            first     == IF truncated THEN Earliest ELSE after + 1
            chunks    == [i \in 1 .. latest + 1 - first |-> Output(first + i - 1)]
            notice    == [kind |-> "truncated", seq |-> Earliest]
<1>1. Replayed(after) = IF truncated THEN <<notice>> \o chunks ELSE chunks
  BY DEF Replayed
<1>2. \A i \in DOMAIN chunks : chunks[i].kind = "output"
  BY DEF Output
<1>3. notice.kind = "truncated"
  OBVIOUS
<1>4. latest \in Nat /\ Earliest \in Nat /\ first \in Nat
  BY BoundAssumption, LimitAssumption DEF ShellType, Earliest
<1>5. PICK n \in Nat : 1 .. latest + 1 - first = 1 .. n
  <2>1. CASE first <= latest + 1
    <3>1. latest + 1 - first \in Nat
      BY <1>4, <2>1
    <3>. QED BY <3>1
  <2>2. CASE first > latest + 1
    <3>1. 1 .. latest + 1 - first = 1 .. 0
      BY <1>4, <2>2
    <3>. QED BY <3>1
  <2>. QED BY <1>4, <2>1, <2>2
<1>6. chunks \in Seq({chunks[i] : i \in 1 .. n})
  <2>. HIDE DEF first
  <2>1. DOMAIN chunks = 1 .. n
    BY <1>5
  <2>2. chunks = [i \in DOMAIN chunks |-> chunks[i]]
    OBVIOUS
  <2>. HIDE DEF chunks
  <2>3. chunks \in [1 .. n -> {chunks[i] : i \in 1 .. n}]
    BY <2>1, <2>2
  <2>. QED BY <2>3
<1>7. CASE ~truncated
  BY <1>1, <1>2, <1>7 DEF Calm
<1>8. CASE truncated
  <2>. HIDE DEF truncated, chunks, notice
  <2>. SUFFICES ASSUME NEW i \in DOMAIN (<<notice>> \o chunks) PROVE (<<notice>> \o chunks)[i].kind # "ended"
    BY <1>1, <1>8 DEF Calm
  <2>1. CASE i = 1
    BY <1>3, <1>6, <2>1
  <2>2. CASE i # 1
    <3>1. i - 1 \in DOMAIN chunks /\ (<<notice>> \o chunks)[i] = chunks[i - 1]
      BY <1>6, <2>2
    <3>. QED BY <1>2, <3>1
  <2>. QED BY <2>1, <2>2
<1>. QED BY <1>7, <1>8

\* consume() and dispose() leave calm queues calm.
LEMMA CalmTaken ==
  ASSUME NEW r \in Attachment, CalmView(r)
  PROVE  /\ Pending(r) # <<>> => CalmView(Consumed(r)) /\ Head(Pending(r)).kind # "ended"
         /\ CalmView(Disposed(r))
<1>1. CalmView(Disposed(r))
  <2>1. Disposed(r).raw = <<>> /\ Disposed(r).pend = <<>> /\ Disposed(r).replay = r.replay
    BY DEF Disposed, Attachment
  <2>. QED BY <2>1, CalmQueue DEF CalmView
<1>2. ASSUME Pending(r) # <<>> PROVE CalmView(Consumed(r)) /\ Head(Pending(r)).kind # "ended"
  <2>. DEFINE left == IF r.started THEN [r EXCEPT !.pend = Tail(@)] ELSE [r EXCEPT !.replay = Tail(@)]
  <2>1. Calm(Pending(r)) /\ Pending(r) \in Seq(Event)
    BY Fields DEF Pending, CalmView
  <2>2. Calm(Tail(Pending(r))) /\ Head(Pending(r)).kind # "ended" /\ Tail(Pending(r)) \in Seq(Event)
    BY <1>2, <2>1, CalmQueue, HeadTail
  <2>3. CalmView(left) /\ left \in Attachment
    <3>1. CASE r.started
      <4>1. left = [r EXCEPT !.pend = Tail(@)] /\ Calm(Tail(r.pend)) /\ Tail(r.pend) \in Seq(Event)
        BY <2>2, <3>1 DEF Pending
      <4>2. left \in Attachment /\ left.pend = Tail(r.pend) /\ left.raw = r.raw /\ left.replay = r.replay
        BY <4>1 DEF Attachment
      <4>. QED BY <4>1, <4>2 DEF CalmView
    <3>2. CASE ~r.started
      <4>1. left = [r EXCEPT !.replay = Tail(@)] /\ Calm(Tail(r.replay)) /\ Tail(r.replay) \in Seq(Event)
        BY <2>2, <3>2 DEF Pending
      <4>2. left \in Attachment /\ left.replay = Tail(r.replay) /\ left.raw = r.raw /\ left.pend = r.pend
        BY <4>1 DEF Attachment
      <4>. QED BY <4>1, <4>2 DEF CalmView
    <3>. QED BY <3>1, <3>2
  <2>4. Consumed(r).raw = left.raw /\ Consumed(r).pend = left.pend /\ Consumed(r).replay = left.replay
    <3>1. left \in Attachment
      BY <2>3
    <3>2. Consumed(r) = IF Head(Pending(r)).kind = "output"
                        THEN [left EXCEPT !.step = IF Wanted(r, Head(Pending(r))) THEN "write" ELSE "ack",
                                          !.now = Head(Pending(r)).seq]
                        ELSE left
      BY DEF Consumed
    <3>. HIDE DEF left
    <3>. QED BY <3>1, <3>2 DEF Attachment
  <2>. QED BY <2>2, <2>3, <2>4 DEF CalmView
<1>. QED BY <1>1, <1>2

\* One attachment or its channel changes.
LEMMA OneQuiet ==
  ASSUME Quiet, ended = "no", NEW a \in Attachments,
         CalmView(att[a]) /\ Calm(chan[a]) => CalmView(att'[a]) /\ Calm(chan'[a]),
         \A b \in Attachments : b # a => att'[b] = att[b] /\ chan'[b] = chan[b]
  PROVE  Quiet'
BY DEF Quiet

LEMMA QuietStep ==
  ASSUME Typing, Quiet, [Next]_vars
  PROVE  Quiet'
<1>. SUFFICES ASSUME ended' = "no" PROVE Quiet'
  BY DEF Quiet
<1>1. ended = "no" /\ ~Finalize /\ ~SendEnded
  BY DEF Next, ReaderStep, ReadChunk, SkipReplaced, ReserveCredit, WaitForCredit, SendChunk, Finalize, SendEnded,
         CloseStream, CloseEntry, Mount, Command, RunAttach, ReplyAttach, RefuseAttach, RunAck, RunDetach, View, Attached, Consume,
         Start, Written, Receive, Unmount, native, vars
<1>2. /\ att \in [Attachments -> Attachment] /\ chan \in [Attachments -> Seq(Event)]
      /\ \A b \in Attachments : att[b] \in Attachment /\ chan[b] \in Seq(Event) /\ CalmView(att[b]) /\ Calm(chan[b])
  BY <1>1 DEF Typing, TypeOK, ViewType, WireType, Quiet
<1>3. \A b \in Attachments : att[b].raw \in Seq(Event) /\ att[b].pend \in Seq(Event) /\ att[b].replay \in Seq(Event)
  BY <1>2, Fields
<1>4. CASE UNCHANGED <<att, chan>>
  BY <1>1, <1>4 DEF Quiet
<1>5. CASE SendChunk
  <2>1. reader.for \in Attachments /\ reader.seq \in Chunks
    BY <1>5 DEF SendChunk, Typing, Busy
  <2>2. Output(reader.seq) \in Event /\ Output(reader.seq).kind = "output"
    BY <2>1, EventType DEF Output
  <2>3. chan' = [chan EXCEPT ![reader.for] = Append(chan[reader.for], Output(reader.seq))] /\ UNCHANGED att
    BY <1>2, <1>5, <2>1 DEF SendChunk
  <2>4. Calm(Append(chan[reader.for], Output(reader.seq)))
    BY <1>2, <2>1, <2>2, CalmQueue
  <2>. QED BY <1>1, <1>2, <2>1, <2>3, <2>4, OneQuiet
<1>6. ASSUME NEW a \in Attachments, Mount(a) PROVE Quiet'
  <2>. DEFINE r == [Unused EXCEPT !.st = "called", !.active = TRUE, !.last = cursor]
  <2>1. r.raw = <<>> /\ r.pend = <<>> /\ r.replay = <<>>
    BY DEF Unused
  <2>2. CalmView(r)
    BY <2>1, CalmQueue DEF CalmView
  <2>3. att' = [att EXCEPT ![a] = r] /\ UNCHANGED chan
    BY <1>6 DEF Mount
  <2>. HIDE DEF r
  <2>. QED BY <1>1, <1>2, <2>2, <2>3, OneQuiet
<1>7. ASSUME NEW a \in Attachments, RunAttach(a) PROVE Quiet'
  <2>. DEFINE q == Replayed(Head(calls).seq)
              r == [att[a] EXCEPT !.st = "subscribed", !.replay = q]
  <2>1. Head(calls).seq \in 0 .. MaxChunks
    BY <1>7, HeadTail, CallType DEF RunAttach, HeadIs, Typing, TypeOK, WireType
  <2>2. Calm(q)
    BY <2>1, CalmReplay DEF Typing, TypeOK
  <2>. HIDE DEF q
  <2>3. r.raw = att[a].raw /\ r.pend = att[a].pend /\ r.replay = q
    BY <1>2 DEF Attachment
  <2>4. CalmView(r)
    BY <1>2, <2>2, <2>3 DEF CalmView
  <2>5. att' = [att EXCEPT ![a] = r] /\ UNCHANGED chan
    BY <1>2, <1>7 DEF RunAttach, q, Attachment
  <2>. HIDE DEF r
  <2>. QED BY <1>1, <1>2, <2>4, <2>5, OneQuiet
<1>8. ASSUME NEW a \in Attachments, ReplyAttach(a) \/ RefuseAttach(a) \/ RunAck(a) PROVE Quiet'
  <2>1. UNCHANGED chan /\ \A b \in Attachments : b # a => att'[b] = att[b]
    BY <1>2, <1>8 DEF ReplyAttach, RefuseAttach, RunAck
  <2>2. att'[a].pend = att[a].pend /\ att'[a].replay = att[a].replay /\ att'[a].raw \in {att[a].raw, <<>>}
    <3>1. ReplyAttach(a) => att'[a] = [att[a] EXCEPT !.st = "replied", !.ended = (ended # "no")]
      BY <1>2 DEF ReplyAttach, Attachment
    <3>2. RefuseAttach(a) => att'[a] = [att[a] EXCEPT !.st = "failed", !.active = FALSE, !.raw = <<>>]
      BY <1>2 DEF RefuseAttach, Attachment
    <3>3. RunAck(a) => att'[a] = [att[a] EXCEPT !.step = "idle", !.now = 0,
                        !.last = IF Head(calls).seq > att[a].last THEN Head(calls).seq ELSE att[a].last]
      BY <1>2 DEF RunAck, Attachment
    <3>. QED BY <1>2, <1>8, <3>1, <3>2, <3>3 DEF Attachment
  <2>3. CalmView(att'[a])
    BY <1>2, <2>2, CalmQueue DEF CalmView
  <2>. QED BY <1>1, <1>2, <2>1, <2>3, OneQuiet
<1>9. ASSUME NEW a \in Attachments, Attached(a) PROVE Quiet'
  <2>. DEFINE r    == [att[a] EXCEPT !.st = "open"]
              next == IF r.replay = <<>> THEN r ELSE Consumed(r)
              n    == IF surface = a THEN next ELSE Disposed(next)
  <2>1. att[a].st = "replied" /\ att' = [att EXCEPT ![a] = n] /\ UNCHANGED chan
    BY <1>9 DEF Attached
  <2>2. r \in Attachment /\ r.started = att[a].started /\ r.raw = att[a].raw /\ r.pend = att[a].pend
        /\ r.replay = att[a].replay
    BY <1>2 DEF Attachment
  <2>. HIDE DEF r
  <2>3. CalmView(r) /\ Pending(r) = r.replay
    BY <1>2, <2>1, <2>2 DEF CalmView, Pending, Typing, Waits
  <2>4. CalmView(next) /\ next \in Attachment
    BY <2>2, <2>3, CalmTaken, ConsumedType
  <2>. HIDE DEF next
  <2>5. CalmView(n)
    BY <2>4, CalmTaken
  <2>. HIDE DEF n
  <2>. QED BY <1>1, <1>2, <2>1, <2>5, OneQuiet
<1>10. ASSUME NEW a \in Attachments, Consume(a) PROVE Quiet'
  <2>1. att' = [att EXCEPT ![a] = Consumed(att[a])] /\ UNCHANGED chan /\ Pending(att[a]) # <<>>
    BY <1>2, <1>10 DEF Consume
  <2>2. CalmView(Consumed(att[a]))
    BY <1>2, <2>1, CalmTaken
  <2>. QED BY <1>1, <1>2, <2>1, <2>2, OneQuiet
<1>11. ASSUME NEW a \in Attachments, Start(a) PROVE Quiet'
  <2>1. att'[a].pend = att[a].pend \o att[a].raw /\ att'[a].raw = <<>> /\ att'[a].replay = att[a].replay
        /\ UNCHANGED chan /\ \A b \in Attachments : b # a => att'[b] = att[b]
    <3>1. att' = [att EXCEPT ![a] = [att[a] EXCEPT !.started = TRUE, !.pend = att[a].pend \o att[a].raw, !.raw = <<>>]]
          /\ UNCHANGED chan
      BY <1>2, <1>11 DEF Start, store, Attachment
    <3>. QED BY <1>2, <3>1 DEF Attachment
  <2>2. CalmView(att'[a])
    BY <1>2, <1>3, <2>1, CalmQueue DEF CalmView
  <2>. QED BY <1>1, <1>2, <2>1, <2>2, OneQuiet
<1>12. ASSUME NEW a \in Attachments, Written(a) PROVE Quiet'
  <2>1. UNCHANGED chan /\ \A b \in Attachments : b # a => att'[b] = att[b]
    BY <1>2, <1>12 DEF Written
  <2>2. att'[a] = [att[a] EXCEPT !.step = "ack"] \/ att'[a] = [att[a] EXCEPT !.step = "idle", !.now = 0]
    BY <1>2, <1>12 DEF Written, Attachment
  <2>3. att'[a].pend = att[a].pend /\ att'[a].replay = att[a].replay /\ att'[a].raw = att[a].raw
    BY <1>2, <2>2 DEF Attachment
  <2>. QED BY <1>1, <1>2, <2>1, <2>3, OneQuiet DEF CalmView
<1>13. ASSUME NEW a \in Attachments, Receive(a) PROVE Quiet'
  <2>1. chan' = [chan EXCEPT ![a] = Tail(chan[a])] /\ chan[a] # <<>>
    BY <1>2, <1>13 DEF Receive
  <2>2. Calm(Tail(chan[a])) /\ Head(chan[a]).kind # "ended" /\ Head(chan[a]) \in Event
    BY <1>2, <2>1, CalmQueue, HeadTail
  <2>3. Calm(Append(att[a].pend, Head(chan[a]))) /\ Calm(Append(att[a].raw, Head(chan[a])))
    BY <1>2, <1>3, <2>2, CalmQueue DEF CalmView
  <2>4. \A b \in Attachments : b # a => att'[b] = att[b]
    BY <1>2, <1>13 DEF Receive
  <2>5. CalmView(att'[a])
    <3>1. \/ att'[a] = att[a]
          \/ att'[a] = [att[a] EXCEPT !.pend = Append(att[a].pend, Head(chan[a]))]
          \/ att'[a] = [att[a] EXCEPT !.raw = Append(att[a].raw, Head(chan[a]))]
      BY <1>2, <1>13 DEF Receive, Attachment
    <3>2. \/ att'[a] = att[a]
          \/ /\ att'[a].pend = Append(att[a].pend, Head(chan[a])) /\ att'[a].raw = att[a].raw
             /\ att'[a].replay = att[a].replay
          \/ /\ att'[a].raw = Append(att[a].raw, Head(chan[a])) /\ att'[a].pend = att[a].pend
             /\ att'[a].replay = att[a].replay
      BY <1>2, <3>1 DEF Attachment
    <3>. QED BY <1>2, <2>3, <3>2 DEF CalmView
  <2>. QED BY <1>1, <1>2, <2>1, <2>2, <2>4, <2>5, OneQuiet
<1>14. CASE Unmount
  <2>1. surface \in Attachments /\ UNCHANGED chan
    BY <1>14 DEF Unmount, Typing, TypeOK, ViewType
  <2>2. CASE att' = att
    BY <1>4, <2>1, <2>2
  <2>3. CASE att' = [att EXCEPT ![surface] = Disposed(att[surface])]
    <3>1. CalmView(Disposed(att[surface]))
      BY <1>2, <2>1, CalmTaken
    <3>. QED BY <1>1, <1>2, <2>1, <2>3, <3>1, OneQuiet
  <2>. QED BY <1>2, <1>14, <2>1, <2>2, <2>3 DEF Unmount
<1>15. ReadChunk \/ SkipReplaced \/ ReserveCredit \/ WaitForCredit \/ CloseStream \/ CloseEntry \/ UNCHANGED vars
         \/ (\E a \in Attachments : RunDetach(a)) => UNCHANGED <<att, chan>>
  BY DEF ReadChunk, SkipReplaced, ReserveCredit, WaitForCredit, CloseStream, CloseEntry, RunDetach, vars
<1>. QED BY <1>1, <1>4, <1>5, <1>6, <1>7, <1>8, <1>9, <1>10, <1>11, <1>12, <1>13, <1>14, <1>15
         DEF Next, ReaderStep, Command, View

\* A step that neither opens nor answers an attachment.
LEMMA SameEnds ==
  ASSUME Announced, UNCHANGED shown, ended # "no" => ended' # "no",
         \A b \in Attachments : att'[b].ended = att[b].ended /\ (att'[b].st = "replied" => att[b].st = "replied")
  PROVE  Announced'
BY DEF Announced

LEMMA AnnouncedStep ==
  ASSUME Typing, Order, Quiet, Announced, [Next]_vars
  PROVE  Announced' /\ (shown => shown')
<1>1. ended # "no" => ended' # "no"
  BY DEF Next, ReaderStep, ReadChunk, SkipReplaced, ReserveCredit, WaitForCredit, SendChunk, Finalize, SendEnded,
         CloseStream, CloseEntry, Mount, Command, RunAttach, ReplyAttach, RefuseAttach, RunAck, RunDetach, View, Attached, Consume,
         Start, Written, Receive, Unmount, native, vars
<1>2. att \in [Attachments -> Attachment] /\ \A b \in Attachments : att[b] \in Attachment
  BY DEF Typing, TypeOK, ViewType
<1>3. CASE ReaderStep \/ Finalize \/ SendEnded \/ CloseStream \/ CloseEntry \/ UNCHANGED vars
           \/ \E a \in Attachments : RunDetach(a)
  <2>1. UNCHANGED <<att, shown>>
    BY <1>3 DEF ReaderStep, ReadChunk, SkipReplaced, ReserveCredit, WaitForCredit, SendChunk,
                Finalize, SendEnded, CloseStream, CloseEntry, RunDetach, vars, store
  <2>. QED BY <1>1, <2>1, SameEnds
<1>4. ASSUME NEW a \in Attachments, Mount(a) \/ RunAttach(a) \/ RefuseAttach(a) \/ RunAck(a)
      PROVE  Announced' /\ (shown => shown')
  <2>1. UNCHANGED shown /\ \A b \in Attachments : b # a => att'[b] = att[b]
    BY <1>2, <1>4 DEF Mount, RunAttach, RefuseAttach, RunAck, store
  <2>2. CASE Mount(a)
    <3>1. att'[a].ended = FALSE /\ att'[a].st = "called"
      BY <1>2, <2>2 DEF Mount, Unused
    <3>. QED BY <1>1, <2>1, <3>1 DEF Announced
  <2>3. CASE ~Mount(a)
    <3>1. RunAttach(a) => att'[a] = [att[a] EXCEPT !.st = "subscribed", !.replay = Replayed(Head(calls).seq)]
      BY <1>2 DEF RunAttach, Attachment
    <3>2. RefuseAttach(a) => att'[a] = [att[a] EXCEPT !.st = "failed", !.active = FALSE, !.raw = <<>>]
      BY <1>2 DEF RefuseAttach, Attachment
    <3>3. RunAck(a) => att'[a] = [att[a] EXCEPT !.step = "idle", !.now = 0,
                        !.last = IF Head(calls).seq > att[a].last THEN Head(calls).seq ELSE att[a].last]
      BY <1>2 DEF RunAck, Attachment
    <3>4. att'[a].ended = att[a].ended /\ (att'[a].st = "replied" => att[a].st = "replied")
      BY <1>2, <1>4, <2>3, <3>1, <3>2, <3>3 DEF Attachment
    <3>. QED BY <1>1, <2>1, <3>4, SameEnds
  <2>. QED BY <2>2, <2>3
<1>5. ASSUME NEW a \in Attachments, ReplyAttach(a) PROVE Announced' /\ (shown => shown')
  <2>1. UNCHANGED <<shown, ended>> /\ Asked(a) /\ att'[a].st = "replied" /\ (att'[a].ended <=> ended # "no")
        /\ \A b \in Attachments : b # a => att'[b] = att[b]
    <3>1. UNCHANGED <<shown, ended>>
      BY <1>5 DEF ReplyAttach, native, store
    <3>. QED BY <1>5, <3>1, AttachOrder
  <2>2. \A b \in Attachments : a < b => att[b].st # "replied"
    BY <2>1 DEF Order, Served
  <2>3. a \in Nat
    BY BoundAssumption DEF Attachments
  <2>4. \A b, c \in Attachments :
          b < c /\ att'[b].st = "replied" /\ att'[c].st = "replied" /\ att'[b].ended => att'[c].ended
    <3>. SUFFICES ASSUME NEW b \in Attachments, NEW c \in Attachments, b < c, att'[b].st = "replied",
                         att'[c].st = "replied", att'[b].ended
                  PROVE  att'[c].ended
      OBVIOUS
    <3>1. b # a
      <4>1. c # a => att[c].st = "replied"
        BY <2>1
      <4>. QED BY <2>2, <2>3, <4>1
    <3>2. att[b].ended /\ att[b].st = "replied"
      BY <2>1, <3>1
    <3>3. CASE c = a
      BY <2>1, <3>2, <3>3 DEF Announced
    <3>4. CASE c # a
      BY <2>1, <3>2, <3>4 DEF Announced
    <3>. QED BY <3>3, <3>4
  <2>5. \A b \in Attachments : (att'[b].ended => ended # "no") /\ (shown /\ att'[b].st = "replied" => att'[b].ended)
    <3>. TAKE b \in Attachments
    <3>1. CASE b = a
      BY <2>1, <3>1 DEF Announced
    <3>2. CASE b # a
      BY <2>1, <3>2 DEF Announced
    <3>. QED BY <3>1, <3>2
  <2>. QED BY <2>1, <2>4, <2>5 DEF Announced
<1>6. ASSUME NEW a \in Attachments, Attached(a) PROVE Announced' /\ (shown => shown')
  <2>1. /\ att[a].st = "replied" /\ att'[a].st = "open" /\ att'[a].ended = att[a].ended
        /\ \A b \in Attachments : b # a => att'[b] = att[b]
    BY <1>6, AttachedTyping
  <2>2. /\ shown' = att[a].ended /\ UNCHANGED ended
        /\ \A b \in Attachments : b < a => att[b].st # "replied"
    BY <1>6 DEF Attached, native
  <2>3. \A b \in Attachments : att[b].st = "replied" /\ b # a => a < b
    BY <2>2, BoundAssumption DEF Attachments
  <2>4. \A b \in Attachments : att'[b].st = "replied" => att[b].st = "replied" /\ b # a
    BY <2>1
  <2>5. \A b \in Attachments : att'[b].ended = att[b].ended
    BY <2>1
  <2>6. \A b \in Attachments : shown' /\ att'[b].st = "replied" => att'[b].ended
    BY <2>1, <2>2, <2>3, <2>4, <2>5 DEF Announced
  <2>7. shown' => ended' # "no"
    BY <2>2 DEF Announced
  <2>8. shown => shown'
    BY <2>1, <2>2 DEF Announced
  <2>. QED BY <2>2, <2>4, <2>5, <2>6, <2>7, <2>8 DEF Announced
<1>7. ASSUME NEW a \in Attachments, Consume(a) PROVE Announced' /\ (shown => shown')
  <2>1. /\ att[a].st = "open" /\ att[a].active /\ Pending(att[a]) # <<>> /\ UNCHANGED ended
        /\ shown' = (shown \/ Head(Pending(att[a])).kind = "ended")
    BY <1>7 DEF Consume, native
  <2>2. \A b \in Attachments : att'[b].ended = att[b].ended /\ att'[b].st = att[b].st
    BY <1>7, ConsumeTyping
  <2>3. \A b \in Attachments : att[b].st # "replied"
    <3>1. surface = a /\ surface # Nobody /\ a \in Nat /\ \A b \in Attachments : b \in Nat
      BY <2>1, NobodyAssumption, BoundAssumption DEF Order, Newest, Attachments
    <3>2. \A b \in Attachments : b > a => att[b].st = "none"
      BY <3>1 DEF Order, Newest
    <3>3. \A b \in Attachments : b < a => att[b].st # "replied"
      BY <2>1 DEF Order, Served
    <3>. QED BY <2>1, <3>1, <3>2, <3>3
  <2>4. ended = "no" => Head(Pending(att[a])).kind # "ended"
    BY <1>2, <2>1, CalmTaken DEF Quiet
  <2>5. shown => shown'
    BY <2>1
  <2>6. shown' => ended' # "no"
    BY <2>1, <2>4 DEF Announced
  <2>. QED BY <2>1, <2>2, <2>3, <2>5, <2>6 DEF Announced
<1>8. ASSUME NEW a \in Attachments, Start(a) \/ Receive(a) \/ Written(a) PROVE Announced' /\ (shown => shown')
  <2>1. UNCHANGED shown
    BY <1>8 DEF Start, Receive, Written, store
  <2>2. \A b \in Attachments : att'[b].ended = att[b].ended /\ att'[b].st = att[b].st
    BY <1>8, MoveTyping, WrittenTyping
  <2>. QED BY <1>1, <2>1, <2>2, SameEnds
<1>9. CASE Unmount
  BY <1>1, <1>9, UnmountTyping, SameEnds
<1>. QED BY <1>3, <1>4, <1>5, <1>6, <1>7, <1>8, <1>9 DEF Next, Command, View

LEMMA EndsInit == Init => Quiet /\ Announced
<1>. SUFFICES ASSUME Init PROVE Quiet /\ Announced
  OBVIOUS
<1>1. \A a \in Attachments : att[a] = Unused /\ chan[a] = <<>>
  BY DEF Init
<1>2. Unused.raw = <<>> /\ Unused.pend = <<>> /\ Unused.replay = <<>> /\ Unused.ended = FALSE /\ Unused.st = "none"
  BY DEF Unused
<1>3. Quiet
  BY <1>1, <1>2, CalmQueue DEF Quiet, CalmView
<1>4. Announced
  BY <1>1, <1>2 DEF Init, Announced
<1>. QED BY <1>3, <1>4

\* A terminal once shown as ended stays ended: results of attach arrive in the order they
\* were answered, so none that was cut before the end follows one that was cut after it.
THEOREM Final == Spec => EndIsFinal
<1>1. Init => Typing /\ Order /\ Quiet /\ Announced
  BY TypingInit, OrderInit, EndsInit
<1>2. Typing /\ Order /\ Quiet /\ Announced /\ [Next]_vars
        => (Typing /\ Order /\ Quiet /\ Announced)' /\ [shown => shown']_vars
  BY TypingStep, OrderStep, QuietStep, AnnouncedStep
<1>. QED BY <1>1, <1>2, PTL DEF Spec, EndIsFinal
=============================================================================
