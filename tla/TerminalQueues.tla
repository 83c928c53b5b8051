---------------------------- MODULE TerminalQueues ----------------------------
(***************************************************************************)
(* What the queues of TerminalStream hold, and the order in which chunks   *)
(* reach the screen, for any number of mounts and chunks, any ring and any *)
(* window.                                                                 *)
(***************************************************************************)
EXTENDS TerminalFlow

-----------------------------------------------------------------------------
(* The queues.                                                             *)

\* The events of one kind in a queue, by their chunk.
SeqsOf(q, kind) == {q[i].seq : i \in {j \in DOMAIN q : q[j].kind = kind}}

\* The queue of an attachment behind the replay.
Live(a) == (att[a].pend \o att[a].raw) \o chan[a]

Sent(a)     == SeqsOf(Live(a), "output")
Replay(a)   == SeqsOf(att[a].replay, "output")
Outputs(a)  == Replay(a) \cup Sent(a)
Notices(a)  == SeqsOf(att[a].replay, "truncated") \cup SeqsOf(Live(a), "truncated")

\* An element of a set of chunks.
LEMMA InSeqs ==
  ASSUME NEW q, NEW kind, NEW s
  PROVE  s \in SeqsOf(q, kind) <=> \E i \in DOMAIN q : q[i].kind = kind /\ q[i].seq = s
BY DEF SeqsOf

\* Chunks are numbers.
LEMMA SeqsType ==
  ASSUME NEW q \in Seq(Event), NEW kind
  PROVE  /\ SeqsOf(q, kind) \subseteq Nat
         /\ kind # "ended" => SeqsOf(q, kind) \subseteq Chunks
<1>1. \A e \in Event : e.seq \in Nat /\ (e.kind # "ended" => e.seq \in Chunks)
  BY EventType, BoundAssumption
<1>2. \A i \in DOMAIN q : q[i] \in Event
  OBVIOUS
<1>. QED BY <1>1, <1>2 DEF SeqsOf

\* A queue with an event more.
LEMMA SeqsAppend ==
  ASSUME NEW q \in Seq(Event), NEW x \in Event, NEW kind
  PROVE  SeqsOf(Append(q, x), kind) = SeqsOf(q, kind) \cup (IF x.kind = kind THEN {x.seq} ELSE {})
<1>. DEFINE p == Append(q, x)
<1>1. /\ \A i \in DOMAIN q : i \in DOMAIN p /\ p[i] = q[i]
      /\ \A i \in DOMAIN p : i \in DOMAIN q \/ p[i] = x
      /\ Len(q) + 1 \in DOMAIN p /\ p[Len(q) + 1] = x
  OBVIOUS
<1>. HIDE DEF p
<1>2. ASSUME NEW s PROVE s \in SeqsOf(p, kind) <=> s \in SeqsOf(q, kind) \/ (x.kind = kind /\ s = x.seq)
  BY <1>1, InSeqs
<1>. QED BY <1>2 DEF p

\* A queue without its head.
LEMMA SeqsTail ==
  ASSUME NEW q \in Seq(Event), q # <<>>, NEW kind
  PROVE  /\ SeqsOf(Tail(q), kind) \subseteq SeqsOf(q, kind)
         /\ Head(q).kind = kind => Head(q).seq \in SeqsOf(q, kind)
<1>1. /\ 1 \in DOMAIN q /\ Head(q) = q[1]
      /\ \A i \in DOMAIN Tail(q) : i + 1 \in DOMAIN q /\ Tail(q)[i] = q[i + 1]
  BY OneLess
<1>. QED BY <1>1 DEF SeqsOf

\* The empty queue.
LEMMA SeqsNone == \A kind : SeqsOf(<<>>, kind) = {}
BY DEF SeqsOf

\* The queues of an attachment are sequences of events.
LEMMA LiveType ==
  ASSUME Typing, NEW a \in Attachments
  PROVE  /\ Live(a) \in Seq(Event) /\ att[a].replay \in Seq(Event)
         /\ att[a].pend \in Seq(Event) /\ att[a].raw \in Seq(Event) /\ chan[a] \in Seq(Event)
         /\ Queue(a) = att[a].replay \o Live(a)
         /\ att[a].pend = <<>> => Live(a) = att[a].raw \o chan[a]
         /\ att[a].raw = <<>> => Live(a) = att[a].pend \o chan[a]
<1>. DEFINE x == att[a].replay
            y == att[a].pend
            z == att[a].raw
            c == chan[a]
<1>1. x \in Seq(Event) /\ y \in Seq(Event) /\ z \in Seq(Event) /\ c \in Seq(Event)
  BY QueueForm
<1>2. Live(a) = (y \o z) \o c /\ Queue(a) = ((x \o y) \o z) \o c
  BY DEF Live, Queue
<1>. HIDE DEF x, y, z, c
<1>3. y \o z \in Seq(Event) /\ z \o c \in Seq(Event)
  BY <1>1, Concatenation
<1>4. (y \o z) \o c \in Seq(Event) /\ (y \o z) \o c = y \o (z \o c)
  BY <1>1, <1>3, Concatenation
<1>5. ((x \o y) \o z) \o c = x \o ((y \o z) \o c)
  <2>1. (x \o y) \o z = x \o (y \o z)
    BY <1>1, ConcatAssociative
  <2>2. (x \o (y \o z)) \o c = x \o ((y \o z) \o c)
    BY <1>1, <1>3, ConcatAssociative
  <2>. QED BY <2>1, <2>2
<1>6. y = <<>> => (y \o z) \o c = z \o c
  BY <1>1, Concatenation
<1>7. z = <<>> => (y \o z) \o c = y \o c
  BY <1>1, Concatenation
<1>. QED BY <1>1, <1>2, <1>4, <1>5, <1>6, <1>7 DEF x, y, z, c

-----------------------------------------------------------------------------
(* What a step does to an attachment.                                      *)

\* It goes on waiting for what it waited for, or waits no more.
Stays(a) == att'[a].step # "idle" => att[a].step # "idle" /\ att'[a].now = att[a].now

\* The queue stays, up to moves within it.
Kept(a) == /\ att[a].active /\ att'[a].replay = att[a].replay /\ Live(a)' = Live(a)
           /\ Stays(a)

\* An event is sent to it.
Sends(a, x) == /\ att[a].active /\ att'[a] = att[a] /\ chan'[a] = Append(chan[a], x)
               /\ Live(a)' = Append(Live(a), x)

\* It is new.
Mounted(a) == /\ att'[a].replay = <<>> /\ Live(a)' = <<>> /\ att'[a].step = "idle"
              /\ ~Held(a) /\ sub # a

\* Its replay is cut.
Cut(a) == /\ att[a].active /\ att'[a].step = "idle" /\ ~Held(a)
          /\ Live(a)' = <<>> /\ att'[a].replay = Replayed(Head(calls).seq)
          /\ Head(calls).seq \in 0 .. MaxChunks

\* The head of the part of the queue in use is gone.
Popping(a, e) ==
  \/ /\ att[a].replay # <<>> /\ Head(att[a].replay) = e
     /\ att'[a].replay = Tail(att[a].replay) /\ Live(a)' = Live(a)
  \/ /\ att[a].replay = <<>> /\ Live(a) # <<>> /\ Head(Live(a)) = e
     /\ att'[a].replay = <<>> /\ Live(a)' = Tail(Live(a))

\* It takes an event.
Takes(a, e) ==
  /\ att[a].active /\ att[a].step = "idle" /\ Applied(a, e)
  /\ Queue(a) # <<>> /\ Head(Queue(a)) = e
  /\ att'[a].active => /\ Popping(a, e)
                       /\ att'[a].step # "idle" => e.kind = "output" /\ att'[a].now = e.seq

\* Nothing is left of an attachment that is disposed.
Shut(a) == ~att[a].active => att[a].raw = <<>> /\ att[a].pend = <<>>

\* An attachment that a step does not concern.
LEMMA SameMoves ==
  ASSUME NEW a \in Attachments, att'[a] = att[a], chan'[a] = chan[a]
  PROVE  /\ att'[a].active => Kept(a)
         /\ Shut(a) => Shut(a)'
BY DEF Kept, Stays, Live, Shut

\* Consuming pops the queue in use.
LEMMA PoppedParts ==
  ASSUME Typing, NEW a \in Attachments, PhaseOf(a), Pending(att[a]) # <<>>, chan'[a] = chan[a],
         att'[a].raw = att[a].raw,
         att[a].started => att'[a].pend = Tail(att[a].pend) /\ att'[a].replay = att[a].replay,
         ~att[a].started => att'[a].replay = Tail(att[a].replay) /\ att'[a].pend = att[a].pend
  PROVE  Popping(a, Head(Pending(att[a])))
<1>. DEFINE y == att[a].pend
            c == chan[a]
<1>1. /\ y \in Seq(Event) /\ c \in Seq(Event)
      /\ att[a].raw = <<>> => Live(a) = y \o c
  BY LiveType
<1>2. CASE att[a].started
  <2>1. /\ att[a].replay = <<>> /\ att[a].raw = <<>> /\ y # <<>> /\ Pending(att[a]) = y
        /\ att'[a].replay = <<>> /\ att'[a].raw = <<>> /\ att'[a].pend = Tail(y)
    BY <1>2 DEF Pending, PhaseOf
  <2>2. Live(a)' = (Tail(y) \o <<>>) \o c /\ Live(a) = y \o c
    BY <1>1, <2>1 DEF Live
  <2>. HIDE DEF y, c
  <2>3. Tail(y) \in Seq(Event)
    BY <1>1, <2>1
  <2>4. Live(a)' = Tail(y) \o c
    BY <2>2, <2>3, Concatenation
  <2>5. Tail(y \o c) = Tail(y) \o c /\ Head(y \o c) = Head(y) /\ y \o c # <<>>
    BY <1>1, <2>1, Joining
  <2>. QED BY <2>1, <2>2, <2>4, <2>5 DEF Popping
<1>3. CASE ~att[a].started
  <2>1. att[a].replay # <<>> /\ Pending(att[a]) = att[a].replay
    BY <1>3 DEF Pending
  <2>2. Live(a)' = Live(a)
    BY <1>3 DEF Live
  <2>. QED BY <1>3, <2>1, <2>2 DEF Popping
<1>. QED BY <1>2, <1>3

\* The loops of ready() and drain(), and the first event of ready().
LEMMA TakeMoves ==
  ASSUME FlowInv, NEW a \in Attachments, Consume(a) \/ (Attached(a) /\ att[a].replay # <<>>)
  PROVE  /\ \E e \in Event : Takes(a, e)
         /\ \A b \in Attachments : b # a => att'[b] = att[b]
         /\ UNCHANGED <<native, chan>>
         /\ Shut(a)'
<1>1. /\ Typing /\ PhaseOf(a) /\ att \in [Attachments -> Attachment] /\ att[a] \in Attachment
  BY DEF FlowInv, Phases, Typing, TypeOK, ViewType
<1>2. CASE Consume(a)
  <2>. DEFINE e == Head(Pending(att[a]))
              n == Consumed(att[a])
  <2>1. /\ att[a].active /\ att[a].step = "idle" /\ Pending(att[a]) # <<>>
        /\ Applied(a, e) /\ UNCHANGED <<native, chan>> /\ att' = [att EXCEPT ![a] = n]
    BY <1>1, <1>2 DEF Consume
  <2>2. /\ e \in Event /\ n.active = att[a].active
        /\ e.kind # "output" => n.step = "idle"
        /\ e.kind = "output" => n.now = e.seq
    BY <1>1, <2>1, ConsumedType
  <2>3. /\ n.raw = att[a].raw
        /\ att[a].started => n.pend = Tail(att[a].pend) /\ n.replay = att[a].replay
        /\ ~att[a].started => n.replay = Tail(att[a].replay) /\ n.pend = att[a].pend
    BY <1>1, ConsumedQueues
  <2>. HIDE DEF n
  <2>4. att'[a] = n /\ (\A b \in Attachments : b # a => att'[b] = att[b]) /\ chan'[a] = chan[a]
    BY <1>1, <2>1
  <2>5. Popping(a, e)
    BY <1>1, <2>1, <2>3, <2>4, PoppedParts
  <2>6. Queue(a) # <<>> /\ Head(Queue(a)) = e
    BY <1>1, <2>1, TakenHead
  <2>. HIDE DEF e
  <2>7. Takes(a, e) /\ Shut(a)'
    BY <2>1, <2>2, <2>4, <2>5, <2>6 DEF Takes, Shut
  <2>. QED BY <2>1, <2>2, <2>4, <2>7
<1>3. CASE Attached(a) /\ att[a].replay # <<>>
  <2>. DEFINE r == [att[a] EXCEPT !.st = "open"]
              e == Head(r.replay)
              n == Consumed(r)
              d == [n EXCEPT !.active = FALSE, !.raw = <<>>, !.pend = <<>>]
  <2>1. /\ r \in Attachment /\ r.active = att[a].active /\ r.step = att[a].step
        /\ r.started = att[a].started /\ r.replay = att[a].replay
        /\ r.raw = att[a].raw /\ r.pend = att[a].pend
    BY <1>1 DEF Attachment
  <2>2. att[a].step = "idle" /\ ~att[a].started /\ att[a].active /\ att[a].st = "replied"
    BY <1>1, <1>3 DEF Attached, Typing, Waits, PhaseOf
  <2>3. Pending(r) = r.replay /\ Pending(att[a]) = r.replay /\ Pending(r) # <<>>
    BY <1>3, <2>1, <2>2 DEF Pending
  <2>4. /\ Applied(a, e) /\ UNCHANGED <<native, chan>>
        /\ att' = [att EXCEPT ![a] = IF surface = a THEN n ELSE d]
    BY <1>3, <2>1 DEF Attached, Disposed
  <2>5. /\ e \in Event /\ n \in Attachment /\ n.active = r.active
        /\ e.kind # "output" => n.step = r.step
        /\ e.kind = "output" => n.now = e.seq
    BY <2>1, <2>3, ConsumedType
  <2>6. /\ n.raw = r.raw /\ n.replay = Tail(r.replay) /\ n.pend = r.pend
    BY <2>1, <2>2, ConsumedQueues
  <2>7. ~d.active /\ d.raw = <<>> /\ d.pend = <<>>
    BY <2>5 DEF Attachment
  <2>. HIDE DEF n, d, r
  <2>8. (\A b \in Attachments : b # a => att'[b] = att[b]) /\ chan'[a] = chan[a]
        /\ att'[a] = IF surface = a THEN n ELSE d
    BY <1>1, <2>4
  <2>9. ASSUME att'[a].active PROVE att'[a] = n /\ Popping(a, e)
    <3>1. att'[a] = n
      BY <2>7, <2>8, <2>9
    <3>. QED BY <1>1, <2>1, <2>2, <2>3, <2>6, <2>8, <3>1, PoppedParts
  <2>10. Queue(a) # <<>> /\ Head(Queue(a)) = e
    BY <1>1, <2>3, TakenHead
  <2>. HIDE DEF e
  <2>11. Takes(a, e) /\ Shut(a)'
    BY <2>1, <2>2, <2>4, <2>5, <2>7, <2>8, <2>9, <2>10 DEF Takes, Shut
  <2>. QED BY <2>4, <2>5, <2>8, <2>11
<1>. QED BY <1>2, <1>3

\* Start and Receive move events within the queue.
LEMMA MovedLive ==
  ASSUME Typing, NEW a \in Attachments, PhaseOf(a), att[a].active, Start(a) \/ Receive(a)
  PROVE  Live(a)' = Live(a) /\ att'[a].replay = att[a].replay /\ att'[a].active /\ Stays(a)
<1>. DEFINE y == att[a].pend
            z == att[a].raw
            c == chan[a]
<1>1. /\ y \in Seq(Event) /\ z \in Seq(Event) /\ c \in Seq(Event) /\ <<>> \in Seq(Event)
      /\ y = <<>> => Live(a) = z \o c
      /\ z = <<>> => Live(a) = y \o c
      /\ att \in [Attachments -> Attachment] /\ att[a] \in Attachment /\ chan \in [Attachments -> Seq(Event)]
  BY LiveType DEF Typing, TypeOK, ViewType, WireType
<1>2. CASE Start(a)
  <2>1. att'[a] = [att[a] EXCEPT !.started = TRUE, !.pend = @ \o att[a].raw, !.raw = <<>>] /\ chan'[a] = chan[a]
        /\ y = <<>>
    BY <1>1, <1>2 DEF Start, PhaseOf
  <2>2. /\ att'[a].replay = att[a].replay /\ att'[a].active = att[a].active /\ att'[a].step = att[a].step
        /\ att'[a].now = att[a].now /\ att'[a].pend = y \o z /\ att'[a].raw = <<>>
    BY <1>1, <2>1 DEF Attachment
  <2>3. Live(a)' = ((<<>> \o z) \o <<>>) \o c
    BY <2>1, <2>2 DEF Live
  <2>. HIDE DEF y, z, c
  <2>4. Live(a)' = z \o c
    BY <1>1, <2>3, Concatenation
  <2>. QED BY <1>1, <2>1, <2>2, <2>4 DEF Stays
<1>3. CASE Receive(a) /\ att[a].started
  <2>1. /\ att'[a] = [att[a] EXCEPT !.pend = Append(@, Head(chan[a]))] /\ chan'[a] = Tail(chan[a])
        /\ c # <<>> /\ z = <<>>
    BY <1>1, <1>3 DEF Receive, PhaseOf
  <2>2. /\ att'[a].replay = att[a].replay /\ att'[a].active = att[a].active /\ att'[a].step = att[a].step
        /\ att'[a].now = att[a].now /\ att'[a].pend = Append(y, Head(c)) /\ att'[a].raw = z
    BY <1>1, <2>1 DEF Attachment
  <2>3. Live(a)' = (Append(y, Head(c)) \o <<>>) \o Tail(c)
    BY <2>1, <2>2 DEF Live
  <2>. HIDE DEF y, z, c
  <2>4. Append(y, Head(c)) \in Seq(Event) /\ Tail(c) \in Seq(Event)
    BY <1>1, <2>1
  <2>5. Live(a)' = Append(y, Head(c)) \o Tail(c)
    BY <2>3, <2>4, Concatenation
  <2>6. Append(y, Head(c)) \o Tail(c) = y \o c
    BY <1>1, <2>1, Joining
  <2>. QED BY <1>1, <2>1, <2>2, <2>5, <2>6 DEF Stays
<1>4. CASE Receive(a) /\ ~att[a].started
  <2>1. /\ att'[a] = [att[a] EXCEPT !.raw = Append(@, Head(chan[a]))] /\ chan'[a] = Tail(chan[a])
        /\ c # <<>> /\ y = <<>>
    BY <1>1, <1>4 DEF Receive, PhaseOf
  <2>2. /\ att'[a].replay = att[a].replay /\ att'[a].active = att[a].active /\ att'[a].step = att[a].step
        /\ att'[a].now = att[a].now /\ att'[a].raw = Append(z, Head(c)) /\ att'[a].pend = y
    BY <1>1, <2>1 DEF Attachment
  <2>3. Live(a)' = (<<>> \o Append(z, Head(c))) \o Tail(c)
    BY <2>1, <2>2 DEF Live
  <2>. HIDE DEF y, z, c
  <2>4. Append(z, Head(c)) \in Seq(Event) /\ Tail(c) \in Seq(Event)
    BY <1>1, <2>1
  <2>5. Live(a)' = Append(z, Head(c)) \o Tail(c)
    BY <2>3, <2>4, Concatenation
  <2>6. Append(z, Head(c)) \o Tail(c) = z \o c
    BY <1>1, <2>1, Joining
  <2>. QED BY <1>1, <2>1, <2>2, <2>5, <2>6 DEF Stays
<1>. QED BY <1>2, <1>3, <1>4

\* The steps of one attachment that leave its queue as it is.
LEMMA KeepMoves ==
  ASSUME FlowInv, NEW a \in Attachments, Shut(a),
         \/ Start(a) \/ Receive(a) \/ Written(a) \/ ReplyAttach(a) \/ RunAck(a)
         \/ Attached(a) /\ att[a].replay = <<>>
  PROVE  /\ att'[a].active => Kept(a)
         /\ Shut(a)' /\ UNCHANGED <<screen, reported>>
         /\ \A b \in Attachments : b # a => att'[b] = att[b] /\ chan'[b] = chan[b]
<1>1. /\ Typing /\ PhaseOf(a) /\ att \in [Attachments -> Attachment] /\ att[a] \in Attachment
      /\ chan \in [Attachments -> Seq(Event)]
  BY DEF FlowInv, Phases, Typing, TypeOK, ViewType, WireType
<1>2. UNCHANGED <<screen, reported>> /\ \A b \in Attachments : b # a => att'[b] = att[b] /\ chan'[b] = chan[b]
  <2>1. CASE Start(a) \/ Receive(a)
    BY <1>1, <2>1 DEF Start, Receive, store
  <2>2. CASE Written(a)
    BY <1>1, <2>2 DEF Written
  <2>3. CASE ReplyAttach(a) \/ RunAck(a)
    BY <1>1, <2>3 DEF ReplyAttach, RunAck, store
  <2>4. CASE Attached(a) /\ att[a].replay = <<>>
    <3>1. [att[a] EXCEPT !.st = "open"].replay = <<>>
      BY <1>1, <2>4 DEF Attachment
    <3>. QED BY <1>1, <2>4, <3>1 DEF Attached
  <2>. QED BY <2>1, <2>2, <2>3, <2>4
<1>3. CASE Start(a) \/ Receive(a)
  <2>1. CASE att[a].active
    BY <1>1, <1>2, <1>3, <2>1, MovedLive DEF Kept, Shut
  <2>2. CASE ~att[a].active
    <3>1. att'[a] = att[a]
      BY <1>3, <2>2 DEF Start, Receive
    <3>. QED BY <1>2, <2>2, <3>1 DEF Shut
  <2>. QED BY <2>1, <2>2
<1>4. ASSUME NEW r, att'[a] = r, chan'[a] = chan[a], r.active = att[a].active,
             r.replay = att[a].replay, r.raw = att[a].raw, r.pend = att[a].pend,
             r.step = "idle" \/ (r.now = att[a].now /\ att[a].step # "idle")
      PROVE  (att'[a].active => Kept(a)) /\ Shut(a)'
  BY <1>4 DEF Kept, Stays, Shut, Live
<1>5. CASE Written(a)
  <2>1. att[a].step = "write"
    <3>1. writes \in Seq(Attachments) /\ writes # <<>> /\ Head(writes) = a
      BY <1>1, <1>5 DEF Written, Typing, TypeOK, ViewType
    <3>2. 1 \in DOMAIN writes /\ writes[1] = a
      BY <3>1, OneLess
    <3>. QED BY <1>1, <3>2 DEF Typing, Waits
  <2>2. CASE att[a].active
    <3>. DEFINE r == [att[a] EXCEPT !.step = "ack"]
    <3>1. att'[a] = r /\ chan'[a] = chan[a]
      BY <1>1, <1>5, <2>2 DEF Written
    <3>2. r.active = att[a].active /\ r.replay = att[a].replay /\ r.raw = att[a].raw
          /\ r.pend = att[a].pend /\ r.now = att[a].now
      BY <1>1 DEF Attachment
    <3>. HIDE DEF r
    <3>. QED BY <1>2, <1>4, <2>1, <3>1, <3>2
  <2>3. CASE ~att[a].active
    <3>. DEFINE r == [att[a] EXCEPT !.step = "idle", !.now = 0]
    <3>1. att'[a] = r /\ chan'[a] = chan[a]
      BY <1>1, <1>5, <2>3 DEF Written
    <3>2. r.active = att[a].active /\ r.replay = att[a].replay /\ r.raw = att[a].raw
          /\ r.pend = att[a].pend /\ r.step = "idle"
      BY <1>1 DEF Attachment
    <3>. HIDE DEF r
    <3>. QED BY <1>2, <1>4, <3>1, <3>2
  <2>. QED BY <2>2, <2>3
<1>6. CASE ReplyAttach(a)
  <2>. DEFINE r == [att[a] EXCEPT !.st = "replied", !.ended = (ended # "no")]
  <2>1. att'[a] = r /\ chan'[a] = chan[a] /\ att[a].st = "subscribed"
    BY <1>1, <1>6 DEF ReplyAttach
  <2>2. r.active = att[a].active /\ r.replay = att[a].replay /\ r.raw = att[a].raw
        /\ r.pend = att[a].pend /\ r.step = att[a].step
    BY <1>1 DEF Attachment
  <2>3. att[a].step = "idle"
    BY <1>1, <2>1 DEF Typing, Waits, Attachment
  <2>. HIDE DEF r
  <2>. QED BY <1>2, <1>4, <2>1, <2>2, <2>3
<1>7. CASE RunAck(a)
  <2>. DEFINE s == Head(calls).seq
              r == [att[a] EXCEPT !.step = "idle", !.now = 0, !.last = IF s > @ THEN s ELSE @]
  <2>1. att'[a] = r /\ chan'[a] = chan[a]
    BY <1>1, <1>7 DEF RunAck
  <2>. HIDE DEF s
  <2>2. r.active = att[a].active /\ r.replay = att[a].replay /\ r.raw = att[a].raw
        /\ r.pend = att[a].pend /\ r.step = "idle"
    BY <1>1 DEF Attachment
  <2>. HIDE DEF r
  <2>. QED BY <1>2, <1>4, <2>1, <2>2
<1>8. CASE Attached(a) /\ att[a].replay = <<>>
  <2>. DEFINE r == [att[a] EXCEPT !.st = "open"]
              d == [r EXCEPT !.active = FALSE, !.raw = <<>>, !.pend = <<>>]
  <2>1. r \in Attachment /\ r.active = att[a].active /\ r.replay = att[a].replay /\ r.raw = att[a].raw
        /\ r.pend = att[a].pend /\ r.step = att[a].step
    BY <1>1 DEF Attachment
  <2>2. ~d.active /\ d.raw = <<>> /\ d.pend = <<>>
    BY <2>1 DEF Attachment
  <2>3. att'[a] = (IF surface = a THEN r ELSE d) /\ chan'[a] = chan[a] /\ att[a].st = "replied"
    BY <1>1, <1>8, <2>1 DEF Attached, Disposed
  <2>4. att[a].step = "idle"
    BY <1>1, <2>3 DEF Typing, Waits, Attachment
  <2>. HIDE DEF r, d
  <2>5. CASE surface = a
    BY <1>2, <1>4, <2>1, <2>3, <2>4, <2>5
  <2>6. CASE surface # a
    BY <1>2, <2>2, <2>3, <2>6 DEF Shut
  <2>. QED BY <2>5, <2>6
<1>. QED BY <1>2, <1>3, <1>5, <1>6, <1>7, <1>8

\* attach cuts the replay of an attachment to which nothing was ever sent.
LEMMA CutMoves ==
  ASSUME FlowInv, NEW a \in Attachments, Shut(a), RunAttach(a)
  PROVE  /\ Cut(a) /\ Shut(a)' /\ UNCHANGED <<screen, reported, latest>>
         /\ \A b \in Attachments : b # a => att'[b] = att[b] /\ chan'[b] = chan[b]
<1>1. /\ Typing /\ PhaseOf(a) /\ att \in [Attachments -> Attachment] /\ att[a] \in Attachment
      /\ att[a].st = "called"
  BY DEF RunAttach, FlowInv, Phases, Typing, TypeOK, ViewType
<1>. DEFINE r == [att[a] EXCEPT !.st = "subscribed", !.replay = Replayed(Head(calls).seq)]
<1>2. att'[a] = r /\ UNCHANGED <<chan, screen, reported, latest>> /\ \A b \in Attachments : b # a => att'[b] = att[b]
  BY <1>1 DEF RunAttach, store
<1>3. /\ r.active = att[a].active /\ r.replay = Replayed(Head(calls).seq) /\ r.raw = att[a].raw
      /\ r.pend = att[a].pend /\ r.step = att[a].step
  BY <1>1 DEF Attachment
<1>. HIDE DEF r
<1>4. /\ att[a].raw = <<>> /\ chan[a] = <<>> /\ ~Held(a) /\ att[a].active /\ att[a].step = "idle" /\ ~att[a].started
      /\ att[a].pend = <<>>
  BY <1>1 DEF PhaseOf, Typing, Waits, Attachment
<1>5. Live(a)' = (<<>> \o <<>>) \o <<>> /\ <<>> \in Seq(Event)
  BY <1>2, <1>3, <1>4 DEF Live
<1>6. Live(a)' = <<>>
  BY <1>5, Concatenation
<1>7. Head(calls).seq \in 0 .. MaxChunks
  BY <1>1, HeadCall DEF RunAttach, HeadIs, FlowInv, Counts
<1>. QED BY <1>2, <1>3, <1>4, <1>6, <1>7 DEF Cut, Shut

\* A new attachment has no events.
LEMMA MountMoves ==
  ASSUME FlowInv, NEW a \in Attachments, Mount(a)
  PROVE  /\ Mounted(a) /\ att'[a].active /\ Shut(a)' /\ UNCHANGED <<screen, reported, native>>
         /\ \A b \in Attachments : b # a => att'[b] = att[b] /\ chan'[b] = chan[b]
<1>1. /\ PhaseOf(a) /\ att \in [Attachments -> Attachment] /\ att[a].st = "none"
      /\ UNCHANGED <<native, chan, store>>
  BY DEF Mount, Fresh, FlowInv, Phases, Typing, TypeOK, ViewType
<1>2. att'[a] = [Unused EXCEPT !.st = "called", !.active = TRUE, !.last = cursor]
      /\ \A b \in Attachments : b # a => att'[b] = att[b]
  BY <1>1 DEF Mount
<1>3. /\ att'[a].active /\ att'[a].replay = <<>> /\ att'[a].raw = <<>> /\ att'[a].pend = <<>> /\ att'[a].step = "idle"
  BY <1>2 DEF Unused
<1>4. chan'[a] = <<>> /\ sub # a /\ ~Held(a)
  BY <1>1 DEF PhaseOf
<1>5. Live(a)' = (<<>> \o <<>>) \o <<>> /\ <<>> \in Seq(Event)
  BY <1>3, <1>4 DEF Live
<1>6. Live(a)' = <<>>
  BY <1>5, Concatenation
<1>. QED BY <1>1, <1>2, <1>3, <1>4, <1>6 DEF Mounted, Shut, store

\* A refused or unmounted attachment is over.
LEMMA GoneMoves ==
  ASSUME FlowInv, \A b \in Attachments : Shut(b), Unmount \/ \E b \in Attachments : RefuseAttach(b)
  PROVE  /\ \A b \in Attachments : (att'[b].active => Kept(b)) /\ Shut(b)'
         /\ UNCHANGED <<screen, reported, native>>
<1>1. /\ att \in [Attachments -> Attachment] /\ UNCHANGED <<native, chan, store>>
      /\ surface \in Attachments \cup {Nobody} /\ \A b \in Attachments : att[b] \in Attachment /\ PhaseOf(b)
  <2>1. UNCHANGED <<native, chan, store>>
    BY DEF Unmount, RefuseAttach
  <2>. QED BY <2>1 DEF FlowInv, Phases, Typing, TypeOK, ViewType
<1>2. ASSUME NEW a \in Attachments, NEW r, att' = [att EXCEPT ![a] = r], ~r.active, r.raw = <<>>, r.pend = <<>>
      PROVE  \A b \in Attachments : (att'[b].active => Kept(b)) /\ Shut(b)'
  <2>. TAKE b \in Attachments
  <2>1. CASE b = a
    BY <1>1, <1>2, <2>1 DEF Shut
  <2>2. CASE b # a
    BY <1>1, <1>2, <2>2, SameMoves
  <2>. QED BY <2>1, <2>2
<1>3. ASSUME att' = att PROVE \A b \in Attachments : (att'[b].active => Kept(b)) /\ Shut(b)'
  <2>. TAKE b \in Attachments
  <2>. QED BY <1>1, <1>3, SameMoves
<1>4. CASE Unmount /\ att' # att
  <2>1. surface \in Attachments /\ att' = [att EXCEPT ![surface] = Disposed(att[surface])]
    BY <1>1, <1>4 DEF Unmount
  <2>2. ~Disposed(att[surface]).active /\ Disposed(att[surface]).raw = <<>> /\ Disposed(att[surface]).pend = <<>>
    BY <1>1, <2>1 DEF Disposed, Attachment
  <2>. QED BY <1>1, <1>2, <2>1, <2>2 DEF store
<1>5. ASSUME NEW a \in Attachments, RefuseAttach(a)
      PROVE  \A b \in Attachments : (att'[b].active => Kept(b)) /\ Shut(b)'
  <2>. DEFINE r == [att[a] EXCEPT !.st = "failed", !.active = FALSE, !.raw = <<>>]
  <2>1. att' = [att EXCEPT ![a] = r] /\ att[a].st = "called"
    BY <1>1, <1>5 DEF RefuseAttach
  <2>2. ~r.active /\ r.raw = <<>> /\ r.pend = att[a].pend
    BY <1>1 DEF Attachment
  <2>3. att[a].pend = <<>>
    BY <1>1, <2>1 DEF PhaseOf, FlowInv, Typing, Waits
  <2>. HIDE DEF r
  <2>. QED BY <1>2, <2>1, <2>2, <2>3
<1>. QED BY <1>1, <1>3, <1>4, <1>5 DEF store

\* The reader and the waiter send at the end of the queue.
LEMMA SentLive ==
  ASSUME FlowInv, NEW a \in Attachments, NEW x \in Event, Shut(a), att' = att,
         chan' = [chan EXCEPT ![a] = Append(@, x)]
  PROVE  /\ att'[a].active => Sends(a, x)
         /\ Shut(a)' /\ \A b \in Attachments : b # a => att'[b] = att[b] /\ chan'[b] = chan[b]
<1>. DEFINE q == att[a].pend \o att[a].raw
            c == chan[a]
<1>1. Typing /\ chan \in [Attachments -> Seq(Event)] /\ c \in Seq(Event)
  BY DEF FlowInv, Typing, TypeOK, WireType
<1>2. q \in Seq(Event)
  <2>1. att[a].pend \in Seq(Event) /\ att[a].raw \in Seq(Event)
    BY <1>1, LiveType
  <2>. QED BY <2>1, Concatenation
<1>3. chan'[a] = Append(c, x) /\ \A b \in Attachments : b # a => att'[b] = att[b] /\ chan'[b] = chan[b]
  BY <1>1
<1>4. Live(a) = q \o c /\ Live(a)' = q \o Append(c, x)
  BY <1>3 DEF Live
<1>. HIDE DEF q, c
<1>5. q \o Append(c, x) = Append(q \o c, x)
  BY <1>1, <1>2, Joining
<1>. QED BY <1>3, <1>4, <1>5 DEF Sends, Shut, c

\* What is sent is the reader's chunk or the end of the process.
LEMMA SendMoves ==
  ASSUME FlowInv, \A b \in Attachments : Shut(b), SendChunk \/ (SendEnded /\ sub # Nobody)
  PROVE  \E a \in Attachments, x \in Event :
           /\ att'[a].active => Sends(a, x)
           /\ Shut(a)' /\ \A b \in Attachments : b # a => att'[b] = att[b] /\ chan'[b] = chan[b]
           /\ \/ SendChunk /\ a = reader.for /\ x.kind = "output" /\ x.seq = reader.seq /\ reader.pc = "send"
              \/ SendEnded /\ a = sub /\ x.kind = "ended" /\ x.seq = 0
<1>1. CASE SendChunk
  <2>. DEFINE x == Output(reader.seq)
              a == reader.for
  <2>1. /\ reader.pc = "send" /\ att' = att /\ chan' = [chan EXCEPT ![a] = Append(@, x)]
        /\ a \in Attachments /\ reader.seq \in Chunks
    BY <1>1 DEF SendChunk, FlowInv, Typing, Busy
  <2>2. x \in Event /\ x.kind = "output" /\ x.seq = reader.seq
    BY <2>1, EventType DEF Output
  <2>3. Shut(a)
    BY <2>1
  <2>. HIDE DEF x
  <2>. QED BY <1>1, <2>1, <2>2, <2>3, SentLive
<1>2. CASE SendEnded /\ sub # Nobody
  <2>1. sub \in Attachments /\ att' = att /\ chan' = [chan EXCEPT ![sub] = Append(@, Ended)]
    BY <1>2 DEF SendEnded, FlowInv, Typing, TypeOK, ShellType
  <2>2. Ended \in Event /\ Ended.kind = "ended" /\ Ended.seq = 0
    BY EventType DEF Ended
  <2>. QED BY <1>2, <2>1, <2>2, SentLive
<1>. QED BY <1>1, <1>2

-----------------------------------------------------------------------------
(* The order of the screen.                                                *)

\* Nothing that waits to be consumed is older than an announced truncation, and no truncation that waits to
\* be announced is newer than a chunk that will be consumed behind it, in its own or in a later attachment.
Ahead(a) ==
  att[a].active =>
    /\ \A s \in Outputs(a) : reported <= s
    /\ \A t \in Notices(a) : t <= Earliest
    /\ \A b \in Attachments :
         a <= b /\ att[b].active => \A t \in Notices(a), s \in Outputs(b) : t <= s

\* The screen ends where the next chunk is allowed.
ScreenInv ==
  /\ reported <= Earliest
  /\ \A i \in DOMAIN screen : screen[i] <= Allowed
  /\ NeverBackwards
  /\ \A a \in Attachments : Ahead(a)

\* A refused attachment is over, and a disposed one is empty.
Over(a) == Shut(a) /\ (att[a].st = "failed" => ~att[a].active)

\* The numbers of the queues.
Numbered ==
  /\ latest \in Nat /\ cursor \in Nat /\ reported \in Nat /\ Earliest \in Nat /\ Allowed \in Nat
  /\ cursor < Allowed /\ reported <= Allowed /\ (Allowed = cursor + 1 \/ Allowed = reported)
  /\ Earliest >= 1 /\ Earliest + Ring > latest /\ (Earliest = 1 \/ Earliest + Ring = latest + 1)
  /\ latest > 0 => Earliest <= latest
  /\ \A a \in Attachments : Outputs(a) \subseteq Nat /\ Notices(a) \subseteq Nat
  /\ Attachments \subseteq Nat

\* What is typed is numbered.
LEMMA QueueNumbers == Typing => Numbered
<1>. SUFFICES ASSUME Typing PROVE Numbered
  OBVIOUS
<1>1. latest \in Nat /\ cursor \in Nat /\ reported \in Nat /\ Ring \in Nat \ {0}
  BY BoundAssumption, LimitAssumption DEF Typing, TypeOK, ShellType, StoreType
<1>2. \A a \in Attachments : Outputs(a) \subseteq Nat /\ Notices(a) \subseteq Nat
  <2>. TAKE a \in Attachments
  <2>1. Live(a) \in Seq(Event) /\ att[a].replay \in Seq(Event)
    BY LiveType
  <2>. QED BY <2>1, SeqsType DEF Outputs, Replay, Sent, Notices
<1>3. Attachments \subseteq Nat
  BY BoundAssumption DEF Attachments
<1>4. /\ Earliest \in Nat /\ Earliest >= 1 /\ Earliest + Ring > latest
      /\ Earliest = 1 \/ Earliest + Ring = latest + 1
      /\ latest > 0 => Earliest <= latest
  BY <1>1 DEF Earliest
<1>5. /\ Allowed \in Nat /\ cursor < Allowed /\ reported <= Allowed
      /\ Allowed = cursor + 1 \/ Allowed = reported
  BY <1>1 DEF Allowed
<1>. QED BY <1>1, <1>2, <1>3, <1>4, <1>5 DEF Numbered

\* The same after a step.
LEMMA QueueNumbersNext == (Typing => Numbered)'
BY QueueNumbers, PTL

\* The ring and the allowance only advance.
LEMMA Advancing ==
  ASSUME Typing, Typing', Forward
  PROVE  Earliest <= Earliest' /\ Allowed <= Allowed'
<1>1. Numbered /\ Numbered' /\ Ring \in Nat
  BY QueueNumbers, QueueNumbersNext, LimitAssumption
<1>2. latest <= latest' /\ cursor <= cursor' /\ reported <= reported'
  BY DEF Forward
<1>3. /\ latest' \in Nat /\ Earliest' \in Nat /\ Earliest' >= 1 /\ Earliest' + Ring > latest'
      /\ cursor' \in Nat /\ reported' \in Nat /\ Allowed' \in Nat /\ cursor' < Allowed' /\ reported' <= Allowed'
  BY <1>1 DEF Numbered
<1>4. latest \in Nat /\ Earliest \in Nat /\ (Earliest = 1 \/ Earliest + Ring = latest + 1) /\ Ring \in Nat
  BY <1>1 DEF Numbered
<1>5. Earliest <= Earliest'
  <2>1. CASE Earliest = 1
    BY <1>3, <1>4, <2>1
  <2>2. CASE Earliest + Ring = latest + 1
    <3>1. \A e, f, l, m, r \in Nat : e + r = l + 1 /\ l <= m /\ f + r > m => e <= f
      OBVIOUS
    <3>. QED BY <1>2, <1>3, <1>4, <2>2, <3>1
  <2>. QED BY <1>4, <2>1, <2>2
<1>6. Allowed <= Allowed'
  BY <1>1, <1>2, <1>3 DEF Numbered
<1>. QED BY <1>5, <1>6

\* The screen shows chunks.
LEMMA ScreenNumbers ==
  ASSUME Typing, NEW i \in DOMAIN screen
  PROVE  screen[i] \in Nat
<1>1. screen \in Seq(Chunks)
  BY DEF Typing, TypeOK, StoreType
<1>2. screen[i] \in Chunks
  BY <1>1
<1>. QED BY <1>2, BoundAssumption DEF Chunks

\* The sets of chunks under the steps of an attachment.
LEMMA MovedSets ==
  ASSUME Typing, NEW a \in Attachments
  PROVE  /\ Kept(a) => Outputs(a)' = Outputs(a) /\ Notices(a)' = Notices(a)
         /\ Mounted(a) => Outputs(a)' = {} /\ Notices(a)' = {}
         /\ \A x \in Event : Sends(a, x) /\ x.kind # "truncated" =>
              /\ Notices(a)' = Notices(a)
              /\ \A s \in Outputs(a)' : s \in Outputs(a) \/ (x.kind = "output" /\ s = x.seq)
         /\ \A e \in Event : Popping(a, e) => Outputs(a)' \subseteq Outputs(a) /\ Notices(a)' \subseteq Notices(a)
<1>1. Live(a) \in Seq(Event) /\ att[a].replay \in Seq(Event)
  BY LiveType
<1>2. Kept(a) => Outputs(a)' = Outputs(a) /\ Notices(a)' = Notices(a)
  BY DEF Kept, Outputs, Notices, Replay, Sent
<1>3. Mounted(a) => Outputs(a)' = {} /\ Notices(a)' = {}
  BY SeqsNone DEF Mounted, Outputs, Notices, Replay, Sent
<1>4. ASSUME NEW x \in Event, Sends(a, x), x.kind # "truncated"
      PROVE  /\ Notices(a)' = Notices(a)
             /\ \A s \in Outputs(a)' : s \in Outputs(a) \/ (x.kind = "output" /\ s = x.seq)
  <2>1. att'[a].replay = att[a].replay /\ Live(a)' = Append(Live(a), x)
    BY <1>4 DEF Sends
  <2>2. /\ SeqsOf(Append(Live(a), x), "truncated") = SeqsOf(Live(a), "truncated") \cup {}
        /\ \A s \in SeqsOf(Append(Live(a), x), "output") :
             s \in SeqsOf(Live(a), "output") \/ (x.kind = "output" /\ s = x.seq)
    <3>1. \A kind : SeqsOf(Append(Live(a), x), kind)
                      = SeqsOf(Live(a), kind) \cup (IF x.kind = kind THEN {x.seq} ELSE {})
      BY <1>1, SeqsAppend
    <3>. QED BY <1>4, <3>1
  <2>. QED BY <2>1, <2>2 DEF Outputs, Notices, Replay, Sent
<1>5. ASSUME NEW e \in Event, Popping(a, e)
      PROVE  Outputs(a)' \subseteq Outputs(a) /\ Notices(a)' \subseteq Notices(a)
  <2>1. CASE att[a].replay # <<>> /\ att'[a].replay = Tail(att[a].replay) /\ Live(a)' = Live(a)
    <3>1. \A kind : SeqsOf(Tail(att[a].replay), kind) \subseteq SeqsOf(att[a].replay, kind)
      BY <1>1, <2>1, SeqsTail
    <3>. QED BY <2>1, <3>1 DEF Outputs, Notices, Replay, Sent
  <2>2. CASE att[a].replay = <<>> /\ att'[a].replay = <<>> /\ Live(a) # <<>> /\ Live(a)' = Tail(Live(a))
    <3>1. \A kind : SeqsOf(Tail(Live(a)), kind) \subseteq SeqsOf(Live(a), kind)
      BY <1>1, <2>2, SeqsTail
    <3>. QED BY <2>2, <3>1 DEF Outputs, Notices, Replay, Sent
  <2>. QED BY <1>5, <2>1, <2>2 DEF Popping
<1>. QED BY <1>2, <1>3, <1>4, <1>5

\* What is consumed next is in the queue.
LEMMA HeadIn ==
  ASSUME Typing, NEW a \in Attachments, NEW e \in Event, Queue(a) # <<>>, Head(Queue(a)) = e
  PROVE  /\ e.kind = "output" => e.seq \in Outputs(a)
         /\ e.kind = "truncated" => e.seq \in Notices(a)
<1>. DEFINE x == att[a].replay
            y == Live(a)
<1>1. x \in Seq(Event) /\ y \in Seq(Event) /\ Queue(a) = x \o y
  BY LiveType
<1>. HIDE DEF x, y
<1>2. CASE x # <<>>
  <2>1. Head(x) = e
    BY <1>1, <1>2, Joining
  <2>2. \A kind : e.kind = kind => e.seq \in SeqsOf(x, kind)
    BY <1>1, <1>2, <2>1, SeqsTail
  <2>. QED BY <2>2 DEF Outputs, Notices, Replay, x
<1>3. CASE x = <<>>
  <2>1. y # <<>> /\ Head(y) = e
    BY <1>1, <1>3, Concatenation
  <2>2. \A kind : e.kind = kind => e.seq \in SeqsOf(y, kind)
    BY <1>1, <2>1, SeqsTail
  <2>. QED BY <2>2 DEF Outputs, Notices, Sent, y
<1>. QED BY <1>2, <1>3

\* The replay starts at the oldest chunk of the ring or behind it.
LEMMA ReplayFloor ==
  ASSUME Typing, NEW after \in 0 .. MaxChunks
  PROVE  /\ \A s \in SeqsOf(Replayed(after), "output") : Earliest <= s
         /\ \A s \in SeqsOf(Replayed(after), "truncated") : s = Earliest
<1>. DEFINE first  == IF after + 1 < Earliest THEN Earliest ELSE after + 1
            chunks == [i \in 1 .. latest + 1 - first |-> Output(first + i - 1)]
            notice == [kind |-> "truncated", seq |-> Earliest]
<1>1. latest \in Nat /\ Earliest \in Nat /\ after \in Nat /\ first \in Nat /\ Earliest <= first
  BY QueueNumbers, BoundAssumption DEF Numbered
<1>2. \A i \in DOMAIN chunks : chunks[i].kind = "output" /\ chunks[i].seq >= Earliest
  BY <1>1 DEF Output
<1>3. CASE after + 1 < Earliest
  <2>1. Replayed(after) = <<notice>> \o chunks
    BY <1>3 DEF Replayed
  <2>2. chunks \in Seq([kind : {"output"}, seq : Int])
    BY <1>1 DEF Output
  <2>. DEFINE q == <<notice>> \o chunks
  <2>. HIDE DEF chunks, first
  <2>3. \A i \in DOMAIN q : (i = 1 /\ q[i] = notice) \/ (i - 1 \in DOMAIN chunks /\ q[i] = chunks[i - 1])
    BY <2>2
  <2>4. notice.kind = "truncated" /\ notice.seq = Earliest
    OBVIOUS
  <2>. HIDE DEF q, notice
  <2>5. \A i \in DOMAIN q : /\ q[i].kind = "output" => Earliest <= q[i].seq
                            /\ q[i].kind = "truncated" => q[i].seq = Earliest
    BY <1>2, <2>3, <2>4
  <2>. QED BY <2>1, <2>5 DEF SeqsOf, q
<1>4. CASE ~(after + 1 < Earliest)
  <2>1. Replayed(after) = chunks
    BY <1>4 DEF Replayed
  <2>. HIDE DEF chunks, first
  <2>. QED BY <1>2, <2>1 DEF SeqsOf
<1>. QED BY <1>3, <1>4

\* The steps that take nothing from a queue.
Steady ==
  /\ UNCHANGED <<screen, reported>>
  /\ \A b \in Attachments : att'[b].active =>
       \/ Kept(b)
       \/ Mounted(b)
       \/ \E x \in Event : /\ Sends(b, x)
                           /\ x.kind = "ended" \/ (x.kind = "output" /\ x.seq = reader.seq /\ reader.pc = "send")

\* The attachments that a step of another leaves alone.
Others(a) == \A b \in Attachments : b # a => att'[b] = att[b] /\ chan'[b] = chan[b]

\* A step of one attachment that keeps its queue.
LEMMA OneSteady ==
  ASSUME NEW a \in Attachments, UNCHANGED <<screen, reported>>, Others(a), Shut(a)', \A b \in Attachments : Shut(b),
         att'[a].active =>
           \/ Kept(a) \/ Mounted(a)
           \/ \E x \in Event : /\ Sends(a, x)
                               /\ x.kind = "ended" \/ (x.kind = "output" /\ x.seq = reader.seq /\ reader.pc = "send")
  PROVE  Steady /\ \A b \in Attachments : Shut(b)'
<1>1. \A b \in Attachments : b # a => (att'[b].active => Kept(b)) /\ Shut(b)'
  BY SameMoves DEF Others
<1>. QED BY <1>1 DEF Steady

\* A step sends, takes or cuts for at most one attachment, and otherwise every queue stays.
LEMMA ScreenMoves ==
  ASSUME FlowInv, \A b \in Attachments : Shut(b), [Next]_vars
  PROVE  /\ \A b \in Attachments : Shut(b)'
         /\ \/ Steady
            \/ \E a \in Attachments : RunAttach(a) /\ Cut(a) /\ UNCHANGED <<screen, reported, latest>> /\ Others(a)
            \/ \E a \in Attachments, e \in Event :
                 (Consume(a) \/ Attached(a)) /\ Takes(a, e) /\ latest' = latest /\ Others(a)
<1>1. ASSUME UNCHANGED <<att, chan, screen, reported>>
      PROVE  Steady /\ \A b \in Attachments : Shut(b)'
  BY <1>1, SameMoves DEF Steady
<1>2. CASE UNCHANGED vars
  BY <1>1, <1>2 DEF vars
<1>3. CASE ReadChunk \/ SkipReplaced \/ ReserveCredit \/ WaitForCredit \/ Finalize \/ CloseStream \/ CloseEntry
  BY <1>1, <1>3 DEF ReadChunk, SkipReplaced, ReserveCredit, WaitForCredit, Finalize, CloseStream, CloseEntry, store
<1>4. CASE SendEnded /\ sub = Nobody
  BY <1>1, <1>4 DEF SendEnded, store
<1>5. CASE SendChunk \/ (SendEnded /\ sub # Nobody)
  <2>1. PICK a \in Attachments, x \in Event :
          /\ att'[a].active => Sends(a, x)
          /\ Shut(a)' /\ \A b \in Attachments : b # a => att'[b] = att[b] /\ chan'[b] = chan[b]
          /\ x.kind = "ended" \/ (x.kind = "output" /\ x.seq = reader.seq /\ reader.pc = "send")
    BY <1>5, SendMoves
  <2>2. UNCHANGED <<screen, reported>>
    BY <1>5 DEF SendChunk, SendEnded, store
  <2>. QED BY <2>1, <2>2, OneSteady DEF Others
<1>6. ASSUME NEW a \in Attachments, Mount(a) PROVE Steady /\ \A b \in Attachments : Shut(b)'
  BY <1>6, MountMoves, OneSteady DEF Others
<1>7. ASSUME NEW a \in Attachments,
             \/ Start(a) \/ Receive(a) \/ Written(a) \/ ReplyAttach(a) \/ RunAck(a)
             \/ Attached(a) /\ att[a].replay = <<>>
      PROVE  Steady /\ \A b \in Attachments : Shut(b)'
  BY <1>7, KeepMoves, OneSteady DEF Others
<1>8. ASSUME Unmount \/ \E a \in Attachments : RefuseAttach(a)
      PROVE  Steady /\ \A b \in Attachments : Shut(b)'
  BY <1>8, GoneMoves DEF Steady
<1>9. ASSUME NEW a \in Attachments, RunDetach(a) PROVE Steady /\ \A b \in Attachments : Shut(b)'
  BY <1>1, <1>9 DEF RunDetach, store
<1>10. ASSUME NEW a \in Attachments, RunAttach(a)
       PROVE  Cut(a) /\ UNCHANGED <<screen, reported, latest>> /\ Others(a) /\ \A b \in Attachments : Shut(b)'
  <2>1. Cut(a) /\ Shut(a)' /\ UNCHANGED <<screen, reported, latest>> /\ Others(a)
    BY <1>10, CutMoves DEF Others
  <2>. QED BY <2>1, SameMoves DEF Others
<1>11. ASSUME NEW a \in Attachments, Consume(a) \/ (Attached(a) /\ att[a].replay # <<>>)
       PROVE  /\ \E e \in Event : Takes(a, e)
              /\ latest' = latest /\ Others(a) /\ \A b \in Attachments : Shut(b)'
  <2>1. /\ \E e \in Event : Takes(a, e)
        /\ latest' = latest /\ Others(a) /\ Shut(a)'
    BY <1>11, TakeMoves DEF Others, native
  <2>. QED BY <2>1, SameMoves DEF Others
<1>12. ASSUME NEW a \in Attachments, Command(a) \/ View(a)
       PROVE  /\ \A b \in Attachments : Shut(b)'
              /\ \/ Steady
                 \/ RunAttach(a) /\ Cut(a) /\ UNCHANGED <<screen, reported, latest>> /\ Others(a)
                 \/ \E e \in Event : (Consume(a) \/ Attached(a)) /\ Takes(a, e) /\ latest' = latest /\ Others(a)
  <2>. HIDE DEF Steady
  <2>1. CASE RunAttach(a)
    BY <1>10, <2>1
  <2>2. CASE ReplyAttach(a) \/ RunAck(a) \/ Start(a) \/ Receive(a) \/ Written(a)
    BY <1>7, <2>2
  <2>3. CASE RefuseAttach(a)
    BY <1>8, <2>3
  <2>4. CASE RunDetach(a)
    BY <1>9, <2>4
  <2>5. CASE Consume(a) \/ Attached(a)
    <3>1. CASE Attached(a) /\ att[a].replay = <<>>
      BY <1>7, <3>1
    <3>2. CASE ~(Attached(a) /\ att[a].replay = <<>>)
      <4>1. Consume(a) \/ (Attached(a) /\ att[a].replay # <<>>)
        BY <2>5, <3>2
      <4>2. PICK e \in Event : Takes(a, e)
        BY <1>11, <4>1
      <4>. QED BY <1>11, <2>5, <4>1, <4>2
    <3>. QED BY <3>1, <3>2
  <2>. QED BY <1>12, <2>1, <2>2, <2>3, <2>4, <2>5 DEF Command, View
<1>13. ASSUME NEW a \in Attachments, Mount(a) \/ Command(a) \/ View(a)
       PROVE  /\ \A b \in Attachments : Shut(b)'
              /\ \/ Steady
                 \/ RunAttach(a) /\ Cut(a) /\ UNCHANGED <<screen, reported, latest>> /\ Others(a)
                 \/ \E e \in Event : (Consume(a) \/ Attached(a)) /\ Takes(a, e) /\ latest' = latest /\ Others(a)
  BY <1>6, <1>12, <1>13
<1>14. Next \/ UNCHANGED vars
  OBVIOUS
<1>. HIDE DEF Steady
<1>15. CASE ReaderStep \/ Finalize \/ SendEnded \/ CloseStream \/ CloseEntry \/ Unmount \/ UNCHANGED vars
  BY <1>2, <1>3, <1>4, <1>5, <1>8, <1>15 DEF ReaderStep
<1>16. CASE \E a \in Attachments : Mount(a) \/ Command(a) \/ View(a)
  BY <1>13, <1>16
<1>. QED BY <1>14, <1>15, <1>16 DEF Next

\* A refused attachment stays refused, and nothing comes alive again.
LEMMA OverStep ==
  ASSUME FlowInv, Order, \A b \in Attachments : Over(b), [Next]_vars
  PROVE  \A b \in Attachments : Over(b)'
<1>1. Typing /\ \A b \in Attachments : Shut(b)'
  BY ScreenMoves DEF Over, FlowInv
<1>2. \A b \in Attachments : att[b].st = "failed" => ~att[b].active
  BY DEF Over
<1>. SUFFICES \A b \in Attachments : att'[b].st = "failed" => ~att'[b].active
  BY <1>1 DEF Over
<1>3. CASE att' = att
  BY <1>2, <1>3
<1>4. CASE ReaderStep \/ Finalize \/ SendEnded \/ CloseStream \/ CloseEntry \/ UNCHANGED vars
  BY <1>3, <1>4 DEF ReaderStep, ReadChunk, SkipReplaced, ReserveCredit, WaitForCredit, SendChunk,
                    Finalize, SendEnded, CloseStream, CloseEntry, vars
<1>5. ASSUME NEW a \in Attachments, RunAttach(a) \/ ReplyAttach(a)
      PROVE  \A b \in Attachments : att'[b].st = "failed" => ~att'[b].active
  BY <1>1, <1>2, <1>5, AttachOrder
<1>6. ASSUME NEW a \in Attachments, RefuseAttach(a)
      PROVE  \A b \in Attachments : att'[b].st = "failed" => ~att'[b].active
  <2>1. att \in [Attachments -> Attachment] /\ att[a] \in Attachment
    BY <1>1 DEF Typing, TypeOK, ViewType
  <2>. QED BY <1>2, <1>6, <2>1 DEF RefuseAttach, Attachment
<1>7. ASSUME NEW a \in Attachments, RunAck(a)
      PROVE  \A b \in Attachments : att'[b].st = "failed" => ~att'[b].active
  <2>. DEFINE s == Head(calls).seq
              r == [att[a] EXCEPT !.step = "idle", !.now = 0, !.last = IF s > @ THEN s ELSE @]
  <2>1. att \in [Attachments -> Attachment] /\ att[a] \in Attachment
    BY <1>1 DEF Typing, TypeOK, ViewType
  <2>2. att' = [att EXCEPT ![a] = r]
    BY <1>7, <2>1 DEF RunAck
  <2>3. r.st = att[a].st /\ r.active = att[a].active
    BY <2>1 DEF Attachment
  <2>. HIDE DEF r
  <2>. QED BY <1>2, <2>1, <2>2, <2>3
<1>8. ASSUME NEW a \in Attachments, RunDetach(a)
      PROVE  \A b \in Attachments : att'[b].st = "failed" => ~att'[b].active
  BY <1>3, <1>8 DEF RunDetach
<1>9. ASSUME NEW a \in Attachments, View(a) \/ Mount(a)
      PROVE  \A b \in Attachments : att'[b].st = "failed" => ~att'[b].active
  BY <1>1, <1>2, <1>9, ConsumeTyping, AttachedTyping, WrittenTyping, MoveTyping, MountTyping DEF View
<1>10. CASE Unmount
  <2>1. /\ att \in [Attachments -> Attachment] /\ surface \in Attachments /\ att[surface] \in Attachment
        /\ att'[surface].st = att[surface].st
        /\ \A b \in Attachments : b # surface => att'[b] = att[b]
    BY <1>1, <1>10, UnmountTyping DEF Typing, TypeOK, ViewType
  <2>2. CASE att[surface].st # "open"
    BY <1>3, <1>10, <2>2 DEF Unmount
  <2>3. CASE att[surface].st = "open"
    BY <1>2, <2>1, <2>3
  <2>. QED BY <2>2, <2>3
<1>. QED BY <1>4, <1>5, <1>6, <1>7, <1>8, <1>9, <1>10 DEF Next, Command

\* An attachment takes events only when every older one is over.
LEMMA NoOlder ==
  ASSUME Typing, Order, NEW a \in Attachments, NEW b \in Attachments, b < a, att[b].active,
         Over(b), Consume(a) \/ Attached(a)
  PROVE  FALSE
<1>1. /\ att[a].st \in {"open", "replied"} /\ (att[a].st = "replied" => att[b].st # "replied")
      /\ att[b].st \in {"none", "called", "subscribed", "replied", "open", "failed"}
  BY Fields DEF Consume, Attached, Typing, TypeOK, ViewType
<1>2. att[b].st # "none"
  BY <1>1 DEF Order, Newest
<1>3. att[b].st \notin {"called", "subscribed"}
  BY <1>1 DEF Order, Served, Asked
<1>4. att[b].st # "replied"
  BY <1>1 DEF Order, Served
<1>5. att[b].st # "open"
  <2>. SUFFICES ASSUME att[b].st = "open" PROVE FALSE
    OBVIOUS
  <2>1. surface = b /\ b # Nobody
    BY NobodyAssumption DEF Order, Newest
  <2>2. a > b
    BY BoundAssumption DEF Attachments
  <2>. QED BY <1>1, <2>1, <2>2 DEF Order, Newest
<1>6. att[b].st # "failed"
  BY DEF Over
<1>. QED BY <1>1, <1>2, <1>3, <1>4, <1>5, <1>6

\* A queue that is not taken from gets at most the chunk the reader sends.
LEMMA SteadySets ==
  ASSUME FlowInv, Steady, NEW b \in Attachments, att'[b].active
  PROVE  /\ \A t \in Notices(b)' : att[b].active /\ t \in Notices(b)
         /\ \A s \in Outputs(b)' : (att[b].active /\ s \in Outputs(b)) \/ Earliest <= s
<1>1. Typing /\ Totals /\ Numbered
  BY QueueNumbers DEF FlowInv, Counts
<1>2. CASE Kept(b)
  BY <1>1, <1>2, MovedSets DEF Kept
<1>3. CASE Mounted(b)
  BY <1>1, <1>3, MovedSets
<1>4. ASSUME NEW x \in Event, Sends(b, x),
             x.kind = "ended" \/ (x.kind = "output" /\ x.seq = reader.seq /\ reader.pc = "send")
      PROVE  /\ \A t \in Notices(b)' : att[b].active /\ t \in Notices(b)
             /\ \A s \in Outputs(b)' : (att[b].active /\ s \in Outputs(b)) \/ Earliest <= s
  <2>1. /\ att[b].active /\ Notices(b)' = Notices(b)
        /\ \A s \in Outputs(b)' : s \in Outputs(b) \/ (x.kind = "output" /\ s = x.seq)
    BY <1>1, <1>4, MovedSets DEF Sends
  <2>2. x.kind = "output" => x.seq = latest /\ latest > 0
    BY <1>1, <1>4, BoundAssumption DEF Totals, Typing, Busy, Chunks
  <2>3. x.kind = "output" => Earliest <= x.seq
    BY <1>1, <2>2 DEF Numbered
  <2>. QED BY <2>1, <2>3
<1>. QED BY <1>2, <1>3, <1>4 DEF Steady

\* Nothing is taken: what is sent is newer than every truncation announced or waiting.
LEMMA SteadyScreen ==
  ASSUME FlowInv, FlowInv', Forward, ScreenInv, Steady
  PROVE  ScreenInv'
<1>1. Numbered /\ Numbered' /\ Earliest <= Earliest' /\ Allowed <= Allowed'
  BY QueueNumbers, QueueNumbersNext, Advancing DEF FlowInv
<1>2. /\ Earliest \in Nat /\ Earliest' \in Nat /\ Allowed \in Nat /\ Allowed' \in Nat /\ reported \in Nat
      /\ \A b \in Attachments : /\ Outputs(b) \subseteq Nat /\ Notices(b) \subseteq Nat
                                /\ Outputs(b)' \subseteq Nat /\ Notices(b)' \subseteq Nat
  BY <1>1 DEF Numbered
<1>3. screen' = screen /\ reported' = reported /\ screen \in Seq(Chunks) /\ Chunks \subseteq Nat
  BY BoundAssumption DEF Steady, FlowInv, Typing, TypeOK, StoreType, Chunks
<1>4. reported <= Earliest /\ (\A i \in DOMAIN screen : screen[i] <= Allowed /\ screen[i] \in Nat) /\ NeverBackwards
  <2>1. \A i \in DOMAIN screen : screen[i] \in Nat
    BY ScreenNumbers DEF FlowInv
  <2>. QED BY <2>1 DEF ScreenInv
<1>5. reported' <= Earliest' /\ (\A i \in DOMAIN screen' : screen'[i] <= Allowed') /\ NeverBackwards'
  <2>1. reported <= Earliest'
    BY <1>1, <1>2, <1>4
  <2>2. \A i \in DOMAIN screen : screen[i] <= Allowed'
    BY <1>1, <1>2, <1>4
  <2>. QED BY <1>3, <1>4, <2>1, <2>2 DEF NeverBackwards
<1>6. ASSUME NEW b \in Attachments PROVE Ahead(b)'
  <2>. SUFFICES ASSUME att'[b].active
                PROVE  /\ \A s \in Outputs(b)' : reported' <= s
                       /\ \A t \in Notices(b)' : t <= Earliest'
                       /\ \A c \in Attachments :
                            b <= c /\ att'[c].active => \A t \in Notices(b)', s \in Outputs(c)' : t <= s
    BY DEF Ahead
  <2>1. \A s \in Outputs(b)' : reported <= s
    <3>. TAKE s \in Outputs(b)'
    <3>1. (att[b].active /\ s \in Outputs(b)) \/ Earliest <= s
      BY SteadySets
    <3>2. s \in Nat
      BY <1>2
    <3>. QED BY <1>2, <1>4, <3>1, <3>2 DEF ScreenInv, Ahead
  <2>2. \A t \in Notices(b)' : t <= Earliest /\ t \in Nat
    BY <1>2, SteadySets DEF ScreenInv, Ahead
  <2>3. ASSUME NEW c \in Attachments, b <= c, att'[c].active, NEW t \in Notices(b)', NEW s \in Outputs(c)'
        PROVE  t <= s
    <3>1. (att[c].active /\ s \in Outputs(c)) \/ Earliest <= s
      BY <2>3, SteadySets
    <3>2. att[b].active /\ t \in Notices(b)
      BY SteadySets
    <3>3. s \in Nat /\ t \in Nat /\ t <= Earliest
      BY <1>2, <2>2
    <3>4. CASE Earliest <= s
      BY <1>2, <3>3, <3>4
    <3>5. CASE att[c].active /\ s \in Outputs(c)
      BY <2>3, <3>2, <3>5 DEF ScreenInv, Ahead
    <3>. QED BY <3>1, <3>4, <3>5
  <2>4. \A t \in Notices(b)' : t <= Earliest'
    BY <1>1, <1>2, <2>2
  <2>. QED BY <1>3, <2>1, <2>3, <2>4
<1>. QED BY <1>5, <1>6 DEF ScreenInv

\* attach cuts a replay: it starts behind everything announced, and what waits to be announced in an older
\* attachment is not newer.
LEMMA CutScreen ==
  ASSUME FlowInv, FlowInv', Order, Forward, ScreenInv, NEW a \in Attachments, RunAttach(a), Cut(a),
         UNCHANGED <<screen, reported, latest>>, Others(a)
  PROVE  ScreenInv'
<1>1. /\ Typing /\ Numbered /\ Numbered' /\ Earliest' = Earliest /\ Allowed <= Allowed'
      /\ screen \in Seq(Chunks) /\ Chunks \subseteq Nat
  <2>1. Earliest' = Earliest
    BY DEF Earliest
  <2>2. Numbered /\ Numbered' /\ Allowed <= Allowed'
    BY QueueNumbers, QueueNumbersNext, Advancing DEF FlowInv
  <2>. QED BY <2>1, <2>2, BoundAssumption DEF FlowInv, Typing, TypeOK, StoreType, Chunks
<1>2. /\ Earliest \in Nat /\ Allowed \in Nat /\ Allowed' \in Nat /\ reported \in Nat /\ Attachments \subseteq Nat
      /\ \A b \in Attachments : Outputs(b)' \subseteq Nat /\ Notices(b)' \subseteq Nat
  BY <1>1 DEF Numbered
<1>3. reported' <= Earliest' /\ (\A i \in DOMAIN screen' : screen'[i] <= Allowed') /\ NeverBackwards'
  <2>1. \A i \in DOMAIN screen : screen[i] \in Nat /\ screen[i] <= Allowed
    <3>1. \A i \in DOMAIN screen : screen[i] \in Nat
      BY <1>1, ScreenNumbers
    <3>. QED BY <3>1 DEF ScreenInv
  <2>2. \A i \in DOMAIN screen : screen[i] <= Allowed'
    BY <1>1, <1>2, <2>1
  <2>. QED BY <1>1, <2>2 DEF ScreenInv, NeverBackwards
<1>4. /\ \A s \in Outputs(a)' : Earliest <= s
      /\ \A t \in Notices(a)' : t = Earliest
  <2>1. /\ \A s \in SeqsOf(att'[a].replay, "output") : Earliest <= s
        /\ \A s \in SeqsOf(att'[a].replay, "truncated") : s = Earliest
    BY <1>1, ReplayFloor DEF Cut
  <2>. QED BY <2>1, SeqsNone DEF Cut, Outputs, Notices, Replay, Sent
<1>5. \A b \in Attachments : b # a => /\ Outputs(b)' = Outputs(b) /\ Notices(b)' = Notices(b)
                                      /\ att'[b].active = att[b].active
  BY DEF Others, Outputs, Notices, Replay, Sent, Live
<1>6. ASSUME NEW b \in Attachments, a < b PROVE Outputs(b)' = {}
  <2>1. att[b].st \in {"none", "called"} /\ PhaseOf(b)
    BY <1>6 DEF RunAttach, Order, Served, Asked, FlowInv, Phases
  <2>2. att[b].replay = <<>> /\ att[b].raw = <<>> /\ chan[b] = <<>> /\ att[b].pend = <<>>
    BY <1>1, <2>1 DEF PhaseOf, Typing, Waits
  <2>3. Live(b) = (<<>> \o <<>>) \o <<>> /\ <<>> \in Seq(Event)
    BY <2>2 DEF Live
  <2>4. Live(b) = <<>>
    BY <2>3, Concatenation
  <2>5. b # a
    BY <1>2, <1>6
  <2>. QED BY <1>5, <2>2, <2>4, <2>5, SeqsNone DEF Outputs, Replay, Sent
<1>7. ASSUME NEW b \in Attachments PROVE Ahead(b)'
  <2>. SUFFICES ASSUME att'[b].active
                PROVE  /\ \A s \in Outputs(b)' : reported' <= s
                       /\ \A t \in Notices(b)' : t <= Earliest'
                       /\ \A c \in Attachments :
                            b <= c /\ att'[c].active => \A t \in Notices(b)', s \in Outputs(c)' : t <= s
    BY DEF Ahead
  <2>1. CASE b = a
    <3>1. \A s \in Outputs(a)' : reported <= s
      BY <1>2, <1>4 DEF ScreenInv
    <3>2. \A t \in Notices(a)' : t <= Earliest
      BY <1>2, <1>4
    <3>3. ASSUME NEW c \in Attachments, a <= c, NEW t \in Notices(a)', NEW s \in Outputs(c)'
          PROVE  t <= s
      <4>1. CASE c = a
        BY <1>2, <1>4, <3>3, <4>1
      <4>2. CASE c # a
        BY <1>2, <1>6, <3>3, <4>2
      <4>. QED BY <4>1, <4>2
    <3>. QED BY <1>1, <2>1, <3>1, <3>2, <3>3
  <2>2. CASE b # a
    <3>1. /\ att[b].active /\ Outputs(b)' = Outputs(b) /\ Notices(b)' = Notices(b)
          /\ \A s \in Outputs(b) : reported <= s
          /\ \A t \in Notices(b) : t <= Earliest
          /\ \A c \in Attachments : b <= c /\ att[c].active => \A t \in Notices(b), s \in Outputs(c) : t <= s
      BY <1>5, <2>2 DEF ScreenInv, Ahead
    <3>2. ASSUME NEW c \in Attachments, b <= c, att'[c].active, NEW t \in Notices(b)', NEW s \in Outputs(c)'
          PROVE  t <= s
      <4>1. CASE c = a
        <5>1. t <= Earliest /\ Earliest <= s /\ t \in Nat /\ s \in Nat
          BY <1>2, <1>4, <3>1, <3>2, <4>1
        <5>. QED BY <1>2, <5>1
      <4>2. CASE c # a
        BY <1>5, <3>1, <3>2, <4>2
      <4>. QED BY <4>1, <4>2
    <3>. QED BY <1>1, <3>1, <3>2
  <2>. QED BY <2>1, <2>2
<1>. QED BY <1>3, <1>7 DEF ScreenInv

\* An event is taken: a chunk is where the next one is allowed, and a truncation is announced that nothing
\* behind it contradicts.
LEMMA TakeScreen ==
  ASSUME FlowInv, FlowInv', Order, Forward, ScreenInv, \A b \in Attachments : Over(b),
         NEW a \in Attachments, NEW e \in Event, Consume(a) \/ Attached(a), Takes(a, e), latest' = latest, Others(a)
  PROVE  ScreenInv'
<1>1. /\ Typing /\ Numbered /\ Numbered' /\ Earliest' = Earliest /\ Allowed <= Allowed'
      /\ screen \in Seq(Chunks) /\ Chunks \subseteq Nat /\ e.seq \in Nat /\ FlowOf(a)
      /\ \A b \in Attachments : b < a => ~att[b].active
  <2>1. Earliest' = Earliest
    BY DEF Earliest
  <2>2. Numbered /\ Numbered' /\ Allowed <= Allowed'
    BY QueueNumbers, QueueNumbersNext, Advancing DEF FlowInv
  <2>3. e.seq \in Nat
    BY EventType, BoundAssumption
  <2>4. \A b \in Attachments : b < a => ~att[b].active
    BY NoOlder DEF FlowInv
  <2>. QED BY <2>1, <2>2, <2>3, <2>4, BoundAssumption DEF FlowInv, Flow, Typing, TypeOK, StoreType, Chunks
<1>2. /\ Earliest \in Nat /\ Allowed \in Nat /\ Allowed' \in Nat /\ reported \in Nat /\ reported' \in Nat
      /\ cursor \in Nat /\ Attachments \subseteq Nat /\ (Allowed = cursor + 1 \/ Allowed = reported)
      /\ \A b \in Attachments : /\ Outputs(b) \subseteq Nat /\ Notices(b) \subseteq Nat
                                /\ Outputs(b)' \subseteq Nat /\ Notices(b)' \subseteq Nat
  BY <1>1 DEF Numbered
<1>3. /\ att[a].active
      /\ e.kind = "output" => e.seq \in Outputs(a)
      /\ e.kind = "truncated" => e.seq \in Notices(a)
  BY <1>1, HeadIn DEF Takes
<1>4. /\ \A s \in Outputs(a) : reported <= s
      /\ \A t \in Notices(a) : t <= Earliest
      /\ reported <= Earliest
      /\ \A c \in Attachments : a <= c /\ att[c].active => \A t \in Notices(a), s \in Outputs(c) : t <= s
  BY <1>3 DEF ScreenInv, Ahead
<1>5. /\ screen' = IF Wanted(att[a], e) THEN Append(screen, e.seq) ELSE screen
      /\ reported' = IF e.kind = "truncated" /\ e.seq > reported THEN e.seq ELSE reported
  BY DEF Takes, Applied
<1>6. e.kind = "output" => e.seq <= Allowed
  <2>1. Queue(a) \in Seq(Event) /\ 1 \in DOMAIN Queue(a) /\ Queue(a)[1] = e
    <3>1. Queue(a) \in Seq(Event)
      BY <1>1, QueueForm
    <3>. QED BY <3>1, OneLess DEF Takes
  <2>2. \A j \in DOMAIN Queue(a) : ~(j < 1)
    BY <2>1
  <2>3. Reach(a) = Allowed
    BY DEF Reach, Takes
  <2>. QED BY <1>3, <2>1, <2>2, <2>3 DEF FlowOf, Linked, FlowInv, Flow
<1>7. Wanted(att[a], e) => \A i \in DOMAIN screen : screen[i] <= e.seq
  <2>. SUFFICES ASSUME Wanted(att[a], e), NEW i \in DOMAIN screen PROVE screen[i] <= e.seq
    OBVIOUS
  <2>1. e.seq > cursor /\ reported <= e.seq
    BY <1>3, <1>4 DEF Wanted
  <2>2. Allowed <= e.seq
    BY <1>1, <1>2, <2>1
  <2>3. screen[i] <= Allowed /\ screen[i] \in Nat
    <3>1. screen[i] \in Nat
      BY <1>1, ScreenNumbers
    <3>. QED BY <3>1 DEF ScreenInv
  <2>. QED BY <1>1, <1>2, <2>2, <2>3
<1>8. (\A i \in DOMAIN screen' : screen'[i] <= Allowed') /\ NeverBackwards'
  <2>1. \A i \in DOMAIN screen : screen[i] \in Nat /\ screen[i] <= Allowed'
    <3>1. \A i \in DOMAIN screen : screen[i] \in Nat
      BY <1>1, ScreenNumbers
    <3>2. \A i \in DOMAIN screen : screen[i] <= Allowed
      BY DEF ScreenInv
    <3>. QED BY <1>1, <1>2, <3>1, <3>2
  <2>2. \A i, j \in DOMAIN screen : i < j => screen[i] <= screen[j]
    BY DEF ScreenInv, NeverBackwards
  <2>3. CASE ~Wanted(att[a], e)
    BY <1>5, <2>1, <2>2, <2>3 DEF NeverBackwards
  <2>4. CASE Wanted(att[a], e)
    <3>1. e.kind = "output" /\ screen' = Append(screen, e.seq) /\ e.seq <= Allowed'
      BY <1>1, <1>2, <1>5, <1>6, <2>4 DEF Wanted
    <3>2. /\ \A i \in DOMAIN screen' : i \in DOMAIN screen \/ i = Len(screen) + 1
          /\ \A i \in DOMAIN screen : screen'[i] = screen[i] /\ i < Len(screen) + 1 /\ i \in Nat
          /\ screen'[Len(screen) + 1] = e.seq /\ Len(screen) \in Nat
      BY <1>1, <3>1
    <3>3. \A i \in DOMAIN screen' : screen'[i] <= Allowed'
      BY <2>1, <3>1, <3>2
    <3>4. ASSUME NEW i \in DOMAIN screen', NEW j \in DOMAIN screen', i < j PROVE screen'[i] <= screen'[j]
      <4>1. i \in DOMAIN screen
        BY <3>2, <3>4
      <4>2. CASE j \in DOMAIN screen
        BY <2>2, <3>2, <3>4, <4>1, <4>2
      <4>3. CASE j = Len(screen) + 1
        BY <1>7, <2>4, <3>2, <4>1, <4>3
      <4>. QED BY <3>2, <4>2, <4>3
    <3>. QED BY <3>3, <3>4 DEF NeverBackwards
  <2>. QED BY <2>3, <2>4
<1>9. /\ reported' <= Earliest
      /\ \A b \in Attachments : att[b].active => \A s \in Outputs(b) : reported' <= s
  <2>1. reported' <= Earliest
    BY <1>3, <1>4, <1>5
  <2>2. ASSUME NEW b \in Attachments, att[b].active, NEW s \in Outputs(b) PROVE reported' <= s
    <3>1. reported <= s
      BY <2>2 DEF ScreenInv, Ahead
    <3>2. a <= b
      BY <1>1, <1>2, <2>2
    <3>3. e.kind = "truncated" => e.seq <= s
      BY <1>3, <1>4, <2>2, <3>2
    <3>. QED BY <1>5, <3>1, <3>3
  <2>. QED BY <2>1, <2>2
<1>10. \A b \in Attachments : att'[b].active =>
         att[b].active /\ Outputs(b)' \subseteq Outputs(b) /\ Notices(b)' \subseteq Notices(b)
  <2>. SUFFICES ASSUME NEW b \in Attachments, att'[b].active
                PROVE  att[b].active /\ Outputs(b)' \subseteq Outputs(b) /\ Notices(b)' \subseteq Notices(b)
    OBVIOUS
  <2>1. CASE b = a
    BY <1>1, <1>3, <2>1, MovedSets DEF Takes
  <2>2. CASE b # a
    BY <2>2 DEF Others, Outputs, Notices, Replay, Sent, Live
  <2>. QED BY <2>1, <2>2
<1>11. ASSUME NEW b \in Attachments PROVE Ahead(b)'
  <2>. SUFFICES ASSUME att'[b].active
                PROVE  /\ \A s \in Outputs(b)' : reported' <= s
                       /\ \A t \in Notices(b)' : t <= Earliest'
                       /\ \A c \in Attachments :
                            b <= c /\ att'[c].active => \A t \in Notices(b)', s \in Outputs(c)' : t <= s
    BY DEF Ahead
  <2>1. att[b].active /\ Outputs(b)' \subseteq Outputs(b) /\ Notices(b)' \subseteq Notices(b)
    BY <1>10
  <2>2. Ahead(b)
    BY DEF ScreenInv
  <2>3. ASSUME NEW c \in Attachments, b <= c, att'[c].active, NEW t \in Notices(b)', NEW s \in Outputs(c)'
        PROVE  t <= s
    <3>1. att[c].active /\ t \in Notices(b) /\ s \in Outputs(c)
      BY <1>10, <2>1, <2>3
    <3>. QED BY <2>1, <2>2, <2>3, <3>1 DEF Ahead
  <2>4. \A t \in Notices(b)' : t <= Earliest'
    BY <1>1, <2>1, <2>2 DEF Ahead
  <2>. QED BY <1>9, <2>1, <2>3, <2>4
<1>. QED BY <1>1, <1>8, <1>9, <1>11 DEF ScreenInv

\* The invariant behind the order of the screen.
QueueInv == FlowInv /\ Order /\ (\A a \in Attachments : Over(a)) /\ ScreenInv

\* It holds before anything is mounted or printed.
LEMMA ScreenInit == Init => QueueInv
<1>. SUFFICES ASSUME Init PROVE QueueInv
  OBVIOUS
<1>1. FlowInv /\ Order /\ Numbered
  BY FlowInit, OrderInit, QueueNumbers DEF FlowInv
<1>2. \A a \in Attachments : att[a] = Unused
  BY DEF Init
<1>3. ~Unused.active /\ Unused.raw = <<>> /\ Unused.pend = <<>>
  BY DEF Unused
<1>4. screen = <<>> /\ reported = 0 /\ Earliest \in Nat
  BY <1>1 DEF Init, Numbered
<1>5. ScreenInv
  BY <1>2, <1>3, <1>4 DEF ScreenInv, Ahead, NeverBackwards
<1>6. \A a \in Attachments : Over(a)
  BY <1>2, <1>3 DEF Over, Shut
<1>. QED BY <1>1, <1>5, <1>6 DEF QueueInv

\* Every step of the terminal keeps it.
LEMMA ScreenStep ==
  ASSUME QueueInv, [Next]_vars
  PROVE  QueueInv'
<1>1. FlowInv /\ FlowInv' /\ Forward /\ Order /\ ScreenInv /\ \A b \in Attachments : Over(b)
  BY FlowStep DEF QueueInv
<1>2. Order'
  BY <1>1, OrderStep DEF FlowInv
<1>3. \A b \in Attachments : Over(b)'
  BY <1>1, OverStep
<1>4. ScreenInv'
  <2>1. \/ Steady
        \/ \E a \in Attachments : RunAttach(a) /\ Cut(a) /\ UNCHANGED <<screen, reported, latest>> /\ Others(a)
        \/ \E a \in Attachments, e \in Event :
             (Consume(a) \/ Attached(a)) /\ Takes(a, e) /\ latest' = latest /\ Others(a)
    BY <1>1, ScreenMoves DEF Over
  <2>2. CASE Steady
    BY <1>1, <2>2, SteadyScreen
  <2>3. ASSUME NEW a \in Attachments, RunAttach(a), Cut(a), UNCHANGED <<screen, reported, latest>>, Others(a)
        PROVE  ScreenInv'
    BY <1>1, <2>3, CutScreen
  <2>4. ASSUME NEW a \in Attachments, NEW e \in Event, Consume(a) \/ Attached(a), Takes(a, e), latest' = latest,
               Others(a)
        PROVE  ScreenInv'
    BY <1>1, <2>4, TakeScreen
  <2>. QED BY <2>1, <2>2, <2>3, <2>4
<1>. QED BY <1>1, <1>2, <1>3, <1>4 DEF QueueInv

\* It holds in every reachable state.
LEMMA QueueInvariant == Spec => []QueueInv
<1>1. QueueInv /\ [Next]_vars => QueueInv'
  BY ScreenStep
<1>. QED BY <1>1, ScreenInit, PTL DEF Spec

\* The screen never shows an older chunk behind a newer one, however often the surface is mounted and however
\* replay, live output, truncations and results of attach interleave.
THEOREM Newer == Spec => []NeverBackwards
<1>1. QueueInv => NeverBackwards
  BY DEF QueueInv, ScreenInv
<1>. QED BY <1>1, QueueInvariant, PTL
=============================================================================
