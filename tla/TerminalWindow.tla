---------------------------- MODULE TerminalWindow ----------------------------
(***************************************************************************)
(* How many events the webview ever queues in TerminalStream: the delivery *)
(* window of the subscriber bounds the queues of every attachment, for any *)
(* number of mounts and chunks, any ring and any window.                   *)
(***************************************************************************)
EXTENDS TerminalQueues, FiniteSetTheorems

-----------------------------------------------------------------------------
(* The invariant.                                                          *)

\* No chunk is queued twice, and the chunks are in the order in which they were printed.
Rising(q) ==
  \A i, j \in DOMAIN q : i < j =>
    /\ q[i].seq # q[j].seq
    /\ q[i].kind = "output" /\ q[j].kind = "output" => q[i].seq < q[j].seq

\* The chunks an attachment had before those behind its replay, the one it waits for included.
Past(a) == Replay(a) \cup (IF att[a].step # "idle" THEN {att[a].now} ELSE {})

\* The chunks that wait behind the replay or are about to.
Sending(a) == reader.pc = "send" /\ reader.for = a
Charged(a) == Sent(a) \cup (IF Sending(a) THEN {reader.seq} ELSE {})

\* They are outputs that were charged to the window, and at most one end of the process.
Outgoing(q) ==
  \A i \in DOMAIN q : q[i].kind \in {"output", "ended"} /\ (q[i].kind = "ended" => ended = "sent")

\* Every charged chunk of the subscriber is still in flight, whichever chunk it acknowledges next.
WindowOf(a) ==
  att[a].active =>
    /\ Outgoing(Live(a)) /\ Rising(Live(a))
    /\ \A s \in Sent(a), p \in Past(a) : p < s
    /\ Held(a) => \A s \in Sent(a) \cup Past(a) : s < reader.seq
    /\ IsFiniteSet(Charged(a)) /\ Cardinality(Charged(a)) <= Window
    /\ sub = a => Charged(a) \subseteq inflight

\* An acknowledgement is for the chunk its attachment waits for.
Acks == \A i \in DOMAIN calls : calls[i].op = "ack" => calls[i].seq = att[calls[i].id].now

InFlight == IsFiniteSet(inflight) /\ Cardinality(inflight) <= Window

-----------------------------------------------------------------------------
(* Queues.                                                                 *)

\* A rising queue with an event more.
LEMMA RisingAppend ==
  ASSUME NEW q \in Seq(Event), NEW x \in Event, Rising(q),
         \A i \in DOMAIN q : /\ q[i].seq # x.seq
                             /\ q[i].kind = "output" /\ x.kind = "output" => q[i].seq < x.seq
  PROVE  Rising(Append(q, x))
<1>. DEFINE p == Append(q, x)
<1>1. /\ \A i \in DOMAIN p : i \in DOMAIN q \/ i = Len(q) + 1
      /\ \A i \in DOMAIN q : p[i] = q[i] /\ i < Len(q) + 1 /\ i \in Nat
      /\ p[Len(q) + 1] = x /\ Len(q) \in Nat
  OBVIOUS
<1>. HIDE DEF p
<1>2. ASSUME NEW i \in DOMAIN p, NEW j \in DOMAIN p, i < j
      PROVE  /\ p[i].seq # p[j].seq
             /\ p[i].kind = "output" /\ p[j].kind = "output" => p[i].seq < p[j].seq
  <2>1. i \in DOMAIN q
    BY <1>1, <1>2
  <2>2. CASE j \in DOMAIN q
    <3>1. p[i] = q[i] /\ p[j] = q[j]
      BY <1>1, <2>1, <2>2
    <3>. QED BY <1>2, <2>1, <2>2, <3>1 DEF Rising
  <2>3. CASE j = Len(q) + 1
    BY <1>1, <2>1, <2>3
  <2>. QED BY <1>1, <2>2, <2>3
<1>. QED BY <1>2 DEF Rising, p

\* A rising queue without its head, which was the oldest.
LEMMA RisingTail ==
  ASSUME NEW q \in Seq(Event), q # <<>>, Rising(q)
  PROVE  /\ Rising(Tail(q))
         /\ Head(q).kind = "output" => \A s \in SeqsOf(Tail(q), "output") : Head(q).seq < s
<1>1. /\ 1 \in DOMAIN q /\ Head(q) = q[1]
      /\ \A i \in DOMAIN Tail(q) : i + 1 \in DOMAIN q /\ Tail(q)[i] = q[i + 1] /\ i \in Nat /\ 1 < i + 1
  OBVIOUS
<1>2. Rising(Tail(q))
  <2>. SUFFICES ASSUME NEW i \in DOMAIN Tail(q), NEW j \in DOMAIN Tail(q), i < j
                PROVE  /\ Tail(q)[i].seq # Tail(q)[j].seq
                       /\ Tail(q)[i].kind = "output" /\ Tail(q)[j].kind = "output" => Tail(q)[i].seq < Tail(q)[j].seq
    BY DEF Rising
  <2>1. i + 1 \in DOMAIN q /\ j + 1 \in DOMAIN q /\ i + 1 < j + 1 /\ Tail(q)[i] = q[i + 1] /\ Tail(q)[j] = q[j + 1]
    BY <1>1
  <2>. QED BY <2>1 DEF Rising
<1>3. ASSUME Head(q).kind = "output", NEW s \in SeqsOf(Tail(q), "output") PROVE Head(q).seq < s
  <2>1. PICK i \in DOMAIN Tail(q) : Tail(q)[i].kind = "output" /\ Tail(q)[i].seq = s
    BY <1>3 DEF SeqsOf
  <2>. QED BY <1>1, <1>3, <2>1 DEF Rising
<1>. QED BY <1>2, <1>3

\* As many events as chunks, and the end.
LEMMA Counting ==
  ASSUME NEW q \in Seq(Event), Rising(q), Outgoing(q), NEW C, IsFiniteSet(C), SeqsOf(q, "output") \subseteq C
  PROVE  Len(q) <= Cardinality(C) + 1
<1>. DEFINE D == C \cup {0}
            f == [i \in 1 .. Len(q) |-> q[i].seq]
<1>1. Len(q) \in Nat /\ DOMAIN q = 1 .. Len(q) /\ Cardinality(C) \in Nat
  <2>1. Cardinality(C) \in Nat
    BY FS_CardinalityType
  <2>. QED BY <2>1
<1>2. IsFiniteSet(D) /\ Cardinality(D) \in Nat /\ Cardinality(D) <= Cardinality(C) + 1
  <2>1. /\ IsFiniteSet(C \cup {0})
        /\ Cardinality(C \cup {0}) = IF 0 \in C THEN Cardinality(C) ELSE Cardinality(C) + 1
    BY FS_AddElement
  <2>. QED BY <1>1, <2>1
<1>3. f \in [1 .. Len(q) -> D]
  <2>1. ASSUME NEW i \in 1 .. Len(q) PROVE q[i].seq \in D
    <3>1. q[i] \in Event /\ i \in DOMAIN q
      BY <1>1, <2>1
    <3>2. CASE q[i].kind = "output"
      BY <3>1, <3>2, InSeqs
    <3>3. CASE q[i].kind # "output"
      BY <3>1, <3>3 DEF Outgoing, Event
    <3>. QED BY <3>2, <3>3
  <2>. QED BY <2>1
<1>4. \A i, j \in 1 .. Len(q) : i # j => f[i] # f[j]
  BY <1>1 DEF Rising
<1>. HIDE DEF D, f
<1>5. IsFiniteSet(1 .. Len(q)) /\ Cardinality(1 .. Len(q)) = Len(q)
  <2>1. Len(q) \in Int /\ 1 \in Int
    BY <1>1
  <2>2. /\ IsFiniteSet(1 .. Len(q))
        /\ Cardinality(1 .. Len(q)) = IF 1 > Len(q) THEN 0 ELSE Len(q) - 1 + 1
    BY <2>1, FS_Interval
  <2>. QED BY <1>1, <2>2
<1>6. ~(Cardinality(D) < Len(q))
  BY <1>2, <1>3, <1>4, <1>5, FS_PigeonHole
<1>. QED BY <1>1, <1>2, <1>6

-----------------------------------------------------------------------------
(* What a step does to one attachment.                                     *)

\* The reader gets nothing for the attachment, and sends no more to it.
ReaderKept(a) ==
  /\ Held(a)' => Held(a) /\ reader'.seq = reader.seq
  /\ Sending(a)' => Sending(a) /\ reader'.seq = reader.seq

\* What is charged to it stays in flight while it is the subscriber.
CreditKept(a) == sub' = a => sub = a /\ Charged(a)' \subseteq inflight'

EndKept == ended = "sent" => ended' = "sent"

\* Its queue stays.
LEMMA KeptWindow ==
  ASSUME NEW a \in Attachments, WindowOf(a), Kept(a), ReaderKept(a), CreditKept(a), EndKept
  PROVE  WindowOf(a)'
<1>1. Sent(a)' = Sent(a) /\ Replay(a)' = Replay(a)
  BY DEF Kept, Sent, Replay
<1>2. Past(a)' \subseteq Past(a)
  BY <1>1 DEF Past, Kept, Stays
<1>3. Charged(a)' \subseteq Charged(a)
  BY <1>1 DEF Charged, ReaderKept
<1>4. /\ Outgoing(Live(a)) /\ Rising(Live(a))
      /\ \A s \in Sent(a), p \in Past(a) : p < s
      /\ Held(a) => \A s \in Sent(a) \cup Past(a) : s < reader.seq
      /\ IsFiniteSet(Charged(a)) /\ Cardinality(Charged(a)) <= Window
  BY DEF WindowOf, Kept
<1>5. Outgoing(Live(a))' /\ Rising(Live(a))'
  <2>1. Live(a)' = Live(a)
    BY DEF Kept
  <2>2. Rising(Live(a))'
    BY <1>4, <2>1 DEF Rising
  <2>3. Outgoing(Live(a))'
    BY <1>4, <2>1 DEF Outgoing, EndKept
  <2>. QED BY <2>2, <2>3
<1>6. IsFiniteSet(Charged(a)') /\ Cardinality(Charged(a)') <= Window
  BY <1>3, <1>4, LimitAssumption, FS_Subset, FS_CardinalityType
<1>7. Held(a)' => \A s \in (Sent(a) \cup Past(a))' : s < reader'.seq
  BY <1>1, <1>2, <1>4 DEF ReaderKept
<1>8. \A s \in Sent(a)', p \in Past(a)' : p < s
  BY <1>1, <1>2, <1>4
<1>. QED BY <1>5, <1>6, <1>7, <1>8 DEF WindowOf, CreditKept

\* It is mounted.
LEMMA MountedWindow ==
  ASSUME Typing, NEW a \in Attachments, Mounted(a), UNCHANGED native
  PROVE  WindowOf(a)'
<1>1. /\ Live(a)' = <<>> /\ att'[a].replay = <<>> /\ att'[a].step = "idle" /\ sub' # a
      /\ reader' = reader /\ ~Held(a)
  BY DEF Mounted, native
<1>2. Sent(a)' = {} /\ Past(a)' = {}
  BY <1>1, SeqsNone DEF Sent, Past, Replay
<1>3. ~Held(a)' /\ ~Sending(a)'
  BY <1>1 DEF Held, Sending
<1>4. Charged(a)' = {}
  BY <1>2, <1>3 DEF Charged
<1>5. Rising(Live(a))' /\ Outgoing(Live(a))'
  BY <1>1 DEF Rising, Outgoing
<1>6. IsFiniteSet(Charged(a)') /\ Cardinality(Charged(a)') <= Window
  BY <1>4, FS_EmptySet, LimitAssumption
<1>. QED BY <1>1, <1>2, <1>3, <1>4, <1>5, <1>6 DEF WindowOf

\* Its replay is cut, and it is the subscriber.
LEMMA CutWindow ==
  ASSUME Typing, NEW a \in Attachments, Cut(a), reader' = Woken(reader)
  PROVE  WindowOf(a)'
<1>1. Live(a)' = <<>> /\ att'[a].step = "idle" /\ ~Held(a)
  BY DEF Cut
<1>2. Sent(a)' = {}
  BY <1>1, SeqsNone DEF Sent
<1>3. ~Held(a)' /\ ~Sending(a)'
  BY <1>1, WokenFlow DEF Held, Sending
<1>4. Charged(a)' = {}
  BY <1>2, <1>3 DEF Charged
<1>5. Rising(Live(a))' /\ Outgoing(Live(a))'
  BY <1>1 DEF Rising, Outgoing
<1>6. IsFiniteSet(Charged(a)') /\ Cardinality(Charged(a)') <= Window
  BY <1>4, FS_EmptySet, LimitAssumption
<1>. QED BY <1>2, <1>3, <1>4, <1>5, <1>6 DEF WindowOf

\* It takes an event: the chunk it then waits for is older than what stays.
LEMMA TakesWindow ==
  ASSUME Typing, NEW a \in Attachments, WindowOf(a), NEW e \in Event, Takes(a, e), UNCHANGED native
  PROVE  WindowOf(a)'
<1>. SUFFICES ASSUME att'[a].active PROVE WindowOf(a)'
  BY DEF WindowOf
<1>1. /\ Live(a) \in Seq(Event) /\ att[a].replay \in Seq(Event)
      /\ sub' = sub /\ inflight' = inflight /\ reader' = reader /\ ended' = ended
  BY LiveType DEF native
<1>2. /\ Outgoing(Live(a)) /\ Rising(Live(a))
      /\ \A s \in Sent(a), p \in Past(a) : p < s
      /\ Held(a) => \A s \in Sent(a) \cup Past(a) : s < reader.seq
      /\ IsFiniteSet(Charged(a)) /\ Cardinality(Charged(a)) <= Window
      /\ sub = a => Charged(a) \subseteq inflight
  BY DEF WindowOf, Takes
<1>3. Popping(a, e) /\ (att'[a].step # "idle" => e.kind = "output" /\ att'[a].now = e.seq)
  BY DEF Takes
<1>4. /\ Outgoing(Live(a))' /\ Rising(Live(a))' /\ Sent(a)' \subseteq Sent(a)
      /\ Past(a)' \subseteq Past(a) \cup Sent(a)
      /\ \A s \in Sent(a)', p \in Past(a)' : p < s
  <2>1. CASE att[a].replay # <<>> /\ Head(att[a].replay) = e /\ att'[a].replay = Tail(att[a].replay)
             /\ Live(a)' = Live(a)
    <3>1. Replay(a)' \subseteq Replay(a) /\ (e.kind = "output" => e.seq \in Replay(a))
      BY <1>1, <2>1, SeqsTail DEF Replay
    <3>2. Sent(a)' = Sent(a)
      BY <2>1 DEF Sent
    <3>3. Past(a)' \subseteq Past(a)
      BY <1>3, <3>1 DEF Past
    <3>4. Outgoing(Live(a))' /\ Rising(Live(a))'
      BY <1>1, <1>2, <2>1 DEF Outgoing, Rising
    <3>. QED BY <1>2, <3>2, <3>3, <3>4
  <2>2. CASE att[a].replay = <<>> /\ att'[a].replay = <<>> /\ Live(a) # <<>> /\ Head(Live(a)) = e
             /\ Live(a)' = Tail(Live(a))
    <3>1. /\ Rising(Tail(Live(a)))
          /\ e.kind = "output" => \A s \in SeqsOf(Tail(Live(a)), "output") : e.seq < s
      BY <1>1, <1>2, <2>2, RisingTail
    <3>2. /\ SeqsOf(Tail(Live(a)), "output") \subseteq Sent(a)
          /\ e.kind = "output" => e.seq \in Sent(a)
      BY <1>1, <2>2, SeqsTail DEF Sent
    <3>3. Sent(a)' = SeqsOf(Tail(Live(a)), "output") /\ Replay(a)' = {}
      BY <2>2, SeqsNone DEF Sent, Replay
    <3>4. Past(a)' \subseteq (IF e.kind = "output" THEN {e.seq} ELSE {})
      BY <1>3, <3>3 DEF Past
    <3>5. Rising(Live(a))'
      BY <2>2, <3>1 DEF Rising
    <3>6. Outgoing(Live(a))'
      <4>1. \A i \in DOMAIN Tail(Live(a)) : i + 1 \in DOMAIN Live(a) /\ Tail(Live(a))[i] = Live(a)[i + 1]
        BY <1>1, <2>2, OneLess
      <4>2. Outgoing(Tail(Live(a)))
        BY <1>2, <4>1 DEF Outgoing
      <4>. QED BY <1>1, <2>2, <4>2 DEF Outgoing
    <3>. QED BY <3>1, <3>2, <3>3, <3>4, <3>5, <3>6
  <2>. QED BY <1>3, <2>1, <2>2 DEF Popping
<1>5. (Held(a)' <=> Held(a)) /\ Charged(a)' \subseteq Charged(a)
  BY <1>1, <1>4 DEF Held, Charged, Sending
<1>6. IsFiniteSet(Charged(a)') /\ Cardinality(Charged(a)') <= Window
  BY <1>2, <1>5, LimitAssumption, FS_Subset, FS_CardinalityType
<1>7. Held(a)' => \A s \in (Sent(a) \cup Past(a))' : s < reader'.seq
  BY <1>1, <1>2, <1>4, <1>5
<1>. QED BY <1>1, <1>2, <1>4, <1>5, <1>6, <1>7 DEF WindowOf

\* The chunks of an attachment were printed.
LEMMA Printed ==
  ASSUME FlowInv, NEW a \in Attachments, att[a].active, NEW s \in Sent(a) \cup Past(a)
  PROVE  s \in Nat /\ s <= latest
<1>1. /\ Typing /\ Bounded(Queue(a)) /\ CountOf(a) /\ NumbersOf(a) /\ cursor <= latest
      /\ att[a].step \in {"idle", "write", "ack"}
  BY Numbers, Fields DEF FlowInv, Flow, FlowOf, Counts, Totals, Typing, TypeOK, ViewType
<1>. DEFINE x == att[a].replay
            y == Live(a)
<1>2. x \in Seq(Event) /\ y \in Seq(Event) /\ Queue(a) = x \o y
  BY <1>1, LiveType
<1>3. ASSUME NEW q \in {x, y}, NEW i \in DOMAIN q PROVE q[i].seq \in Nat /\ q[i].seq <= latest
  <2>. HIDE DEF x, y
  <2>1. q \in Seq(Event) /\ q[i] \in Event
    BY <1>2, <1>3
  <2>2. \E j \in DOMAIN (x \o y) : (x \o y)[j] = q[i]
    <3>1. CASE q = x
      BY <1>2, <1>3, <3>1, ConcatProperties
    <3>2. CASE q = y
      <4>1. /\ Len(x) + i \in 1 .. Len(x) + Len(y) /\ ~(Len(x) + i <= Len(x)) /\ (Len(x) + i) - Len(x) = i
            /\ Len(x) \in Nat /\ Len(y) \in Nat
        BY <1>2, <1>3, <3>2
      <4>2. Len(x \o y) = Len(x) + Len(y) /\ x \o y \in Seq(Event)
            /\ (x \o y)[Len(x) + i] = y[i]
        BY <1>2, <4>1, ConcatProperties
      <4>. QED BY <3>2, <4>1, <4>2
    <3>. QED BY <1>3, <3>1, <3>2
  <2>. QED BY <1>1, <1>2, <2>1, <2>2, EventType, BoundAssumption DEF Bounded
<1>4. CASE s \in SeqsOf(x, "output") \/ s \in SeqsOf(y, "output")
  BY <1>3, <1>4 DEF SeqsOf
<1>5. CASE att[a].step # "idle" /\ s = att[a].now
  BY <1>1, <1>5 DEF CountOf, NumbersOf
<1>. QED BY <1>4, <1>5 DEF Sent, Past, Replay

\* The reader has printed a chunk for it.
LEMMA ReadWindow ==
  ASSUME FlowInv, NEW a \in Attachments, WindowOf(a), ReadChunk
  PROVE  WindowOf(a)'
<1>1. /\ UNCHANGED <<sub, inflight, ended, chan, att>> /\ reader.pc = "read" /\ latest \in Nat
      /\ reader' = IF sub = Nobody THEN Reading ELSE [pc |-> "credit", seq |-> latest + 1, for |-> sub]
  BY BoundAssumption DEF ReadChunk, FlowInv, Typing, TypeOK, ShellType
<1>2. /\ ~Sending(a) /\ ~Sending(a)' /\ Reading.pc = "read"
      /\ Held(a)' => reader'.seq = latest + 1
  BY <1>1 DEF Sending, Held, Reading
<1>. SUFFICES ASSUME att'[a].active PROVE WindowOf(a)'
  BY DEF WindowOf
<1>3. Live(a)' = Live(a) /\ att'[a] = att[a] /\ att[a].active
  BY <1>1 DEF Live
<1>4. Sent(a)' = Sent(a) /\ Past(a)' = Past(a) /\ Charged(a)' = Charged(a)
  BY <1>2, <1>3 DEF Sent, Past, Replay, Charged
<1>5. \A s \in Sent(a) \cup Past(a) : s < latest + 1
  BY <1>1, <1>3, Printed
<1>6. /\ Outgoing(Live(a)) /\ Rising(Live(a))
      /\ \A s \in Sent(a), p \in Past(a) : p < s
      /\ IsFiniteSet(Charged(a)) /\ Cardinality(Charged(a)) <= Window
      /\ sub = a => Charged(a) \subseteq inflight
  BY <1>3 DEF WindowOf
<1>7. Outgoing(Live(a))' /\ Rising(Live(a))'
  BY <1>1, <1>3, <1>6 DEF Outgoing, Rising
<1>8. Held(a)' => \A s \in (Sent(a) \cup Past(a))' : s < reader'.seq
  BY <1>2, <1>4, <1>5
<1>. QED BY <1>1, <1>4, <1>6, <1>7, <1>8 DEF WindowOf

\* The reader reserves credit for a chunk only where the window has room for it.
LEMMA Reserved ==
  ASSUME FlowInv, ReserveCredit, InFlight
  PROVE  /\ UNCHANGED <<sub, ended, chan, att>> /\ reader.pc = "credit" /\ reader.for = sub
         /\ inflight' = inflight \cup {reader.seq} /\ reader' = [reader EXCEPT !.pc = "send"]
         /\ reader \in Reader /\ Window \in Nat
         /\ IsFiniteSet(inflight') /\ Cardinality(inflight') <= Window /\ Cardinality(inflight') \in Nat
<1>1. /\ UNCHANGED <<sub, ended, chan, att>> /\ reader.pc = "credit" /\ reader.for = sub
      /\ inflight' = inflight \cup {reader.seq} /\ reader' = [reader EXCEPT !.pc = "send"]
      /\ Cardinality(inflight) < Window /\ IsFiniteSet(inflight) /\ reader \in Reader /\ Window \in Nat
  BY LimitAssumption DEF ReserveCredit, InFlight, FlowInv, Typing, TypeOK, ShellType
<1>2. /\ IsFiniteSet(inflight \cup {reader.seq}) /\ Cardinality(inflight) \in Nat
      /\ Cardinality(inflight \cup {reader.seq}) =
           IF reader.seq \in inflight THEN Cardinality(inflight) ELSE Cardinality(inflight) + 1
  BY <1>1, FS_AddElement, FS_CardinalityType
<1>. QED BY <1>1, <1>2

\* The attachment it reserves for keeps its window, and so do the others.
LEMMA ReserveWindow ==
  ASSUME FlowInv, NEW a \in Attachments, WindowOf(a), ReserveCredit, InFlight
  PROVE  WindowOf(a)'
<1>1. /\ UNCHANGED <<sub, ended, chan, att>> /\ reader.pc = "credit" /\ reader.for = sub
      /\ inflight' = inflight \cup {reader.seq} /\ reader' = [reader EXCEPT !.pc = "send"]
      /\ reader \in Reader /\ Window \in Nat
  BY Reserved
<1>2. IsFiniteSet(inflight') /\ Cardinality(inflight') <= Window /\ Cardinality(inflight') \in Nat
  BY Reserved
<1>3. reader'.pc = "send" /\ reader'.seq = reader.seq /\ reader'.for = reader.for
  BY <1>1 DEF Reader
<1>4. att'[a].active => Kept(a)
  BY <1>1, SameMoves
<1>5. CASE sub # a
  <2>1. ReaderKept(a) /\ CreditKept(a) /\ EndKept
    BY <1>1, <1>3, <1>5 DEF ReaderKept, CreditKept, EndKept, Held, Sending
  <2>. QED BY <1>2, <1>4, <2>1, KeptWindow DEF WindowOf
<1>6. CASE sub = a
  <2>. SUFFICES ASSUME att'[a].active PROVE WindowOf(a)'
    BY DEF WindowOf
  <2>1. Live(a)' = Live(a) /\ att'[a] = att[a] /\ att[a].active
    BY <1>1 DEF Live
  <2>2. Sent(a)' = Sent(a) /\ Past(a)' = Past(a)
    BY <2>1 DEF Sent, Past, Replay
  <2>3. ~Sending(a) /\ Held(a)
    BY <1>1, <1>6 DEF Sending, Held
  <2>4. /\ Outgoing(Live(a)) /\ Rising(Live(a))
        /\ \A s \in Sent(a), p \in Past(a) : p < s
        /\ \A s \in Sent(a) \cup Past(a) : s < reader.seq
        /\ Sent(a) \subseteq inflight
    BY <1>6, <2>1, <2>3 DEF WindowOf, Charged
  <2>5. Charged(a)' \subseteq inflight'
    BY <1>1, <1>3, <2>2, <2>4 DEF Charged
  <2>6. IsFiniteSet(Charged(a)') /\ Cardinality(Charged(a)') <= Window
    <3>1. /\ IsFiniteSet(Charged(a)') /\ Cardinality(Charged(a)') <= Cardinality(inflight')
          /\ Cardinality(Charged(a)') \in Nat
      BY <1>2, <2>5, FS_Subset, FS_CardinalityType
    <3>. QED BY <1>1, <1>2, <3>1
  <2>7. Outgoing(Live(a))' /\ Rising(Live(a))'
    BY <1>1, <2>1, <2>4 DEF Outgoing, Rising
  <2>. QED BY <1>3, <2>2, <2>4, <2>5, <2>6, <2>7 DEF WindowOf
<1>. QED BY <1>5, <1>6

\* The reader sends the chunk: it is newer than all that was sent.
LEMMA SendWindow ==
  ASSUME FlowInv, NEW a \in Attachments, WindowOf(a), NEW x \in Event, att'[a].active => Sends(a, x),
         \/ SendChunk /\ a = reader.for /\ x.kind = "output" /\ x.seq = reader.seq /\ reader.pc = "send"
         \/ SendEnded /\ a = sub /\ x.kind = "ended" /\ x.seq = 0
  PROVE  WindowOf(a)'
<1>. SUFFICES ASSUME att'[a].active PROVE WindowOf(a)'
  BY DEF WindowOf
<1>1. /\ Live(a) \in Seq(Event) /\ att[a].active /\ att'[a] = att[a] /\ Live(a)' = Append(Live(a), x)
      /\ sub' = sub /\ inflight' = inflight /\ Typing
  BY LiveType DEF Sends, SendChunk, SendEnded, FlowInv
<1>2. /\ Outgoing(Live(a)) /\ Rising(Live(a))
      /\ \A s \in Sent(a), p \in Past(a) : p < s
      /\ Held(a) => \A s \in Sent(a) \cup Past(a) : s < reader.seq
      /\ IsFiniteSet(Charged(a)) /\ Cardinality(Charged(a)) <= Window
      /\ sub = a => Charged(a) \subseteq inflight
  BY <1>1 DEF WindowOf
<1>3. Past(a)' = Past(a) /\ Sent(a)' = Sent(a) \cup (IF x.kind = "output" THEN {x.seq} ELSE {})
  BY <1>1, SeqsAppend DEF Past, Replay, Sent
<1>4. \A i \in DOMAIN Live(a) : /\ Live(a)[i] \in Event
                                /\ Live(a)[i].kind = "output" => Live(a)[i].seq \in Sent(a) /\ Live(a)[i].seq \in Chunks
                                /\ Live(a)[i].kind # "output" => Live(a)[i].kind = "ended" /\ Live(a)[i].seq = 0
                                                                 /\ ended = "sent"
  <2>1. \A i \in DOMAIN Live(a) : Live(a)[i] \in Event
    BY <1>1
  <2>2. \A i \in DOMAIN Live(a) : Live(a)[i].kind = "output" => Live(a)[i].seq \in Sent(a)
    BY InSeqs DEF Sent
  <2>. QED BY <1>2, <2>1, <2>2 DEF Outgoing, Event
<1>5. \A i \in DOMAIN Append(Live(a), x) : \/ i \in DOMAIN Live(a) /\ Append(Live(a), x)[i] = Live(a)[i]
                                           \/ Append(Live(a), x)[i] = x
  BY <1>1
<1>6. CASE SendChunk /\ a = reader.for /\ x.kind = "output" /\ x.seq = reader.seq /\ reader.pc = "send"
  <2>1. /\ Held(a) /\ Sending(a) /\ reader' = Reading /\ ended' = ended /\ reader.seq \in Chunks
        /\ Reading.pc = "read"
    BY <1>1, <1>6 DEF SendChunk, Held, Sending, Reading, Typing, Busy
  <2>2. ~Held(a)' /\ ~Sending(a)'
    BY <2>1 DEF Held, Sending
  <2>3. Charged(a)' = Charged(a)
    BY <1>3, <1>6, <2>1, <2>2 DEF Charged
  <2>4. Rising(Append(Live(a), x))
    <3>1. \A i \in DOMAIN Live(a) : /\ Live(a)[i].seq # x.seq
                                    /\ Live(a)[i].kind = "output" /\ x.kind = "output" => Live(a)[i].seq < x.seq
      <4>. TAKE i \in DOMAIN Live(a)
      <4>1. Live(a)[i].kind = "output" => Live(a)[i].seq < reader.seq /\ Live(a)[i].seq \in Nat
        BY <1>2, <1>4, <2>1, BoundAssumption DEF Chunks
      <4>2. Live(a)[i].kind # "output" => Live(a)[i].seq = 0
        BY <1>4
      <4>3. reader.seq \in Nat /\ reader.seq > 0
        BY <2>1, BoundAssumption DEF Chunks
      <4>. QED BY <1>6, <4>1, <4>2, <4>3
    <3>. QED BY <1>1, <1>2, <3>1, RisingAppend
  <2>5. Outgoing(Live(a))' /\ Rising(Live(a))'
    <3>1. Outgoing(Live(a))'
      BY <1>1, <1>4, <1>5, <1>6, <2>1 DEF Outgoing
    <3>2. Rising(Live(a))'
      BY <1>1, <2>4 DEF Rising
    <3>. QED BY <3>1, <3>2
  <2>6. \A s \in Sent(a)', p \in Past(a)' : p < s
    BY <1>2, <1>3, <1>6, <2>1
  <2>. QED BY <1>1, <1>2, <2>2, <2>3, <2>5, <2>6 DEF WindowOf
<1>7. CASE SendEnded /\ a = sub /\ x.kind = "ended" /\ x.seq = 0
  <2>1. reader' = reader /\ ended = "set" /\ ended' = "sent"
    BY <1>7 DEF SendEnded
  <2>2. Sent(a)' = Sent(a) /\ (Held(a)' <=> Held(a))
    BY <1>3, <1>7, <2>1 DEF Held
  <2>3. Charged(a)' = Charged(a)
    BY <2>1, <2>2 DEF Charged, Sending
  <2>4. \A i \in DOMAIN Live(a) : Live(a)[i].kind = "output" /\ Live(a)[i].seq # 0
    BY <1>4, <2>1, BoundAssumption DEF Chunks
  <2>5. Rising(Append(Live(a), x))
    BY <1>1, <1>2, <1>7, <2>4, RisingAppend
  <2>6. Outgoing(Live(a))' /\ Rising(Live(a))'
    <3>1. Outgoing(Live(a))'
      BY <1>1, <1>4, <1>5, <1>7, <2>1 DEF Outgoing
    <3>2. Rising(Live(a))'
      BY <1>1, <2>5 DEF Rising
    <3>. QED BY <3>1, <3>2
  <2>. QED BY <1>1, <1>2, <1>3, <2>1, <2>2, <2>3, <2>6 DEF WindowOf
<1>. QED BY <1>6, <1>7

-----------------------------------------------------------------------------
(* The acknowledgements.                                                   *)

\* A step that takes no attachment's chunk while its acknowledgement is on its way.
LEMMA AcksKept ==
  ASSUME Typing, Acks, \A b \in Attachments : att[b].step = "ack" => att'[b].now = att[b].now,
         \A i \in DOMAIN calls' : calls'[i].op = "ack" =>
           (\E j \in DOMAIN calls : calls'[i] = calls[j]) \/ calls'[i].seq = att'[calls'[i].id].now
  PROVE  Acks'
<1>1. \A j \in DOMAIN calls : calls[j].op = "ack" =>
        /\ calls[j].seq = att[calls[j].id].now /\ att[calls[j].id].step = "ack" /\ calls[j].id \in Attachments
  BY CallIds DEF Acks, Typing, Waits
<1>2. ASSUME NEW i \in DOMAIN calls', calls'[i].op = "ack" PROVE calls'[i].seq = att'[calls'[i].id].now
  <2>1. CASE \E j \in DOMAIN calls : calls'[i] = calls[j]
    BY <1>1, <1>2, <2>1
  <2>. QED BY <1>2, <2>1
<1>. QED BY <1>2 DEF Acks

\* A stale chunk is acknowledged by its number, and is the one its attachment waits for then.
LEMMA AcksTaken ==
  ASSUME FlowInv, NEW a \in Attachments, Consume(a) \/ Attached(a)
  PROVE  /\ att[a].step = "idle" /\ \A b \in Attachments : b # a => att'[b] = att[b]
         /\ \A i \in DOMAIN calls' : \/ i \in DOMAIN calls /\ calls'[i] = calls[i]
                                     \/ calls'[i].op = "detach"
                                     \/ calls'[i].id = a /\ calls'[i].seq = att'[a].now
<1>1. /\ Typing /\ att \in [Attachments -> Attachment] /\ att[a] \in Attachment /\ calls \in Seq(Call)
  BY DEF FlowInv, Typing, TypeOK, ViewType, WireType
<1>2. CASE Consume(a)
  <2>. DEFINE e == Head(Pending(att[a]))
              n == Consumed(att[a])
  <2>1. /\ att[a].step = "idle" /\ Pending(att[a]) # <<>> /\ Applied(a, e)
        /\ calls' = calls \o StaleAck(a, e) /\ att' = [att EXCEPT ![a] = n]
    BY <1>2 DEF Consume
  <2>2. e \in Event /\ (e.kind = "output" => n.now = e.seq)
    BY <1>1, <2>1, ConsumedType
  <2>. HIDE DEF n, e
  <2>3. att'[a] = n /\ \A b \in Attachments : b # a => att'[b] = att[b]
    BY <1>1, <2>1
  <2>4. StaleAck(a, e) \in Seq(Call) /\ <<>> \in Seq(Call) /\ Len(<<>>) = 0
    BY <1>1, <2>1, <2>2, AppliedType DEF Typing, TypeOK
  <2>5. calls \o StaleAck(a, e) \in Seq(Call)
    BY <1>1, <2>4, Concatenation
  <2>6. calls' = (calls \o StaleAck(a, e)) \o <<>>
    BY <2>1, <2>5, Concatenation
  <2>7. \A i \in DOMAIN calls' : \/ i \in DOMAIN calls /\ calls'[i] = calls[i]
                                 \/ calls'[i].op = "detach"
                                 \/ Stale(a, e) /\ calls'[i].id = a /\ calls'[i].seq = e.seq
    <3>. DEFINE x == <<>>
    <3>1. x \in Seq(Call) /\ Len(x) <= 1 /\ (Len(x) = 1 => x[1].op = "detach") /\ calls' = (calls \o StaleAck(a, e)) \o x
      BY <2>4, <2>6
    <3>. HIDE DEF x
    <3>. QED BY <1>1, <2>2, <3>1, TakenCalls
  <2>. QED BY <2>1, <2>2, <2>3, <2>7 DEF Stale
<1>3. CASE Attached(a)
  <2>. DEFINE r    == [att[a] EXCEPT !.st = "open"]
              next == IF r.replay = <<>> THEN r ELSE Consumed(r)
              e    == Head(r.replay)
              acks == IF r.replay = <<>> THEN <<>> ELSE StaleAck(a, e)
              x    == IF surface = a THEN <<>> ELSE <<Detach(a)>>
              n    == IF surface = a THEN next ELSE Disposed(next)
  <2>1. /\ att' = [att EXCEPT ![a] = n] /\ calls' = (calls \o acks) \o x
        /\ att[a].step = "idle"
    <3>1. att[a].st = "replied" /\ att' = [att EXCEPT ![a] = n] /\ calls' = (calls \o acks) \o x
      BY <1>3 DEF Attached
    <3>2. att[a].step = "idle"
      BY <1>1, <3>1 DEF Typing, Waits
    <3>. QED BY <3>1, <3>2
  <2>2. r \in Attachment /\ (Pending(r) = r.replay)
    <3>1. ~att[a].started
      BY <1>1, <1>3 DEF Attached, Typing, Waits
    <3>. QED BY <1>1, <3>1 DEF Attachment, Pending
  <2>3. x \in Seq(Call) /\ Len(x) <= 1 /\ (Len(x) = 1 => x[1].op = "detach")
    BY CallType
  <2>. HIDE DEF r, x, e
  <2>4. next \in Attachment /\ (r.replay # <<>> => e \in Event /\ (e.kind = "output" => next.now = e.seq))
    BY <2>2, ConsumedType DEF e
  <2>. HIDE DEF next
  <2>5. n.now = next.now
    BY <2>4, DisposedType
  <2>. HIDE DEF n
  <2>6. att'[a] = n /\ \A b \in Attachments : b # a => att'[b] = att[b]
    BY <1>1, <2>1
  <2>7. CASE r.replay = <<>>
    <3>1. calls' = calls \o x
      BY <1>1, <2>1, <2>7, Concatenation
    <3>2. \A i \in DOMAIN calls' : (i \in DOMAIN calls /\ calls'[i] = calls[i]) \/ calls'[i].op = "detach"
      BY <1>1, <2>3, <3>1, Longer
    <3>. QED BY <2>1, <2>6, <3>2
  <2>8. CASE r.replay # <<>>
    <3>1. e \in Event /\ calls' = (calls \o StaleAck(a, e)) \o x
      BY <2>1, <2>4, <2>8
    <3>2. \A i \in DOMAIN calls' : \/ i \in DOMAIN calls /\ calls'[i] = calls[i]
                                   \/ calls'[i].op = "detach"
                                   \/ Stale(a, e) /\ calls'[i].id = a /\ calls'[i].seq = e.seq
      BY <1>1, <2>3, <3>1, TakenCalls
    <3>. QED BY <2>1, <2>4, <2>5, <2>6, <2>8, <3>2 DEF Stale
  <2>. QED BY <2>7, <2>8
<1>. QED BY <1>2, <1>3

\* Every step keeps the acknowledgements on their way true to what is waited for.
LEMMA AcksStep ==
  ASSUME FlowInv, Acks, [Next]_vars
  PROVE  Acks'
<1>1. /\ Typing /\ att \in [Attachments -> Attachment] /\ calls \in Seq(Call)
      /\ \A b \in Attachments : att[b] \in Attachment
  BY DEF FlowInv, Typing, TypeOK, ViewType, WireType
<1>0. ASSUME NEW a \in Attachments, NEW r, att' = [att EXCEPT ![a] = r], r.now = att[a].now
      PROVE  \A b \in Attachments : att'[b].now = att[b].now
  BY <1>0, <1>1
<1>2. CASE ReaderStep \/ Finalize \/ SendEnded \/ CloseStream \/ CloseEntry \/ UNCHANGED vars
  <2>1. UNCHANGED <<att, calls>>
    BY <1>2 DEF ReaderStep, ReadChunk, SkipReplaced, ReserveCredit, WaitForCredit, SendChunk,
                Finalize, SendEnded, CloseStream, CloseEntry, vars
  <2>. QED BY <2>1 DEF Acks
<1>3. ASSUME calls # <<>>, calls' = Tail(calls)
      PROVE  \A i \in DOMAIN calls' : \E j \in DOMAIN calls : calls'[i] = calls[j]
  BY <1>1, <1>3, OneLess
<1>4. ASSUME NEW a \in Attachments, RunAttach(a) PROVE Acks'
  <2>. DEFINE r == [att[a] EXCEPT !.st = "subscribed", !.replay = Replayed(Head(calls).seq)]
  <2>1. att' = [att EXCEPT ![a] = r] /\ calls' = calls
    BY <1>1, <1>4 DEF RunAttach
  <2>2. r.now = att[a].now
    BY <1>1 DEF Attachment
  <2>. HIDE DEF r
  <2>3. \A b \in Attachments : att'[b].now = att[b].now
    BY <1>1, <2>1, <2>2
  <2>. QED BY <1>1, <2>1, <2>3, AcksKept
<1>5. ASSUME NEW a \in Attachments, ReplyAttach(a) \/ RefuseAttach(a) PROVE Acks'
  <2>1. calls # <<>> /\ calls' = Tail(calls) /\ \A b \in Attachments : att'[b].now = att[b].now
    <3>1. calls # <<>> /\ calls' = Tail(calls)
      BY <1>5 DEF ReplyAttach, RefuseAttach, HeadIs
    <3>2. CASE ReplyAttach(a)
      <4>. DEFINE r == [att[a] EXCEPT !.st = "replied", !.ended = (ended # "no")]
      <4>1. att' = [att EXCEPT ![a] = r]
        BY <1>1, <3>2 DEF ReplyAttach
      <4>2. r.now = att[a].now
        BY <1>1 DEF Attachment
      <4>. HIDE DEF r
      <4>. QED BY <1>0, <3>1, <4>1, <4>2
    <3>3. CASE RefuseAttach(a)
      <4>. DEFINE r == [att[a] EXCEPT !.st = "failed", !.active = FALSE, !.raw = <<>>]
      <4>1. att' = [att EXCEPT ![a] = r]
        BY <1>1, <3>3 DEF RefuseAttach
      <4>2. r.now = att[a].now
        BY <1>1 DEF Attachment
      <4>. HIDE DEF r
      <4>. QED BY <1>0, <3>1, <4>1, <4>2
    <3>. QED BY <1>5, <3>1, <3>2, <3>3
  <2>. QED BY <1>1, <1>3, <2>1, AcksKept
<1>6. ASSUME NEW a \in Attachments, RunAck(a) PROVE Acks'
  <2>1. /\ 1 \in DOMAIN calls /\ calls[1].op = "ack" /\ calls[1].id = a
        /\ \A i \in DOMAIN calls' : i + 1 \in DOMAIN calls /\ i + 1 # 1 /\ calls'[i] = calls[i + 1] /\ i \in Nat
    BY <1>1, <1>6, OneLess DEF RunAck, HeadIs
  <2>2. \A b \in Attachments : b # a => att'[b] = att[b]
    BY <1>1, <1>6 DEF RunAck
  <2>3. ASSUME NEW i \in DOMAIN calls', calls'[i].op = "ack" PROVE calls'[i].seq = att'[calls'[i].id].now
    <3>1. calls[i + 1].id # a /\ calls[i + 1].id \in Attachments
      BY <1>1, <2>1, <2>3, CallIds DEF Typing, Waits
    <3>. QED BY <2>1, <2>2, <2>3, <3>1 DEF Acks
  <2>. QED BY <2>3 DEF Acks
<1>7. ASSUME NEW a \in Attachments, RunDetach(a) PROVE Acks'
  <2>1. calls # <<>> /\ calls' = Tail(calls) /\ att' = att
    BY <1>7 DEF RunDetach, HeadIs
  <2>. QED BY <1>1, <1>3, <2>1, AcksKept
<1>8. ASSUME NEW a \in Attachments, Consume(a) \/ Attached(a) PROVE Acks'
  <2>1. \A b \in Attachments : att[b].step = "ack" => att'[b].now = att[b].now
    BY <1>8, AcksTaken
  <2>2. \A i \in DOMAIN calls' : calls'[i].op = "ack" =>
           (\E j \in DOMAIN calls : calls'[i] = calls[j]) \/ calls'[i].seq = att'[calls'[i].id].now
    BY <1>8, AcksTaken
  <2>. QED BY <1>1, <2>1, <2>2, AcksKept
<1>9. ASSUME NEW a \in Attachments, Start(a) \/ Receive(a) PROVE Acks'
  <2>1. calls' = calls
    BY <1>9 DEF Start, Receive
  <2>2. \A b \in Attachments : att'[b].now = att[b].now
    <3>2. CASE Start(a)
      <4>. DEFINE r == [att[a] EXCEPT !.started = TRUE, !.pend = @ \o att[a].raw, !.raw = <<>>]
      <4>1. att' = [att EXCEPT ![a] = r]
        BY <1>1, <3>2 DEF Start
      <4>2. r.now = att[a].now
        BY <1>1 DEF Attachment
      <4>. HIDE DEF r
      <4>. QED BY <1>0, <4>1, <4>2
    <3>3. CASE Receive(a)
      <4>1. CASE ~att[a].active
        BY <3>3, <4>1 DEF Receive
      <4>2. CASE att[a].active /\ att[a].started
        <5>. DEFINE r == [att[a] EXCEPT !.pend = Append(@, Head(chan[a]))]
        <5>1. att' = [att EXCEPT ![a] = r]
          BY <1>1, <3>3, <4>2 DEF Receive
        <5>2. r.now = att[a].now
          BY <1>1 DEF Attachment
        <5>. HIDE DEF r
        <5>. QED BY <1>0, <5>1, <5>2
      <4>3. CASE att[a].active /\ ~att[a].started
        <5>. DEFINE r == [att[a] EXCEPT !.raw = Append(@, Head(chan[a]))]
        <5>1. att' = [att EXCEPT ![a] = r]
          BY <1>1, <3>3, <4>3 DEF Receive
        <5>2. r.now = att[a].now
          BY <1>1 DEF Attachment
        <5>. HIDE DEF r
        <5>. QED BY <1>0, <5>1, <5>2
      <4>. QED BY <4>1, <4>2, <4>3
    <3>. QED BY <1>9, <3>2, <3>3
  <2>. QED BY <1>1, <2>1, <2>2, AcksKept
<1>10. ASSUME NEW a \in Attachments, Written(a) PROVE Acks'
  <2>1. att[a].step = "write"
    <3>1. 1 \in DOMAIN writes /\ writes[1] = a
      BY <1>1, <1>10, OneLess DEF Written, Typing, TypeOK, ViewType
    <3>. QED BY <1>1, <3>1 DEF Typing, Waits
  <2>. DEFINE c == [op |-> "ack", id |-> a, seq |-> att[a].now]
  <2>2. CASE att[a].active
    <3>1. c \in Call
      BY <1>1, <2>1 DEF Call, Typing, Waits
    <3>2. calls' = Append(calls, c) /\ att' = [att EXCEPT ![a].step = "ack"]
      BY <1>10, <2>2 DEF Written
    <3>3. \A b \in Attachments : att'[b].now = att[b].now
      BY <1>1, <3>2 DEF Attachment
    <3>4. c.id = a /\ c.seq = att'[a].now
      BY <3>3
    <3>. HIDE DEF c
    <3>5. \A i \in DOMAIN calls' : (i \in DOMAIN calls /\ calls'[i] = calls[i]) \/ calls'[i] = c
      BY <1>1, <3>1, <3>2, OneMore
    <3>. QED BY <1>1, <3>3, <3>4, <3>5, AcksKept
  <2>3. CASE ~att[a].active
    <3>1. calls' = calls /\ \A b \in Attachments : b # a => att'[b] = att[b]
      BY <1>1, <1>10, <2>3 DEF Written
    <3>. QED BY <1>1, <2>1, <3>1, AcksKept
  <2>. QED BY <2>2, <2>3
<1>11. ASSUME NEW a \in Attachments, Mount(a) PROVE Acks'
  <2>1. att[a].step = "idle" /\ \A b \in Attachments : b # a => att'[b] = att[b]
    <3>1. att[a].st = "none" /\ \A b \in Attachments : b # a => att'[b] = att[b]
      BY <1>1, <1>11, MountTyping
    <3>. QED BY <1>1, <3>1 DEF Typing, Waits
  <2>2. \A i \in DOMAIN calls' : (i \in DOMAIN calls /\ calls'[i] = calls[i]) \/ calls'[i].op = "attach"
    BY <1>1, <1>11, MountTyping
  <2>. QED BY <1>1, <2>1, <2>2, AcksKept
<1>12. CASE Unmount
  <2>1. \A i \in DOMAIN calls' : (i \in DOMAIN calls /\ calls'[i] = calls[i]) \/ calls'[i].op = "detach"
    BY <1>1, <1>12, UnmountTyping
  <2>2. \A b \in Attachments : att'[b].now = att[b].now
    BY <1>1, <1>12, UnmountTyping, DisposedType DEF Unmount
  <2>. QED BY <1>1, <2>1, <2>2, AcksKept
<1>. QED BY <1>2, <1>4, <1>5, <1>6, <1>7, <1>8, <1>9, <1>10, <1>11, <1>12 DEF Next, Command, View

-----------------------------------------------------------------------------
(* Every step.                                                             *)

\* The steps that leave the shell's threads alone.
LEMMA ViewWindow ==
  ASSUME FlowInv, \A b \in Attachments : WindowOf(b), UNCHANGED native,
         \A b \in Attachments : att'[b].active => Kept(b) \/ Mounted(b) \/ \E e \in Event : Takes(b, e)
  PROVE  \A b \in Attachments : WindowOf(b)'
<1>. TAKE b \in Attachments
<1>1. Typing /\ WindowOf(b)
  BY DEF FlowInv
<1>2. CASE Kept(b)
  <2>1. Charged(b)' = Charged(b)
    BY <1>2 DEF Kept, Sent, Charged, Sending, native
  <2>2. ReaderKept(b) /\ EndKept
    BY DEF ReaderKept, EndKept, Held, Sending, native
  <2>3. CreditKept(b)
    BY <1>1, <1>2, <2>1 DEF CreditKept, WindowOf, Kept, native
  <2>. QED BY <1>1, <1>2, <2>2, <2>3, KeptWindow
<1>3. CASE Mounted(b)
  BY <1>1, <1>3, MountedWindow
<1>4. ASSUME NEW e \in Event, Takes(b, e) PROVE WindowOf(b)'
  BY <1>1, <1>4, TakesWindow
<1>5. CASE ~att'[b].active
  BY <1>5 DEF WindowOf
<1>. QED BY <1>2, <1>3, <1>4, <1>5

\* What the reader does between its chunks keeps what it has for whom.
LEMMA ReaderMoves ==
  ASSUME Typing,
         \/ reader' \in {reader, Woken(reader), Reading}
         \/ WaitForCredit
  PROVE  \A b \in Attachments : ReaderKept(b)
<1>1. reader \in Reader /\ Reading.pc = "read"
  BY DEF Typing, TypeOK, ShellType, Reading
<1>. TAKE b \in Attachments
<1>2. CASE reader' = reader
  BY <1>2 DEF ReaderKept, Held, Sending
<1>3. CASE reader' = Woken(reader)
  BY <1>3, WokenFlow DEF ReaderKept, Held, Sending
<1>4. CASE reader' = Reading
  BY <1>1, <1>4 DEF ReaderKept, Held, Sending
<1>5. CASE WaitForCredit
  BY <1>1, <1>5 DEF WaitForCredit, Reader, ReaderKept, Held, Sending
<1>. QED BY <1>2, <1>3, <1>4, <1>5

\* The steps that leave the queues alone and take credit from nobody who is still the subscriber.
LEMMA ShellWindow ==
  ASSUME FlowInv, \A b \in Attachments : WindowOf(b), UNCHANGED <<att, chan>>, EndKept,
         \A b \in Attachments : ReaderKept(b),
         (sub' = sub /\ inflight' = inflight) \/ sub' = Nobody
  PROVE  \A b \in Attachments : WindowOf(b)'
<1>. TAKE b \in Attachments
<1>. SUFFICES ASSUME att'[b].active PROVE WindowOf(b)'
  BY DEF WindowOf
<1>1. Typing /\ WindowOf(b) /\ Kept(b) /\ b # Nobody
  BY SameMoves, NobodyAssumption DEF FlowInv
<1>2. ReaderKept(b)
  OBVIOUS
<1>3. Charged(b)' \subseteq Charged(b)
  BY <1>1, <1>2 DEF Kept, Sent, Charged, ReaderKept
<1>4. CreditKept(b)
  BY <1>1, <1>3 DEF CreditKept, WindowOf, Kept
<1>. QED BY <1>1, <1>2, <1>4, KeptWindow

\* The acknowledgement releases nothing that is still charged.
LEMMA AckWindow ==
  ASSUME FlowInv, Acks, \A b \in Attachments : WindowOf(b), NEW a \in Attachments, RunAck(a),
         \A b \in Attachments : att'[b].active => Kept(b)
  PROVE  \A b \in Attachments : WindowOf(b)'
<1>. DEFINE s == Head(calls).seq
<1>1. /\ Typing /\ UNCHANGED <<sub, ended, latest>> /\ s = att[a].now /\ att[a].step = "ack" /\ s \in Nat
  <2>1. 1 \in DOMAIN calls /\ Head(calls) = calls[1] /\ calls[1].op = "ack" /\ calls[1].id = a
    BY OneLess DEF RunAck, HeadIs, FlowInv, Typing, TypeOK, WireType
  <2>2. att[a].step = "ack" /\ Typing /\ UNCHANGED <<sub, ended, latest>>
    BY <2>1 DEF RunAck, FlowInv, Typing, Waits
  <2>3. att[a].now \in Nat
    BY <2>2, Numbers DEF NumbersOf
  <2>. QED BY <2>1, <2>2, <2>3 DEF Acks
<1>2. /\ reader' \in {reader, Woken(reader)}
      /\ inflight' = inflight \/ (sub = a /\ inflight' = Released(s))
  BY DEF RunAck
<1>. HIDE DEF s
<1>. TAKE b \in Attachments
<1>. SUFFICES ASSUME att'[b].active PROVE WindowOf(b)'
  BY DEF WindowOf
<1>3. WindowOf(b) /\ Kept(b)
  OBVIOUS
<1>4. ReaderKept(b) /\ EndKept
  BY <1>1, <1>2, WokenFlow DEF ReaderKept, Held, Sending, EndKept
<1>5. Charged(b)' \subseteq Charged(b)
  BY <1>3, <1>4 DEF Kept, Sent, Charged, ReaderKept
<1>6. ASSUME sub = b PROVE Charged(b) \subseteq inflight'
  <2>1. Charged(b) \subseteq inflight
    BY <1>3, <1>6 DEF WindowOf, Kept
  <2>2. CASE inflight' = Released(s) /\ sub = a
    <3>1. s \in Past(b) /\ a = b
      BY <1>1, <1>6, <2>2 DEF Past
    <3>2. \A c \in Sent(b) : s < c
      BY <1>3, <3>1 DEF WindowOf, Kept
    <3>3. Sending(b) => s < reader.seq
      BY <1>3, <3>1 DEF WindowOf, Kept, Sending, Held
    <3>4. \A c \in Charged(b) : c > s
      <4>1. \A c \in Sent(b) : c > s
        BY <3>2
      <4>2. Sending(b) => reader.seq > s
        BY <3>3
      <4>. QED BY <4>1, <4>2 DEF Charged
    <3>. QED BY <2>1, <2>2, <3>4 DEF Released
  <2>. QED BY <1>2, <2>1, <2>2
<1>7. CreditKept(b)
  BY <1>1, <1>5, <1>6 DEF CreditKept
<1>. QED BY <1>3, <1>4, <1>7, KeptWindow

\* attach takes the stream from every other attachment.
LEMMA AttachWindow ==
  ASSUME FlowInv, \A b \in Attachments : Shut(b), \A b \in Attachments : WindowOf(b),
         NEW a \in Attachments, RunAttach(a)
  PROVE  \A b \in Attachments : WindowOf(b)'
<1>1. /\ Typing /\ Cut(a) /\ sub' = a /\ reader' = Woken(reader) /\ ended' = ended
      /\ \A b \in Attachments : b # a => att'[b] = att[b] /\ chan'[b] = chan[b]
  BY CutMoves DEF RunAttach, FlowInv
<1>. TAKE b \in Attachments
<1>2. CASE b = a
  BY <1>1, <1>2, CutWindow
<1>3. CASE b # a
  <2>1. att'[b].active => Kept(b)
    BY <1>1, <1>3, SameMoves
  <2>2. ReaderKept(b) /\ CreditKept(b) /\ EndKept
    BY <1>1, <1>3, ReaderMoves DEF CreditKept, EndKept
  <2>. QED BY <2>1, <2>2, KeptWindow DEF WindowOf
<1>. QED BY <1>2, <1>3

\* What is sent to one attachment is sent to no other.
LEMMA SendsWindow ==
  ASSUME FlowInv, \A b \in Attachments : Shut(b), \A b \in Attachments : WindowOf(b),
         SendChunk \/ (SendEnded /\ sub # Nobody)
  PROVE  \A b \in Attachments : WindowOf(b)'
<1>1. PICK a \in Attachments, x \in Event :
        /\ att'[a].active => Sends(a, x)
        /\ \A b \in Attachments : b # a => att'[b] = att[b] /\ chan'[b] = chan[b]
        /\ \/ SendChunk /\ a = reader.for /\ x.kind = "output" /\ x.seq = reader.seq /\ reader.pc = "send"
           \/ SendEnded /\ a = sub /\ x.kind = "ended" /\ x.seq = 0
  BY SendMoves
<1>2. Typing /\ sub' = sub /\ inflight' = inflight /\ EndKept /\ reader' \in {reader, Reading}
  BY DEF SendChunk, SendEnded, FlowInv, EndKept
<1>. TAKE b \in Attachments
<1>3. CASE b = a
  BY <1>1, <1>3, SendWindow
<1>4. CASE b # a
  <2>. SUFFICES ASSUME att'[b].active PROVE WindowOf(b)'
    BY DEF WindowOf
  <2>1. Kept(b) /\ WindowOf(b)
    BY <1>1, <1>4, SameMoves
  <2>2. ReaderKept(b)
    BY <1>2, ReaderMoves
  <2>3. Charged(b)' \subseteq Charged(b)
    BY <2>1, <2>2 DEF Kept, Sent, Charged, ReaderKept
  <2>4. CreditKept(b)
    BY <1>2, <2>1, <2>3 DEF CreditKept, WindowOf, Kept
  <2>. QED BY <1>2, <2>1, <2>2, <2>4, KeptWindow
<1>. QED BY <1>3, <1>4

\* The window is never overdrawn.
LEMMA InFlightStep ==
  ASSUME FlowInv, InFlight, [Next]_vars, ~ReserveCredit
  PROVE  InFlight'
<1>1. inflight' \subseteq inflight
  <2>1. CASE ReaderStep \/ Finalize \/ SendEnded \/ CloseStream \/ CloseEntry \/ UNCHANGED vars
    BY <2>1 DEF ReaderStep, ReadChunk, SkipReplaced, WaitForCredit, SendChunk, Finalize, SendEnded, CloseStream, CloseEntry, vars
  <2>2. ASSUME NEW a \in Attachments, Command(a) PROVE inflight' \subseteq inflight
    <3>1. CASE RunAttach(a) \/ RunDetach(a)
      BY <3>1 DEF RunAttach, RunDetach
    <3>2. CASE ReplyAttach(a) \/ RefuseAttach(a)
      BY <3>2 DEF ReplyAttach, RefuseAttach, native
    <3>3. CASE RunAck(a)
      BY <3>3 DEF RunAck, Released
    <3>. QED BY <2>2, <3>1, <3>2, <3>3 DEF Command
  <2>3. ASSUME NEW a \in Attachments, Mount(a) \/ View(a) PROVE inflight' \subseteq inflight
    BY <2>3 DEF Mount, View, Attached, Consume, Start, Written, Receive, native
  <2>4. CASE Unmount
    BY <2>4 DEF Unmount, native
  <2>. QED BY <2>1, <2>2, <2>3, <2>4 DEF Next
<1>2. /\ IsFiniteSet(inflight') /\ Cardinality(inflight') <= Cardinality(inflight)
      /\ Cardinality(inflight') \in Nat /\ Cardinality(inflight) \in Nat
  BY <1>1, FS_Subset, FS_CardinalityType DEF InFlight
<1>. QED BY <1>2, LimitAssumption DEF InFlight

\* The invariant behind the bound.
WindowInv == QueueInv /\ Acks /\ InFlight /\ \A a \in Attachments : WindowOf(a)

\* It holds before anything is mounted or printed.
LEMMA WindowInit == Init => WindowInv
<1>. SUFFICES ASSUME Init PROVE WindowInv
  OBVIOUS
<1>1. QueueInv
  BY ScreenInit
<1>2. inflight = {} /\ calls = <<>> /\ \A a \in Attachments : att[a] = Unused
  BY DEF Init
<1>3. ~Unused.active
  BY DEF Unused
<1>4. InFlight
  BY <1>2, FS_EmptySet, LimitAssumption DEF InFlight
<1>. QED BY <1>1, <1>2, <1>3, <1>4 DEF WindowInv, Acks, WindowOf

\* Every step of the terminal keeps it.
LEMMA WindowStep ==
  ASSUME WindowInv, [Next]_vars
  PROVE  WindowInv'
<1>1. /\ QueueInv' /\ FlowInv /\ Typing /\ Acks /\ InFlight
      /\ \A b \in Attachments : WindowOf(b) /\ Shut(b)
  BY ScreenStep DEF WindowInv, QueueInv, Over, FlowInv
<1>2. Acks' /\ (~ReserveCredit => InFlight')
  BY <1>1, AcksStep, InFlightStep
<1>. SUFFICES InFlight' /\ \A b \in Attachments : WindowOf(b)'
  BY <1>1, <1>2 DEF WindowInv
<1>3. CASE ReserveCredit
  <2>1. InFlight'
    BY <1>1, <1>3, Reserved DEF InFlight
  <2>2. \A b \in Attachments : WindowOf(b)'
    BY <1>1, <1>3, ReserveWindow
  <2>. QED BY <2>1, <2>2
<1>. SUFFICES ASSUME ~ReserveCredit PROVE \A b \in Attachments : WindowOf(b)'
  BY <1>2, <1>3
<1>4. CASE ReadChunk
  BY <1>1, <1>4, ReadWindow
<1>5. CASE SendChunk \/ (SendEnded /\ sub # Nobody)
  BY <1>1, <1>5, SendsWindow
<1>6. ASSUME SkipReplaced \/ WaitForCredit \/ Finalize \/ CloseStream \/ CloseEntry \/ (SendEnded /\ sub = Nobody) \/ UNCHANGED vars
             \/ \E a \in Attachments : RunDetach(a)
      PROVE  \A b \in Attachments : WindowOf(b)'
  <2>1. UNCHANGED <<att, chan>> /\ EndKept /\ ((sub' = sub /\ inflight' = inflight) \/ sub' = Nobody)
    BY <1>6 DEF SkipReplaced, WaitForCredit, Finalize, CloseStream, CloseEntry, SendEnded, RunDetach, vars, EndKept
  <2>2. \A b \in Attachments : ReaderKept(b)
    <3>1. reader' \in {reader, Woken(reader), Reading} \/ WaitForCredit
      BY <1>6 DEF SkipReplaced, Finalize, CloseStream, CloseEntry, SendEnded, RunDetach, vars
    <3>. QED BY <1>1, <3>1, ReaderMoves
  <2>. QED BY <1>1, <2>1, <2>2, ShellWindow
<1>7. ASSUME NEW a \in Attachments, RunAttach(a)
      PROVE  \A b \in Attachments : WindowOf(b)'
  BY <1>1, <1>7, AttachWindow
<1>8. ASSUME NEW a \in Attachments, RunAck(a)
      PROVE  \A b \in Attachments : WindowOf(b)'
  <2>1. \A b \in Attachments : att'[b].active => Kept(b)
    <3>. TAKE b \in Attachments
    <3>1. CASE b = a
      BY <1>1, <1>8, <3>1, KeepMoves
    <3>2. CASE b # a
      BY <1>1, <1>8, <3>2, KeepMoves, SameMoves
    <3>. QED BY <3>1, <3>2
  <2>. QED BY <1>1, <1>8, <2>1, AckWindow
<1>9. ASSUME NEW a \in Attachments, UNCHANGED native, \A b \in Attachments : b # a => att'[b] = att[b] /\ chan'[b] = chan[b],
             att'[a].active => Kept(a) \/ Mounted(a) \/ \E e \in Event : Takes(a, e)
      PROVE  \A b \in Attachments : WindowOf(b)'
  <2>1. ASSUME NEW b \in Attachments, att'[b].active
        PROVE  Kept(b) \/ Mounted(b) \/ \E e \in Event : Takes(b, e)
    <3>1. CASE b = a
      BY <1>9, <2>1, <3>1
    <3>2. CASE b # a
      BY <1>9, <2>1, <3>2, SameMoves
    <3>. QED BY <3>1, <3>2
  <2>. QED BY <1>1, <1>9, <2>1, ViewWindow
<1>10. ASSUME NEW a \in Attachments, Mount(a) PROVE \A b \in Attachments : WindowOf(b)'
  BY <1>1, <1>9, <1>10, MountMoves
<1>11. ASSUME NEW a \in Attachments,
              \/ Start(a) \/ Receive(a) \/ Written(a) \/ ReplyAttach(a)
              \/ Attached(a) /\ att[a].replay = <<>>
       PROVE  \A b \in Attachments : WindowOf(b)'
  <2>1. UNCHANGED native
    BY <1>11 DEF Start, Receive, Written, ReplyAttach, Attached
  <2>2. /\ att'[a].active => Kept(a)
        /\ \A b \in Attachments : b # a => att'[b] = att[b] /\ chan'[b] = chan[b]
    BY <1>1, <1>11, KeepMoves
  <2>. QED BY <1>9, <2>1, <2>2
<1>12. ASSUME NEW a \in Attachments, Consume(a) \/ (Attached(a) /\ att[a].replay # <<>>)
       PROVE  \A b \in Attachments : WindowOf(b)'
  <2>1. /\ UNCHANGED native /\ \E e \in Event : Takes(a, e)
        /\ \A b \in Attachments : b # a => att'[b] = att[b] /\ chan'[b] = chan[b]
    BY <1>1, <1>12, TakeMoves
  <2>. QED BY <1>9, <2>1
<1>13. CASE Unmount \/ \E a \in Attachments : RefuseAttach(a)
  BY <1>1, <1>13, GoneMoves, ViewWindow
<1>14. ASSUME NEW a \in Attachments, Command(a) \/ View(a) PROVE \A b \in Attachments : WindowOf(b)'
  <2>1. CASE Command(a)
    BY <1>6, <1>7, <1>8, <1>11, <1>13, <2>1 DEF Command
  <2>2. CASE Attached(a)
    BY <1>11, <1>12, <2>2
  <2>3. CASE Consume(a) \/ Start(a) \/ Receive(a) \/ Written(a)
    BY <1>11, <1>12, <2>3
  <2>. QED BY <1>14, <2>1, <2>2, <2>3 DEF View
<1>. QED BY <1>4, <1>5, <1>6, <1>10, <1>13, <1>14 DEF Next, ReaderStep

\* It holds in every reachable state.
LEMMA WindowInvariant == Spec => []WindowInv
<1>1. WindowInv /\ [Next]_vars => WindowInv'
  BY WindowStep
<1>. QED BY <1>1, WindowInit, PTL DEF Spec

\* What three queues hold together bounds what the first two hold.
LEMMA PartsBound ==
  ASSUME NEW m \in Nat, NEW n \in Nat, NEW k \in Nat, NEW c \in Nat, NEW w \in Nat, NEW s \in Nat \ {0},
         (m + n) + k <= c + 1, c <= w
  PROVE  n <= w + s /\ m <= w + s
OBVIOUS

\* The webview never queues more than the window and the end of the process: its overflow errors cannot be
\* raised, whatever was sent to earlier mounts and whichever acknowledgements are late.
THEOREM NeverOverflows == Spec => []NoOverflow
<1>1. WindowInv => NoOverflow
  <2>. SUFFICES ASSUME WindowInv, NEW a \in Attachments
                PROVE  Len(att[a].raw) <= Window + Slack /\ Len(att[a].pend) <= Window + Slack
    BY DEF NoOverflow
  <2>1. /\ att[a].pend \in Seq(Event) /\ att[a].raw \in Seq(Event) /\ chan[a] \in Seq(Event)
        /\ Live(a) \in Seq(Event) /\ WindowOf(a) /\ Shut(a)
    BY LiveType DEF WindowInv, QueueInv, FlowInv, Over
  <2>2. Len(Live(a)) = (Len(att[a].pend) + Len(att[a].raw)) + Len(chan[a])
    <3>1. /\ att[a].pend \o att[a].raw \in Seq(Event)
          /\ Len(att[a].pend \o att[a].raw) = Len(att[a].pend) + Len(att[a].raw)
      BY <2>1, ConcatProperties
    <3>. QED BY <2>1, <3>1, ConcatProperties DEF Live
  <2>3. CASE att[a].active
    <3>1. Len(Live(a)) <= Cardinality(Charged(a)) + 1 /\ Cardinality(Charged(a)) <= Window
          /\ Cardinality(Charged(a)) \in Nat
      BY <2>1, <2>3, Counting, FS_CardinalityType DEF WindowOf, Charged, Sent
    <3>2. Len(att[a].pend) \in Nat /\ Len(att[a].raw) \in Nat /\ Len(chan[a]) \in Nat
      BY <2>1
    <3>3. /\ (Len(att[a].pend) + Len(att[a].raw)) + Len(chan[a]) <= Cardinality(Charged(a)) + 1
          /\ Cardinality(Charged(a)) <= Window /\ Cardinality(Charged(a)) \in Nat
          /\ Window \in Nat /\ Slack \in Nat \ {0}
      <4>1. Window \in Nat /\ Slack \in Nat \ {0}
        BY LimitAssumption
      <4>2. (Len(att[a].pend) + Len(att[a].raw)) + Len(chan[a]) <= Cardinality(Charged(a)) + 1
        BY <2>2, <3>1, Zenon
      <4>. QED BY <3>1, <4>1, <4>2
    <3>. QED BY <3>2, <3>3, PartsBound
  <2>4. CASE ~att[a].active
    BY <2>1, <2>4, LimitAssumption DEF Shut
  <2>. QED BY <2>3, <2>4
<1>. QED BY <1>1, WindowInvariant, PTL
=============================================================================
