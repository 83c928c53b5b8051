---------------------------- MODULE TerminalFlow ----------------------------
(***************************************************************************)
(* TerminalStream implements TerminalFeed, and loses nothing silently: the *)
(* content of the ring, the replay, the channel and the webview's queues,  *)
(* for any number of mounts and chunks, any ring and any window.           *)
(***************************************************************************)
EXTENDS TerminalProofs, SequenceTheorems

-----------------------------------------------------------------------------
(* The invariant.                                                          *)

\* Everything an attachment has yet to consume, in the order in which it will.
Queue(a) == ((att[a].replay \o att[a].pend) \o att[a].raw) \o chan[a]

\* The highest chunk that may be shown now, and once the attachment's write is done.
Allowed  == IF cursor + 1 >= reported THEN cursor + 1 ELSE reported
Reach(a) == IF att[a].step = "write" /\ att[a].now + 1 > Allowed THEN att[a].now + 1 ELSE Allowed

\* Chunk s may be shown behind event p.
Follows(s, p) == (p.kind = "output" /\ p.seq + 1 = s) \/ (p.kind = "truncated" /\ p.seq >= s)

\* Where chunks up to n may be shown: every chunk of q may be when its turn comes.
Linked(q, n) ==
  \A i \in DOMAIN q :
    q[i].kind = "output" => q[i].seq <= n \/ \E j \in DOMAIN q : j < i /\ Follows(q[i].seq, q[j])

\* So may chunk s behind q.
Open(q, n, s) == s <= n \/ \E j \in DOMAIN q : Follows(s, q[j])

\* No event of q is ahead of the process.
Bounded(q) == \A i \in DOMAIN q : q[i].seq <= latest

\* The reader has a chunk for the attachment.
Held(a) == reader.pc # "read" /\ reader.for = a

\* Its chunk, or else the next one the process prints, is to be sent to the attachment.
Due(a)     == Held(a) /\ (sub = a \/ reader.pc = "send")
DueNext(a) == sub = a /\ ~Held(a)

\* The heart of the invariant: nothing in or due to the queue of an active attachment is behind a hole.
FlowOf(a) ==
  att[a].active =>
    /\ Linked(Queue(a), Reach(a)) /\ Bounded(Queue(a))
    /\ Due(a) => Open(Queue(a), Reach(a), latest)
    /\ DueNext(a) => Open(Queue(a), Reach(a), latest + 1)

\* Which queues are in use when, and that nobody sends before attach has run.
PhaseOf(a) ==
  /\ att[a].started => att[a].replay = <<>> /\ att[a].raw = <<>>
  /\ ~att[a].started => att[a].pend = <<>>
  /\ att[a].st \in {"none", "called"} =>
       att[a].replay = <<>> /\ att[a].raw = <<>> /\ chan[a] = <<>> /\ sub # a /\ ~Held(a)
  /\ att[a].st \in {"called", "subscribed", "replied"} => att[a].active

\* Chunk s was written to the screen.
OnScreen(s) == \E i \in DOMAIN screen : screen[i] = s

\* The cursor has reached what an attachment has acknowledged, and nearly what it writes.
CountOf(a) ==
  /\ att[a].last <= cursor
  /\ att[a].step = "ack" => att[a].now <= cursor
  /\ att[a].step = "write" =>
       att[a].now <= latest /\ att[a].now <= Allowed /\ OnScreen(att[a].now)

\* Every count, the reader's and the cursors on their way included, is within what was printed
\* and what was shown.
Totals ==
  /\ cursor <= latest /\ reported <= latest
  /\ reader.pc # "read" => reader.seq = latest
  /\ \A i \in DOMAIN calls : calls[i].op # "detach" => calls[i].seq <= cursor

Flow == \A a \in Attachments : FlowOf(a)
Phases == \A a \in Attachments : PhaseOf(a)
Counts == Totals /\ \A a \in Attachments : CountOf(a)

FlowInv == Typing /\ Phases /\ Counts /\ Flow

-----------------------------------------------------------------------------
(* Sequences of events.                                                    *)

\* Joining and splitting queues.
LEMMA Concatenation ==
  ASSUME NEW S, NEW q \in Seq(S), NEW r \in Seq(S), NEW t \in Seq(S)
  PROVE  /\ <<>> \o q = q /\ q \o <<>> = q
         /\ (q \o r) \o t = q \o (r \o t)
         /\ q \o r \in Seq(S)
BY ConcatEmptySeq, ConcatAssociative, ConcatProperties

\* Moving events between the parts of a queue.
LEMMA Joining ==
  ASSUME NEW S, NEW q \in Seq(S), NEW r \in Seq(S), NEW t \in Seq(S)
  PROVE  /\ <<>> \o q = q /\ q \o <<>> = q
         /\ (q \o r) \o t = q \o (r \o t)
         /\ q \o r \in Seq(S)
         /\ q # <<>> => Tail(q \o r) = Tail(q) \o r /\ Head(q \o r) = Head(q) /\ q \o r # <<>>
         /\ r # <<>> => Append(q, Head(r)) \o Tail(r) = q \o r
         /\ \A x \in S : q \o Append(r, x) = Append(q \o r, x)
<1>1. /\ <<>> \o q = q /\ q \o <<>> = q
      /\ (q \o r) \o t = q \o (r \o t)
      /\ q \o r \in Seq(S)
  BY Concatenation
<1>2. ASSUME q # <<>> PROVE Tail(q \o r) = Tail(q) \o r /\ Head(q \o r) = Head(q) /\ q \o r # <<>>
  <2>1. q \o r # <<>> /\ Head(q \o r) = Head(q)
    BY <1>2
  <2>2. Tail(q \o r) \in Seq(S) /\ Tail(q) \o r \in Seq(S) /\ Len(Tail(q \o r)) = Len(Tail(q) \o r)
    BY <1>1, <1>2, <2>1
  <2>3. \A i \in 1 .. Len(Tail(q \o r)) : Tail(q \o r)[i] = (Tail(q) \o r)[i]
    BY <1>1, <1>2, <2>1
  <2>. QED BY <2>1, <2>2, <2>3, SeqEqual
<1>3. ASSUME r # <<>> PROVE Append(q, Head(r)) \o Tail(r) = q \o r
  <2>1. Head(r) \in S /\ Tail(r) \in Seq(S) /\ Append(q, Head(r)) \in Seq(S)
    BY <1>3
  <2>2. Append(q, Head(r)) \o Tail(r) \in Seq(S) /\ Len(Append(q, Head(r)) \o Tail(r)) = Len(q \o r)
    BY <1>1, <1>3, <2>1
  <2>3. \A i \in 1 .. Len(q \o r) : (Append(q, Head(r)) \o Tail(r))[i] = (q \o r)[i]
    BY <1>1, <1>3, <2>1
  <2>. QED BY <1>1, <2>2, <2>3, SeqEqual
<1>4. ASSUME NEW x \in S PROVE q \o Append(r, x) = Append(q \o r, x)
  <2>1. q \o Append(r, x) \in Seq(S) /\ Append(q \o r, x) \in Seq(S) /\ Len(q \o Append(r, x)) = Len(Append(q \o r, x))
    BY <1>1
  <2>2. \A i \in 1 .. Len(q \o Append(r, x)) : (q \o Append(r, x))[i] = Append(q \o r, x)[i]
    BY <1>1
  <2>. QED BY <2>1, <2>2, SeqEqual
<1>. QED BY <1>1, <1>2, <1>3, <1>4

\* The queue of an attachment that consumes the replay, and of one that has started.
LEMMA QueueForm ==
  ASSUME Typing, NEW a \in Attachments
  PROVE  /\ Queue(a) \in Seq(Event)
         /\ att[a].replay \in Seq(Event) /\ att[a].pend \in Seq(Event) /\ att[a].raw \in Seq(Event)
         /\ chan[a] \in Seq(Event) /\ att[a].raw \o chan[a] \in Seq(Event)
         /\ att[a].replay = <<>> /\ att[a].raw = <<>> => Queue(a) = att[a].pend \o chan[a]
         /\ att[a].pend = <<>> => Queue(a) = att[a].replay \o (att[a].raw \o chan[a])
<1>1. /\ att[a].replay \in Seq(Event) /\ att[a].pend \in Seq(Event) /\ att[a].raw \in Seq(Event)
      /\ chan[a] \in Seq(Event)
  BY Fields DEF Typing, TypeOK, ViewType, WireType
<1>. DEFINE x == att[a].replay
            y == att[a].pend
            z == att[a].raw
            c == chan[a]
<1>2. Queue(a) = ((x \o y) \o z) \o c
  BY DEF Queue
<1>. HIDE DEF x, y, z, c
<1>3. x \in Seq(Event) /\ y \in Seq(Event) /\ z \in Seq(Event) /\ c \in Seq(Event) /\ <<>> \in Seq(Event)
  BY <1>1 DEF x, y, z, c
<1>4. x \o y \in Seq(Event) /\ z \o c \in Seq(Event)
  BY <1>3, Concatenation
<1>5. (x \o y) \o z \in Seq(Event)
  BY <1>3, <1>4, Concatenation
<1>6. ((x \o y) \o z) \o c \in Seq(Event)
  BY <1>3, <1>5, Concatenation
<1>7. ASSUME x = <<>>, z = <<>> PROVE Queue(a) = y \o c
  BY <1>2, <1>3, <1>7, Concatenation
<1>8. ASSUME y = <<>> PROVE Queue(a) = x \o (z \o c)
  BY <1>2, <1>3, <1>8, Concatenation
<1>. QED BY <1>1, <1>2, <1>4, <1>6, <1>7, <1>8 DEF x, y, z, c

\* More may be shown.
LEMMA Wider ==
  ASSUME NEW q \in Seq(Event), NEW n \in Nat, NEW m \in Nat, n <= m
  PROVE  /\ Linked(q, n) => Linked(q, m)
         /\ \A s \in Nat : Open(q, n, s) => Open(q, m, s)
<1>1. \A i \in DOMAIN q : q[i].seq \in Nat
  BY EventType
<1>. QED BY <1>1 DEF Linked, Open

\* The head is consumed, and what may follow it can be shown.
LEMMA Popped ==
  ASSUME NEW q \in Seq(Event), q # <<>>, NEW n \in Nat, NEW m \in Nat, n <= m,
         \A s \in Nat : Follows(s, Head(q)) => s <= m
  PROVE  /\ Linked(q, n) => Linked(Tail(q), m)
         /\ \A s \in Nat : Open(q, n, s) => Open(Tail(q), m, s)
<1>. DEFINE p == Tail(q)
<1>1. /\ 1 \in DOMAIN q /\ Head(q) = q[1] /\ p \in Seq(Event)
      /\ \A i \in DOMAIN p : i + 1 \in DOMAIN q /\ i + 1 # 1 /\ p[i] = q[i + 1] /\ i \in Nat
  BY OneLess
<1>2. \A i \in DOMAIN q : i \in Nat /\ (i = 1 \/ (i - 1 \in DOMAIN p /\ p[i - 1] = q[i]))
  OBVIOUS
<1>3. \A i \in DOMAIN q : q[i].seq \in Nat
  BY EventType
<1>. HIDE DEF p
<1>4. ASSUME NEW s \in Nat, NEW j \in DOMAIN q, Follows(s, q[j])
      PROVE  s <= m \/ (j - 1 \in DOMAIN p /\ Follows(s, p[j - 1]))
  BY <1>1, <1>2, <1>4
<1>5. ASSUME Linked(q, n), NEW i \in DOMAIN p, p[i].kind = "output"
      PROVE  p[i].seq <= m \/ \E j \in DOMAIN p : j < i /\ Follows(p[i].seq, p[j])
  <2>1. i + 1 \in DOMAIN q /\ p[i] = q[i + 1] /\ i \in Nat /\ p[i].seq \in Nat
    BY <1>1, <1>3
  <2>2. p[i].seq <= n \/ \E j \in DOMAIN q : j < i + 1 /\ Follows(p[i].seq, q[j])
    BY <1>5, <2>1 DEF Linked
  <2>3. ASSUME NEW j \in DOMAIN q, j < i + 1, Follows(p[i].seq, q[j])
        PROVE  p[i].seq <= m \/ \E k \in DOMAIN p : k < i /\ Follows(p[i].seq, p[k])
    <3>1. p[i].seq <= m \/ (j - 1 \in DOMAIN p /\ Follows(p[i].seq, p[j - 1]))
      BY <1>4, <2>1, <2>3
    <3>2. j - 1 < i
      BY <1>2, <2>1, <2>3
    <3>. QED BY <3>1, <3>2
  <2>. QED BY <2>1, <2>2, <2>3
<1>6. ASSUME NEW s \in Nat, Open(q, n, s) PROVE Open(p, m, s)
  BY <1>4, <1>6 DEF Open
<1>7. Linked(q, n) => Linked(p, m)
  BY <1>5 DEF Linked
<1>. QED BY <1>6, <1>7 DEF p

\* An event joins.
LEMMA Pushed ==
  ASSUME NEW q \in Seq(Event), NEW n \in Nat, NEW x \in Event, Linked(q, n),
         x.kind = "output" => Open(q, n, x.seq)
  PROVE  /\ Linked(Append(q, x), n)
         /\ \A s \in Nat : Open(q, n, s) => Open(Append(q, x), n, s)
         /\ x.kind = "output" => Open(Append(q, x), n, x.seq + 1)
<1>. DEFINE p == Append(q, x)
<1>1. /\ \A i \in DOMAIN q : i \in DOMAIN p /\ p[i] = q[i] /\ i < Len(q) + 1
      /\ \A i \in DOMAIN p : i \in DOMAIN q \/ (i = Len(q) + 1 /\ p[i] = x)
      /\ Len(q) + 1 \in DOMAIN p /\ p[Len(q) + 1] = x
  OBVIOUS
<1>2. x.seq \in Nat
  BY EventType
<1>. HIDE DEF p
<1>3. ASSUME NEW i \in DOMAIN p, p[i].kind = "output"
      PROVE  p[i].seq <= n \/ \E j \in DOMAIN p : j < i /\ Follows(p[i].seq, p[j])
  <2>1. CASE i \in DOMAIN q
    <3>1. p[i] = q[i]
      BY <1>1, <2>1
    <3>2. q[i].seq <= n \/ \E j \in DOMAIN q : j < i /\ Follows(q[i].seq, q[j])
      BY <1>3, <2>1, <3>1 DEF Linked
    <3>. QED BY <1>1, <3>1, <3>2
  <2>2. CASE i = Len(q) + 1 /\ p[i] = x
    <3>1. x.seq <= n \/ \E j \in DOMAIN q : Follows(x.seq, q[j])
      BY <1>3, <2>2 DEF Open
    <3>. QED BY <1>1, <2>2, <3>1
  <2>. QED BY <1>1, <2>1, <2>2
<1>4. \A s \in Nat : Open(q, n, s) => Open(p, n, s)
  BY <1>1 DEF Open
<1>5. x.kind = "output" => Open(p, n, x.seq + 1)
  BY <1>1, <1>2 DEF Open, Follows
<1>6. Linked(p, n)
  BY <1>3 DEF Linked
<1>. QED BY <1>4, <1>5, <1>6 DEF p

\* The replay: every chunk follows the cursor, the announcement or its predecessor.
LEMMA ReplayFlow ==
  ASSUME ShellType, NEW after \in 0 .. MaxChunks
  PROVE  /\ Linked(Replayed(after), after + 1) /\ Bounded(Replayed(after))
         /\ Open(Replayed(after), after + 1, latest + 1)
<1>. DEFINE truncated == after + 1 < Earliest
            first     == IF truncated THEN Earliest ELSE after + 1
            n         == latest + 1 - first
            chunks    == [i \in 1 .. n |-> Output(first + i - 1)]
            notice    == [kind |-> "truncated", seq |-> Earliest]
            q         == Replayed(after)
<1>1. latest \in Nat /\ after \in Nat /\ Ring \in Nat \ {0}
  BY BoundAssumption, LimitAssumption DEF ShellType
<1>2. Earliest \in Nat /\ (truncated => Earliest <= latest)
  BY <1>1 DEF Earliest
<1>3. CASE ~truncated
  <2>1. q = [i \in 1 .. (latest - after) |-> Output(after + i)]
    <3>1. n = latest - after /\ \A i \in 1 .. n : first + i - 1 = after + i
      BY <1>1, <1>3
    <3>2. q = chunks
      BY <1>3 DEF Replayed
    <3>. HIDE DEF first, n
    <3>. QED BY <3>1, <3>2
  <2>. HIDE DEF q
  <2>2. DOMAIN q = 1 .. (latest - after) /\ \A i \in 1 .. (latest - after) : q[i].kind = "output" /\ q[i].seq = after + i
    BY <2>1 DEF Output
  <2>3. \A i \in 1 .. (latest - after) : i = 1 \/ (i - 1 \in 1 .. (latest - after) /\ after + (i - 1) + 1 = after + i)
    BY <1>1
  <2>4. \A i \in DOMAIN q : q[i].seq <= latest
    BY <1>1, <2>2
  <2>5. \A i \in DOMAIN q : q[i].seq <= after + 1 \/ \E j \in DOMAIN q : j < i /\ Follows(q[i].seq, q[j])
    <3>. SUFFICES ASSUME NEW i \in DOMAIN q, i # 1 PROVE \E j \in DOMAIN q : j < i /\ Follows(q[i].seq, q[j])
      BY <1>1, <2>2
    <3>1. i - 1 \in DOMAIN q /\ i - 1 < i /\ Follows(q[i].seq, q[i - 1])
      BY <1>1, <2>2, <2>3 DEF Follows
    <3>. QED BY <3>1
  <2>6. latest <= after \/ \E j \in DOMAIN q : Follows(latest + 1, q[j])
    <3>. SUFFICES ASSUME latest > after PROVE \E j \in DOMAIN q : Follows(latest + 1, q[j])
      BY <1>1
    <3>1. latest - after \in DOMAIN q /\ Follows(latest + 1, q[latest - after])
      BY <1>1, <2>2 DEF Follows
    <3>. QED BY <3>1
  <2>. QED BY <1>1, <2>4, <2>5, <2>6 DEF q, Linked, Bounded, Open
<1>4. CASE truncated
  <2>. DEFINE m == latest + 1 - Earliest
  <2>1. m \in Nat \ {0}
    BY <1>1, <1>2, <1>4
  <2>2. q = <<notice>> \o [i \in 1 .. m |-> Output(Earliest + i - 1)]
    BY <1>4 DEF Replayed
  <2>. HIDE DEF m, q, notice
  <2>3. [i \in 1 .. m |-> Output(Earliest + i - 1)] \in Seq([kind : {"output"}, seq : Int]) /\ <<notice>> \in Seq({notice})
    BY <1>2, <2>1 DEF Output
  <2>4. /\ DOMAIN q = 1 .. (m + 1) /\ q[1] = notice
        /\ \A i \in 2 .. (m + 1) : q[i] = Output(Earliest + (i - 1) - 1)
    BY <2>1, <2>2, <2>3
  <2>5. q[1].kind = "truncated" /\ q[1].seq = Earliest
        /\ \A i \in 2 .. (m + 1) : q[i].kind = "output" /\ q[i].seq = Earliest + i - 2
    <3>1. q[1].kind = "truncated" /\ q[1].seq = Earliest
      BY <2>4 DEF notice
    <3>2. \A i \in 2 .. (m + 1) : q[i].kind = "output" /\ q[i].seq = Earliest + (i - 1) - 1
      <4>1. \A s \in Int : Output(s).kind = "output" /\ Output(s).seq = s
        BY DEF Output
      <4>. TAKE i \in 2 .. (m + 1)
      <4>2. Earliest + (i - 1) - 1 \in Int
        BY <1>2
      <4>. QED BY <2>4, <4>1, <4>2
    <3>3. \A i \in 2 .. (m + 1) : Earliest + (i - 1) - 1 = Earliest + i - 2
      BY <1>2, <2>1
    <3>. QED BY <3>1, <3>2, <3>3
  <2>6. \A i \in DOMAIN q : q[i].seq <= latest
    BY <1>1, <1>2, <1>4, <2>1, <2>4, <2>5 DEF m
  <2>7. \A i \in DOMAIN q : q[i].kind = "output" => \E j \in DOMAIN q : j < i /\ Follows(q[i].seq, q[j])
    <3>. SUFFICES ASSUME NEW i \in 2 .. (m + 1) PROVE \E j \in DOMAIN q : j < i /\ Follows(q[i].seq, q[j])
      <4>1. \A i \in DOMAIN q : q[i].kind = "output" => i \in 2 .. (m + 1)
        <5>1. \A i \in 1 .. (m + 1) : i = 1 \/ i \in 2 .. (m + 1)
          BY <2>1
        <5>. QED BY <2>4, <2>5, <5>1
      <4>. QED BY <4>1
    <3>1. CASE i = 2
      BY <1>2, <2>1, <2>4, <2>5, <3>1 DEF Follows
    <3>2. CASE i # 2
      <4>1. i - 1 \in 2 .. (m + 1) /\ i - 1 \in DOMAIN q /\ i - 1 < i
        BY <2>1, <2>4, <3>2
      <4>2. Follows(q[i].seq, q[i - 1])
        BY <1>2, <2>5, <4>1 DEF Follows
      <4>. QED BY <4>1, <4>2
    <3>. QED BY <3>1, <3>2
  <2>8. m + 1 \in DOMAIN q /\ Follows(latest + 1, q[m + 1])
    BY <1>1, <1>2, <2>1, <2>4, <2>5 DEF m, Follows
  <2>. QED BY <2>6, <2>7, <2>8 DEF q, Linked, Bounded, Open
<1>. QED BY <1>3, <1>4

-----------------------------------------------------------------------------
(* What a step keeps.                                                      *)

\* The arithmetic of the cursors.
NumbersOf(a) ==
  /\ latest \in Nat /\ cursor \in Nat /\ reported \in Nat
  /\ att[a].now \in Nat /\ att[a].last \in Nat
  /\ Allowed \in Nat /\ cursor < Allowed /\ reported <= Allowed
  /\ Allowed = cursor + 1 \/ Allowed = reported
  /\ Reach(a) \in Nat /\ Allowed <= Reach(a)
  /\ att[a].step = "write" => att[a].now < Reach(a)
  /\ Reach(a) = Allowed \/ (Reach(a) = att[a].now + 1 /\ att[a].step = "write")

\* Every cursor is within the reach it has.
LEMMA Numbers == Typing => \A a \in Attachments : NumbersOf(a)
<1>. SUFFICES ASSUME Typing, NEW a \in Attachments PROVE NumbersOf(a)
  OBVIOUS
<1>1. latest \in Nat /\ cursor \in Nat /\ reported \in Nat
  BY BoundAssumption DEF Typing, TypeOK, ShellType, StoreType
<1>2. att[a].now \in Nat /\ att[a].last \in Nat
  BY Fields, BoundAssumption DEF Typing, TypeOK, ViewType
<1>. QED BY <1>1, <1>2 DEF NumbersOf, Allowed, Reach

\* The same after a step, where the provers cannot expand the cursors' definitions.
LEMMA NumbersNext == (Typing => \A a \in Attachments : NumbersOf(a))'
BY Numbers, PTL

\* The store never counts back.
Forward ==
  /\ latest <= latest' /\ cursor <= cursor' /\ reported <= reported'
  /\ \A s : OnScreen(s) => OnScreen(s)'

\* What a step may do to what the abstract feed speaks of.
FeedMoves ==
  \/ UNCHANGED <<latest, cursor, reported>>
  \/ latest' = latest + 1 /\ UNCHANGED <<cursor, reported>>
  \/ reported' > reported /\ reported' <= latest /\ UNCHANGED <<latest, cursor>>
  \/ /\ \E s \in Nat : cursor' = s /\ s > cursor /\ s <= latest /\ s <= Allowed /\ OnScreen(s)
     /\ UNCHANGED <<latest, reported>>

\* A write stays under way until its chunk is counted.
WriteKept(a) ==
  att[a].step = "write" => (att'[a].step = "write" /\ att'[a].now = att[a].now) \/ att[a].now <= cursor'

\* What may be shown stays showable.
LEMMA Reaching ==
  ASSUME Typing, Typing', Forward, NEW a \in Attachments, WriteKept(a)
  PROVE  /\ Reach(a) <= Reach(a)' /\ Reach(a) \in Nat /\ Reach(a)' \in Nat
         /\ Allowed <= Allowed' /\ Allowed \in Nat /\ Allowed' \in Nat
<1>1. NumbersOf(a) /\ NumbersOf(a)'
  BY Numbers, NumbersNext
<1>2. cursor <= cursor' /\ reported <= reported'
  BY DEF Forward
<1>3. /\ cursor' \in Nat /\ reported' \in Nat /\ att'[a].now \in Nat
      /\ Allowed' \in Nat /\ cursor' < Allowed' /\ reported' <= Allowed'
      /\ Reach(a)' \in Nat /\ Allowed' <= Reach(a)'
      /\ att'[a].step = "write" => att'[a].now < Reach(a)'
  BY <1>1 DEF NumbersOf
<1>4. Allowed <= Allowed' /\ Allowed \in Nat
  BY <1>1, <1>2, <1>3 DEF NumbersOf
<1>. QED BY <1>1, <1>3, <1>4 DEF NumbersOf, WriteKept

\* What the reader owes an attachment, it owed before the step.
TipKept(a) ==
  /\ Due(a)' => (Due(a) /\ latest' = latest) \/ (DueNext(a) /\ latest' = latest + 1)
  /\ DueNext(a)' => DueNext(a) /\ latest' = latest

\* Nor does it become the attachment's sender.
SenderKept(a) == TipKept(a) /\ (sub' = a => sub = a) /\ (Held(a)' => Held(a) \/ sub = a)

\* An attachment whose queue may grow or shrink.
LEMMA MovedFlow ==
  ASSUME NEW a \in Attachments, FlowOf(a), att[a].active, TipKept(a), latest \in Nat,
         Linked(Queue(a)', Reach(a)'), Bounded(Queue(a))',
         \A s \in Nat : Open(Queue(a), Reach(a), s) => Open(Queue(a)', Reach(a)', s)
  PROVE  FlowOf(a)'
<1>1. Due(a)' => Open(Queue(a), Reach(a), latest)'
  BY DEF FlowOf, TipKept
<1>2. DueNext(a)' => Open(Queue(a), Reach(a), latest + 1)'
  BY DEF FlowOf, TipKept
<1>. QED BY <1>1, <1>2 DEF FlowOf

\* An attachment whose queue stays.
LEMMA KeptFlow ==
  ASSUME Typing, Typing', Forward, NEW a \in Attachments, FlowOf(a), att'[a].active => att[a].active,
         TipKept(a), WriteKept(a), Queue(a)' = Queue(a)
  PROVE  FlowOf(a)'
<1>. SUFFICES ASSUME att[a].active PROVE FlowOf(a)'
  BY DEF FlowOf
<1>1. Queue(a) \in Seq(Event) /\ latest \in Nat
  BY QueueForm, Numbers DEF NumbersOf
<1>2. Linked(Queue(a), Reach(a)') /\ \A s \in Nat : Open(Queue(a), Reach(a), s) => Open(Queue(a), Reach(a)', s)
  BY <1>1, Reaching, Wider DEF FlowOf
<1>3. Bounded(Queue(a))'
  <2>1. \A i \in DOMAIN Queue(a) : Queue(a)[i].seq <= latest /\ Queue(a)[i].seq \in Nat
    BY <1>1, EventType DEF FlowOf, Bounded
  <2>2. latest <= latest' /\ latest' \in Nat
    BY BoundAssumption DEF Forward, Typing, TypeOK, ShellType
  <2>. QED BY <1>1, <2>1, <2>2 DEF Bounded
<1>. QED BY <1>1, <1>2, <1>3, MovedFlow

\* An attachment that a step does not concern.
LEMMA Unconcerned ==
  ASSUME Typing, Typing', Forward, NEW a \in Attachments, PhaseOf(a), CountOf(a), FlowOf(a),
         att'[a] = att[a], chan'[a] = chan[a], SenderKept(a)
  PROVE  PhaseOf(a)' /\ CountOf(a)' /\ FlowOf(a)'
<1>1. PhaseOf(a)'
  BY DEF PhaseOf, SenderKept
<1>2. Queue(a)' = Queue(a) /\ WriteKept(a) /\ TipKept(a)
  BY DEF Queue, WriteKept, SenderKept
<1>3. FlowOf(a)'
  BY <1>2, KeptFlow
<1>4. CountOf(a)'
  <2>1. /\ latest \in Nat /\ latest' \in Nat /\ cursor \in Nat /\ cursor' \in Nat
        /\ att[a].now \in Nat /\ att[a].last \in Nat
    BY Numbers, NumbersNext DEF NumbersOf
  <2>2. Allowed <= Allowed' /\ Allowed \in Nat /\ Allowed' \in Nat
    BY <1>2, Reaching
  <2>3. att[a].last <= cursor' /\ (att[a].step = "ack" => att[a].now <= cursor')
    BY <2>1 DEF CountOf, Forward
  <2>4. att[a].step = "write" => att[a].now <= latest' /\ att[a].now <= Allowed' /\ OnScreen(att[a].now)'
    BY <2>1, <2>2 DEF CountOf, Forward
  <2>. QED BY <2>3, <2>4 DEF CountOf
<1>. QED BY <1>1, <1>3, <1>4

\* A step of one attachment.
LEMMA OneFlow ==
  ASSUME FlowInv, Typing', Forward, NEW a \in Attachments,
         \A b \in Attachments \ {a} : att'[b] = att[b] /\ chan'[b] = chan[b] /\ SenderKept(b),
         Totals', PhaseOf(a)', CountOf(a)', FlowOf(a)'
  PROVE  FlowInv'
<1>1. ASSUME NEW b \in Attachments PROVE PhaseOf(b)' /\ CountOf(b)' /\ FlowOf(b)'
  <2>1. CASE b = a
    BY <2>1
  <2>2. CASE b # a
    BY <2>2, Unconcerned DEF FlowInv, Phases, Counts, Flow
  <2>. QED BY <2>1, <2>2
<1>. QED BY <1>1 DEF FlowInv, Phases, Counts, Flow

\* A step of no attachment.
LEMMA NoneFlow ==
  ASSUME FlowInv, Typing', Forward, Totals', UNCHANGED <<att, chan>>,
         \A b \in Attachments : SenderKept(b)
  PROVE  FlowInv'
<1>1. ASSUME NEW b \in Attachments PROVE PhaseOf(b)' /\ CountOf(b)' /\ FlowOf(b)'
  BY Unconcerned DEF FlowInv, Phases, Counts, Flow
<1>. QED BY <1>1 DEF FlowInv, Phases, Counts, Flow

\* A step that leaves the shell alone.
LEMMA IdleShell ==
  ASSUME UNCHANGED native
  PROVE  \A b \in Attachments : SenderKept(b)
BY DEF native, SenderKept, TipKept, Due, DueNext, Held

\* A step that leaves the store alone.
LEMMA IdleStore ==
  ASSUME UNCHANGED <<latest, store>>, Typing
  PROVE  Forward /\ UNCHANGED <<latest, cursor, reported, screen>>
<1>1. latest \in Nat /\ cursor \in Nat /\ reported \in Nat
  BY BoundAssumption DEF Typing, TypeOK, ShellType, StoreType
<1>. QED BY <1>1 DEF store, Forward, OnScreen

\* So does its effect on the abstract feed.
LEMMA IdleMoves ==
  ASSUME UNCHANGED <<latest, cursor, reported, screen>>, Typing
  PROVE  Forward /\ FeedMoves
<1>1. latest \in Nat /\ cursor \in Nat /\ reported \in Nat
  BY BoundAssumption DEF Typing, TypeOK, ShellType, StoreType
<1>. QED BY <1>1 DEF Forward, OnScreen, FeedMoves

-----------------------------------------------------------------------------
(* The threads.                                                            *)

\* Waking the reader changes nothing that it holds.
LEMMA WokenFlow ==
  ASSUME Typing
  PROVE  /\ Woken(reader).for = reader.for /\ Woken(reader).seq = reader.seq
         /\ Woken(reader).pc = "read" <=> reader.pc = "read"
         /\ Woken(reader).pc = "send" <=> reader.pc = "send"
BY DEF Woken, Typing, TypeOK, ShellType, Reader

\* The steps of the threads that neither number nor send anything.
LEMMA QuietThreadFlow ==
  ASSUME FlowInv, Typing', SkipReplaced \/ ReserveCredit \/ WaitForCredit \/ Finalize \/ CloseStream \/ CloseEntry
  PROVE  FlowInv'
<1>1. UNCHANGED <<latest, calls, chan, att, store>> /\ Typing
  BY DEF SkipReplaced, ReserveCredit, WaitForCredit, Finalize, CloseStream, CloseEntry, FlowInv
<1>2. Forward /\ UNCHANGED <<latest, cursor, reported, screen>>
  BY <1>1, IdleStore
<1>3. reader \in Reader /\ Nobody \notin Attachments
  BY <1>1, NobodyAssumption DEF Typing, TypeOK, ShellType
<1>4. /\ \A b \in Attachments : SenderKept(b)
      /\ reader'.pc # "read" => reader.pc # "read" /\ reader'.seq = reader.seq
  <2>1. CASE SkipReplaced
    BY <1>2, <2>1 DEF SkipReplaced, Reading, SenderKept, TipKept, Due, DueNext, Held
  <2>2. CASE ReserveCredit \/ WaitForCredit
    <3>1. /\ reader'.pc # "read" /\ reader'.seq = reader.seq /\ reader'.for = reader.for
          /\ reader.for = sub /\ reader.pc = "credit" /\ sub' = sub
      BY <1>3, <2>2 DEF ReserveCredit, WaitForCredit, Reader
    <3>. QED BY <1>2, <3>1 DEF SenderKept, TipKept, Due, DueNext, Held
  <2>3. CASE Finalize
    BY <1>2, <2>3 DEF Finalize, SenderKept, TipKept, Due, DueNext, Held
  <2>4. CASE CloseStream \/ CloseEntry
    BY <1>1, <1>2, <1>3, <2>4, WokenFlow DEF CloseStream, CloseEntry, SenderKept, TipKept, Due, DueNext, Held
  <2>. QED BY <2>1, <2>2, <2>3, <2>4
<1>5. Totals'
  BY <1>1, <1>2, <1>4 DEF FlowInv, Counts, Totals
<1>. QED BY <1>1, <1>2, <1>4, <1>5, NoneFlow

\* The process prints: the chunk is due to the subscriber next.
LEMMA ReadChunkFlow ==
  ASSUME FlowInv, Typing', ReadChunk
  PROVE  FlowInv' /\ Forward /\ FeedMoves
<1>1. /\ reader.pc = "read" /\ latest' = latest + 1
      /\ UNCHANGED <<sub, calls, chan, att, cursor, reported, screen>>
  BY DEF ReadChunk, store
<1>2. latest \in Nat /\ cursor \in Nat /\ reported \in Nat /\ Nobody \notin Attachments
      /\ cursor <= latest /\ reported <= latest
  BY BoundAssumption, NobodyAssumption DEF FlowInv, Counts, Totals, Typing, TypeOK, ShellType, StoreType
<1>3. Forward
  BY <1>1, <1>2 DEF Forward, OnScreen
<1>4. (\A b \in Attachments : SenderKept(b)) /\ (reader'.pc # "read" => reader'.seq = latest')
  <2>1. CASE sub = Nobody
    <3>1. reader'.pc = "read"
      BY <2>1 DEF ReadChunk, Reading
    <3>. QED BY <1>1, <1>2, <2>1, <3>1 DEF SenderKept, TipKept, Due, DueNext, Held
  <2>2. CASE sub # Nobody
    <3>1. reader'.pc = "credit" /\ reader'.for = sub /\ reader'.seq = latest'
      BY <1>1, <2>2 DEF ReadChunk
    <3>. QED BY <1>1, <3>1 DEF SenderKept, TipKept, Due, DueNext, Held
  <2>. QED BY <2>1, <2>2
<1>5. Totals'
  BY <1>1, <1>2, <1>4 DEF FlowInv, Counts, Totals
<1>6. FeedMoves
  BY <1>1 DEF FeedMoves
<1>. QED BY <1>1, <1>3, <1>4, <1>5, <1>6, NoneFlow

\* A message is sent.
LEMMA SentQueue ==
  ASSUME Typing, NEW a \in Attachments, NEW x \in Event, att'[a] = att[a], chan'[a] = Append(chan[a], x)
  PROVE  Queue(a)' = Append(Queue(a), x)
<1>. DEFINE q == (att[a].replay \o att[a].pend) \o att[a].raw
<1>1. q \in Seq(Event) /\ chan[a] \in Seq(Event)
  <2>1. /\ att[a].replay \in Seq(Event) /\ att[a].pend \in Seq(Event) /\ att[a].raw \in Seq(Event)
        /\ chan[a] \in Seq(Event)
    BY QueueForm
  <2>2. att[a].replay \o att[a].pend \in Seq(Event)
    BY <2>1, Concatenation
  <2>. QED BY <2>1, <2>2, Concatenation
<1>2. Queue(a) = q \o chan[a] /\ Queue(a)' = q \o Append(chan[a], x)
  BY DEF Queue
<1>. HIDE DEF q
<1>3. q \o Append(chan[a], x) = Append(q \o chan[a], x)
  BY <1>1, Joining
<1>. QED BY <1>2, <1>3

\* A message that may be sent is: the attachment's flow goes on.
LEMMA SentFlow ==
  ASSUME FlowInv, Typing', NEW a \in Attachments, NEW x \in Event, att' = att,
         chan' = [chan EXCEPT ![a] = Append(@, x)], att[a].st \notin {"none", "called"},
         UNCHANGED <<latest, calls, store>>, x.seq <= latest,
         x.kind = "output" => x.seq = latest /\ Due(a) /\ reader'.pc = "read",
         x.kind # "output" => TipKept(a),
         sub' = sub, reader'.pc # "read" => reader' = reader,
         \A b \in Attachments \ {a} : SenderKept(b)
  PROVE  FlowInv'
<1>1. /\ Typing /\ PhaseOf(a) /\ CountOf(a) /\ FlowOf(a) /\ Totals
      /\ chan \in [Attachments -> Seq(Event)]
  BY DEF FlowInv, Phases, Counts, Flow, Typing, TypeOK, WireType
<1>2. Forward /\ UNCHANGED <<latest, cursor, reported, screen>>
  BY <1>1, IdleStore
<1>3. chan'[a] = Append(chan[a], x) /\ \A b \in Attachments : b # a => chan'[b] = chan[b]
  BY <1>1
<1>4. Queue(a)' = Append(Queue(a), x) /\ Queue(a) \in Seq(Event)
  BY <1>1, <1>3, SentQueue, QueueForm
<1>5. Totals'
  BY <1>1, <1>2 DEF Totals
<1>6. PhaseOf(a)' /\ CountOf(a)'
  BY <1>1, <1>2 DEF PhaseOf, CountOf, OnScreen, Allowed
<1>7. FlowOf(a)'
  <2>. SUFFICES ASSUME att[a].active PROVE FlowOf(a)'
    BY DEF FlowOf
  <2>1. Reach(a)' = Reach(a) /\ Reach(a) \in Nat /\ latest \in Nat
    BY <1>1, <1>2, Numbers DEF NumbersOf, Reach, Allowed
  <2>2. Linked(Queue(a), Reach(a)) /\ (x.kind = "output" => Open(Queue(a), Reach(a), x.seq))
    BY <1>1 DEF FlowOf
  <2>3. /\ Linked(Append(Queue(a), x), Reach(a))
        /\ \A s \in Nat : Open(Queue(a), Reach(a), s) => Open(Append(Queue(a), x), Reach(a), s)
        /\ x.kind = "output" => Open(Append(Queue(a), x), Reach(a), x.seq + 1)
    BY <1>4, <2>1, <2>2, Pushed
  <2>4. Bounded(Queue(a))'
    <3>1. \A i \in DOMAIN Append(Queue(a), x) : Append(Queue(a), x)[i].seq <= latest
      BY <1>1, <1>4 DEF FlowOf, Bounded
    <3>. QED BY <1>2, <1>4, <3>1 DEF Bounded
  <2>5. CASE x.kind = "output"
    BY <1>2, <1>4, <2>1, <2>3, <2>4, <2>5 DEF FlowOf, Due, DueNext, Held
  <2>6. CASE x.kind # "output"
    BY <1>1, <1>4, <2>1, <2>3, <2>4, <2>6, MovedFlow
  <2>. QED BY <2>5, <2>6
<1>. QED BY <1>1, <1>2, <1>3, <1>5, <1>6, <1>7, OneFlow

\* A chunk or the end of the process is sent.
LEMMA SendFlow ==
  ASSUME FlowInv, Typing', SendChunk \/ SendEnded
  PROVE  FlowInv'
<1>1. /\ att' = att /\ sub' = sub /\ UNCHANGED <<latest, calls, store>> /\ reader \in Reader
      /\ sub \in Attachments \cup {Nobody} /\ Typing /\ Totals /\ latest \in Nat
  BY BoundAssumption DEF SendChunk, SendEnded, FlowInv, Counts, Typing, TypeOK, ShellType
<1>2. CASE SendChunk
  <2>. DEFINE a == reader.for
              x == Output(reader.seq)
  <2>1. /\ reader.pc = "send" /\ reader' = Reading /\ chan' = [chan EXCEPT ![a] = Append(@, x)]
        /\ reader.seq = latest /\ a \in Attachments /\ reader.seq \in Chunks /\ Reading.pc = "read"
    BY <1>1, <1>2 DEF SendChunk, FlowInv, Counts, Totals, Typing, Busy, Reading
  <2>2. x \in Event /\ x.kind = "output" /\ x.seq = latest
    BY <2>1, EventType DEF Output
  <2>3. Due(a) /\ att[a].st \notin {"none", "called"}
    BY <2>1 DEF Due, Held, FlowInv, Phases, PhaseOf
  <2>4. \A b \in Attachments \ {a} : SenderKept(b)
    BY <1>1, <2>1 DEF SenderKept, TipKept, Due, DueNext, Held
  <2>5. /\ x.kind = "output" => x.seq = latest /\ Due(a) /\ reader'.pc = "read"
        /\ x.kind # "output" => TipKept(a)
        /\ reader'.pc # "read" => reader' = reader
    BY <2>1, <2>2, <2>3
  <2>6. x \in Event /\ x.seq <= latest /\ a \in Attachments /\ chan' = [chan EXCEPT ![a] = Append(@, x)]
    BY <1>1, <2>1, <2>2
  <2>. HIDE DEF a, x
  <2>. QED BY <1>1, <2>3, <2>4, <2>5, <2>6, SentFlow
<1>3. CASE SendEnded /\ sub # Nobody
  <2>1. UNCHANGED <<latest, sub, reader>> /\ chan' = [chan EXCEPT ![sub] = Append(@, Ended)] /\ sub \in Attachments
    BY <1>1, <1>3 DEF SendEnded
  <2>2. Ended \in Event /\ Ended.kind # "output" /\ Ended.seq <= latest
    BY <1>1, EventType DEF Ended
  <2>3. att[sub].st \notin {"none", "called"}
    BY <2>1 DEF FlowInv, Phases, PhaseOf
  <2>4. \A b \in Attachments : SenderKept(b) /\ TipKept(b)
    BY <2>1 DEF SenderKept, TipKept, Due, DueNext, Held
  <2>. QED BY <1>1, <2>1, <2>2, <2>3, <2>4, SentFlow
<1>4. CASE SendEnded /\ sub = Nobody
  <2>1. UNCHANGED <<latest, sub, reader, chan>>
    BY <1>4 DEF SendEnded
  <2>2. \A b \in Attachments : SenderKept(b)
    BY <2>1 DEF SenderKept, TipKept, Due, DueNext, Held
  <2>3. Forward /\ UNCHANGED <<latest, cursor, reported, screen>>
    BY <1>1, IdleStore
  <2>4. Totals'
    BY <1>1, <2>1, <2>3 DEF Totals
  <2>. QED BY <1>1, <2>1, <2>2, <2>3, <2>4, NoneFlow
<1>. QED BY <1>2, <1>3, <1>4

-----------------------------------------------------------------------------
(* The commands.                                                           *)

\* A command has run.
LEMMA CallDone ==
  ASSUME Typing, Totals, calls # <<>>, calls' = Tail(calls), UNCHANGED <<latest, cursor, reported>>,
         reader'.pc # "read" => reader.pc # "read" /\ reader'.seq = reader.seq
  PROVE  Totals'
<1>1. \A i \in DOMAIN calls' : i + 1 \in DOMAIN calls /\ calls'[i] = calls[i + 1]
  BY OneLess DEF Typing, TypeOK, WireType
<1>. QED BY <1>1 DEF Totals

\* The oldest call was issued with a cursor that is still behind the store's.
LEMMA HeadCall ==
  ASSUME Typing, Totals, calls # <<>>
  PROVE  /\ Head(calls) \in Call /\ Head(calls).seq \in 0 .. MaxChunks
         /\ Head(calls).op # "detach" => Head(calls).seq <= cursor
         /\ Head(calls).op = "ack" => att[Head(calls).id].step = "ack"
<1>1. calls \in Seq(Call) /\ 1 \in DOMAIN calls /\ Head(calls) = calls[1] /\ Head(calls) \in Call
  BY HeadTail, OneLess DEF Typing, TypeOK, WireType
<1>. QED BY <1>1, CallType DEF Totals, Typing, Waits

\* The shell gives up a subscriber or credit, or wakes the reader.
LEMMA WakeShell ==
  ASSUME Typing, latest' = latest, sub' \in {sub, Nobody}, reader' \in {reader, Woken(reader)}
  PROVE  /\ \A b \in Attachments : SenderKept(b)
         /\ reader'.pc # "read" => reader.pc # "read" /\ reader'.seq = reader.seq
<1>1. Nobody \notin Attachments
  BY NobodyAssumption
<1>2. reader'.for = reader.for /\ reader'.seq = reader.seq
      /\ (reader'.pc = "read" <=> reader.pc = "read") /\ (reader'.pc = "send" <=> reader.pc = "send")
  BY WokenFlow
<1>. QED BY <1>1, <1>2 DEF SenderKept, TipKept, Due, DueNext, Held

\* detach gives up the subscriber.
LEMMA RunDetachFlow ==
  ASSUME FlowInv, Typing', NEW a \in Attachments, RunDetach(a)
  PROVE  FlowInv'
<1>1. /\ Typing /\ Totals /\ UNCHANGED <<latest, chan, att, store>> /\ calls # <<>> /\ calls' = Tail(calls)
      /\ sub' \in {sub, Nobody} /\ reader' \in {reader, Woken(reader)}
  BY DEF RunDetach, HeadIs, FlowInv, Counts
<1>2. Forward /\ UNCHANGED <<latest, cursor, reported, screen>>
  BY <1>1, IdleStore
<1>. QED BY <1>1, <1>2, WakeShell, CallDone, NoneFlow

\* An acknowledgement advances its attachment up to what is shown.
LEMMA RunAckFlow ==
  ASSUME FlowInv, Typing', NEW a \in Attachments, RunAck(a)
  PROVE  FlowInv'
<1>. DEFINE s == Head(calls).seq
            r == [att[a] EXCEPT !.step = "idle", !.now = 0, !.last = IF s > @ THEN s ELSE @]
<1>1. /\ Typing /\ Totals /\ UNCHANGED <<latest, chan, store>> /\ calls # <<>> /\ calls' = Tail(calls)
      /\ sub' \in {sub, Nobody} /\ reader' \in {reader, Woken(reader)}
      /\ PhaseOf(a) /\ CountOf(a) /\ FlowOf(a) /\ att \in [Attachments -> Attachment]
      /\ Head(calls).op = "ack" /\ Head(calls).id = a
  BY DEF RunAck, HeadIs, FlowInv, Phases, Counts, Flow, Typing, TypeOK, ViewType
<1>2. Forward /\ UNCHANGED <<latest, cursor, reported, screen>>
  BY <1>1, IdleStore
<1>3. /\ \A b \in Attachments : SenderKept(b)
      /\ reader'.pc # "read" => reader.pc # "read" /\ reader'.seq = reader.seq
  BY <1>1, WakeShell
<1>4. s \in Nat /\ s <= cursor /\ att[a].step = "ack"
  BY <1>1, HeadCall, BoundAssumption
<1>5. att'[a] = r /\ \A b \in Attachments : b # a => att'[b] = att[b]
  BY <1>1 DEF RunAck
<1>6. /\ r.st = att[a].st /\ r.active = att[a].active /\ r.started = att[a].started
      /\ r.replay = att[a].replay /\ r.raw = att[a].raw /\ r.pend = att[a].pend /\ r.step = "idle"
      /\ r.last = IF s > att[a].last THEN s ELSE att[a].last
  <2>1. att[a] \in Attachment
    BY <1>1
  <2>. HIDE DEF s
  <2>. QED BY <2>1 DEF Attachment
<1>7. Totals'
  BY <1>1, <1>2, <1>3, CallDone
<1>8. PhaseOf(a)'
  BY <1>1, <1>3, <1>5, <1>6 DEF PhaseOf, SenderKept
<1>9. CountOf(a)'
  <2>1. att'[a].last <= cursor'
    BY <1>1, <1>2, <1>4, <1>5, <1>6 DEF CountOf
  <2>. QED BY <1>5, <1>6, <2>1 DEF CountOf
<1>10. FlowOf(a)'
  <2>1. Queue(a)' = Queue(a)
    BY <1>1, <1>5, <1>6 DEF Queue
  <2>2. WriteKept(a) /\ TipKept(a)
    BY <1>3, <1>4 DEF WriteKept, SenderKept
  <2>. QED BY <1>1, <1>2, <1>5, <1>6, <2>1, <2>2, KeptFlow
<1>. QED BY <1>1, <1>2, <1>3, <1>5, <1>7, <1>8, <1>9, <1>10, OneFlow

\* The result of attach is on its way, or attach is refused.
LEMMA ReplyFlow ==
  ASSUME FlowInv, Typing', NEW a \in Attachments, ReplyAttach(a) \/ RefuseAttach(a)
  PROVE  FlowInv'
<1>1. /\ Typing /\ Totals /\ UNCHANGED <<native, chan, store>> /\ calls # <<>> /\ calls' = Tail(calls)
      /\ PhaseOf(a) /\ CountOf(a) /\ FlowOf(a) /\ att \in [Attachments -> Attachment]
  BY DEF ReplyAttach, RefuseAttach, HeadIs, FlowInv, Phases, Counts, Flow, Typing, TypeOK, ViewType
<1>2. latest' = latest /\ sub' = sub /\ reader' = reader /\ Forward /\ UNCHANGED <<cursor, reported, screen>>
  BY <1>1, IdleStore DEF native
<1>3. \A b \in Attachments : SenderKept(b)
  BY <1>1, IdleShell
<1>4. Totals'
  BY <1>1, <1>2, CallDone
<1>5. att[a] \in Attachment
  BY <1>1
<1>6. CASE ReplyAttach(a)
  <2>. DEFINE r == [att[a] EXCEPT !.st = "replied", !.ended = (ended # "no")]
  <2>1. att'[a] = r /\ (\A b \in Attachments : b # a => att'[b] = att[b]) /\ att[a].st = "subscribed"
    BY <1>1, <1>6 DEF ReplyAttach
  <2>2. /\ r.st = "replied" /\ r.active = att[a].active /\ r.started = att[a].started
        /\ r.replay = att[a].replay /\ r.raw = att[a].raw /\ r.pend = att[a].pend /\ r.step = att[a].step
        /\ r.last = att[a].last /\ r.now = att[a].now
    BY <1>5 DEF Attachment
  <2>. HIDE DEF r
  <2>3. PhaseOf(a)' /\ CountOf(a)'
    BY <1>1, <1>2, <2>1, <2>2 DEF PhaseOf, CountOf, OnScreen, Allowed
  <2>4. FlowOf(a)'
    <3>1. Queue(a)' = Queue(a) /\ WriteKept(a) /\ TipKept(a)
      BY <1>1, <1>3, <2>1, <2>2 DEF Queue, WriteKept, SenderKept
    <3>. QED BY <1>1, <1>2, <2>1, <2>2, <3>1, KeptFlow
  <2>. QED BY <1>1, <1>2, <1>3, <1>4, <2>1, <2>3, <2>4, OneFlow
<1>7. CASE RefuseAttach(a)
  <2>. DEFINE r == [att[a] EXCEPT !.st = "failed", !.active = FALSE, !.raw = <<>>]
  <2>1. att'[a] = r /\ (\A b \in Attachments : b # a => att'[b] = att[b])
    BY <1>1, <1>7 DEF RefuseAttach
  <2>2. /\ r.st = "failed" /\ r.active = FALSE /\ r.started = att[a].started
        /\ r.replay = att[a].replay /\ r.raw = <<>> /\ r.pend = att[a].pend /\ r.step = att[a].step
        /\ r.last = att[a].last /\ r.now = att[a].now
    BY <1>5 DEF Attachment
  <2>. HIDE DEF r
  <2>3. PhaseOf(a)' /\ CountOf(a)' /\ FlowOf(a)'
    BY <1>1, <1>2, <2>1, <2>2 DEF PhaseOf, CountOf, FlowOf, OnScreen, Allowed
  <2>. QED BY <1>1, <1>2, <1>3, <1>4, <2>1, <2>3, OneFlow
<1>. QED BY <1>6, <1>7

\* attach: the replay goes on from the cursor and the live output from the replay.
LEMMA RunAttachFlow ==
  ASSUME FlowInv, Typing', NEW a \in Attachments, RunAttach(a)
  PROVE  FlowInv'
<1>. DEFINE after == Head(calls).seq
            r == [att[a] EXCEPT !.st = "subscribed", !.replay = Replayed(after)]
<1>1. /\ Typing /\ Totals /\ UNCHANGED <<latest, calls, chan, store>> /\ calls # <<>>
      /\ sub' = a /\ reader' = Woken(reader) /\ Head(calls).op = "attach" /\ att[a].st = "called"
      /\ PhaseOf(a) /\ CountOf(a) /\ FlowOf(a) /\ att \in [Attachments -> Attachment]
  BY DEF RunAttach, HeadIs, FlowInv, Phases, Counts, Flow, Typing, TypeOK, ViewType
<1>2. Forward /\ UNCHANGED <<latest, cursor, reported, screen>>
  BY <1>1, IdleStore
<1>3. reader'.for = reader.for /\ reader'.seq = reader.seq
      /\ (reader'.pc = "read" <=> reader.pc = "read") /\ (reader'.pc = "send" <=> reader.pc = "send")
  BY <1>1, WokenFlow
<1>4. \A b \in Attachments \ {a} : SenderKept(b)
  BY <1>1, <1>2, <1>3 DEF SenderKept, TipKept, Due, DueNext, Held
<1>5. Totals'
  BY <1>1, <1>2, <1>3 DEF Totals
<1>6. after \in 0 .. MaxChunks /\ after <= cursor
  BY <1>1, HeadCall
<1>7. att'[a] = r /\ (\A b \in Attachments : b # a => att'[b] = att[b])
  BY <1>1 DEF RunAttach
<1>8. /\ r.st = "subscribed" /\ r.active = att[a].active /\ r.started = att[a].started
      /\ r.replay = Replayed(after) /\ r.raw = att[a].raw /\ r.pend = att[a].pend /\ r.step = att[a].step
      /\ r.last = att[a].last /\ r.now = att[a].now
  <2>1. att[a] \in Attachment
    BY <1>1
  <2>. HIDE DEF after
  <2>. QED BY <2>1 DEF Attachment
<1>. HIDE DEF r
<1>9. /\ att[a].raw = <<>> /\ att[a].pend = <<>> /\ chan[a] = <<>> /\ att[a].active /\ ~Held(a)
      /\ ~att[a].started /\ att[a].step = "idle"
  BY <1>1 DEF PhaseOf, Typing, Waits
<1>10. PhaseOf(a)' /\ CountOf(a)'
  BY <1>1, <1>2, <1>7, <1>8, <1>9 DEF PhaseOf, CountOf
<1>11. FlowOf(a)'
  <2>1. Replayed(after) \in Seq(Event) /\ <<>> \in Seq(Event)
    BY <1>1, <1>6, ReplayType DEF Typing, TypeOK
  <2>2. Queue(a)' = ((Replayed(after) \o <<>>) \o <<>>) \o <<>>
    BY <1>1, <1>7, <1>8, <1>9 DEF Queue
  <2>3. Queue(a)' = Replayed(after)
    BY <2>1, <2>2, Concatenation
  <2>4. /\ Linked(Replayed(after), after + 1) /\ Bounded(Replayed(after))
        /\ Open(Replayed(after), after + 1, latest + 1)
    BY <1>1, <1>6, ReplayFlow DEF Typing, TypeOK
  <2>5. after + 1 \in Nat /\ Reach(a)' \in Nat /\ after + 1 <= Reach(a)' /\ latest + 1 \in Nat
    <3>1. NumbersOf(a) /\ Reach(a)' = Allowed
      BY <1>1, <1>2, <1>7, <1>8, <1>9, Numbers DEF Reach, Allowed
    <3>. QED BY <1>6, <3>1, BoundAssumption DEF NumbersOf
  <2>6. Linked(Replayed(after), Reach(a)') /\ Open(Replayed(after), Reach(a)', latest + 1)
    BY <2>1, <2>4, <2>5, Wider
  <2>7. ~Held(a)'
    BY <1>3, <1>9 DEF Held
  <2>. HIDE DEF after
  <2>. QED BY <1>2, <2>3, <2>4, <2>6, <2>7 DEF FlowOf, Due, Bounded
<1>. QED BY <1>1, <1>2, <1>4, <1>5, <1>7, <1>10, <1>11, OneFlow

-----------------------------------------------------------------------------
(* Moving events through the webview.                                      *)

\* Start and Receive move events within the queue.
LEMMA MoveQueue ==
  ASSUME Typing, NEW a \in Attachments, PhaseOf(a), att[a].active, Start(a) \/ Receive(a)
  PROVE  Queue(a)' = Queue(a)
<1>. DEFINE x == att[a].replay
            y == att[a].pend
            z == att[a].raw
            c == chan[a]
<1>1. /\ x \in Seq(Event) /\ y \in Seq(Event) /\ z \in Seq(Event) /\ c \in Seq(Event)
      /\ z \o c \in Seq(Event) /\ <<>> \in Seq(Event)
      /\ x = <<>> /\ z = <<>> => Queue(a) = y \o c
      /\ y = <<>> => Queue(a) = x \o (z \o c)
  <2>1. <<>> \in Seq(Event)
    OBVIOUS
  <2>. QED BY <2>1, QueueForm
<1>2. att \in [Attachments -> Attachment] /\ att[a] \in Attachment /\ chan \in [Attachments -> Seq(Event)]
  BY DEF Typing, TypeOK, ViewType, WireType
<1>3. CASE Start(a)
  <2>1. att'[a] = [att[a] EXCEPT !.started = TRUE, !.pend = @ \o att[a].raw, !.raw = <<>>] /\ chan'[a] = chan[a]
        /\ x = <<>> /\ y = <<>>
    BY <1>2, <1>3 DEF Start, PhaseOf
  <2>2. att'[a].replay = x /\ att'[a].pend = y \o z /\ att'[a].raw = <<>>
    BY <1>2, <2>1 DEF Attachment
  <2>3. Queue(a)' = ((<<>> \o (<<>> \o z)) \o <<>>) \o c
    BY <2>1, <2>2 DEF Queue
  <2>. HIDE DEF x, y, z, c
  <2>4. Queue(a)' = z \o c
    BY <1>1, <2>3, Concatenation
  <2>5. Queue(a) = <<>> \o (z \o c)
    BY <1>1, <2>1
  <2>6. <<>> \o (z \o c) = z \o c
    BY <1>1, Concatenation
  <2>. QED BY <2>4, <2>5, <2>6
<1>4. CASE Receive(a) /\ att[a].started
  <2>1. /\ att'[a] = [att[a] EXCEPT !.pend = Append(@, Head(chan[a]))] /\ chan'[a] = Tail(chan[a])
        /\ c # <<>> /\ x = <<>> /\ z = <<>>
    BY <1>2, <1>4 DEF Receive, PhaseOf
  <2>2. att'[a].replay = x /\ att'[a].pend = Append(y, Head(c)) /\ att'[a].raw = z
    BY <1>2, <2>1 DEF Attachment
  <2>3. Queue(a)' = ((<<>> \o Append(y, Head(c))) \o <<>>) \o Tail(c)
    BY <2>1, <2>2 DEF Queue
  <2>. HIDE DEF x, y, z, c
  <2>4. Append(y, Head(c)) \in Seq(Event) /\ Tail(c) \in Seq(Event)
    BY <1>1, <2>1
  <2>5. Queue(a)' = Append(y, Head(c)) \o Tail(c)
    BY <2>3, <2>4, Concatenation
  <2>6. Append(y, Head(c)) \o Tail(c) = y \o c
    BY <1>1, <2>1, Joining
  <2>. QED BY <1>1, <2>1, <2>5, <2>6
<1>5. CASE Receive(a) /\ ~att[a].started
  <2>1. /\ att'[a] = [att[a] EXCEPT !.raw = Append(@, Head(chan[a]))] /\ chan'[a] = Tail(chan[a])
        /\ c # <<>> /\ y = <<>>
    BY <1>2, <1>5 DEF Receive, PhaseOf
  <2>2. att'[a].replay = x /\ att'[a].pend = y /\ att'[a].raw = Append(z, Head(c))
    BY <1>2, <2>1 DEF Attachment
  <2>3. Queue(a)' = ((x \o <<>>) \o Append(z, Head(c))) \o Tail(c)
    BY <2>1, <2>2 DEF Queue
  <2>. HIDE DEF x, y, z, c
  <2>4. Append(z, Head(c)) \in Seq(Event) /\ Tail(c) \in Seq(Event)
    BY <1>1, <2>1
  <2>5. x \o <<>> = x
    BY <1>1, Concatenation
  <2>6. (x \o Append(z, Head(c))) \o Tail(c) = x \o (Append(z, Head(c)) \o Tail(c))
    <3>. DEFINE p == Append(z, Head(c))
                q == Tail(c)
    <3>1. p \in Seq(Event) /\ q \in Seq(Event)
      BY <2>4
    <3>. HIDE DEF p, q
    <3>2. (x \o p) \o q = x \o (p \o q)
      BY <1>1, <3>1, Concatenation
    <3>. QED BY <3>2 DEF p, q
  <2>7. Append(z, Head(c)) \o Tail(c) = z \o c
    BY <1>1, <2>1, Joining
  <2>. QED BY <1>1, <2>1, <2>3, <2>5, <2>6, <2>7
<1>. QED BY <1>3, <1>4, <1>5

\* Nothing is lost between the channel and the queues.
LEMMA MoveFlow ==
  ASSUME FlowInv, Typing', NEW a \in Attachments, Start(a) \/ Receive(a)
  PROVE  FlowInv'
<1>1. /\ Typing /\ Totals /\ UNCHANGED <<native, calls, store>>
      /\ PhaseOf(a) /\ CountOf(a) /\ FlowOf(a) /\ att \in [Attachments -> Attachment] /\ att[a] \in Attachment
      /\ chan \in [Attachments -> Seq(Event)]
  BY DEF Start, Receive, FlowInv, Phases, Counts, Flow, Typing, TypeOK, ViewType, WireType
<1>2. latest' = latest /\ sub' = sub /\ reader' = reader /\ Forward /\ UNCHANGED <<cursor, reported, screen>>
  BY <1>1, IdleStore DEF native
<1>3. \A b \in Attachments : SenderKept(b)
  BY <1>1, IdleShell
<1>4. Totals'
  BY <1>1, <1>2 DEF Totals
<1>5. \A b \in Attachments : b # a => att'[b] = att[b] /\ chan'[b] = chan[b]
  BY <1>1 DEF Start, Receive
<1>6. /\ att'[a].st = att[a].st /\ att'[a].active = att[a].active /\ att'[a].replay = att[a].replay
      /\ att'[a].step = att[a].step /\ att'[a].last = att[a].last /\ att'[a].now = att[a].now
      /\ att'[a].started => att'[a].replay = <<>> /\ att'[a].raw = <<>>
      /\ ~att'[a].started => att'[a].pend = <<>>
      /\ att[a].st \notin {"none", "called"}
  <2>1. CASE Start(a)
    <3>1. att'[a] = [att[a] EXCEPT !.started = TRUE, !.pend = @ \o att[a].raw, !.raw = <<>>]
          /\ att[a].replay = <<>> /\ att[a].st = "open"
      BY <1>1, <2>1 DEF Start
    <3>. QED BY <1>1, <3>1 DEF Attachment
  <2>2. CASE Receive(a)
    <3>1. chan[a] # <<>> /\ att[a].st \notin {"none", "called"}
      BY <1>1, <2>2 DEF Receive, PhaseOf
    <3>2. /\ att[a].active \in BOOLEAN /\ att[a].started \in BOOLEAN
          /\ \/ att'[a] = att[a]
             \/ att[a].started /\ att'[a] = [att[a] EXCEPT !.pend = Append(@, Head(chan[a]))]
             \/ ~att[a].started /\ att'[a] = [att[a] EXCEPT !.raw = Append(@, Head(chan[a]))]
      BY <1>1, <2>2, Fields DEF Receive
    <3>3. CASE att'[a] = att[a]
      BY <1>1, <3>1, <3>3 DEF PhaseOf
    <3>4. CASE att[a].started /\ att'[a] = [att[a] EXCEPT !.pend = Append(@, Head(chan[a]))]
      <4>1. /\ att'[a].st = att[a].st /\ att'[a].active = att[a].active /\ att'[a].replay = att[a].replay
            /\ att'[a].step = att[a].step /\ att'[a].last = att[a].last /\ att'[a].now = att[a].now
            /\ att'[a].started = att[a].started /\ att'[a].raw = att[a].raw
        BY <1>1, <3>4 DEF Attachment
      <4>. QED BY <1>1, <3>1, <3>4, <4>1 DEF PhaseOf
    <3>5. CASE ~att[a].started /\ att'[a] = [att[a] EXCEPT !.raw = Append(@, Head(chan[a]))]
      <4>1. /\ att'[a].st = att[a].st /\ att'[a].active = att[a].active /\ att'[a].replay = att[a].replay
            /\ att'[a].step = att[a].step /\ att'[a].last = att[a].last /\ att'[a].now = att[a].now
            /\ att'[a].started = att[a].started /\ att'[a].pend = att[a].pend
        BY <1>1, <3>5 DEF Attachment
      <4>. QED BY <1>1, <3>1, <3>5, <4>1 DEF PhaseOf
    <3>. QED BY <3>2, <3>3, <3>4, <3>5
  <2>. QED BY <2>1, <2>2
<1>7. PhaseOf(a)' /\ CountOf(a)'
  BY <1>1, <1>2, <1>6 DEF PhaseOf, CountOf, OnScreen, Allowed
<1>8. FlowOf(a)'
  <2>. SUFFICES ASSUME att[a].active PROVE FlowOf(a)'
    BY <1>6 DEF FlowOf
  <2>1. Queue(a)' = Queue(a)
    BY <1>1, MoveQueue
  <2>2. WriteKept(a) /\ TipKept(a)
    BY <1>3, <1>6 DEF WriteKept, SenderKept
  <2>. QED BY <1>1, <1>2, <2>1, <2>2, KeptFlow
<1>. QED BY <1>1, <1>2, <1>3, <1>4, <1>5, <1>7, <1>8, OneFlow

\* A new attachment starts at the store's cursor.
LEMMA MountFlow ==
  ASSUME FlowInv, Typing', NEW a \in Attachments, Mount(a)
  PROVE  FlowInv'
<1>1. /\ Typing /\ Totals /\ UNCHANGED <<native, chan, store>> /\ PhaseOf(a) /\ att[a].st = "none"
      /\ att \in [Attachments -> Attachment] /\ calls \in Seq(Call) /\ cursor \in Nat
  BY BoundAssumption DEF Mount, Fresh, FlowInv, Phases, Counts, Typing, TypeOK, ViewType, WireType, StoreType
<1>2. latest' = latest /\ sub' = sub /\ reader' = reader /\ Forward /\ UNCHANGED <<cursor, reported, screen>>
  BY <1>1, IdleStore DEF native
<1>3. \A b \in Attachments : SenderKept(b)
  BY <1>1, IdleShell
<1>4. \A i \in DOMAIN calls' : (i \in DOMAIN calls /\ calls'[i] = calls[i]) \/ calls'[i].seq = cursor
  <2>1. calls' = Append(calls, [op |-> "attach", id |-> a, seq |-> cursor])
    BY DEF Mount
  <2>. QED BY <1>1, <2>1
<1>5. Totals'
  BY <1>1, <1>2, <1>4 DEF Totals
<1>6. att'[a] = [Unused EXCEPT !.st = "called", !.active = TRUE, !.last = cursor]
      /\ \A b \in Attachments : b # a => att'[b] = att[b]
  BY <1>1 DEF Mount
<1>7. /\ att'[a].st = "called" /\ att'[a].active /\ att'[a].last = cursor /\ att'[a].replay = <<>>
      /\ att'[a].raw = <<>> /\ att'[a].pend = <<>> /\ att'[a].step = "idle" /\ ~att'[a].started
  BY <1>6 DEF Unused
<1>8. chan'[a] = <<>> /\ sub # a /\ ~Held(a)
  BY <1>1 DEF PhaseOf
<1>9. PhaseOf(a)' /\ CountOf(a)'
  BY <1>1, <1>2, <1>7, <1>8 DEF PhaseOf, CountOf, Held
<1>10. FlowOf(a)'
  <2>1. Queue(a)' = ((<<>> \o <<>>) \o <<>>) \o <<>>
    BY <1>7, <1>8 DEF Queue
  <2>2. <<>> \in Seq(Event) /\ ((<<>> \o <<>>) \o <<>>) \o <<>> = <<>>
    BY Concatenation
  <2>3. Queue(a)' = <<>>
    BY <2>1, <2>2
  <2>4. Linked(<<>>, Reach(a)') /\ Bounded(Queue(a))'
    BY <2>3 DEF Linked, Bounded
  <2>. QED BY <1>2, <1>8, <2>3, <2>4 DEF FlowOf, Due, DueNext, Held
<1>. QED BY <1>1, <1>2, <1>3, <1>5, <1>6, <1>9, <1>10, OneFlow

\* A disposed attachment wants nothing any more.
LEMMA UnmountFlow ==
  ASSUME FlowInv, Typing', Unmount
  PROVE  FlowInv'
<1>0. surface \in Attachments
  BY DEF Unmount, FlowInv, Typing, TypeOK, ViewType
<1>. PICK a \in Attachments : surface = a
  BY <1>0
<1>1. /\ Typing /\ Totals /\ UNCHANGED <<native, chan, store>>
      /\ att \in [Attachments -> Attachment] /\ calls \in Seq(Call)
      /\ PhaseOf(a) /\ CountOf(a)
  BY DEF Unmount, FlowInv, Phases, Counts, Typing, TypeOK, ViewType, WireType
<1>2. latest' = latest /\ sub' = sub /\ reader' = reader /\ Forward /\ UNCHANGED <<cursor, reported, screen>>
  BY <1>1, IdleStore DEF native
<1>3. \A b \in Attachments : SenderKept(b)
  BY <1>1, IdleShell
<1>4. CASE UNCHANGED <<att, calls>>
  <2>1. Totals'
    BY <1>1, <1>2, <1>4 DEF Totals
  <2>. QED BY <1>1, <1>2, <1>3, <1>4, <2>1, NoneFlow
<1>5. CASE /\ att[a].st = "open"
           /\ att' = [att EXCEPT ![a] = Disposed(@)] /\ calls' = Append(calls, Detach(a))
  <2>1. att'[a] = Disposed(att[a]) /\ \A b \in Attachments : b # a => att'[b] = att[b]
    BY <1>1, <1>5
  <2>2. /\ att'[a].st = "open" /\ att'[a].started = att[a].started
        /\ att'[a].replay = att[a].replay /\ att'[a].raw = <<>> /\ att'[a].pend = <<>>
        /\ att'[a].step = att[a].step /\ att'[a].now = att[a].now
        /\ att'[a].last = att[a].last /\ ~att'[a].active
    <3>1. att[a] \in Attachment
      BY <1>1
    <3>. DEFINE r == [att[a] EXCEPT !.active = FALSE, !.raw = <<>>, !.pend = <<>>]
    <3>2. att'[a] = r
      BY <2>1 DEF Disposed
    <3>3. /\ r.st = att[a].st /\ r.active = FALSE /\ r.started = att[a].started
          /\ r.replay = att[a].replay /\ r.raw = <<>> /\ r.pend = <<>> /\ r.step = att[a].step
          /\ r.last = att[a].last /\ r.now = att[a].now
      BY <3>1 DEF Attachment
    <3>. HIDE DEF r
    <3>. QED BY <1>5, <3>2, <3>3
  <2>3. \A i \in DOMAIN calls' : (i \in DOMAIN calls /\ calls'[i] = calls[i]) \/ calls'[i].op = "detach"
    <3>1. Detach(a).op = "detach"
      BY DEF Detach
    <3>. QED BY <1>1, <1>5, <3>1
  <2>4. Totals'
    BY <1>1, <1>2, <2>3 DEF Totals
  <2>5. PhaseOf(a)' /\ CountOf(a)' /\ FlowOf(a)'
    BY <1>1, <1>2, <2>2 DEF PhaseOf, CountOf, FlowOf, OnScreen, Allowed
  <2>. QED BY <1>1, <1>2, <1>3, <2>1, <2>4, <2>5, OneFlow
<1>. QED BY <1>4, <1>5 DEF Unmount

-----------------------------------------------------------------------------
(* Consuming.                                                              *)

\* Consuming takes the head of the queue in use.
LEMMA ConsumedQueues ==
  ASSUME NEW r \in Attachment
  PROVE  /\ Consumed(r).last = r.last /\ Consumed(r).raw = r.raw
         /\ r.started => Consumed(r).pend = Tail(r.pend) /\ Consumed(r).replay = r.replay
         /\ ~r.started => Consumed(r).replay = Tail(r.replay) /\ Consumed(r).pend = r.pend
<1>. DEFINE e    == Head(Pending(r))
            left == IF r.started THEN [r EXCEPT !.pend = Tail(@)] ELSE [r EXCEPT !.replay = Tail(@)]
            step == IF Wanted(r, e) THEN "write" ELSE "ack"
<1>1. /\ left.last = r.last /\ left.raw = r.raw
      /\ r.started => left.pend = Tail(r.pend) /\ left.replay = r.replay
      /\ ~r.started => left.replay = Tail(r.replay) /\ left.pend = r.pend
  BY DEF Attachment
<1>2. left = [st |-> left.st, active |-> left.active, started |-> left.started, replay |-> left.replay,
              ended |-> left.ended, raw |-> left.raw, pend |-> left.pend, last |-> left.last,
              step |-> left.step, now |-> left.now]
  BY DEF Attachment
<1>3. Consumed(r) = IF e.kind = "output" THEN [left EXCEPT !.step = step, !.now = e.seq] ELSE left
  BY DEF Consumed
<1>. HIDE DEF left, step, e
<1>. QED BY <1>1, <1>2, <1>3

\* The head of the queue in use is the head of the whole queue.
LEMMA TakenQueue ==
  ASSUME Typing, NEW a \in Attachments, PhaseOf(a), Pending(att[a]) # <<>>, chan'[a] = chan[a],
         att'[a].raw = att[a].raw,
         att[a].started => att'[a].pend = Tail(att[a].pend) /\ att'[a].replay = att[a].replay,
         ~att[a].started => att'[a].replay = Tail(att[a].replay) /\ att'[a].pend = att[a].pend
  PROVE  Queue(a)' = Tail(Queue(a))
<1>. DEFINE x == att[a].replay
            y == att[a].pend
            z == att[a].raw
            c == chan[a]
<1>1. /\ x \in Seq(Event) /\ y \in Seq(Event) /\ z \in Seq(Event) /\ c \in Seq(Event)
      /\ z \o c \in Seq(Event)
      /\ x = <<>> /\ z = <<>> => Queue(a) = y \o c
      /\ y = <<>> => Queue(a) = x \o (z \o c)
  BY QueueForm
<1>2. CASE att[a].started
  <2>1. x = <<>> /\ z = <<>> /\ y # <<>>
    BY <1>2 DEF Pending, PhaseOf
  <2>2. Queue(a)' = ((<<>> \o Tail(y)) \o <<>>) \o c
    BY <1>2, <2>1 DEF Queue
  <2>. HIDE DEF x, y, z, c
  <2>3. Tail(y) \in Seq(Event)
    BY <1>1, <2>1
  <2>4. Queue(a)' = Tail(y) \o c
    BY <2>2, <2>3, Concatenation
  <2>5. Tail(y \o c) = Tail(y) \o c
    BY <1>1, <2>1, Joining
  <2>. QED BY <1>1, <2>1, <2>4, <2>5
<1>3. CASE ~att[a].started
  <2>1. y = <<>> /\ x # <<>>
    BY <1>3 DEF Pending, PhaseOf
  <2>2. Queue(a)' = ((Tail(x) \o <<>>) \o z) \o c
    BY <1>3, <2>1 DEF Queue
  <2>. HIDE DEF x, y, z, c
  <2>. DEFINE p == Tail(x)
  <2>3. p \in Seq(Event)
    BY <1>1, <2>1
  <2>. HIDE DEF p
  <2>4. p \o <<>> = p /\ (p \o z) \o c = p \o (z \o c)
    <3>1. p \o <<>> = p
      BY <2>3, Concatenation
    <3>2. z \in Seq(Event) /\ c \in Seq(Event)
      BY <1>1
    <3>3. (p \o z) \o c = p \o (z \o c)
      BY <2>3, <3>2, ConcatAssociative
    <3>. QED BY <3>1, <3>3
  <2>5. Tail(x \o (z \o c)) = p \o (z \o c)
    BY <1>1, <2>1, Joining DEF p
  <2>. QED BY <1>1, <2>1, <2>2, <2>4, <2>5 DEF p
<1>. QED BY <1>2, <1>3

\* The event that is consumed next is the first of the whole queue.
LEMMA TakenHead ==
  ASSUME Typing, NEW a \in Attachments, PhaseOf(a), Pending(att[a]) # <<>>
  PROVE  Queue(a) # <<>> /\ Head(Queue(a)) = Head(Pending(att[a]))
<1>. DEFINE x == att[a].replay
            y == att[a].pend
            z == att[a].raw
            c == chan[a]
<1>1. /\ x \in Seq(Event) /\ y \in Seq(Event) /\ z \in Seq(Event) /\ c \in Seq(Event)
      /\ z \o c \in Seq(Event)
      /\ x = <<>> /\ z = <<>> => Queue(a) = y \o c
      /\ y = <<>> => Queue(a) = x \o (z \o c)
  BY QueueForm
<1>2. CASE att[a].started
  <2>1. x = <<>> /\ z = <<>> /\ y # <<>> /\ Pending(att[a]) = y
    BY <1>2 DEF Pending, PhaseOf
  <2>. HIDE DEF x, y, z, c
  <2>. QED BY <1>1, <2>1, Joining
<1>3. CASE ~att[a].started
  <2>1. y = <<>> /\ x # <<>> /\ Pending(att[a]) = x
    BY <1>3 DEF Pending, PhaseOf
  <2>. DEFINE w == z \o c
  <2>2. w \in Seq(Event) /\ Queue(a) = x \o w
    BY <1>1, <2>1
  <2>. HIDE DEF x, y, w
  <2>3. x \o w # <<>> /\ Head(x \o w) = Head(x)
    BY <1>1, <2>1, <2>2, Joining
  <2>. QED BY <2>1, <2>2, <2>3
<1>. QED BY <1>2, <1>3

\* The acknowledgement of a stale chunk carries its number.
LEMMA TakenCalls ==
  ASSUME Typing, NEW a \in Attachments, NEW e \in Event, NEW x \in Seq(Call), Len(x) <= 1,
         Len(x) = 1 => x[1].op = "detach", calls' = (calls \o StaleAck(a, e)) \o x
  PROVE  \A i \in DOMAIN calls' :
           \/ i \in DOMAIN calls /\ calls'[i] = calls[i]
           \/ calls'[i].op = "detach"
           \/ Stale(a, e) /\ calls'[i].id = a /\ calls'[i].seq = e.seq
<1>. DEFINE y == StaleAck(a, e)
            q == calls \o y
<1>1. e.kind = "output" => e.seq \in Chunks /\ [op |-> "ack", id |-> a, seq |-> e.seq] \in Call
  BY EventType DEF Call
<1>2. y \in Seq(Call) /\ Len(y) <= 1 /\ (Len(y) = 1 => Stale(a, e) /\ y[1].id = a /\ y[1].seq = e.seq)
  BY <1>1 DEF StaleAck, Stale
<1>. HIDE DEF y
<1>3. calls \in Seq(Call)
  BY DEF Typing, TypeOK, WireType
<1>4. /\ q \in Seq(Call)
      /\ \A i \in DOMAIN calls : i \in DOMAIN q /\ q[i] = calls[i]
      /\ \A i \in DOMAIN q : i \in DOMAIN calls \/ (i = Len(calls) + 1 /\ Len(y) = 1 /\ q[i] = y[1])
  BY <1>2, <1>3, Longer
<1>. HIDE DEF q
<1>5. calls' = q \o x
  BY DEF q, y
<1>6. /\ \A i \in DOMAIN q : i \in DOMAIN (q \o x) /\ (q \o x)[i] = q[i]
      /\ \A i \in DOMAIN (q \o x) : i \in DOMAIN q \/ (i = Len(q) + 1 /\ Len(x) = 1 /\ (q \o x)[i] = x[1])
  BY <1>4, Longer
<1>. QED BY <1>2, <1>4, <1>5, <1>6

\* An event is taken by an attachment that waits for nothing.
LEMMA TakeFlow ==
  ASSUME FlowInv, Typing', NEW a \in Attachments, NEW e \in Event,
         att[a].active, att[a].step = "idle", Applied(a, e), UNCHANGED <<native, chan>>,
         \A b \in Attachments : b # a => att'[b] = att[b],
         Queue(a) # <<>>, Head(Queue(a)) = e, att'[a].active => Queue(a)' = Tail(Queue(a)),
         att'[a].last = att[a].last,
         e.kind # "output" => att'[a].step = "idle",
         e.kind = "output" => att'[a].now = e.seq /\ att'[a].step = IF Wanted(att[a], e) THEN "write" ELSE "ack",
         \A i \in DOMAIN calls' : \/ i \in DOMAIN calls /\ calls'[i] = calls[i]
                                  \/ calls'[i].op = "detach"
                                  \/ Stale(a, e) /\ calls'[i].seq = e.seq,
         PhaseOf(a)'
  PROVE  FlowInv' /\ Forward /\ FeedMoves
<1>1. Typing /\ Totals /\ PhaseOf(a) /\ CountOf(a) /\ FlowOf(a) /\ NumbersOf(a) /\ NumbersOf(a)'
  BY Numbers, NumbersNext DEF FlowInv, Phases, Counts, Flow
<1>2. latest' = latest /\ sub' = sub /\ reader' = reader /\ \A b \in Attachments : SenderKept(b)
  BY IdleShell DEF native
<1>3. Queue(a) \in Seq(Event) /\ 1 \in DOMAIN Queue(a) /\ Queue(a)[1] = e /\ e.seq \in Nat
  <2>1. Queue(a) \in Seq(Event)
    BY <1>1, QueueForm
  <2>2. 1 \in DOMAIN Queue(a) /\ Queue(a)[1] = e
    BY <2>1, OneLess
  <2>. QED BY <2>1, <2>2, EventType
<1>4. e.seq <= latest /\ Reach(a) = Allowed
  BY <1>1, <1>3 DEF FlowOf, Bounded, Reach
<1>5. e.kind = "output" => e.seq <= Allowed
  <2>1. DOMAIN Queue(a) = 1 .. Len(Queue(a))
    BY <1>3
  <2>2. \A j \in DOMAIN Queue(a) : ~(j < 1)
    BY <2>1
  <2>. QED BY <1>1, <1>3, <1>4, <2>2 DEF FlowOf, Linked
<1>6. Stale(a, e) => e.seq <= cursor
  BY <1>1, <1>3 DEF Stale, Wanted, CountOf, NumbersOf
<1>7. /\ cursor' = cursor /\ reported' = IF e.kind = "truncated" /\ e.seq > reported THEN e.seq ELSE reported
      /\ screen' = IF Wanted(att[a], e) THEN Append(screen, e.seq) ELSE screen
  BY DEF Applied
<1>8. reported <= reported' /\ reported' <= latest /\ (e.kind = "truncated" => e.seq <= reported')
  BY <1>1, <1>3, <1>4, <1>7 DEF Totals, NumbersOf
<1>9. Forward /\ (Wanted(att[a], e) => OnScreen(e.seq)')
  <2>1. screen \in Seq(Chunks) /\ (Wanted(att[a], e) => e.seq \in Chunks)
    BY <1>1, EventType DEF Wanted, Typing, TypeOK, StoreType
  <2>2. /\ \A i \in DOMAIN screen : i \in DOMAIN screen' /\ screen'[i] = screen[i]
        /\ Wanted(att[a], e) => Len(screen) + 1 \in DOMAIN screen' /\ screen'[Len(screen) + 1] = e.seq
    BY <1>7, <2>1
  <2>3. latest <= latest' /\ cursor <= cursor'
    BY <1>1, <1>2, <1>7 DEF NumbersOf
  <2>. QED BY <1>8, <2>2, <2>3 DEF Forward, OnScreen
<1>10. /\ Reach(a) <= Reach(a)' /\ Reach(a) \in Nat /\ Reach(a)' \in Nat
       /\ Allowed <= Allowed' /\ Allowed \in Nat /\ Allowed' \in Nat
  BY <1>1, <1>9, Reaching DEF WriteKept
<1>11. Totals'
  <2>1. \A i \in DOMAIN calls' : calls'[i].op # "detach" => calls'[i].seq <= cursor
    BY <1>1, <1>6 DEF Totals
  <2>. QED BY <1>1, <1>2, <1>7, <1>8, <2>1 DEF Totals
<1>12. CountOf(a)'
  <2>1. att'[a].last <= cursor'
    BY <1>1, <1>7 DEF CountOf
  <2>2. att'[a].step = "ack" => att'[a].now <= cursor'
    BY <1>6, <1>7 DEF Stale
  <2>3. ASSUME att'[a].step = "write"
        PROVE  att'[a].now <= latest' /\ att'[a].now <= Allowed' /\ OnScreen(att[a].now)'
    <3>1. e.kind = "output" /\ att'[a].now = e.seq /\ Wanted(att[a], e)
      BY <2>3
    <3>2. e.seq <= Allowed'
      BY <1>3, <1>5, <1>10, <3>1
    <3>3. OnScreen(att[a].now)'
      BY <1>9, <3>1 DEF OnScreen
    <3>. QED BY <1>2, <1>4, <3>1, <3>2, <3>3
  <2>. QED BY <2>1, <2>2, <2>3 DEF CountOf
<1>13. FlowOf(a)'
  <2>. SUFFICES ASSUME att'[a].active PROVE FlowOf(a)'
    BY DEF FlowOf
  <2>1. ASSUME NEW s \in Nat, Follows(s, e) PROVE s <= Reach(a)'
    <3>1. /\ Allowed' <= Reach(a)' /\ reported' <= Allowed' /\ reported' \in Nat
          /\ att'[a].now \in Nat /\ (att'[a].step = "write" => att'[a].now < Reach(a)')
      BY <1>1 DEF NumbersOf
    <3>2. CASE e.kind = "truncated" /\ e.seq >= s
      BY <1>3, <1>8, <1>10, <3>1, <3>2
    <3>3. CASE e.kind = "output" /\ e.seq + 1 = s /\ Wanted(att[a], e)
      <4>1. e.seq < Reach(a)'
        BY <3>1, <3>3
      <4>. QED BY <1>3, <1>10, <3>3, <4>1
    <3>4. CASE e.kind = "output" /\ e.seq + 1 = s /\ ~Wanted(att[a], e)
      <4>1. e.seq <= cursor /\ cursor \in Nat /\ cursor < Allowed
        BY <1>1, <1>6, <3>4 DEF Stale, NumbersOf
      <4>2. s <= Allowed
        BY <1>3, <1>10, <3>4, <4>1
      <4>. QED BY <1>10, <3>1, <4>2
    <3>. QED BY <2>1, <3>2, <3>3, <3>4 DEF Follows
  <2>2. /\ Linked(Queue(a), Reach(a)) => Linked(Tail(Queue(a)), Reach(a)')
        /\ \A s \in Nat : Open(Queue(a), Reach(a), s) => Open(Tail(Queue(a)), Reach(a)', s)
    BY <1>3, <1>10, <2>1, Popped
  <2>3. Linked(Queue(a)', Reach(a)')
    BY <1>1, <2>2 DEF FlowOf
  <2>4. Bounded(Queue(a))'
    <3>1. \A i \in DOMAIN Tail(Queue(a)) : Tail(Queue(a))[i].seq <= latest
      BY <1>1, <1>3, OneLess DEF FlowOf, Bounded
    <3>. QED BY <1>2, <3>1 DEF Bounded
  <2>5. \A s \in Nat : Open(Queue(a), Reach(a), s) => Open(Queue(a)', Reach(a)', s)
    BY <2>2
  <2>6. TipKept(a) /\ latest \in Nat
    BY <1>1, <1>2 DEF SenderKept, NumbersOf
  <2>. QED BY <1>1, <2>3, <2>4, <2>5, <2>6, MovedFlow
<1>14. FeedMoves
  BY <1>1, <1>2, <1>4, <1>7 DEF FeedMoves, NumbersOf
<1>. QED BY <1>2, <1>9, <1>11, <1>12, <1>13, <1>14, OneFlow

\* An event is consumed by the loops of ready() and drain().
LEMMA ConsumeFlow ==
  ASSUME FlowInv, Typing', NEW a \in Attachments, Consume(a)
  PROVE  FlowInv' /\ Forward /\ FeedMoves
<1>. DEFINE e == Head(Pending(att[a]))
            n == Consumed(att[a])
<1>1. /\ Typing /\ PhaseOf(a) /\ att \in [Attachments -> Attachment] /\ att[a] \in Attachment
      /\ att[a].active /\ att[a].step = "idle" /\ att[a].st = "open" /\ Pending(att[a]) # <<>>
      /\ Applied(a, e) /\ calls' = calls \o StaleAck(a, e) /\ UNCHANGED <<native, chan>>
      /\ att' = [att EXCEPT ![a] = n]
  BY DEF Consume, FlowInv, Phases, Typing, TypeOK, ViewType
<1>2. /\ e \in Event /\ n.st = "open" /\ n.active = att[a].active /\ n.started = att[a].started
      /\ e.kind # "output" => n.step = "idle"
      /\ e.kind = "output" => n.now = e.seq /\ n.step = IF Wanted(att[a], e) THEN "write" ELSE "ack"
  BY <1>1, ConsumedType
<1>3. /\ n.last = att[a].last /\ n.raw = att[a].raw
      /\ att[a].started => n.pend = Tail(att[a].pend) /\ n.replay = att[a].replay
      /\ ~att[a].started => n.replay = Tail(att[a].replay) /\ n.pend = att[a].pend
  BY <1>1, ConsumedQueues
<1>. HIDE DEF n
<1>4. att'[a] = n /\ (\A b \in Attachments : b # a => att'[b] = att[b]) /\ chan'[a] = chan[a]
  BY <1>1
<1>5. Queue(a)' = Tail(Queue(a)) /\ Queue(a) # <<>> /\ Head(Queue(a)) = e
  BY <1>1, <1>3, <1>4, TakenQueue, TakenHead
<1>6. \A i \in DOMAIN calls' : \/ i \in DOMAIN calls /\ calls'[i] = calls[i]
                               \/ calls'[i].op = "detach"
                               \/ Stale(a, e) /\ calls'[i].seq = e.seq
  <2>. DEFINE x == <<>>
  <2>1. x \in Seq(Call) /\ Len(x) = 0 /\ calls \in Seq(Call)
    BY <1>1 DEF Typing, TypeOK, WireType
  <2>2. calls \o StaleAck(a, e) \in Seq(Call)
    <3>1. StaleAck(a, e) \in Seq(Call)
      BY <1>1, <1>2, AppliedType DEF Typing, TypeOK
    <3>. QED BY <2>1, <3>1, Concatenation
  <2>3. calls' = (calls \o StaleAck(a, e)) \o x
    BY <1>1, <2>2, Concatenation
  <2>4. Typing /\ e \in Event /\ Len(x) <= 1 /\ (Len(x) = 1 => x[1].op = "detach")
    BY <1>1, <1>2, <2>1
  <2>. HIDE DEF e, x
  <2>. QED BY <2>1, <2>3, <2>4, TakenCalls
<1>7. PhaseOf(a)'
  BY <1>1, <1>2, <1>3, <1>4 DEF PhaseOf
<1>. HIDE DEF e
<1>. QED BY <1>1, <1>2, <1>3, <1>4, <1>5, <1>6, <1>7, TakeFlow

\* The result of attach arrives and its first event is consumed.
LEMMA AttachedFlow ==
  ASSUME FlowInv, Typing', NEW a \in Attachments, Attached(a)
  PROVE  FlowInv' /\ Forward /\ FeedMoves
<1>. DEFINE r    == [att[a] EXCEPT !.st = "open"]
            next == IF r.replay = <<>> THEN r ELSE Consumed(r)
            e    == Head(r.replay)
            acks == IF r.replay = <<>> THEN <<>> ELSE StaleAck(a, e)
            x    == IF surface = a THEN <<>> ELSE <<Detach(a)>>
            n    == IF surface = a THEN next ELSE Disposed(next)
<1>1. /\ Typing /\ Totals /\ PhaseOf(a) /\ CountOf(a) /\ FlowOf(a)
      /\ att \in [Attachments -> Attachment] /\ att[a] \in Attachment /\ att[a].st = "replied"
  BY DEF Attached, FlowInv, Phases, Counts, Flow, Typing, TypeOK, ViewType
<1>2. /\ r \in Attachment /\ r.st = "open" /\ r.active = att[a].active
      /\ r.step = att[a].step /\ r.now = att[a].now /\ r.started = att[a].started /\ r.replay = att[a].replay
      /\ r.raw = att[a].raw /\ r.pend = att[a].pend /\ r.last = att[a].last
  BY <1>1 DEF Attachment
<1>3. att[a].step = "idle" /\ ~att[a].started /\ Pending(r) = r.replay /\ Pending(att[a]) = r.replay /\ att[a].active
      /\ att[a].pend = <<>>
  BY <1>1, <1>2 DEF Typing, Waits, Pending, PhaseOf
<1>4. /\ IF r.replay = <<>> THEN UNCHANGED <<screen, writes, reported, cursor>> ELSE Applied(a, e)
      /\ att' = [att EXCEPT ![a] = n] /\ calls' = (calls \o acks) \o x
      /\ UNCHANGED <<native, chan, surface>>
  BY DEF Attached
<1>5. x \in Seq(Call) /\ Len(x) <= 1 /\ (Len(x) = 1 => x[1] = Detach(a))
  BY CallType
<1>6. Len(x) = 1 => x[1].op = "detach"
  BY <1>5, CallType
<1>. HIDE DEF r, x, e
<1>7. /\ next \in Attachment /\ next.st = "open" /\ next.active = att[a].active /\ ~next.started
      /\ next.raw = att[a].raw /\ next.pend = <<>> /\ next.last = att[a].last
      /\ r.replay = <<>> => next = r
      /\ r.replay # <<>> =>
           /\ e \in Event /\ next.replay = Tail(att[a].replay)
           /\ e.kind # "output" => next.step = "idle"
           /\ e.kind = "output" => next.now = e.seq /\ next.step = IF Wanted(r, e) THEN "write" ELSE "ack"
  <2>1. CASE r.replay = <<>>
    BY <1>2, <1>3, <2>1
  <2>2. CASE r.replay # <<>>
    <3>1. next = Consumed(r)
      BY <2>2
    <3>2. /\ Consumed(r) \in Attachment /\ Consumed(r).st = r.st /\ Consumed(r).active = r.active
          /\ Consumed(r).started = r.started /\ e \in Event
          /\ e.kind # "output" => Consumed(r).step = r.step
          /\ e.kind = "output" => /\ Consumed(r).now = e.seq
                                  /\ Consumed(r).step = IF Wanted(r, e) THEN "write" ELSE "ack"
      BY <1>2, <1>3, <2>2, ConsumedType DEF e
    <3>3. /\ Consumed(r).last = r.last /\ Consumed(r).raw = r.raw
          /\ ~r.started => Consumed(r).replay = Tail(r.replay) /\ Consumed(r).pend = r.pend
      BY <1>2, ConsumedQueues
    <3>. HIDE DEF next
    <3>. QED BY <1>2, <1>3, <2>2, <3>1, <3>2, <3>3
  <2>. QED BY <2>1, <2>2
<1>. HIDE DEF next
<1>8. /\ n.st = "open" /\ n.started = next.started /\ n.replay = next.replay /\ n.step = next.step
      /\ n.now = next.now /\ n.last = next.last /\ n.pend = <<>>
      /\ n.active => n = next
  <2>1. CASE surface = a
    BY <1>7, <2>1
  <2>2. CASE surface # a
    <3>. DEFINE d == [next EXCEPT !.active = FALSE, !.raw = <<>>, !.pend = <<>>]
    <3>1. n = d
      BY <2>2 DEF Disposed
    <3>2. /\ d.st = next.st /\ d.active = FALSE /\ d.started = next.started /\ d.replay = next.replay
          /\ d.step = next.step /\ d.now = next.now /\ d.last = next.last /\ d.pend = <<>>
      BY <1>7 DEF Attachment
    <3>. HIDE DEF d, n
    <3>. QED BY <1>7, <3>1, <3>2
  <2>. QED BY <2>1, <2>2
<1>. HIDE DEF n
<1>9. att'[a] = n /\ (\A b \in Attachments : b # a => att'[b] = att[b]) /\ chan'[a] = chan[a]
  BY <1>1, <1>4
<1>10. PhaseOf(a)'
  BY <1>7, <1>8, <1>9 DEF PhaseOf
<1>11. CASE r.replay = <<>>
  <2>1. UNCHANGED <<screen, reported, cursor>> /\ latest' = latest /\ sub' = sub /\ reader' = reader
    BY <1>4, <1>11 DEF native
  <2>2. Forward /\ FeedMoves
    BY <1>1, <2>1, IdleMoves
  <2>3. \A b \in Attachments : SenderKept(b)
    BY <1>4, IdleShell
  <2>4. calls \in Seq(Call) /\ calls' = calls \o x
    <3>1. calls \in Seq(Call)
      BY <1>1 DEF Typing, TypeOK, WireType
    <3>. QED BY <1>4, <1>11, <3>1, Concatenation
  <2>5. \A i \in DOMAIN calls' : (i \in DOMAIN calls /\ calls'[i] = calls[i]) \/ calls'[i].op = "detach"
    BY <1>5, <1>6, <2>4, Longer
  <2>6. Totals'
    BY <1>1, <2>1, <2>5 DEF Totals
  <2>7. /\ n.step = "idle" /\ n.last = att[a].last /\ n.replay = att[a].replay
        /\ n.active => n.raw = att[a].raw /\ n.pend = att[a].pend
    BY <1>2, <1>3, <1>7, <1>8, <1>11
  <2>8. CountOf(a)'
    BY <1>1, <1>9, <2>1, <2>7 DEF CountOf
  <2>9. FlowOf(a)'
    <3>. SUFFICES ASSUME att'[a].active PROVE FlowOf(a)'
      BY DEF FlowOf
    <3>1. Queue(a)' = Queue(a)
      BY <1>9, <2>7 DEF Queue
    <3>2. WriteKept(a) /\ TipKept(a)
      BY <1>3, <2>3 DEF WriteKept, SenderKept
    <3>. QED BY <1>1, <1>3, <2>2, <3>1, <3>2, KeptFlow
  <2>. QED BY <1>9, <1>10, <1>4, <2>2, <2>3, <2>6, <2>8, <2>9, OneFlow
<1>12. CASE r.replay # <<>>
  <2>1. e \in Event /\ Applied(a, e) /\ calls' = (calls \o StaleAck(a, e)) \o x
    BY <1>4, <1>7, <1>12
  <2>2. Queue(a) # <<>> /\ Head(Queue(a)) = e
    BY <1>1, <1>3, <1>12, TakenHead DEF e
  <2>3. ASSUME att'[a].active PROVE Queue(a)' = Tail(Queue(a))
    <3>1. /\ att'[a].raw = att[a].raw /\ att'[a].replay = Tail(att[a].replay) /\ att'[a].pend = att[a].pend
      BY <1>3, <1>7, <1>8, <1>9, <1>12, <2>3
    <3>. QED BY <1>1, <1>3, <1>9, <1>12, <3>1, TakenQueue
  <2>4. \A i \in DOMAIN calls' : \/ i \in DOMAIN calls /\ calls'[i] = calls[i]
                                 \/ calls'[i].op = "detach"
                                 \/ Stale(a, e) /\ calls'[i].seq = e.seq
    BY <1>1, <1>5, <1>6, <2>1, TakenCalls
  <2>5. Wanted(r, e) <=> Wanted(att[a], e)
    BY <1>2 DEF Wanted
  <2>6. /\ att'[a].last = att[a].last
        /\ e.kind # "output" => att'[a].step = "idle"
        /\ e.kind = "output" => att'[a].now = e.seq /\ att'[a].step = IF Wanted(att[a], e) THEN "write" ELSE "ack"
    BY <1>7, <1>8, <1>9, <1>12, <2>5
  <2>. QED BY <1>3, <1>4, <1>9, <1>10, <2>1, <2>2, <2>3, <2>4, <2>6, TakeFlow
<1>. QED BY <1>11, <1>12

\* xterm has parsed a chunk: the store shows it.
LEMMA WrittenFlow ==
  ASSUME FlowInv, Typing', NEW a \in Attachments, Written(a)
  PROVE  FlowInv' /\ Forward /\ FeedMoves
<1>1. /\ Typing /\ Totals /\ PhaseOf(a) /\ CountOf(a) /\ FlowOf(a) /\ NumbersOf(a)
      /\ att \in [Attachments -> Attachment] /\ att[a] \in Attachment /\ calls \in Seq(Call)
      /\ UNCHANGED <<native, chan, surface, shown, screen, reported>>
      /\ writes \in Seq(Attachments) /\ writes # <<>> /\ Head(writes) = a
  BY Numbers DEF Written, FlowInv, Phases, Counts, Flow, Typing, TypeOK, ViewType, WireType
<1>2. att[a].step = "write" /\ att[a].st = "open"
  <2>1. 1 \in DOMAIN writes /\ writes[1] = a
    BY <1>1, OneLess
  <2>. QED BY <1>1, <2>1 DEF Typing, Waits
<1>. DEFINE s == att[a].now
<1>3. s \in Nat /\ s <= latest /\ s <= Allowed /\ OnScreen(s) /\ cursor \in Nat /\ latest \in Nat /\ reported \in Nat
      /\ cursor <= latest
  BY <1>1, <1>2 DEF CountOf, NumbersOf, Totals
<1>4. cursor' = IF s > cursor THEN s ELSE cursor
  BY DEF Written
<1>. HIDE DEF s
<1>5. /\ cursor <= cursor' /\ s <= cursor' /\ cursor' <= latest /\ latest' = latest /\ reported' = reported
      /\ screen' = screen /\ sub' = sub /\ reader' = reader
  BY <1>1, <1>3, <1>4 DEF native
<1>6. Forward
  BY <1>3, <1>5 DEF Forward, OnScreen
<1>7. FeedMoves
  <2>1. CASE s > cursor
    BY <1>3, <1>4, <1>5, <2>1 DEF FeedMoves
  <2>2. CASE ~(s > cursor)
    BY <1>4, <1>5, <2>2 DEF FeedMoves
  <2>. QED BY <2>1, <2>2
<1>8. \A b \in Attachments : SenderKept(b)
  BY <1>1, IdleShell
<1>9. \A i \in DOMAIN calls' : (i \in DOMAIN calls /\ calls'[i] = calls[i]) \/ calls'[i].seq = s
  <2>1. CASE calls' = Append(calls, [op |-> "ack", id |-> a, seq |-> s])
    BY <1>1, <2>1
  <2>2. CASE calls' = calls
    BY <2>2
  <2>. QED BY <2>1, <2>2 DEF Written, s
<1>10. Totals'
  <2>1. \A i \in DOMAIN calls : calls[i].seq \in Nat
    BY <1>1, CallType, BoundAssumption
  <2>2. cursor' \in Nat
    BY <1>3, <1>4
  <2>3. \A i \in DOMAIN calls' : calls'[i].op # "detach" => calls'[i].seq <= cursor'
    BY <1>1, <1>3, <1>5, <1>9, <2>1, <2>2 DEF Totals
  <2>. QED BY <1>1, <1>5, <2>3 DEF Totals
<1>11. \A b \in Attachments : b # a => att'[b] = att[b] /\ chan'[b] = chan[b]
  BY <1>1 DEF Written
<1>12. /\ att'[a].st = att[a].st /\ att'[a].active = att[a].active /\ att'[a].started = att[a].started
       /\ att'[a].replay = att[a].replay /\ att'[a].raw = att[a].raw /\ att'[a].pend = att[a].pend
       /\ att'[a].last = att[a].last /\ chan'[a] = chan[a]
       /\ att'[a].step = "idle" \/ (att'[a].step = "ack" /\ att'[a].now = s)
  <2>1. CASE att[a].active
    <3>. DEFINE r == [att[a] EXCEPT !.step = "ack"]
    <3>1. att'[a] = r
      BY <1>1, <2>1 DEF Written
    <3>2. /\ r.st = att[a].st /\ r.active = att[a].active /\ r.started = att[a].started /\ r.replay = att[a].replay
          /\ r.raw = att[a].raw /\ r.pend = att[a].pend /\ r.last = att[a].last /\ r.step = "ack" /\ r.now = s
      BY <1>1 DEF Attachment, s
    <3>. HIDE DEF r
    <3>. QED BY <1>1, <3>1, <3>2
  <2>2. CASE ~att[a].active
    <3>. DEFINE r == [att[a] EXCEPT !.step = "idle", !.now = 0]
    <3>1. att'[a] = r
      BY <1>1, <2>2 DEF Written
    <3>2. /\ r.st = att[a].st /\ r.active = att[a].active /\ r.started = att[a].started /\ r.replay = att[a].replay
          /\ r.raw = att[a].raw /\ r.pend = att[a].pend /\ r.last = att[a].last /\ r.step = "idle"
      BY <1>1 DEF Attachment
    <3>. HIDE DEF r
    <3>. QED BY <1>1, <3>1, <3>2
  <2>. QED BY <2>1, <2>2
<1>13. PhaseOf(a)'
  BY <1>1, <1>2, <1>12 DEF PhaseOf
<1>14. CountOf(a)'
  <2>1. cursor' \in Nat /\ att'[a].last <= cursor'
    <3>1. cursor' \in Nat /\ att[a].last \in Nat /\ att[a].last <= cursor
      BY <1>1, <1>3, <1>4 DEF CountOf, NumbersOf
    <3>. QED BY <1>3, <1>5, <1>12, <3>1
  <2>. QED BY <1>5, <1>12, <2>1 DEF CountOf
<1>15. FlowOf(a)'
  <2>1. Queue(a)' = Queue(a)
    BY <1>12 DEF Queue
  <2>2. WriteKept(a) /\ TipKept(a)
    BY <1>5, <1>8 DEF WriteKept, SenderKept, s
  <2>. QED BY <1>1, <1>6, <1>12, <2>1, <2>2, KeptFlow
<1>. QED BY <1>6, <1>7, <1>8, <1>10, <1>11, <1>13, <1>14, <1>15, OneFlow

-----------------------------------------------------------------------------
(* The theorems.                                                           *)

\* The invariant holds at first.
LEMMA FlowInit == Init => FlowInv
<1>. SUFFICES ASSUME Init PROVE FlowInv
  OBVIOUS
<1>1. Typing
  BY TypingInit
<1>2. \A a \in Attachments : att[a] = Unused /\ chan[a] = <<>>
  BY DEF Init
<1>3. /\ Unused.st = "none" /\ ~Unused.active /\ ~Unused.started /\ Unused.replay = <<>> /\ Unused.raw = <<>>
      /\ Unused.pend = <<>> /\ Unused.last = 0 /\ Unused.step = "idle"
  BY DEF Unused
<1>4. /\ latest = 0 /\ cursor = 0 /\ reported = 0 /\ reader.pc = "read" /\ sub = Nobody /\ calls = <<>>
  BY DEF Init, Reading
<1>5. Totals
  BY <1>4 DEF Totals
<1>6. \A a \in Attachments : PhaseOf(a) /\ CountOf(a) /\ FlowOf(a)
  BY <1>2, <1>3, <1>4, NobodyAssumption DEF PhaseOf, CountOf, FlowOf, Held
<1>. QED BY <1>1, <1>5, <1>6 DEF FlowInv, Phases, Counts, Flow

\* Every step keeps the invariant, and is one the feed allows.
LEMMA FlowStep ==
  ASSUME FlowInv, [Next]_vars
  PROVE  FlowInv' /\ Forward /\ FeedMoves
<1>1. Typing /\ Typing'
  BY TypingStep DEF FlowInv
<1>2. CASE UNCHANGED vars
  <2>1. UNCHANGED <<latest, cursor, reported, screen, att, chan, sub, reader, calls, native>>
    BY <1>2 DEF vars, native
  <2>2. \A b \in Attachments : SenderKept(b)
    BY <2>1, IdleShell
  <2>3. Totals'
    BY <2>1 DEF Totals, FlowInv, Counts
  <2>. QED BY <1>1, <2>1, <2>2, <2>3, IdleMoves, NoneFlow
<1>3. CASE SkipReplaced \/ ReserveCredit \/ WaitForCredit \/ Finalize \/ CloseStream \/ CloseEntry \/ SendChunk \/ SendEnded
  <2>1. UNCHANGED <<latest, cursor, reported, screen>>
    BY <1>3 DEF SkipReplaced, ReserveCredit, WaitForCredit, Finalize, CloseStream, CloseEntry, SendChunk, SendEnded, store
  <2>. QED BY <1>1, <1>3, <2>1, IdleMoves, QuietThreadFlow, SendFlow
<1>4. CASE ReadChunk
  BY <1>1, <1>4, ReadChunkFlow
<1>5. ASSUME NEW a \in Attachments, Command(a) \/ Mount(a) \/ Start(a) \/ Receive(a)
      PROVE  FlowInv' /\ Forward /\ FeedMoves
  <2>1. UNCHANGED <<latest, cursor, reported, screen>>
    BY <1>5 DEF Command, RunAttach, ReplyAttach, RefuseAttach, RunAck, RunDetach, Mount, Start, Receive, native, store
  <2>. QED BY <1>1, <1>5, <2>1, IdleMoves, RunAttachFlow, ReplyFlow, RunAckFlow, RunDetachFlow, MountFlow, MoveFlow
           DEF Command
<1>6. CASE Unmount
  <2>1. UNCHANGED <<latest, cursor, reported, screen>>
    BY <1>6 DEF Unmount, native, store
  <2>. QED BY <1>1, <1>6, <2>1, IdleMoves, UnmountFlow
<1>7. ASSUME NEW a \in Attachments, Attached(a) \/ Consume(a) \/ Written(a)
      PROVE  FlowInv' /\ Forward /\ FeedMoves
  BY <1>1, <1>7, AttachedFlow, ConsumeFlow, WrittenFlow
<1>. QED BY <1>2, <1>3, <1>4, <1>5, <1>6, <1>7 DEF Next, ReaderStep, View

\* The content of every queue between the process and the screen stays connected to what is shown.
THEOREM FlowInvariant == Spec => []FlowInv
<1>1. FlowInv /\ [Next]_vars => FlowInv'
  BY FlowStep
<1>. QED BY <1>1, FlowInit, PTL DEF Spec

\* The store forgets nothing it has shown, and counts only what it wrote or what was announced as gone.
LEMMA LossStep ==
  ASSUME FlowInv, NoSilentLoss, Typing', Forward, FeedMoves
  PROVE  NoSilentLoss'
<1>1. /\ cursor \in Nat /\ reported \in Nat /\ cursor' \in Nat /\ reported' \in Nat /\ reported <= reported'
      /\ Allowed = cursor + 1 \/ Allowed = reported
  BY BoundAssumption DEF FlowInv, Typing, TypeOK, StoreType, Forward, Allowed
<1>. SUFFICES ASSUME NEW s \in 1 .. cursor' PROVE OnScreen(s)' \/ s < reported'
  BY DEF NoSilentLoss, OnScreen
<1>2. CASE s <= cursor
  <2>1. OnScreen(s) \/ s < reported
    BY <1>1, <1>2 DEF NoSilentLoss, OnScreen
  <2>. QED BY <1>1, <2>1 DEF Forward
<1>3. CASE ~(s <= cursor)
  <2>1. PICK c \in Nat : cursor' = c /\ c > cursor /\ c <= Allowed /\ OnScreen(c)
    BY <1>1, <1>3 DEF FeedMoves
  <2>2. s = c \/ s < reported
    BY <1>1, <1>3, <2>1
  <2>3. OnScreen(c)'
    BY <2>1 DEF Forward
  <2>. QED BY <1>1, <2>2, <2>3
<1>. QED BY <1>2, <1>3

\* Whatever the store counts as shown was written to the screen or announced as truncated, however
\* often the surface is mounted and whatever the reader holds meanwhile.
THEOREM NoHole == Spec => []NoSilentLoss
<1>1. Init => NoSilentLoss
  BY DEF Init, NoSilentLoss
<1>2. FlowInv /\ NoSilentLoss /\ [Next]_vars => NoSilentLoss'
  BY FlowStep, LossStep DEF FlowInv
<1>. QED BY <1>1, <1>2, FlowInvariant, PTL DEF Spec

\* The terminal implements its feed: attach, replay, live output, the window and remounts come down to
\* printing, announcing a truncation, and showing the next chunk or one behind an announced truncation.
THEOREM Implements == Spec => ImplementsFeed
<1>1. Init => Feed!FeedInit
  BY DEF Init, Feed!FeedInit
<1>2. FlowInv /\ [Next]_vars => [Feed!FeedNext]_(Feed!feedVars)
  <2>. SUFFICES ASSUME FlowInv, [Next]_vars PROVE Feed!FeedNext \/ UNCHANGED Feed!feedVars
    OBVIOUS
  <2>0. FeedMoves
    BY FlowStep
  <2>1. /\ latest \in Nat /\ cursor \in Nat /\ reported \in Nat /\ reported' \in Nat
        /\ Allowed = cursor + 1 \/ Allowed = reported
    <3>1. Typing'
      BY TypingStep DEF FlowInv
    <3>. QED BY <3>1, BoundAssumption DEF FlowInv, Typing, TypeOK, ShellType, StoreType, Allowed
  <2>2. CASE UNCHANGED <<latest, cursor, reported>>
    BY <2>2 DEF Feed!feedVars
  <2>3. CASE latest' = latest + 1 /\ UNCHANGED <<cursor, reported>>
    BY <2>3 DEF Feed!FeedNext, Feed!Produce
  <2>4. CASE reported' > reported /\ reported' <= latest /\ UNCHANGED <<latest, cursor>>
    <3>1. PICK e \in Nat : e = reported'
      BY <2>1
    <3>2. e \in 1 .. latest /\ Feed!Announce(e)
      BY <2>1, <2>4, <3>1 DEF Feed!Announce
    <3>. QED BY <3>2 DEF Feed!FeedNext
  <2>5. ASSUME NEW c \in Nat, cursor' = c, c > cursor, c <= latest, c <= Allowed, UNCHANGED <<latest, reported>>
        PROVE  Feed!FeedNext
    <3>1. c \in 1 .. latest /\ (c = cursor + 1 \/ c <= reported)
      BY <2>1, <2>5
    <3>2. Feed!Show(c)
      BY <2>5, <3>1 DEF Feed!Show
    <3>. QED BY <3>1, <3>2 DEF Feed!FeedNext
  <2>. QED BY <2>0, <2>2, <2>3, <2>4, <2>5 DEF FeedMoves
<1>. QED BY <1>1, <1>2, FlowInvariant, PTL DEF Spec, ImplementsFeed, Feed!FeedSpec
=============================================================================
