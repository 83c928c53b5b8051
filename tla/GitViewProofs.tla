--------------------------- MODULE GitViewProofs ---------------------------
(***************************************************************************)
(* Theorems about GitView, for any set of domains, any kinds of changes    *)
(* and any bounds of the environment.                                      *)
(***************************************************************************)
EXTENDS GitView, TLAPS

-----------------------------------------------------------------------------
(* Typing of the operations the actions are built from.                    *)

\* What a step leaves alone keeps its type.
LEMMA Frame ==
  ASSUME TypeOK
  PROVE  /\ UNCHANGED server => WatchType'
         /\ UNCHANGED wire => WireType'
         /\ UNCHANGED page => PageType'
         /\ UNCHANGED store => StoreType'
         /\ UNCHANGED queue => QueueType'
         /\ UNCHANGED notes => NotesType'
         /\ UNCHANGED <<version, served>> => ServedType'
         /\ UNCHANGED <<query, drain>> => Awaited'
<1>1. UNCHANGED server => WatchType'
  BY DEF TypeOK, server, WatchType
<1>2. UNCHANGED wire => WireType'
  BY DEF TypeOK, wire, WireType
<1>3. UNCHANGED page => PageType'
  BY DEF TypeOK, page, PageType
<1>4. UNCHANGED store => StoreType'
  BY DEF TypeOK, store, StoreType
<1>5. UNCHANGED queue => QueueType'
  BY DEF TypeOK, queue, QueueType
<1>6. UNCHANGED notes => NotesType'
  BY DEF TypeOK, notes, NotesType
<1>7. UNCHANGED <<version, served>> => ServedType'
  BY DEF TypeOK, served, ServedType
<1>8. UNCHANGED <<query, drain>> => Awaited'
  BY DEF TypeOK, Awaited
<1>. QED BY <1>1, <1>2, <1>3, <1>4, <1>5, <1>6, <1>7, <1>8

\* The bounds left after one more step of the environment.
LEMMA SpendType ==
  ASSUME TypeOK, NEW kind \in Limited, Spend(kind)
  PROVE  budget' \in [Limited -> Nat]
BY DEF TypeOK, Spend

\* A message leaves a channel, or joins it.
LEMMA HeadTail ==
  ASSUME NEW S, NEW s \in Seq(S), s # <<>>
  PROVE  /\ Head(s) \in S /\ Head(s) = s[1] /\ Tail(s) \in Seq(S)
         /\ Len(Tail(s)) = Len(s) - 1
         /\ \A i \in 1 .. Len(Tail(s)) : Tail(s)[i] = s[i + 1]
OBVIOUS

LEMMA EmptyHasNoLength ==
  ASSUME NEW S, NEW s \in Seq(S)
  PROVE  s = <<>> <=> Len(s) = 0
OBVIOUS

\* The last message of a channel.
LEMMA LastOne ==
  ASSUME NEW S, NEW s \in Seq(S), s # <<>>, Tail(s) = <<>>
  PROVE  Len(s) = 1 /\ Head(s) = s[Len(s)]
<1>1. Len(s) \in Nat /\ Len(Tail(s)) = Len(s) - 1
  BY HeadTail
<1>2. Tail(s) \in Seq(S)
  BY HeadTail
<1>3. Len(Tail(s)) = 0
  BY <1>2, EmptyHasNoLength
<1>4. Len(s) - 1 = 0
  BY <1>1, <1>3, Zenon
<1>5. Len(s) = 1
  BY <1>1, <1>4
<1>. QED BY <1>5, HeadTail

\* A round is a drain.
LEMMA RoundType ==
  ASSUME NEW ds \in SUBSET Domains, NEW d \in ds, timer' \in BOOLEAN, requested' \subseteq Domains,
         drain' = Round(ds, d)
  PROVE  QueueType'
BY DEF Round, QueueType

\* A request keeps the queue of refreshes well typed.
LEMMA RequestType ==
  ASSUME QueueType, NEW ds \in SUBSET Domains, Request(ds), timer' \in BOOLEAN
  PROVE  QueueType'
<1>1. CASE ds = {}
  BY <1>1 DEF Request, QueueType
<1>2. CASE ds # {} /\ drain.on
  BY <1>2 DEF Request, QueueType
<1>3. CASE ds # {} /\ ~drain.on
  <2>1. requested \cup ds \in SUBSET Domains /\ requested' = {}
    BY <1>3 DEF QueueType, Request
  <2>. QED BY <1>3, <2>1, RoundType DEF Request
<1>. QED BY <1>1, <1>2, <1>3

\* So do the invalidations.
LEMMA LaterType ==
  ASSUME TypeOK, NEW ds \in SUBSET Domains, InvalidateLater(ds)
  PROVE  invalid' \subseteq Domains /\ QueueType'
<1>1. invalid' \subseteq Domains
  BY DEF TypeOK, StoreType, InvalidateLater
<1>2. QueueType'
  BY DEF TypeOK, QueueType, InvalidateLater, Outdated
<1>. QED BY <1>1, <1>2

LEMMA NowType ==
  ASSUME TypeOK, NEW ds \in SUBSET Domains, InvalidateNow(ds)
  PROVE  invalid' \subseteq Domains /\ QueueType'
<1>1. invalid' \subseteq Domains /\ timer' \in BOOLEAN /\ invalid' \cap Demanded \in SUBSET Domains
  BY DEF TypeOK, StoreType, InvalidateNow
<1>2. CASE drain.on
  BY <1>1, <1>2 DEF TypeOK, QueueType, InvalidateNow, Outdated
<1>3. CASE ~drain.on
  BY <1>1, <1>3, RequestType DEF TypeOK, InvalidateNow
<1>. QED BY <1>1, <1>2, <1>3

\* A watch that loses a subscriber.
LEMMA LeaveType ==
  ASSUME WatchType, NotesType, NEW c, Leave(c), UNCHANGED <<ignored, skipped, without, shared>>
  PROVE  WatchType' /\ NotesType'
<1>1. CASE watch.subs \subseteq {c}
  <2>1. watch' = NoWatch /\ noticed' = {} /\ batch' = NoBatch
    BY <1>1 DEF Leave
  <2>2. NoWatch \in [loop : {"none", "starting", "running", "dead"}, seq : Nat, subs : SUBSET Nat]
    BY DEF NoWatch
  <2>3. NoBatch \in [on : BOOLEAN, seq : Nat, domains : SUBSET Domains, subs : SUBSET Nat]
    BY DEF NoBatch
  <2>4. NotesType'
    BY <1>1 DEF Leave, NotesType
  <2>. QED BY <2>1, <2>2, <2>3, <2>4 DEF WatchType
<1>2. CASE ~(watch.subs \subseteq {c})
  BY <1>2 DEF WatchType, NotesType, Leave
<1>. QED BY <1>1, <1>2

\* An invalidation of the cache.
LEMMA ForgetType ==
  ASSUME TypeOK, NEW v \in {0, version}, Forget(v), UNCHANGED <<version, query, ignored, skipped, without, shared>>
  PROVE  ServedType' /\ NotesType'
BY DEF TypeOK, Forget, ServedType, NotesType

\* A drain that begins a round waits for nothing yet.
LEMMA RequestAwaited ==
  ASSUME Awaited, NEW ds, Request(ds), UNCHANGED query
  PROVE  Awaited'
<1>1. CASE UNCHANGED drain
  BY <1>1 DEF Awaited
<1>2. CASE ~drain.on /\ \E d : drain' = Round(requested \cup ds, d)
  BY <1>2 DEF Awaited, Round
<1>. QED BY <1>1, <1>2 DEF Request

\* An invalidation leaves the drain to its query.
LEMMA OutdatedAwaited ==
  ASSUME QueueType, Awaited, drain' = Outdated(drain), UNCHANGED query
  PROVE  Awaited'
BY DEF QueueType, Awaited, Outdated

LEMMA LaterAwaited ==
  ASSUME TypeOK, NEW ds, InvalidateLater(ds), UNCHANGED query
  PROVE  Awaited'
BY OutdatedAwaited DEF TypeOK, InvalidateLater

LEMMA NowAwaited ==
  ASSUME TypeOK, NEW ds, InvalidateNow(ds), UNCHANGED query
  PROVE  Awaited'
BY OutdatedAwaited, RequestAwaited DEF TypeOK, InvalidateNow

\* The end of a domain's turn in the drain: the next domain, the next round, or the end.
LEMMA AdvanceType ==
  ASSUME TypeOK, Advance, UNCHANGED <<timer, surface, conn, down>>
  PROVE  QueueType' /\ PageType' /\ WireType'
<1>1. ASSUME NEW d \in drain.left,
             drain' = [drain EXCEPT !.left = @ \ {d}, !.cur = d, !.phase = "ask", !.val = 0],
             UNCHANGED requested
      PROVE  QueueType'
  BY <1>1 DEF TypeOK, QueueType
<1>2. ASSUME NEW d \in requested, drain' = Round(requested, d), requested' = {}
      PROVE  QueueType'
  <2>1. requested \in SUBSET Domains /\ timer' \in BOOLEAN
    BY DEF TypeOK, QueueType
  <2>. QED BY <1>2, <2>1, RoundType
<1>3. ASSUME drain' = Idle, UNCHANGED requested
      PROVE  QueueType'
  BY <1>3 DEF TypeOK, QueueType, Idle
<1>4. ASSUME UNCHANGED <<project, desired, up>>
      PROVE  PageType' /\ WireType'
  BY <1>4 DEF TypeOK, PageType, WireType
<1>5. ASSUME project' = [project EXCEPT !.opening = FALSE],
             IF project.opening
             THEN desired' = TRUE /\ up' = IF conn.open THEN Append(up, "bind") ELSE up
             ELSE UNCHANGED <<desired, up>>
      PROVE  PageType' /\ WireType'
  <2>1. desired' \in BOOLEAN /\ project' \in [active : BOOLEAN, opening : BOOLEAN]
    BY <1>5 DEF TypeOK, PageType
  <2>2. "bind" \in {"bind", "unbind"} /\ up \in Seq({"bind", "unbind"})
    BY DEF TypeOK, WireType
  <2>3. up' \in Seq({"bind", "unbind"})
    BY <1>5, <2>2
  <2>. QED BY <2>1, <2>3 DEF TypeOK, PageType, WireType
<1>6. QueueType'
  BY <1>1, <1>2, <1>3 DEF Advance
<1>7. PageType' /\ WireType'
  BY <1>4, <1>5 DEF Advance
<1>. QED BY <1>6, <1>7

\* The drain goes on: nothing it has asked is answered yet.
LEMMA AdvanceAsks ==
  ASSUME TypeOK, Advance
  PROVE  drain'.phase = "ask"
<1>1. ASSUME NEW e, drain' = [drain EXCEPT !.left = @ \ {e}, !.cur = e, !.phase = "ask", !.val = 0]
      PROVE  drain'.phase = "ask"
  <2>1. drain \in [on : BOOLEAN, left : SUBSET Domains, cur : Domains \cup {"none"},
                   phase : {"ask", "wait", "answered"}, val : Nat, current : BOOLEAN]
    BY DEF TypeOK, QueueType
  <2>. QED BY <1>1, <2>1
<1>2. ASSUME NEW e, drain' = Round(requested, e) PROVE drain'.phase = "ask"
  BY <1>2 DEF Round
<1>3. ASSUME drain' = Idle PROVE drain'.phase = "ask"
  BY <1>3 DEF Idle
<1>4. \/ \E e : drain' = [drain EXCEPT !.left = @ \ {e}, !.cur = e, !.phase = "ask", !.val = 0]
      \/ \E e : drain' = Round(requested, e)
      \/ drain' = Idle
  BY Zenon DEF Advance
<1>. QED BY <1>1, <1>2, <1>3, <1>4

-----------------------------------------------------------------------------
(* Type correctness: one step per action.                                  *)

\* The repository, the path filter, the command and the bounds.
Others ==
  /\ disk \in [Domains -> Nat] /\ paths \in Paths /\ command \in {"none", "ran", "ended"}
  /\ budget \in [Limited -> Nat]

LEMMA Together ==
  ASSUME WatchType', WireType', PageType', StoreType', QueueType', ServedType', Awaited', NotesType', Others'
  PROVE  TypeOK'
BY DEF TypeOK, Others

\* What a change of the repository does to it, and what the watch makes of it.
LEMMA TouchedType ==
  ASSUME TypeOK, NEW ds \in SUBSET Domains
  PROVE  /\ Touched(ds) \in [Domains -> Nat]
         /\ Notice(ds) /\ UNCHANGED <<watch, batch, ignored, without, shared>> => WatchType' /\ NotesType'
<1>1. Touched(ds) \in [Domains -> Nat]
  BY DEF TypeOK, Touched
<1>2. ASSUME Notice(ds), UNCHANGED <<watch, batch, ignored, without, shared>> PROVE WatchType' /\ NotesType'
  BY <1>2 DEF TypeOK, WatchType, NotesType, Notice
<1>. QED BY <1>1, <1>2

\* The steps of the repository and of its commands.
LEMMA RepositoryType ==
  ASSUME TypeOK, (\E k \in Kinds : Change(k)) \/ Command \/ CommandEnds
  PROVE  TypeOK'
<1>1. CASE \E k \in Kinds : Change(k)
  <2>. PICK k \in Kinds : Change(k)
    BY <1>1
  <2>1. k.domains \in SUBSET Domains
    BY KindAssumption
  <2>2. WatchType' /\ NotesType' /\ disk' \in [Domains -> Nat]
    BY <2>1, TouchedType DEF Change
  <2>3. ServedType'
    BY DEF Change, served, TypeOK, ServedType
  <2>4. Others'
    BY <2>2, SpendType DEF Change, Limited, TypeOK, Others
  <2>5. WireType' /\ PageType' /\ StoreType' /\ QueueType' /\ Awaited'
    BY Frame DEF Change, served, queue
  <2>. QED BY <2>2, <2>3, <2>4, <2>5, Together
<1>2. CASE Command
  <2>2. WatchType' /\ NotesType' /\ disk' \in [Domains -> Nat]
    BY <1>2, TouchedType DEF Command
  <2>3. ServedType'
    BY <1>2 DEF Command, served, TypeOK, ServedType
  <2>4. Others'
    BY <1>2, <2>2, SpendType DEF Command, Limited, TypeOK, Others
  <2>5. WireType' /\ PageType' /\ StoreType' /\ QueueType' /\ Awaited'
    BY <1>2, Frame DEF Command, served, queue
  <2>. QED BY <2>2, <2>3, <2>4, <2>5, Together
<1>3. CASE CommandEnds
  <2>1. ServedType' /\ NotesType'
    BY <1>3, ForgetType DEF CommandEnds
  <2>2. Others'
    BY <1>3 DEF CommandEnds, TypeOK, Others
  <2>3. WatchType'
    BY <1>3 DEF CommandEnds, TypeOK, WatchType
  <2>4. WireType' /\ PageType' /\ StoreType' /\ QueueType' /\ Awaited'
    BY <1>3, Frame DEF CommandEnds, queue
  <2>. QED BY <2>1, <2>2, <2>3, <2>4, Together
<1>. QED BY <1>1, <1>2, <1>3

\* The steps of the queries.
LEMMA BeginType ==
  ASSUME TypeOK, NEW d \in Domains, NEW mine \in BOOLEAN, Begin(d, mine), UNCHANGED <<version, cache>>
  PROVE  ServedType' /\ query'.on /\ query'.domain = d /\ query'.waited = mine /\ ~query.on
<1>1. Key \in Nat /\ memo' \in Nat
  BY DEF Key, Begin, TypeOK, ServedType
<1>2. disk[d] \in Nat /\ \A e \in Hits : e.key \in Nat /\ e.val \in Nat
  BY DEF TypeOK, ServedType, Hits
<1>3. \E step \in {"keyed", "read", "hit"}, key \in Nat, val \in Nat : query' = Running(d, step, key, val, mine)
  BY <1>1, <1>2 DEF Begin
<1>4. query' \in [on : BOOLEAN, domain : Domains \cup {"none"}, step : {"keyed", "read", "hit"},
                  key : Nat, val : Nat, waited : BOOLEAN]
      /\ query'.on /\ query'.domain = d /\ query'.waited = mine
  BY <1>3 DEF Running
<1>. QED BY <1>1, <1>4 DEF Begin, TypeOK, ServedType

LEMMA QueryType ==
  ASSUME TypeOK, Ask \/ (\E d \in Domains : OtherAsks(d)) \/ ReadRepository \/ EndQuery
  PROVE  TypeOK'
<1>. DEFINE Q == [on : BOOLEAN, domain : Domains \cup {"none"}, step : {"keyed", "read", "hit"},
                  key : Nat, val : Nat, waited : BOOLEAN]
            D == [on : BOOLEAN, left : SUBSET Domains, cur : Domains \cup {"none"},
                  phase : {"ask", "wait", "answered"}, val : Nat, current : BOOLEAN]
<1>0. query \in Q /\ drain \in D
  BY DEF TypeOK, ServedType, QueueType
<1>1. WatchType' /\ WireType' /\ PageType' /\ StoreType'
  BY Frame DEF Ask, OtherAsks, ReadRepository, EndQuery, TypeOK, WatchType
<1>2. CASE Ask
  <2>1. drain.cur \in Domains
    BY <1>2 DEF Ask, TypeOK, QueueType
  <2>2. /\ drain' \in D /\ drain'.on /\ drain'.phase = "wait" /\ drain'.cur = drain.cur
    BY <1>0, <1>2 DEF Ask
  <2>3. ServedType' /\ query'.waited = TRUE /\ query'.on /\ query'.domain = drain.cur
    <3>1. CASE Begin(drain.cur, TRUE)
      BY <1>2, <2>1, <3>1, BeginType DEF Ask
    <3>2. CASE query.on /\ query.domain = drain.cur /\ query' = [query EXCEPT !.waited = TRUE] /\ UNCHANGED memo
      BY <1>0, <1>2, <3>2 DEF Ask, TypeOK, ServedType
    <3>. QED BY <1>2, <3>1, <3>2 DEF Ask
  <2>4. QueueType'
    BY <1>2, <2>1, <2>2 DEF Ask, TypeOK, QueueType
  <2>5. Awaited'
    BY <2>2, <2>3 DEF Awaited
  <2>6. NotesType'
    BY <1>2, <2>1 DEF Ask, TypeOK, NotesType
  <2>7. Others'
    BY <1>2 DEF Ask, TypeOK, Others
  <2>. QED BY <1>1, <2>3, <2>4, <2>5, <2>6, <2>7, Together
<1>3. CASE \E d \in Domains : OtherAsks(d)
  <2>. PICK d \in Domains : OtherAsks(d)
    BY <1>3
  <2>1. ServedType' /\ query'.waited = FALSE /\ ~query.on
    BY BeginType DEF OtherAsks
  <2>2. Awaited'
    BY <2>1 DEF OtherAsks, queue, TypeOK, Awaited
  <2>3. QueueType' /\ NotesType'
    BY Frame DEF OtherAsks
  <2>4. Others'
    BY SpendType DEF OtherAsks, Limited, TypeOK, Others
  <2>. QED BY <1>1, <2>1, <2>2, <2>3, <2>4, Together
<1>4. CASE ReadRepository
  <2>1. disk[query.domain] \in Nat
    BY <1>4 DEF ReadRepository, TypeOK, ServedType
  <2>2. query' \in Q /\ query'.on = query.on /\ query'.domain = query.domain /\ query'.waited = query.waited
    BY <1>0, <1>4, <2>1 DEF ReadRepository
  <2>3. ServedType' /\ Awaited'
    BY <1>4, <2>2 DEF ReadRepository, queue, TypeOK, ServedType, Awaited
  <2>4. QueueType' /\ NotesType'
    BY <1>4, Frame DEF ReadRepository
  <2>5. Others'
    BY <1>4 DEF ReadRepository, TypeOK, Others
  <2>. QED BY <1>1, <2>3, <2>4, <2>5, Together
<1>5. CASE EndQuery
  <2>1. query' \in Q /\ query'.on = FALSE /\ query'.waited = FALSE
    BY <1>5 DEF EndQuery, NoQuery
  <2>2. memo' \in Nat
    BY <1>5 DEF EndQuery, TypeOK, ServedType
  <2>3. cache' \subseteq [key : Nat, val : Nat]
    BY <1>0, <1>5 DEF EndQuery, TypeOK, ServedType
  <2>4. ServedType'
    BY <1>5, <2>1, <2>2, <2>3 DEF EndQuery, TypeOK, ServedType
  <2>5. QueueType' /\ Awaited'
    <3>1. CASE query.waited
      <4>1. drain' \in D /\ drain'.on = drain.on /\ drain'.cur = drain.cur /\ drain'.phase = "answered"
        BY <1>0, <1>5, <3>1 DEF EndQuery
      <4>. QED BY <1>5, <2>1, <4>1 DEF EndQuery, TypeOK, QueueType, Awaited
    <3>2. CASE ~query.waited
      BY <1>0, <1>5, <2>1, <3>2 DEF EndQuery, TypeOK, QueueType, Awaited
    <3>. QED BY <3>1, <3>2
  <2>6. NotesType'
    BY <1>5, Frame DEF EndQuery
  <2>7. Others'
    BY <1>5 DEF EndQuery, TypeOK, Others
  <2>. QED BY <1>1, <2>4, <2>5, <2>6, <2>7, Together
<1>. QED BY <1>2, <1>3, <1>4, <1>5

\* The steps of the watch.
LEMMA ServerType ==
  ASSUME TypeOK,
         \/ WatcherFails \/ WatcherStarts \/ TakeBatch \/ SendBatch \/ ServeBind \/ ServeUnbind
         \/ \E c \in watch.subs : ServeGone(c)
  PROVE  TypeOK'
<1>1. UNCHANGED <<disk, version, page, store, paths, command>> /\ UNCHANGED queue /\ UNCHANGED query
  BY DEF WatcherFails, WatcherStarts, TakeBatch, SendBatch, ServeBind, ServeUnbind, ServeGone, served
<1>2. PageType' /\ StoreType' /\ QueueType' /\ Awaited'
  BY <1>1, Frame DEF queue
<1>3. Others'
  <2>1. CASE WatcherFails
    BY <1>1, <2>1, SpendType DEF WatcherFails, Limited, TypeOK, Others
  <2>2. CASE ~WatcherFails
    BY <1>1, <2>2 DEF WatcherStarts, TakeBatch, SendBatch, ServeBind, ServeUnbind, ServeGone, TypeOK, Others
  <2>. QED BY <2>1, <2>2
<1>4. WatchType' /\ NotesType'
  <2>1. CASE WatcherStarts
    BY <2>1, Frame DEF WatcherStarts, TypeOK, WatchType
  <2>2. CASE WatcherFails
    BY <2>2 DEF WatcherFails, TypeOK, WatchType, NotesType, NoBatch
  <2>3. CASE TakeBatch
    <3>1. NotesType'
      BY <2>3, ForgetType DEF TakeBatch
    <3>. QED BY <2>3, <3>1 DEF TakeBatch, TypeOK, WatchType
  <2>4. CASE SendBatch
    BY <2>4, Frame DEF SendBatch, TypeOK, WatchType, NoBatch
  <2>5. CASE ServeBind
    BY <2>5, Frame DEF ServeBind, TypeOK, WatchType, WireType
  <2>6. CASE ServeUnbind
    BY <2>6, LeaveType DEF ServeUnbind, TypeOK
  <2>7. ASSUME NEW c \in watch.subs, ServeGone(c) PROVE WatchType' /\ NotesType'
    BY <2>7, LeaveType DEF ServeGone, TypeOK
  <2>. QED BY <2>1, <2>2, <2>3, <2>4, <2>5, <2>6, <2>7
<1>5. ServedType'
  <2>1. CASE TakeBatch
    BY <2>1, ForgetType DEF TakeBatch
  <2>2. CASE UNCHANGED served
    BY <1>1, <2>2, Frame
  <2>. QED BY <2>1, <2>2 DEF WatcherFails, WatcherStarts, SendBatch, ServeBind, ServeUnbind, ServeGone
<1>6. WireType'
  <2>1. CASE SendBatch
    <3>1. [type |-> "event", seq |-> batch.seq, domains |-> batch.domains] \in Message
      BY DEF TypeOK, WatchType, Message
    <3>2. down' \in Seq(Message)
      BY <2>1, <3>1 DEF SendBatch, TypeOK, WireType
    <3>. QED BY <2>1, <3>2 DEF SendBatch, TypeOK, WireType
  <2>2. CASE ServeBind
    <3>1. [type |-> "bound", seq |-> watch.seq, domains |-> Domains] \in Message
      BY DEF TypeOK, WatchType, Message
    <3>2. down' \in Seq(Message)
      BY <2>2, <3>1 DEF ServeBind, TypeOK, WireType
    <3>3. up' \in Seq({"bind", "unbind"})
      BY <2>2, HeadTail DEF ServeBind, TypeOK, WireType
    <3>. QED BY <2>2, <3>2, <3>3 DEF ServeBind, TypeOK, WireType
  <2>3. CASE ServeUnbind
    <3>1. up' \in Seq({"bind", "unbind"})
      BY <2>3, HeadTail DEF ServeUnbind, TypeOK, WireType
    <3>. QED BY <2>3, <3>1 DEF ServeUnbind, TypeOK, WireType
  <2>4. CASE UNCHANGED wire
    BY <2>4, Frame
  <2>. QED BY <2>1, <2>2, <2>3, <2>4 DEF WatcherFails, WatcherStarts, TakeBatch, ServeGone, wire
<1>. QED BY <1>2, <1>3, <1>4, <1>5, <1>6, Together

\* The steps of the connection and of the webview's user.
LEMMA UserType ==
  ASSUME TypeOK, Edit \/ Lose \/ Reconnect \/ Activate \/ Deactivate \/ OpenSurface \/ CloseSurface
  PROVE  TypeOK'
<1>0. WatchType' /\ ServedType' /\ UNCHANGED query
  BY Frame DEF Edit, Lose, Reconnect, Activate, Deactivate, OpenSurface, CloseSurface, server, served
<1>a. Awaited'
  <2>1. CASE UNCHANGED queue
    BY <1>0, <2>1, Frame DEF queue
  <2>2. ASSUME NEW ds, Request(ds) PROVE Awaited'
    BY <1>0, <2>2, RequestAwaited DEF TypeOK
  <2>. QED BY <2>1, <2>2 DEF Edit, Lose, Reconnect, Activate, Deactivate, OpenSurface, CloseSurface
<1>1. CASE Edit
  <2>1. {"status"} \in SUBSET Domains
    BY DomainAssumption
  <2>2. disk' \in [Domains -> Nat]
    BY <1>1 DEF Edit, Touched, TypeOK
  <2>3. paths' \in Paths
    BY <1>1 DEF Edit, TypeOK, Paths
  <2>4. Others'
    BY <1>1, <2>2, <2>3, SpendType DEF Edit, Limited, TypeOK, Others
  <2>. QED BY <1>0, <1>a, Together, <1>1, <2>4, Frame DEF Edit
<1>2. CASE Lose
  <2>1. WireType'
    <3>1. conn' \in [id : Nat, open : BOOLEAN]
      BY <1>2 DEF Lose, TypeOK, WireType
    <3>2. up' \in Seq({"bind", "unbind"}) /\ down' \in Seq(Message)
      BY <1>2 DEF Lose
    <3>. QED BY <3>1, <3>2 DEF WireType
  <2>2. Others'
    BY <1>2, SpendType DEF Lose, Limited, TypeOK, Others
  <2>. QED BY <1>0, <1>a, Together, <1>2, <2>1, <2>2, Frame DEF Lose
<1>3. CASE Reconnect
  <2>1. WireType'
    <3>1. conn' \in [id : Nat, open : BOOLEAN] /\ down' \in Seq(Message)
      BY <1>3 DEF Reconnect, TypeOK, WireType
    <3>2. <<"bind">> \in Seq({"bind", "unbind"}) /\ <<>> \in Seq({"bind", "unbind"})
      OBVIOUS
    <3>3. up' \in Seq({"bind", "unbind"})
      BY <1>3, <3>2 DEF Reconnect
    <3>. QED BY <3>1, <3>3 DEF WireType
  <2>2. Others'
    BY <1>3 DEF Reconnect, TypeOK, Others
  <2>. QED BY <1>0, <1>a, Together, <1>3, <2>1, <2>2, Frame DEF Reconnect
<1>4. CASE Activate
  <2>1. PageType'
    BY <1>4 DEF Activate, TypeOK, PageType
  <2>2. {"status", "refs"} \in SUBSET Domains /\ QueueType /\ timer' \in BOOLEAN
    BY <1>4, DomainAssumption DEF Activate, TypeOK, QueueType
  <2>3. QueueType'
    BY <1>4, <2>2, RequestType DEF Activate
  <2>4. Others'
    BY <1>4 DEF Activate, TypeOK, Others
  <2>. QED BY <1>0, <1>a, Together, <1>4, <2>1, <2>3, <2>4, Frame DEF Activate
<1>5. CASE Deactivate
  <2>1. PageType'
    BY <1>5 DEF Deactivate, TypeOK, PageType
  <2>2. up' \in Seq({"bind", "unbind"})
    BY <1>5 DEF Deactivate, TypeOK, WireType
  <2>3. WireType'
    BY <1>5, <2>2 DEF Deactivate, TypeOK, WireType
  <2>4. Others'
    BY <1>5, SpendType DEF Deactivate, Limited, TypeOK, Others
  <2>. QED BY <1>0, <1>a, Together, <1>5, <2>1, <2>3, <2>4, Frame DEF Deactivate
<1>6. CASE OpenSurface
  <2>1. PageType'
    BY <1>6 DEF OpenSurface, TypeOK, PageType
  <2>2. ASSUME UNCHANGED queue PROVE QueueType'
    BY <2>2, Frame
  <2>3. ASSUME timer' = FALSE, Request(invalid) PROVE QueueType'
    <3>1. QueueType /\ invalid \in SUBSET Domains
      BY DEF TypeOK, StoreType
    <3>. QED BY <2>3, <3>1, RequestType
  <2>4. Others'
    BY <1>6, SpendType DEF OpenSurface, Limited, TypeOK, Others
  <2>5. QueueType'
    BY <1>6, <2>2, <2>3 DEF OpenSurface
  <2>. QED BY <1>0, <1>a, Together, <1>6, <2>1, <2>4, <2>5, Frame DEF OpenSurface
<1>7. CASE CloseSurface
  <2>1. PageType'
    BY <1>7 DEF CloseSurface, TypeOK, PageType
  <2>2. Others'
    BY <1>7 DEF CloseSurface, TypeOK, Others
  <2>. QED BY <1>0, <1>a, Together, <1>7, <2>1, <2>2, Frame DEF CloseSurface
<1>. QED BY <1>1, <1>2, <1>3, <1>4, <1>5, <1>6, <1>7

\* The result of a load, or its failure.
LEMMA ResultType ==
  ASSUME TypeOK, Fail \/ Install
  PROVE  TypeOK'
<1>0. WatchType'
  BY Frame DEF Fail, Install, server, TypeOK, WatchType
<1>1. CASE Fail
  <2>1. drain.cur \in Domains
    BY <1>1 DEF Fail, TypeOK, QueueType
  <2>2. NotesType'
    BY <1>1, <2>1 DEF Fail, TypeOK, NotesType
  <2>3. QueueType' /\ PageType' /\ WireType'
    BY <1>1, AdvanceType DEF Fail
  <2>4. Others'
    BY <1>1, SpendType DEF Fail, Limited, TypeOK, Others
  <2>5. ServedType' /\ query'.waited = FALSE
    <3>1. CASE query' = query /\ drain.phase # "wait"
      BY <1>1, <3>1 DEF Fail, TypeOK, ServedType, Awaited
    <3>2. CASE query' = NoQuery
      BY <1>1, <3>2 DEF Fail, TypeOK, ServedType, NoQuery
    <3>3. CASE query' = [query EXCEPT !.waited = FALSE]
      BY <1>1, <3>3 DEF Fail, TypeOK, ServedType
    <3>. QED BY <1>1, <3>1, <3>2, <3>3 DEF Fail
  <2>6. Awaited'
    BY <1>1, <2>5, AdvanceAsks DEF Fail, Awaited
  <2>. QED BY <1>0, <1>1, <2>2, <2>3, <2>4, <2>5, <2>6, Frame, Together DEF Fail
<1>2. CASE Install
  <2>1. drain.cur \in Domains /\ drain.val \in Nat
    BY <1>2 DEF Install, TypeOK, QueueType
  <2>2. StoreType' /\ NotesType'
    <3>1. CASE drain.current
      <4>1. StoreType'
        BY <1>2, <2>1, <3>1 DEF Install, TypeOK, StoreType
      <4>2. NotesType'
        BY <1>2, <3>1 DEF Install, TypeOK, NotesType
      <4>. QED BY <4>1, <4>2
    <3>2. CASE ~drain.current
      BY <1>2, <2>1, <3>2 DEF Install, TypeOK, StoreType, NotesType
    <3>. QED BY <3>1, <3>2
  <2>3. QueueType' /\ PageType' /\ WireType'
    BY <1>2, AdvanceType DEF Install
  <2>4. Others'
    BY <1>2 DEF Install, TypeOK, Others
  <2>5. ServedType' /\ UNCHANGED query
    BY <1>2, Frame DEF Install, server, served
  <2>6. Awaited'
    BY <1>2, <2>5, AdvanceAsks DEF Install, TypeOK, QueueType, Awaited
  <2>. QED BY <1>0, <2>2, <2>3, <2>4, <2>5, <2>6, Together
<1>. QED BY <1>1, <1>2

\* The steps that trigger refreshes.
LEMMA TriggerType ==
  ASSUME TypeOK,
         \/ PathsFail \/ TimerFires \/ ReceiveEvent \/ ReceiveBound \/ CommandPolled
         \/ FlushPaths \/ PathsRelevant \/ BackoffEnds
  PROVE  TypeOK'
<1>0. WatchType' /\ ServedType' /\ UNCHANGED query
  BY Frame DEF PathsFail, TimerFires, ReceiveEvent, ReceiveBound, CommandPolled,
     FlushPaths, PathsRelevant, BackoffEnds, server, served
<1>a. Awaited'
  <2>1. CASE UNCHANGED queue
    BY <1>0, <2>1, Frame DEF queue
  <2>2. ASSUME NEW ds, Request(ds) PROVE Awaited'
    BY <1>0, <2>2, RequestAwaited DEF TypeOK
  <2>3. ASSUME NEW ds, InvalidateLater(ds) PROVE Awaited'
    BY <1>0, <2>3, LaterAwaited
  <2>4. ASSUME NEW ds, InvalidateNow(ds) PROVE Awaited'
    BY <1>0, <2>4, NowAwaited
  <2>. QED BY <2>1, <2>2, <2>3, <2>4
       DEF PathsFail, TimerFires, ReceiveEvent, ReceiveBound, CommandPolled,
           FlushPaths, PathsRelevant, BackoffEnds
<1>1. CASE TimerFires
  <2>1. QueueType /\ timer' \in BOOLEAN /\ invalid \cap Demanded \in SUBSET Domains
    BY <1>1 DEF TimerFires, TypeOK, StoreType
  <2>2. QueueType'
    BY <1>1, <2>1, RequestType DEF TimerFires
  <2>3. Others'
    BY <1>1 DEF TimerFires, TypeOK, Others
  <2>. QED BY <1>0, <1>a, Together, <1>1, <2>2, <2>3, Frame DEF TimerFires
<1>2. CASE ReceiveEvent
  <2>1. Head(down) \in Message /\ down' \in Seq(Message)
    BY <1>2, HeadTail DEF ReceiveEvent, TypeOK, WireType
  <2>2. Head(down).seq \in Nat /\ Head(down).domains \in SUBSET Domains
    BY <2>1 DEF Message
  <2>3. WireType'
    BY <1>2, <2>1 DEF ReceiveEvent, TypeOK, WireType
  <2>4. ASSUME Head(down).seq <= lastSeq PROVE StoreType' /\ QueueType' /\ NotesType'
    <3>1. StoreType' /\ QueueType'
      BY <1>2, <2>4, Frame DEF ReceiveEvent
    <3>2. NotesType'
      BY <1>2, <2>2, <2>4 DEF ReceiveEvent, TypeOK, NotesType
    <3>. QED BY <3>1, <3>2
  <2>5. ASSUME ~(Head(down).seq <= lastSeq) PROVE StoreType' /\ QueueType' /\ NotesType'
    <3>1. invalid' \subseteq Domains /\ QueueType'
      BY <1>2, <2>2, <2>5, LaterType DEF ReceiveEvent
    <3>2. StoreType' /\ NotesType'
      BY <1>2, <2>2, <2>5, <3>1 DEF ReceiveEvent, TypeOK, StoreType, NotesType
    <3>. QED BY <3>1, <3>2
  <2>6. Others'
    BY <1>2 DEF ReceiveEvent, TypeOK, Others
  <2>7. WatchType' /\ PageType'
    BY <1>2, Frame DEF ReceiveEvent
  <2>8. StoreType' /\ QueueType' /\ NotesType'
    BY <1>2, <2>4, <2>5 DEF ReceiveEvent
  <2>. QED BY <1>0, <1>a, Together, <2>3, <2>6, <2>7, <2>8
<1>3. CASE ReceiveBound
  <2>1. down' \in Seq(Message)
    BY <1>3, HeadTail DEF ReceiveBound, TypeOK, WireType
  <2>2. WireType'
    BY <1>3, <2>1 DEF ReceiveBound, TypeOK, WireType
  <2>3. invalid' \subseteq Domains /\ QueueType'
    BY <1>3, NowType DEF ReceiveBound
  <2>4. StoreType'
    BY <1>3, <2>3 DEF ReceiveBound, TypeOK, StoreType
  <2>5. Others'
    BY <1>3 DEF ReceiveBound, TypeOK, Others
  <2>. QED BY <1>0, <1>a, Together, <1>3, <2>2, <2>3, <2>4, <2>5, Frame DEF ReceiveBound
<1>4. CASE CommandPolled
  <2>3. invalid' \subseteq Domains /\ QueueType'
    BY <1>4, NowType DEF CommandPolled
  <2>4. StoreType'
    BY <1>4, <2>3 DEF CommandPolled, TypeOK, StoreType
  <2>5. Others'
    BY <1>4 DEF CommandPolled, TypeOK, Others
  <2>. QED BY <1>0, <1>a, Together, <1>4, <2>3, <2>4, <2>5, Frame DEF CommandPolled
<1>5. CASE FlushPaths
  <2>1. paths' \in Paths
    BY <1>5 DEF FlushPaths, TypeOK, Paths
  <2>2. Others'
    BY <1>5, <2>1 DEF FlushPaths, TypeOK, Others
  <2>. QED BY <1>0, <1>a, Together, <1>5, <2>2, Frame DEF FlushPaths
<1>6. CASE PathsRelevant
  <2>1. paths' \in Paths
    BY <1>6 DEF PathsRelevant, Flushed, TypeOK, Paths
  <2>2. {"status"} \in SUBSET Domains
    BY DomainAssumption
  <2>3. invalid' \subseteq Domains /\ QueueType'
    BY <1>6, <2>2, LaterType DEF PathsRelevant
  <2>4. StoreType'
    BY <1>6, <2>3 DEF PathsRelevant, TypeOK, StoreType
  <2>5. Others'
    BY <1>6, <2>1 DEF PathsRelevant, TypeOK, Others
  <2>. QED BY <1>0, <1>a, Together, <1>6, <2>3, <2>4, <2>5, Frame DEF PathsRelevant
<1>7. CASE PathsFail
  <2>1. paths' \in Paths
    BY <1>7 DEF PathsFail, Flushed, TypeOK, Paths
  <2>2. {"status"} \in SUBSET Domains
    BY DomainAssumption
  <2>3. invalid' \subseteq Domains /\ QueueType'
    <3>1. CASE UNCHANGED <<invalid, queue>>
      BY <3>1, Frame DEF TypeOK, StoreType
    <3>2. CASE InvalidateLater({"status"})
      BY <3>2, <2>2, LaterType
    <3>. QED BY <1>7, <3>1, <3>2 DEF PathsFail
  <2>4. StoreType'
    BY <1>7, <2>3 DEF PathsFail, TypeOK, StoreType
  <2>5. NotesType'
    BY <1>7, <2>2 DEF PathsFail, TypeOK, NotesType
  <2>6. Others'
    BY <1>7, <2>1, SpendType DEF PathsFail, Limited, TypeOK, Others
  <2>. QED BY <1>0, <1>a, Together, <1>7, <2>3, <2>4, <2>5, <2>6, Frame DEF PathsFail
<1>8. CASE BackoffEnds
  <2>1. paths' \in Paths
    BY <1>8 DEF BackoffEnds, TypeOK, Paths
  <2>2. Others'
    BY <1>8, <2>1 DEF BackoffEnds, TypeOK, Others
  <2>. QED BY <1>0, <1>a, Together, <1>8, <2>2, Frame DEF BackoffEnds
<1>. QED BY <1>1, <1>2, <1>3, <1>4, <1>5, <1>6, <1>7, <1>8

\* Every step keeps the types.
LEMMA TypeStep ==
  ASSUME TypeOK, [Next]_vars
  PROVE  TypeOK'
<1>1. CASE UNCHANGED vars
  BY <1>1, Frame DEF vars, TypeOK, server, served, queue
<1>2. CASE Next
  BY <1>2, RepositoryType, QueryType, ServerType, UserType, ResultType, TriggerType
     DEF Next, Environment, Server, Webview
<1>. QED BY <1>1, <1>2

LEMMA TypeInit == Init => TypeOK
<1>. SUFFICES ASSUME Init PROVE TypeOK
  OBVIOUS
<1>1. WatchType
  BY DEF Init, WatchType, NoWatch, NoBatch
<1>2. WireType
  BY DEF Init, WireType
<1>3. PageType /\ StoreType
  BY DEF Init, PageType, StoreType
<1>4. QueueType /\ NotesType
  BY DEF Init, QueueType, NotesType, Idle
<1>7. ServedType /\ Awaited
  BY DEF Init, ServedType, Awaited, NoQuery, Idle
<1>5. disk \in [Domains -> Nat] /\ paths \in Paths /\ command \in {"none", "ran", "ended"}
  BY DEF Init, Paths
<1>6. budget \in [Limited -> Nat]
  BY BudgetAssumption DEF Init
<1>. QED BY <1>1, <1>2, <1>3, <1>4, <1>5, <1>6, <1>7 DEF TypeOK

\* The type invariant, for any domains and any bounds.  What the later theorems use of it
\* most: a running drain has a domain to load, and the messages have their shape.
THEOREM TypeCorrect == Spec => []TypeOK
  BY TypeInit, TypeStep, PTL DEF Spec

-----------------------------------------------------------------------------
(* The binding of the watch.                                               *)

\* activateProject binds once, and only for the active project.
Opening == (project.opening => ~desired /\ project.active) /\ (desired => project.active)

\* The watch knows no connection that was not opened yet, and is there for its subscribers.
Subscribers == (\A c \in watch.subs : c <= conn.id) /\ (watch.subs # {} => watch.loop # "none")

\* A lost connection holds no message to the backend.
Closed == ~conn.open => up = <<>>

BindInv == BindingFollowsWish /\ Opening /\ Subscribers /\ Closed

\* Steps that touch neither the wish, the connection nor the subscribers.
LEMMA QuietBind ==
  ASSUME BindInv, UNCHANGED <<conn, up, desired, project>>,
         watch'.subs = watch.subs, watch.loop # "none" => watch'.loop # "none"
  PROVE  BindInv'
BY DEF BindInv, BindingFollowsWish, WillBeBound, Opening, Subscribers, Closed

\* A subscriber that is not the open connection leaves.
LEMMA LeaveBind ==
  ASSUME TypeOK, NEW c, Leave(c)
  PROVE  /\ watch'.subs = watch.subs \ {c}
         /\ watch'.subs # {} => watch'.loop = watch.loop
<1>1. CASE watch.subs \subseteq {c}
  <2>1. watch' = NoWatch
    BY <1>1 DEF Leave
  <2>2. watch'.subs = {}
    BY <2>1 DEF NoWatch
  <2>. QED BY <1>1, <2>2
<1>2. CASE ~(watch.subs \subseteq {c})
  <2>1. watch' = [watch EXCEPT !.subs = @ \ {c}]
    BY <1>2 DEF Leave
  <2>2. watch'.subs = watch.subs \ {c} /\ watch'.loop = watch.loop
    BY <2>1 DEF TypeOK, WatchType
  <2>. QED BY <2>2
<1>. QED BY <1>1, <1>2

\* The backend reads a message of the connection: what it will hold at the end is the same.
LEMMA ServedBind ==
  ASSUME TypeOK, BindInv, up # <<>>, up' = Tail(up), UNCHANGED <<conn, desired, project>>,
         Tail(up) = <<>> => (conn.id \in watch'.subs <=> Head(up) = "bind"),
         Subscribers'
  PROVE  BindInv'
<1>1. conn.open
  BY DEF BindInv, Closed
<1>2. up \in Seq({"bind", "unbind"})
  BY DEF TypeOK, WireType
<1>3. CASE Tail(up) = <<>>
  <2>1. Len(up) = 1 /\ Head(up) = up[Len(up)]
    BY <1>2, <1>3, LastOne
  <2>. QED BY <1>1, <1>3, <2>1 DEF BindInv, BindingFollowsWish, WillBeBound, Opening, Closed
<1>4. CASE Tail(up) # <<>>
  <2>1. Tail(up)[Len(Tail(up))] = up[Len(up)]
    BY <1>2, <1>4
  <2>. QED BY <1>1, <1>4, <2>1 DEF BindInv, BindingFollowsWish, WillBeBound, Opening, Closed
<1>. QED BY <1>3, <1>4

\* activateProject ends and binds, or nothing of it moves.
LEMMA AdvanceBind ==
  ASSUME TypeOK, BindInv, Advance, UNCHANGED <<watch, conn>>
  PROVE  BindInv'
<1>1. ASSUME UNCHANGED <<project, desired, up>> PROVE BindInv'
  BY <1>1, QuietBind
<1>2. ASSUME project' = [project EXCEPT !.opening = FALSE],
             IF project.opening
             THEN desired' = TRUE /\ up' = IF conn.open THEN Append(up, "bind") ELSE up
             ELSE UNCHANGED <<desired, up>>
      PROVE  BindInv'
  <2>1. up \in Seq({"bind", "unbind"}) /\ project'.opening = FALSE /\ project'.active = project.active
    BY <1>2 DEF TypeOK, WireType, PageType
  <2>2. CASE project.opening
    <3>1. conn.open => up' # <<>> /\ up'[Len(up')] = "bind"
      BY <1>2, <2>1, <2>2
    <3>. QED BY <1>2, <2>1, <2>2, <3>1
         DEF BindInv, BindingFollowsWish, WillBeBound, Opening, Subscribers, Closed
  <2>3. CASE ~project.opening
    BY <1>2, <2>1, <2>3 DEF BindInv, BindingFollowsWish, WillBeBound, Opening, Subscribers, Closed
  <2>. QED BY <2>2, <2>3
<1>. QED BY <1>1, <1>2 DEF Advance

LEMMA BindStep ==
  ASSUME TypeOK, BindInv, [Next]_vars
  PROVE  BindInv'
<1>. USE DEF server, wire, page
<1>1. CASE UNCHANGED vars
  BY <1>1, QuietBind DEF vars
<1>2. CASE (\E k \in Kinds : Change(k)) \/ Edit \/ Command \/ OpenSurface \/ CloseSurface \/ PathsFail
  BY <1>2, QuietBind DEF Change, Edit, Command, OpenSurface, CloseSurface, PathsFail
<1>3. CASE TimerFires \/ ReceiveEvent \/ ReceiveBound \/ CommandPolled \/ FlushPaths \/ PathsRelevant \/ BackoffEnds
  BY <1>3, QuietBind DEF TimerFires, ReceiveEvent, ReceiveBound, CommandPolled, FlushPaths,
     PathsRelevant, BackoffEnds
<1>4. CASE \/ SendBatch \/ CommandEnds \/ Ask \/ ReadRepository \/ EndQuery
           \/ \E d \in Domains : OtherAsks(d)
  BY <1>4, QuietBind DEF SendBatch, CommandEnds, Ask, ReadRepository, EndQuery, OtherAsks
<1>5. CASE WatcherFails \/ WatcherStarts \/ TakeBatch
  <2>1. watch'.subs = watch.subs /\ (watch.loop # "none" => watch'.loop # "none")
    BY <1>5 DEF WatcherFails, WatcherStarts, TakeBatch, TypeOK, WatchType
  <2>. QED BY <1>5, <2>1, QuietBind DEF WatcherFails, WatcherStarts, TakeBatch
<1>6. CASE Install \/ Fail
  BY <1>6, AdvanceBind DEF Install, Fail
<1>7. CASE ServeBind
  <2>1. watch'.subs = watch.subs \cup {conn.id} /\ watch'.loop # "none" /\ conn.id \in Nat
    BY <1>7 DEF ServeBind, TypeOK, WireType
  <2>2. Subscribers'
    BY <1>7, <2>1 DEF ServeBind, Subscribers, BindInv
  <2>. QED BY <1>7, <2>1, <2>2, ServedBind DEF ServeBind
<1>8. CASE ServeUnbind
  <2>1. watch'.subs = watch.subs \ {conn.id} /\ (watch'.subs # {} => watch'.loop = watch.loop)
    BY <1>8, LeaveBind DEF ServeUnbind
  <2>2. Subscribers'
    BY <1>8, <2>1 DEF ServeUnbind, Subscribers, BindInv
  <2>. QED BY <1>8, <2>1, <2>2, ServedBind DEF ServeUnbind
<1>9. ASSUME NEW c \in watch.subs, ServeGone(c) PROVE BindInv'
  <2>1. watch'.subs = watch.subs \ {c} /\ (watch'.subs # {} => watch'.loop = watch.loop)
    BY <1>9, LeaveBind DEF ServeGone
  <2>2. UNCHANGED <<conn, up, desired, project>> /\ ~(conn.open /\ conn.id = c)
    BY <1>9 DEF ServeGone
  <2>. QED BY <2>1, <2>2
       DEF BindInv, BindingFollowsWish, WillBeBound, Opening, Subscribers, Closed
<1>10. CASE Lose
  <2>1. conn'.id = conn.id /\ conn'.open = FALSE
    BY <1>10 DEF Lose, TypeOK, WireType
  <2>. QED BY <1>10, <2>1
       DEF Lose, BindInv, BindingFollowsWish, WillBeBound, Opening, Subscribers, Closed
<1>11. CASE Reconnect
  <2>1. conn'.id = conn.id + 1 /\ conn'.open = TRUE /\ conn.id \in Nat /\ watch.subs \subseteq Nat
    BY <1>11 DEF Reconnect, TypeOK, WireType, WatchType
  <2>2. conn'.id \notin watch.subs /\ Subscribers'
    BY <1>11, <2>1 DEF Reconnect, BindInv, Subscribers
  <2>3. CASE desired
    <3>1. up' = <<"bind">>
      BY <1>11, <2>3 DEF Reconnect
    <3>2. up' # <<>> /\ up'[Len(up')] = "bind"
      BY <3>1
    <3>. QED BY <1>11, <2>1, <2>2, <2>3, <3>2
         DEF Reconnect, BindInv, BindingFollowsWish, WillBeBound, Opening, Closed
  <2>4. CASE ~desired
    BY <1>11, <2>1, <2>2, <2>4 DEF Reconnect, BindInv, BindingFollowsWish, WillBeBound, Opening, Closed
  <2>. QED BY <2>3, <2>4
<1>12. CASE Activate
  <2>1. ~desired
    BY <1>12 DEF Activate, BindInv, Opening
  <2>. QED BY <1>12, <2>1
       DEF Activate, BindInv, BindingFollowsWish, WillBeBound, Opening, Subscribers, Closed
<1>13. CASE Deactivate
  <2>1. UNCHANGED <<watch, conn>> /\ ~desired' /\ ~project'.opening /\ up \in Seq({"bind", "unbind"})
    BY <1>13 DEF Deactivate, TypeOK, WireType
  <2>2. CASE desired /\ conn.open
    <3>1. up' # <<>> /\ up'[Len(up')] = "unbind"
      BY <1>13, <2>1, <2>2 DEF Deactivate
    <3>. QED BY <2>1, <2>2, <3>1 DEF BindInv, BindingFollowsWish, WillBeBound, Opening, Subscribers, Closed
  <2>3. CASE ~(desired /\ conn.open)
    <3>1. up' = up
      BY <1>13, <2>3 DEF Deactivate
    <3>. QED BY <2>1, <2>3, <3>1 DEF BindInv, BindingFollowsWish, WillBeBound, Opening, Subscribers, Closed
  <2>. QED BY <2>2, <2>3
<1>. QED BY <1>1, <1>2, <1>3, <1>4, <1>5, <1>6, <1>7, <1>8, <1>9, <1>10, <1>11, <1>12, <1>13
     DEF Next, Environment, Server, Webview

LEMMA BindInit == Init => BindInv
BY DEF Init, NoWatch, BindInv, BindingFollowsWish, WillBeBound, Opening, Subscribers, Closed

\* The binding of the watch follows the wish, in every order of switches of the project,
\* losses, reconnects and late discoveries of dead connections (GitProvider, wsClient,
\* websocket.py, GitMetadataEventService).
THEOREM Bound == Spec => []BindingFollowsWish
<1>1. Init => TypeOK /\ BindInv
  BY TypeInit, BindInit
<1>2. TypeOK /\ BindInv /\ [Next]_vars => TypeOK' /\ BindInv'
  BY TypeStep, BindStep
<1>3. BindInv => BindingFollowsWish
  BY DEF BindInv
<1>. QED BY <1>1, <1>2, <1>3, PTL DEF Spec

-----------------------------------------------------------------------------
(* Freshness.                                                              *)

\* The webview knows, is going to know, or the notes say why it does not.
Known(d) == OnItsWay(d) \/ d \in Excused

\* A result read before a change of d is on its way, and will be accepted.
Outrun(d) ==
  /\ drain.on /\ drain.cur = d /\ drain.current
  /\ \/ drain.phase = "answered" /\ drain.val < disk[d]
     \/ drain.phase = "wait" /\ query.step \in {"read", "hit"} /\ query.val < disk[d]

\* Inductive form of FreshOrMarked: what an accepted result hides, the webview will be told.
FreshInv ==
  Watched => \A d \in Domains : (Stale(d) => d \in invalid \/ Known(d)) /\ (Outrun(d) => Known(d))

\* While the repository is watched the backend has the connection, or is to read its bind.
LEMMA BindOnItsWay ==
  ASSUME TypeOK, BindInv, Watched
  PROVE  conn.id \in watch.subs \/ \E i \in DOMAIN up : up[i] = "bind"
<1>1. up \in Seq({"bind", "unbind"}) /\ WillBeBound
  BY DEF TypeOK, WireType, BindInv, BindingFollowsWish, Watched
<1>2. CASE up = <<>>
  BY <1>1, <1>2 DEF WillBeBound
<1>3. CASE up # <<>>
  <2>1. Len(up) \in DOMAIN up
    BY <1>1, <1>3
  <2>. QED BY <1>1, <1>3, <2>1 DEF WillBeBound
<1>. QED BY <1>2, <1>3

\* A step that neither changes the repository nor the snapshots keeps the invariant when it
\* loses no news but into the marks.
LEMMA Keeps ==
  ASSUME FreshInv, UNCHANGED <<disk, shown>>, Watched' => Watched, invalid \subseteq invalid',
         \A d \in Domains : Watched' => /\ Known(d) => Known(d)' \/ d \in invalid'
                                        /\ Outrun(d)' => Outrun(d) /\ (Known(d) => Known(d)')
  PROVE  FreshInv'
<1>. SUFFICES ASSUME Watched', NEW d \in Domains
              PROVE  (Stale(d)' => d \in invalid' \/ Known(d)') /\ (Outrun(d)' => Known(d)')
  BY DEF FreshInv
<1>1. Stale(d)' => Stale(d)
  BY DEF Stale
<1>2. (Stale(d) => d \in invalid \/ Known(d)) /\ (Outrun(d) => Known(d))
  BY DEF FreshInv
<1>. QED BY <1>1, <1>2

\* A step that leaves the news, the marks and the running load alone.
LEMMA Quiet ==
  ASSUME FreshInv, UNCHANGED <<disk, shown, invalid, noticed, batch, conn, up, down, desired, query>>,
         Excused' = Excused, paths'.pending = paths.pending, paths'.asked = paths.asked, UNCHANGED command,
         UNCHANGED drain \/ drain'.phase = "ask"
  PROVE  FreshInv'
<1>1. Watched' => Watched
  BY DEF Watched
<1>2. ASSUME NEW d \in Domains PROVE Known(d) => Known(d)'
  BY DEF Known, OnItsWay
<1>3. ASSUME NEW d \in Domains PROVE Outrun(d)' => Outrun(d)
  BY DEF Outrun
<1>. QED BY <1>1, <1>2, <1>3, Keeps

\* A request starts no load that was answered before.
LEMMA RequestAsks ==
  ASSUME NEW ds, Request(ds)
  PROVE  UNCHANGED drain \/ drain'.phase = "ask"
BY DEF Request, Round

\* After the immediate invalidation of everything every domain is marked, and no result asked
\* before is accepted.
LEMMA NowFresh ==
  ASSUME TypeOK, InvalidateNow(Domains)
  PROVE  FreshInv'
<1>1. Domains \subseteq invalid'
  BY DEF InvalidateNow
<1>2. ASSUME NEW d \in Domains PROVE ~Outrun(d)'
  <2>1. CASE drain.on
    <3>1. drain'.current = FALSE
      BY <2>1 DEF InvalidateNow, Outdated, TypeOK, QueueType
    <3>. QED BY <3>1 DEF Outrun
  <2>2. CASE ~drain.on
    <3>1. UNCHANGED drain \/ drain'.phase = "ask"
      BY <2>2, RequestAsks DEF InvalidateNow
    <3>. QED BY <2>2, <3>1 DEF Outrun
  <2>. QED BY <2>1, <2>2
<1>. QED BY <1>1, <1>2 DEF FreshInv

\* A debounced invalidation marks its domains, and no result asked before is accepted.
LEMMA LaterMarks ==
  ASSUME TypeOK, NEW ds, InvalidateLater(ds), NEW d \in Domains
  PROVE  invalid' = invalid \cup ds /\ ~Outrun(d)'
<1>1. CASE drain.on
  <2>1. drain'.current = FALSE
    BY <1>1 DEF InvalidateLater, Outdated, TypeOK, QueueType
  <2>. QED BY <2>1 DEF InvalidateLater, Outrun
<1>2. CASE ~drain.on
  <2>1. drain' = drain
    BY <1>2 DEF InvalidateLater, Outdated
  <2>. QED BY <1>2, <2>1 DEF InvalidateLater, Outrun
<1>. QED BY <1>1, <1>2

\* The drain goes on: nothing it has asked is answered yet, and if that ends activateProject
\* the new binding brings its resync.
LEMMA AdvanceFresh ==
  ASSUME TypeOK, Advance, UNCHANGED conn, NEW d \in Domains
  PROVE  /\ ~Outrun(d)'
         /\ Watched' => (Watched /\ UNCHANGED up) \/ \E i \in DOMAIN up' : up'[i] = "bind"
<1>1. drain'.phase = "ask"
  BY AdvanceAsks
<1>2. ~Outrun(d)'
  BY <1>1 DEF Outrun
<1>3. CASE UNCHANGED <<desired, up>>
  BY <1>2, <1>3 DEF Watched
<1>4. CASE desired' = TRUE /\ up' = IF conn.open THEN Append(up, "bind") ELSE up
  <2>1. ASSUME Watched' PROVE \E i \in DOMAIN up' : up'[i] = "bind"
    <3>1. up' = Append(up, "bind") /\ up \in Seq({"bind", "unbind"})
      BY <1>4, <2>1 DEF Watched, TypeOK, WireType
    <3>2. Len(up') \in DOMAIN up' /\ up'[Len(up')] = "bind"
      BY <3>1
    <3>. QED BY <3>2
  <2>. QED BY <1>2, <2>1
<1>5. UNCHANGED <<desired, up>> \/ (desired' = TRUE /\ up' = IF conn.open THEN Append(up, "bind") ELSE up)
  BY DEF Advance
<1>. QED BY <1>3, <1>4, <1>5

\* Somebody changes domains of the gitdir.
LEMMA NoticedFresh ==
  ASSUME TypeOK, BindInv, FreshInv, NEW ds \in SUBSET Domains, disk' = Touched(ds), Notice(ds),
         UNCHANGED <<shown, invalid, watch, batch, conn, up, down, desired, ignored, shared, drain, query, paths>>,
         command # "none" => command' # "none"
  PROVE  FreshInv'
<1>. SUFFICES ASSUME Watched', NEW d \in Domains
              PROVE  (Stale(d)' => d \in invalid' \/ Known(d)') /\ (Outrun(d)' => Known(d)')
  BY DEF FreshInv
<1>1. Watched
  BY DEF Watched
<1>2. (Stale(d) => d \in invalid \/ Known(d)) /\ (Outrun(d) => Known(d))
  BY <1>1 DEF FreshInv
<1>3. Known(d) => Known(d)'
  BY DEF Known, OnItsWay, Excused, Notice
<1>4. CASE d \in ds
  <2>1. conn.id \in watch.subs \/ \E i \in DOMAIN up : up[i] = "bind"
    BY <1>1, BindOnItsWay
  <2>2. watch.loop \in {"none", "starting", "running", "dead"} /\ (watch.subs # {} => watch.loop # "none")
    BY DEF TypeOK, WatchType, BindInv, Subscribers
  <2>3. Known(d)'
    BY <1>4, <2>1, <2>2 DEF Known, OnItsWay, Excused, Notice
  <2>. QED BY <2>3
<1>5. CASE d \notin ds
  <2>1. disk'[d] = disk[d]
    BY <1>5 DEF Touched
  <2>2. (Stale(d)' => Stale(d)) /\ (Outrun(d)' => Outrun(d))
    BY <2>1 DEF Stale, Outrun
  <2>. QED BY <1>2, <1>3, <2>2
<1>. QED BY <1>4, <1>5

\* Somebody edits a file of the worktree.
LEMMA EditFresh ==
  ASSUME TypeOK, BindInv, FreshInv, Edit
  PROVE  FreshInv'
<1>. SUFFICES ASSUME Watched', NEW d \in Domains
              PROVE  (Stale(d)' => d \in invalid' \/ Known(d)') /\ (Outrun(d)' => Known(d)')
  BY DEF FreshInv
<1>. USE DEF server, served, wire, page, store, queue, notes
<1>1. Watched
  BY DEF Watched, Edit
<1>2. (Stale(d) => d \in invalid \/ Known(d)) /\ (Outrun(d) => Known(d))
  BY <1>1 DEF FreshInv
<1>3. paths'.pending = TRUE /\ paths'.asked = paths.asked
  BY <1>1 DEF Edit, Watched, BindInv, Opening, TypeOK, Paths
<1>4. Known(d) => Known(d)'
  BY <1>3 DEF Known, OnItsWay, Excused, Edit
<1>5. CASE d = "status"
  BY <1>3, <1>5 DEF Known, OnItsWay
<1>6. CASE d # "status"
  <2>1. disk'[d] = disk[d]
    BY <1>6 DEF Edit, Touched
  <2>2. (Stale(d)' => Stale(d)) /\ (Outrun(d)' => Outrun(d))
    BY <2>1 DEF Stale, Outrun, Edit
  <2>. QED BY <1>2, <1>4, <2>2 DEF Edit
<1>. QED BY <1>5, <1>6

\* The result of a query is stored.
LEMMA InstallFresh ==
  ASSUME TypeOK, FreshInv, Install
  PROVE  FreshInv'
<1>. SUFFICES ASSUME Watched', NEW d \in Domains
              PROVE  Stale(d)' => d \in invalid' \/ Known(d)'
  BY AdvanceFresh DEF FreshInv, Install
<1>. USE DEF server, served, wire
<1>1. CASE \E i \in DOMAIN up' : up'[i] = "bind"
  BY <1>1 DEF Known, OnItsWay
<1>2. CASE Watched /\ UNCHANGED up
  <2>1. (Stale(d) => d \in invalid \/ Known(d)) /\ (Outrun(d) => Known(d))
    BY <1>2 DEF FreshInv
  <2>2. CASE ~drain.current
    BY <1>2, <2>1, <2>2 DEF Install, Stale, Known, OnItsWay, Excused
  <2>3. CASE drain.current /\ d # drain.cur
    <3>1. shown'[d] = shown[d] /\ (d \in invalid => d \in invalid')
      BY <2>3 DEF Install, TypeOK, StoreType
    <3>2. Known(d) => Known(d)'
      BY <1>2, <2>3 DEF Install, Known, OnItsWay, Excused
    <3>. QED BY <2>1, <3>1, <3>2 DEF Install, Stale
  <2>4. CASE drain.current /\ d = drain.cur
    <3>1. shown'[d] = drain.val /\ drain.on /\ drain.phase = "answered"
      BY <2>4 DEF Install, TypeOK, StoreType
    <3>2. ASSUME Stale(d)' PROVE Known(d)'
      <4>1. drain.val < disk[d]
        BY <3>1, <3>2 DEF Stale, Install
      <4>2. Known(d)
        BY <2>1, <2>4, <3>1, <4>1 DEF Outrun
      <4>3. drain.val # disk[drain.cur]
        BY <2>4, <4>1, <3>1 DEF TypeOK, QueueType
      <4>4. UNCHANGED <<ignored, skipped, shared, unheard>>
        BY <2>4, <4>3 DEF Install
      <4>. QED BY <1>2, <4>2, <4>4 DEF Install, Known, OnItsWay, Excused
    <3>. QED BY <3>2
  <2>. QED BY <2>2, <2>3, <2>4
<1>3. (Watched /\ UNCHANGED up) \/ \E i \in DOMAIN up' : up'[i] = "bind"
  BY AdvanceFresh DEF Install
<1>. QED BY <1>1, <1>2, <1>3

\* A query fails.
LEMMA FailFresh ==
  ASSUME TypeOK, FreshInv, Fail
  PROVE  FreshInv'
<1>. USE DEF wire, store
<1>1. CASE Watched' => Watched /\ UNCHANGED up
  <2>1. ASSUME NEW d \in Domains, Watched' PROVE Known(d) => Known(d)'
    BY <1>1, <2>1 DEF Fail, Known, OnItsWay, Excused
  <2>2. ASSUME NEW d \in Domains PROVE ~Outrun(d)'
    BY AdvanceFresh DEF Fail
  <2>. QED BY <1>1, <2>1, <2>2, Keeps DEF Fail
<1>2. CASE \E i \in DOMAIN up' : up'[i] = "bind"
  BY <1>2 DEF FreshInv, Known, OnItsWay
<1>3. CASE Domains = {}
  BY <1>3 DEF FreshInv
<1>. QED BY <1>1, <1>2, <1>3, AdvanceFresh DEF Fail

\* A subscriber other than the connection leaves, while the backend has the connection or is
\* to read its bind.
LEMMA LeaveFresh ==
  ASSUME TypeOK, BindInv, FreshInv, NEW c, Leave(c), 
         UNCHANGED <<disk, query, conn, down, page, store, queue, paths, command, ignored, skipped, shared>>,
         Watched => (c # conn.id /\ UNCHANGED up) \/ \E i \in DOMAIN up' : up'[i] = "bind"
  PROVE  FreshInv'
<1>. USE DEF page, store, queue
<1>1. CASE \E i \in DOMAIN up' : up'[i] = "bind"
  BY <1>1 DEF FreshInv, Known, OnItsWay
<1>2. CASE c # conn.id /\ UNCHANGED up /\ Watched
  <2>1. CASE watch.subs \subseteq {c}
    <3>1. \E i \in DOMAIN up : up[i] = "bind"
      BY <1>2, <2>1, BindOnItsWay
    <3>. QED BY <1>2, <3>1 DEF FreshInv, Known, OnItsWay
  <2>2. CASE ~(watch.subs \subseteq {c})
    BY <1>2, <2>2, Quiet DEF Leave, Excused
  <2>. QED BY <2>1, <2>2
<1>3. CASE ~Watched
  BY <1>3 DEF FreshInv, Watched
<1>. QED BY <1>1, <1>2, <1>3

\* A query that begins is answered from the cache with what is to be dropped or missed, or it
\* will read the repository.
LEMMA BeginFresh ==
  ASSUME TypeOK, CacheFollowsWatch, NEW d \in Domains, NEW mine, Begin(d, mine),
         query'.step \in {"read", "hit"}, query'.val < disk[d]
  PROVE  Known(d)
<1>1. ASSUME d = "refs", NEW e \in Hits, query' = Running(d, "hit", e.key, e.val, mine) PROVE Known(d)
  <2>1. e.val < disk["refs"]
    BY <1>1 DEF Running
  <2>2. Worn
    BY <1>1, <2>1 DEF Worn
  <2>. QED BY <1>1, <2>2 DEF CacheFollowsWatch, Known, OnItsWay, Excused
<1>2. ASSUME query' = Running(d, "read", 0, disk[d], mine) PROVE FALSE
  BY <1>2 DEF Running, TypeOK
<1>3. ASSUME query' = Running(d, "keyed", Key, 0, mine) PROVE FALSE
  BY <1>3 DEF Running
<1>. QED BY <1>1, <1>2, <1>3, Zenon DEF Begin

\* The steps of the queries.
LEMMA QueryFresh ==
  ASSUME TypeOK, CacheFollowsWatch, FreshInv,
         Ask \/ (\E d \in Domains : OtherAsks(d)) \/ ReadRepository \/ EndQuery
  PROVE  FreshInv'
<1>. USE DEF wire, page, store
<1>0. /\ UNCHANGED <<disk, shown, invalid, noticed, batch, conn, up, down, desired, paths, command>>
      /\ UNCHANGED <<ignored, skipped, unheard>> /\ shared \subseteq shared'
  BY DEF Ask, OtherAsks, ReadRepository, EndQuery, notes
<1>e. Excused \subseteq Excused' /\ (Watched' => Watched)
  BY <1>0 DEF Excused, Watched
<1>1. ASSUME NEW d \in Domains PROVE Known(d) => Known(d)'
  BY <1>0, <1>e DEF Known, OnItsWay
<1>2. CASE Ask
  <2>1. /\ drain'.on = drain.on /\ drain'.cur = drain.cur /\ drain'.current = drain.current
        /\ drain'.phase = "wait" /\ drain.cur \in Domains
    BY <1>2 DEF Ask, TypeOK, QueueType
  <2>2. ASSUME NEW d \in Domains, Outrun(d)' PROVE Known(d)'
    <3>1. d = drain.cur /\ query'.step \in {"read", "hit"} /\ query'.val < disk[d]
      BY <1>0, <2>1, <2>2 DEF Outrun
    <3>2. CASE Begin(drain.cur, TRUE)
      BY <1>1, <3>1, <3>2, BeginFresh
    <3>3. CASE /\ query' = [query EXCEPT !.waited = TRUE]
               /\ shared' = IF query.step # "keyed" /\ query.val < disk[drain.cur]
                            THEN shared \cup {drain.cur} ELSE shared
      <4>1. query'.step = query.step /\ query'.val = query.val
        BY <3>3 DEF TypeOK, ServedType
      <4>2. d \in shared'
        BY <3>1, <3>3, <4>1
      <4>. QED BY <4>2 DEF Known, Excused
    <3>. QED BY <1>2, <3>2, <3>3 DEF Ask
  <2>. QED BY <1>0, <1>e, <1>1, <2>2 DEF FreshInv, Stale
<1>3. ASSUME NEW e \in Domains, OtherAsks(e) PROVE FreshInv'
  <2>1. ~query.on /\ UNCHANGED drain
    BY <1>3 DEF OtherAsks, Begin, queue
  <2>2. drain.on => drain.phase # "wait"
    BY <2>1 DEF TypeOK, Awaited
  <2>3. ASSUME NEW d \in Domains PROVE Outrun(d)' => Outrun(d)
    BY <1>0, <2>1, <2>2 DEF Outrun
  <2>. QED BY <1>0, <1>e, <1>1, <2>3, Keeps
<1>4. CASE ReadRepository
  <2>1. UNCHANGED drain /\ query'.val = disk[query.domain]
    BY <1>4 DEF ReadRepository, queue, TypeOK, ServedType
  <2>2. drain.on /\ drain.phase = "wait" => query.domain = drain.cur
    BY DEF TypeOK, Awaited
  <2>3. ASSUME NEW d \in Domains PROVE Outrun(d)' => Outrun(d)
    <3>1. disk[d] \in Nat
      BY DEF TypeOK
    <3>. QED BY <1>0, <2>1, <2>2, <3>1 DEF Outrun
  <2>. QED BY <1>0, <1>e, <1>1, <2>3, Keeps
<1>5. CASE EndQuery
  <2>1. CASE query.waited
    <3>1. /\ drain'.on = drain.on /\ drain'.cur = drain.cur /\ drain'.current = drain.current
          /\ drain'.phase = "answered" /\ drain'.val = query.val
      BY <1>5, <2>1 DEF EndQuery, TypeOK, QueueType
    <3>2. drain.on /\ drain.phase = "wait" /\ query.step \in {"read", "hit"}
      BY <1>5, <2>1 DEF EndQuery, TypeOK, Awaited
    <3>3. ASSUME NEW d \in Domains PROVE Outrun(d)' => Outrun(d)
      BY <1>0, <3>1, <3>2 DEF Outrun
    <3>. QED BY <1>0, <1>e, <1>1, <3>3, Keeps
  <2>2. CASE ~query.waited
    <3>1. UNCHANGED drain /\ (drain.on => drain.phase # "wait")
      BY <1>5, <2>2 DEF EndQuery, TypeOK, Awaited
    <3>2. ASSUME NEW d \in Domains PROVE Outrun(d)' => Outrun(d)
      BY <1>0, <3>1 DEF Outrun
    <3>. QED BY <1>0, <1>e, <1>1, <3>2, Keeps
  <2>. QED BY <2>1, <2>2
<1>. QED BY <1>2, <1>3, <1>4, <1>5

\* The steps of the watch and of its messages.
LEMMA ServerFresh ==
  ASSUME TypeOK, BindInv, CacheFollowsWatch, FreshInv, Server
  PROVE  FreshInv'
<1>. USE DEF server, served, wire, page, store, queue, notes
<1>1. CASE WatcherStarts
  BY <1>1, Quiet DEF WatcherStarts, Excused
<1>2. CASE TakeBatch
  <2>1. Watched' => Watched
    BY <1>2 DEF TakeBatch, Watched
  <2>2. ASSUME NEW d \in Domains, Watched' PROVE Known(d) => Known(d)'
    <3>1. conn.id \in watch.subs \/ \E i \in DOMAIN up : up[i] = "bind"
      BY <2>1, <2>2, BindOnItsWay
    <3>2. /\ batch'.on = TRUE /\ batch'.domains = noticed /\ batch'.subs = watch.subs
          /\ ~batch.on /\ UNCHANGED <<conn, up, down, paths, command>> /\ Excused \subseteq Excused'
      BY <1>2 DEF TakeBatch, Forget, Excused
    <3>. QED BY <3>1, <3>2 DEF Known, OnItsWay
  <2>3. ASSUME NEW d \in Domains PROVE Outrun(d)' => Outrun(d)
    BY <1>2 DEF TakeBatch, Outrun
  <2>. QED BY <1>2, <2>1, <2>2, <2>3, Keeps DEF TakeBatch
<1>3. CASE SendBatch
  <2>1. Watched' => Watched
    BY <1>3 DEF SendBatch, Watched
  <2>2. ASSUME NEW d \in Domains, Watched' PROVE Known(d) => Known(d)'
    <3>1. down \in Seq(Message)
      BY DEF TypeOK, WireType
    <3>2. \A i \in DOMAIN down : i \in DOMAIN down' /\ down'[i] = down[i]
      BY <1>3, <3>1 DEF SendBatch
    <3>3. CASE d \in batch.domains /\ conn.id \in batch.subs
      <4>1. down' = Append(down, [type |-> "event", seq |-> batch.seq, domains |-> batch.domains])
        BY <1>3, <2>1, <2>2, <3>3 DEF SendBatch, Watched
      <4>2. Len(down) + 1 \in DOMAIN down' /\ d \in down'[Len(down) + 1].domains
        BY <3>1, <3>3, <4>1
      <4>. QED BY <4>2 DEF Known, OnItsWay
    <3>4. CASE ~(d \in batch.domains /\ conn.id \in batch.subs)
      <4>1. UNCHANGED <<noticed, conn, up, paths, command>> /\ Excused' = Excused
        BY <1>3 DEF SendBatch, Excused
      <4>. QED BY <3>2, <3>4, <4>1 DEF Known, OnItsWay
    <3>. QED BY <3>3, <3>4
  <2>3. ASSUME NEW d \in Domains PROVE Outrun(d)' => Outrun(d)
    BY <1>3 DEF SendBatch, Outrun
  <2>. QED BY <1>3, <2>1, <2>2, <2>3, Keeps DEF SendBatch
<1>4. CASE ServeBind
  <2>1. down \in Seq(Message) /\ down' = Append(down, [type |-> "bound", seq |-> watch.seq, domains |-> Domains])
    BY <1>4 DEF ServeBind, TypeOK, WireType
  <2>2. Len(down) + 1 \in DOMAIN down' /\ down'[Len(down) + 1].domains = Domains
    BY <2>1
  <2>. QED BY <2>2 DEF FreshInv, Known, OnItsWay
<1>5. CASE ServeUnbind
  <2>1. Watched => \E i \in DOMAIN up' : up'[i] = "bind"
    <3>. SUFFICES ASSUME Watched PROVE \E i \in DOMAIN up' : up'[i] = "bind"
      OBVIOUS
    <3>1. up \in Seq({"bind", "unbind"}) /\ up # <<>> /\ Head(up) = "unbind" /\ up' = Tail(up)
      BY <1>5 DEF ServeUnbind, TypeOK, WireType
    <3>2. up[Len(up)] = "bind"
      BY <3>1 DEF BindInv, BindingFollowsWish, WillBeBound, Watched
    <3>3. Len(up) # 1 /\ Len(up) \in Nat /\ Len(up) # 0
      BY <3>1, <3>2, HeadTail, EmptyHasNoLength
    <3>4. Len(up) - 1 \in DOMAIN up' /\ up'[Len(up) - 1] = "bind"
      BY <3>1, <3>2, <3>3
    <3>. QED BY <3>4
  <2>. QED BY <1>5, <2>1, LeaveFresh DEF ServeUnbind
<1>6. ASSUME NEW c \in watch.subs, ServeGone(c) PROVE FreshInv'
  BY <1>6, LeaveFresh DEF ServeGone, Watched
<1>7. CASE CommandEnds
  BY <1>7 DEF CommandEnds, FreshInv, Known, OnItsWay
<1>8. CASE Ask \/ ReadRepository \/ EndQuery
  BY <1>8, QueryFresh
<1>. QED BY <1>1, <1>2, <1>3, <1>4, <1>5, <1>6, <1>7, <1>8 DEF Server

\* The steps of the connection, of the user and of what fails.
LEMMA EnvironmentFresh ==
  ASSUME TypeOK, BindInv, CacheFollowsWatch, FreshInv, Environment
  PROVE  FreshInv'
<1>. USE DEF server, served, wire, page, store, queue, notes
<1>1. CASE \E k \in Kinds : Change(k)
  <2>. PICK k \in Kinds : Change(k)
    BY <1>1
  <2>1. k.domains \in SUBSET Domains
    BY KindAssumption
  <2>. QED BY <2>1, NoticedFresh DEF Change
<1>2. CASE Edit
  BY <1>2, EditFresh
<1>3. CASE Command
  BY <1>3 DEF Command, FreshInv, Known, OnItsWay, Excused
<1>4. CASE Lose
  <2>1. ~conn'.open
    BY <1>4 DEF Lose, TypeOK, WireType
  <2>. QED BY <2>1 DEF FreshInv, Watched
<1>5. CASE Reconnect
  <2>1. Watched' => up' = <<"bind">>
    BY <1>5 DEF Reconnect, Watched
  <2>2. Watched' => 1 \in DOMAIN up' /\ up'[1] = "bind"
    BY <2>1
  <2>. QED BY <2>2 DEF FreshInv, Known, OnItsWay, Excused
<1>6. CASE Activate
  <2>1. ~desired'
    BY <1>6 DEF Activate, BindInv, Opening
  <2>. QED BY <2>1 DEF FreshInv, Watched
<1>7. CASE Deactivate
  BY <1>7 DEF Deactivate, FreshInv, Watched
<1>8. CASE OpenSurface
  <2>1. UNCHANGED drain \/ drain'.phase = "ask"
    BY <1>8, RequestAsks DEF OpenSurface
  <2>. QED BY <1>8, <2>1, Quiet DEF OpenSurface, Excused
<1>9. CASE CloseSurface
  BY <1>9, Quiet DEF CloseSurface, Excused
<1>10. CASE WatcherFails
  <2>1. ASSUME NEW d \in Domains PROVE Known(d) => Known(d)'
    BY <1>10 DEF WatcherFails, Known, OnItsWay, Excused
  <2>2. ASSUME NEW d \in Domains PROVE Outrun(d)' => Outrun(d)
    BY <1>10 DEF WatcherFails, Outrun
  <2>. QED BY <1>10, <2>1, <2>2, Keeps DEF WatcherFails, Watched
<1>11. CASE Fail
  BY <1>11, FailFresh
<1>12. CASE PathsFail
  <2>1. paths'.pending = paths.pending
    BY <1>12 DEF PathsFail, Flushed, TypeOK, Paths
  <2>2. CASE skipped' = skipped \cup {"status"} /\ UNCHANGED <<invalid, queue>>
    <3>1. ASSUME NEW d \in Domains PROVE Known(d) => Known(d)'
      BY <1>12, <2>1, <2>2 DEF PathsFail, Known, OnItsWay, Excused
    <3>2. ASSUME NEW d \in Domains PROVE Outrun(d)' => Outrun(d)
      BY <1>12, <2>2 DEF PathsFail, Outrun
    <3>. QED BY <1>12, <2>2, <3>1, <3>2, Keeps DEF PathsFail, Watched
  <2>3. CASE InvalidateLater({"status"}) /\ UNCHANGED skipped
    <3>1. ASSUME NEW d \in Domains PROVE invalid' = invalid \cup {"status"} /\ ~Outrun(d)'
      BY <2>3, LaterMarks
    <3>2. ASSUME NEW d \in Domains PROVE Known(d) => Known(d)' \/ d \in invalid'
      BY <1>12, <2>1, <2>3, <3>1 DEF PathsFail, Known, OnItsWay, Excused
    <3>3. invalid \subseteq invalid'
      BY <2>3 DEF InvalidateLater
    <3>. QED BY <1>12, <3>1, <3>2, <3>3, Keeps DEF PathsFail, Watched
  <2>. QED BY <1>12, <2>2, <2>3 DEF PathsFail
<1>13. CASE \E d \in Domains : OtherAsks(d)
  BY <1>13, QueryFresh
<1>. QED BY <1>1, <1>2, <1>3, <1>4, <1>5, <1>6, <1>7, <1>8, <1>9, <1>10, <1>11, <1>12, <1>13 DEF Environment

\* The steps of the webview.
LEMMA WebviewFresh ==
  ASSUME TypeOK, BindInv, FreshInv, Webview
  PROVE  FreshInv'
<1>. USE DEF server, served, wire, page, store, notes
<1>1. CASE TimerFires
  <2>1. UNCHANGED drain \/ drain'.phase = "ask"
    BY <1>1, RequestAsks DEF TimerFires
  <2>. QED BY <1>1, <2>1, Quiet DEF TimerFires, Excused
<1>2. CASE Install
  BY <1>2, InstallFresh
<1>3. CASE ReceiveEvent
  <2>1. down \in Seq(Message) /\ down # <<>> /\ down' = Tail(down)
    BY <1>3 DEF ReceiveEvent, TypeOK, WireType
  <2>2. Watched' => Watched
    BY <1>3 DEF ReceiveEvent, Watched
  <2>3. ASSUME NEW d \in Domains PROVE Known(d) => Known(d)' \/ d \in Head(down).domains
    <3>1. ASSUME NEW i \in DOMAIN down, d \in down[i].domains, d \notin Head(down).domains
          PROVE  i - 1 \in DOMAIN down' /\ d \in down'[i - 1].domains
      <4>1. i # 1 /\ i \in 1 .. Len(down)
        BY <2>1, <3>1, HeadTail
      <4>. QED BY <2>1, <3>1, <4>1
    <3>2. UNCHANGED <<noticed, batch, conn, up, paths, command>> /\ Excused \subseteq Excused'
      BY <1>3 DEF ReceiveEvent, Excused
    <3>. QED BY <3>1, <3>2 DEF Known, OnItsWay
  <2>4. CASE Head(down).seq <= lastSeq
    <3>1. ignored' = ignored \cup Head(down).domains /\ UNCHANGED <<invalid, drain>>
      BY <1>3, <2>4 DEF ReceiveEvent, queue
    <3>2. ASSUME NEW d \in Domains PROVE Known(d) => Known(d)'
      BY <2>3, <3>1 DEF Known, Excused
    <3>3. ASSUME NEW d \in Domains PROVE Outrun(d)' => Outrun(d)
      BY <1>3, <3>1 DEF ReceiveEvent, Outrun
    <3>. QED BY <1>3, <2>2, <3>1, <3>2, <3>3, Keeps DEF ReceiveEvent
  <2>5. CASE ~(Head(down).seq <= lastSeq)
    <3>1. InvalidateLater(Head(down).domains) /\ UNCHANGED <<disk, shown>>
      BY <1>3, <2>5 DEF ReceiveEvent
    <3>2. ASSUME NEW d \in Domains PROVE invalid' = invalid \cup Head(down).domains /\ ~Outrun(d)'
      BY <3>1, LaterMarks
    <3>3. ASSUME NEW d \in Domains PROVE Known(d) => Known(d)' \/ d \in invalid'
      BY <2>3, <3>2
    <3>4. invalid \subseteq invalid'
      BY <3>1 DEF InvalidateLater
    <3>. QED BY <2>2, <3>1, <3>2, <3>3, <3>4, Keeps
  <2>. QED BY <2>4, <2>5
<1>4. CASE ReceiveBound \/ CommandPolled
  BY <1>4, NowFresh DEF ReceiveBound, CommandPolled
<1>5. CASE FlushPaths
  <2>1. ASSUME NEW d \in Domains PROVE Known(d) => Known(d)'
    <3>1. paths'.pending \/ paths'.asked \/ ~(paths.pending \/ paths.asked)
      BY <1>5 DEF FlushPaths, TypeOK, Paths
    <3>. QED BY <1>5, <3>1 DEF FlushPaths, Known, OnItsWay, Excused
  <2>2. ASSUME NEW d \in Domains PROVE Outrun(d)' => Outrun(d)
    BY <1>5 DEF FlushPaths, Outrun, queue
  <2>. QED BY <1>5, <2>1, <2>2, Keeps DEF FlushPaths, Watched
<1>6. CASE PathsRelevant
  <2>1. paths'.pending = paths.pending
    BY <1>6 DEF PathsRelevant, Flushed, TypeOK, Paths
  <2>2. ASSUME NEW d \in Domains PROVE invalid' = invalid \cup {"status"} /\ ~Outrun(d)'
    BY <1>6, LaterMarks DEF PathsRelevant
  <2>3. ASSUME NEW d \in Domains PROVE Known(d) => Known(d)' \/ d \in invalid'
    BY <1>6, <2>1, <2>2 DEF PathsRelevant, Known, OnItsWay, Excused
  <2>4. invalid \subseteq invalid'
    BY <1>6 DEF PathsRelevant, InvalidateLater
  <2>. QED BY <1>6, <2>2, <2>3, <2>4, Keeps DEF PathsRelevant, Watched
<1>7. CASE BackoffEnds
  <2>1. paths'.pending = paths.pending /\ paths'.asked = paths.asked
    BY <1>7 DEF BackoffEnds, TypeOK, Paths
  <2>. QED BY <1>7, <2>1, Quiet DEF BackoffEnds, Excused, queue
<1>. QED BY <1>1, <1>2, <1>3, <1>4, <1>5, <1>6, <1>7 DEF Webview

-----------------------------------------------------------------------------
(* The cache of the backend.                                               *)

\* The watch or a command is about to drop what is kept, or the notes say why nobody will.
Told == "refs" \in noticed \cup unheard \/ command = "ran"

\* The versions only grow: nothing is kept, or being read, under one that is still to come.
KeysGrow ==
  /\ memo <= version
  /\ \A e \in cache : e.key <= Key
  /\ query.on /\ query.domain = "refs" => query.key <= Key

\* Inductive form of CacheFollowsWatch.
CacheInv == KeysGrow /\ CacheFollowsWatch

\* A step of the repository: with the version it moves past everything that is kept.
LEMMA TouchedCache ==
  ASSUME TypeOK, CacheInv, NEW ds \in SUBSET Domains, disk' = Touched(ds), UNCHANGED served,
         version' \in {version, version + 1}, "refs" \in ds => Told', Told => Told'
  PROVE  CacheInv'
<1>1. version \in Nat \ {0} /\ memo \in Nat /\ Key \in Nat
  BY DEF TypeOK, ServedType, Key
<1>2. cache \subseteq [key : Nat, val : Nat] /\ query.key \in Nat
  BY DEF TypeOK, ServedType
<1>3. Key' \in Nat /\ Key <= Key' /\ memo' <= version'
  BY <1>1 DEF Key, served, CacheInv, KeysGrow
<1>4. KeysGrow'
  BY <1>1, <1>2, <1>3 DEF CacheInv, KeysGrow, served
<1>5. CASE "refs" \in ds
  BY <1>4, <1>5 DEF CacheInv, CacheFollowsWatch, Told
<1>6. CASE "refs" \notin ds
  <2>1. disk'["refs"] = disk["refs"]
    BY <1>6, DomainAssumption DEF Touched
  <2>2. CASE Key' = Key
    <3>1. Worn' => Worn
      BY <2>1, <2>2 DEF Worn, Hits, served
    <3>. QED BY <1>4, <3>1 DEF CacheInv, CacheFollowsWatch, Told
  <2>3. CASE Key < Key'
    <3>1. Hits' = {} /\ (query.on /\ query.domain = "refs" => query.key # Key')
      BY <1>1, <1>2, <1>3, <2>3 DEF Hits, served, CacheInv, KeysGrow
    <3>2. ~Worn'
      BY <3>1 DEF Worn, served
    <3>. QED BY <1>4, <3>2 DEF CacheInv, CacheFollowsWatch
  <2>. QED BY <1>1, <1>3, <2>2, <2>3
<1>. QED BY <1>5, <1>6

\* An invalidation leaves nothing worn but what is on its way into the cache.
LEMMA ForgetCache ==
  ASSUME TypeOK, CacheInv, NEW v \in {0, version}, Forget(v), UNCHANGED <<disk, version, query>>
  PROVE  CacheInv'
<1>1. version \in Nat \ {0} /\ memo \in Nat /\ query.key \in Nat /\ memo' = v /\ cache' = {}
  BY DEF TypeOK, ServedType, Forget
<1>2. Key' = version /\ Key <= version /\ Key \in Nat
  BY <1>1 DEF Key, CacheInv, KeysGrow
<1>3. KeysGrow'
  BY <1>1, <1>2 DEF CacheInv, KeysGrow
<1>4. Worn' => Belated
  BY <1>1, <1>2 DEF Worn, Hits, Belated
<1>. QED BY <1>3, <1>4 DEF Forget, CacheInv, CacheFollowsWatch

\* Nothing that is kept or read is touched, and nothing that was to be dropped is forgotten.
LEMMA SameCache ==
  ASSUME CacheInv, UNCHANGED <<disk, version, served>>, Worn => (Told => Told')
  PROVE  CacheInv'
<1>1. Key' = Key /\ Hits' = Hits
  BY DEF Key, Hits, served
<1>2. Worn' => Worn
  BY <1>1 DEF Worn, served
<1>. QED BY <1>1, <1>2 DEF CacheInv, KeysGrow, CacheFollowsWatch, Told, served

\* A query that begins takes the version, and keeps nothing.
LEMMA BeginCache ==
  ASSUME TypeOK, CacheInv, NEW d, NEW mine, Begin(d, mine), UNCHANGED <<disk, version, cache>>, Told => Told'
  PROVE  CacheInv'
<1>1. version \in Nat \ {0} /\ memo \in Nat /\ Key \in Nat
  BY DEF TypeOK, ServedType, Key
<1>2. Key' = Key /\ memo' <= version'
  BY <1>1 DEF Begin, Key, CacheInv, KeysGrow
<1>3. query'.on /\ query'.domain = "refs" => query'.key <= Key /\ query'.step # "read"
  <2>1. CASE query' = Running(d, "read", 0, disk[d], mine) /\ d = "status"
    BY <2>1 DEF Running
  <2>2. ASSUME NEW e \in Hits, query' = Running(d, "hit", e.key, e.val, mine)
        PROVE  query'.key <= Key /\ query'.step # "read"
    <3>1. e.key = Key
      BY DEF Hits
    <3>. QED BY <1>1, <2>2, <3>1 DEF Running
  <2>3. CASE query' = Running(d, "keyed", Key, 0, mine)
    BY <1>1, <2>3 DEF Running
  <2>. QED BY <2>1, <2>2, <2>3, Zenon DEF Begin
<1>4. Worn' => Worn
  BY <1>2, <1>3 DEF Worn, Hits
<1>. QED BY <1>2, <1>3, <1>4 DEF CacheInv, KeysGrow, CacheFollowsWatch, Told

\* The end of a query: status computes the version anew, refs are kept.
LEMMA EndCache ==
  ASSUME TypeOK, CacheInv, EndQuery
  PROVE  CacheInv'
<1>1. version \in Nat \ {0} /\ memo \in Nat /\ Key \in Nat /\ query.key \in Nat
  BY DEF TypeOK, ServedType, Key
<1>2. cache \subseteq [key : Nat, val : Nat]
  BY DEF TypeOK, ServedType
<1>3. UNCHANGED <<disk, version>> /\ query'.on = FALSE /\ query.on /\ (Told' <=> Told)
  BY DEF EndQuery, NoQuery, notes, Told
<1>4. CASE query.domain = "status"
  <2>1. memo' = version /\ cache' = cache /\ Key' = version /\ Key <= version
    BY <1>1, <1>4 DEF EndQuery, Key, CacheInv, KeysGrow
  <2>2. KeysGrow'
    BY <1>1, <1>2, <1>3, <2>1 DEF CacheInv, KeysGrow
  <2>3. ASSUME Worn' PROVE Worn
    <3>1. PICK e \in Hits' : e.val < disk["refs"]
      BY <1>3, <2>3 DEF Worn
    <3>2. e \in cache /\ e.key = version /\ e.key <= Key
      BY <2>1, <3>1 DEF Hits, CacheInv, KeysGrow
    <3>3. e.key = Key
      BY <1>1, <2>1, <3>2
    <3>. QED BY <3>1, <3>2, <3>3 DEF Worn, Hits
  <2>. QED BY <1>3, <2>2, <2>3 DEF CacheInv, CacheFollowsWatch, Told
<1>5. CASE query.domain # "status"
  <2>1. UNCHANGED memo /\ Key' = Key
    BY <1>3, <1>5 DEF EndQuery, Key
  <2>2. CASE query.domain = "refs" /\ query.step = "read"
    <3>1. cache' = {e \in cache : e.key # query.key} \cup {[key |-> query.key, val |-> query.val]}
      BY <2>2 DEF EndQuery
    <3>2. KeysGrow'
      BY <1>3, <2>1, <2>2, <3>1 DEF CacheInv, KeysGrow
    <3>3. ASSUME Worn' PROVE Worn
      <4>1. PICK e \in Hits' : e.val < disk["refs"]
        BY <1>3, <3>3 DEF Worn
      <4>2. CASE e \in cache
        BY <2>1, <4>1, <4>2 DEF Worn, Hits
      <4>3. CASE e = [key |-> query.key, val |-> query.val]
        BY <1>3, <2>1, <2>2, <4>1, <4>3 DEF Worn, Hits
      <4>. QED BY <3>1, <4>1, <4>2, <4>3 DEF Hits
    <3>. QED BY <1>3, <3>2, <3>3 DEF CacheInv, CacheFollowsWatch, Told
  <2>3. CASE ~(query.domain = "refs" /\ query.step = "read")
    <3>1. cache' = cache
      BY <2>3 DEF EndQuery
    <3>2. KeysGrow'
      BY <1>3, <2>1, <3>1 DEF CacheInv, KeysGrow
    <3>3. Worn' => Worn
      BY <1>3, <2>1, <3>1 DEF Worn, Hits
    <3>. QED BY <1>3, <3>2, <3>3 DEF CacheInv, CacheFollowsWatch, Told
  <2>. QED BY <2>2, <2>3
<1>. QED BY <1>4, <1>5

\* The query goes on without the drain, is abandoned, or has read the repository.
LEMMA QueryCache ==
  ASSUME TypeOK, CacheInv, UNCHANGED <<disk, version, memo, cache>>, Told => Told',
         \/ query' = NoQuery
         \/ \E w \in BOOLEAN : query' = [query EXCEPT !.waited = w]
         \/ query' = [query EXCEPT !.step = "read", !.val = disk[query.domain]]
  PROVE  CacheInv'
<1>0. Key' = Key /\ Hits' = Hits
  BY DEF Key, Hits
<1>1. CASE query' = NoQuery
  BY <1>0, <1>1 DEF NoQuery, CacheInv, KeysGrow, CacheFollowsWatch, Worn, Told
<1>2. ASSUME NEW w \in BOOLEAN, query' = [query EXCEPT !.waited = w] PROVE CacheInv'
  <2>1. /\ query'.on = query.on /\ query'.domain = query.domain /\ query'.step = query.step
        /\ query'.key = query.key /\ query'.val = query.val
    BY <1>2 DEF TypeOK, ServedType
  <2>. QED BY <1>0, <2>1 DEF CacheInv, KeysGrow, CacheFollowsWatch, Worn, Told
<1>3. CASE query' = [query EXCEPT !.step = "read", !.val = disk[query.domain]]
  <2>1. /\ query'.on = query.on /\ query'.domain = query.domain /\ query'.key = query.key
        /\ query'.val = disk[query.domain]
    BY <1>3 DEF TypeOK, ServedType
  <2>2. disk["refs"] \in Nat
    BY DomainAssumption DEF TypeOK
  <2>3. Worn' => Worn
    BY <1>0, <2>1, <2>2 DEF Worn
  <2>. QED BY <1>0, <2>1, <2>3 DEF CacheInv, KeysGrow, CacheFollowsWatch, Told
<1>. QED BY <1>1, <1>2, <1>3

\* Every step keeps the cache behind the watch.
LEMMA CacheStep ==
  ASSUME TypeOK, CacheInv, [Next]_vars
  PROVE  CacheInv'
<1>. USE DEF server, served
<1>1. CASE UNCHANGED vars
  BY <1>1, SameCache DEF vars, notes, Told
<1>2. CASE \E k \in Kinds : Change(k)
  <2>. PICK k \in Kinds : Change(k)
    BY <1>2
  <2>1. k.domains \in SUBSET Domains
    BY KindAssumption
  <2>2. /\ disk' = Touched(k.domains) /\ Notice(k.domains) /\ UNCHANGED <<served, command>>
        /\ version' \in {version, version + 1}
    BY DEF Change
  <2>3. (Told => Told') /\ ("refs" \in k.domains => Told')
    BY <2>2 DEF Notice, Told
  <2>. QED BY <2>1, <2>2, <2>3, TouchedCache
<1>3. CASE Command
  <2>1. Told'
    BY <1>3 DEF Command, Told
  <2>. QED BY <1>3, <2>1, TouchedCache DEF Command
<1>4. CASE Edit
  <2>1. {"status"} \in SUBSET Domains
    BY DomainAssumption
  <2>2. Told => Told'
    BY <1>4 DEF Edit, Told, notes
  <2>. QED BY <1>4, <2>1, <2>2, TouchedCache DEF Edit
<1>5. CASE TakeBatch \/ CommandEnds
  BY <1>5, ForgetCache DEF TakeBatch, CommandEnds
<1>6. CASE WatcherFails
  <2>1. Told => Told'
    BY <1>6 DEF WatcherFails, Told
  <2>. QED BY <1>6, <2>1, SameCache DEF WatcherFails
<1>7. CASE ServeUnbind \/ \E c \in watch.subs : ServeGone(c)
  <2>1. PICK c : Leave(c)
    BY <1>7 DEF ServeUnbind, ServeGone
  <2>2. UNCHANGED <<disk, version, served, command>>
    BY <1>7 DEF ServeUnbind, ServeGone
  <2>3. Told => Told'
    BY <2>1, <2>2 DEF Leave, Told
  <2>. QED BY <2>2, <2>3, SameCache
<1>8. CASE \E d \in Domains : OtherAsks(d)
  <2>1. Told => Told'
    BY <1>8 DEF OtherAsks, Told, notes
  <2>. QED BY <1>8, <2>1, BeginCache DEF OtherAsks
<1>9. CASE Ask
  <2>1. Told => Told'
    BY <1>9 DEF Ask, Told
  <2>2. CASE Begin(drain.cur, TRUE)
    BY <1>9, <2>1, <2>2, BeginCache DEF Ask
  <2>3. CASE query' = [query EXCEPT !.waited = TRUE] /\ UNCHANGED memo
    BY <1>9, <2>1, <2>3, QueryCache DEF Ask
  <2>. QED BY <1>9, <2>2, <2>3 DEF Ask
<1>10. CASE ReadRepository
  <2>1. Told => Told'
    BY <1>10 DEF ReadRepository, Told, notes
  <2>. QED BY <1>10, <2>1, QueryCache DEF ReadRepository
<1>11. CASE EndQuery
  BY <1>11, EndCache
<1>12. CASE Fail
  <2>1. Told => Told'
    BY <1>12 DEF Fail, Told
  <2>2. UNCHANGED query \/ query' = NoQuery \/ query' = [query EXCEPT !.waited = FALSE]
    BY <1>12 DEF Fail
  <2>3. CASE UNCHANGED query
    BY <1>12, <2>1, <2>3, SameCache DEF Fail
  <2>4. CASE query' = NoQuery \/ query' = [query EXCEPT !.waited = FALSE]
    BY <1>12, <2>1, <2>4, QueryCache DEF Fail
  <2>. QED BY <2>2, <2>3, <2>4
<1>13. CASE Install
  <2>1. Worn => (Told => Told')
    BY <1>13 DEF Install, Told
  <2>. QED BY <1>13, <2>1, SameCache DEF Install
<1>14. CASE \/ WatcherStarts \/ SendBatch \/ ServeBind \/ Lose \/ Reconnect \/ Activate \/ Deactivate
            \/ OpenSurface \/ CloseSurface \/ PathsFail \/ TimerFires \/ ReceiveEvent \/ ReceiveBound
            \/ CommandPolled \/ FlushPaths \/ PathsRelevant \/ BackoffEnds
  <2>1. UNCHANGED <<disk, version, served, noticed, unheard>> /\ (command = "ran" => command' = "ran")
    BY <1>14 DEF WatcherStarts, SendBatch, ServeBind, Lose, Reconnect, Activate, Deactivate, OpenSurface,
       CloseSurface, PathsFail, TimerFires, ReceiveEvent, ReceiveBound, CommandPolled, FlushPaths,
       PathsRelevant, BackoffEnds, notes
  <2>2. Told => Told'
    BY <2>1 DEF Told
  <2>. QED BY <2>1, <2>2, SameCache
<1>. QED BY <1>1, <1>2, <1>3, <1>4, <1>5, <1>6, <1>7, <1>8, <1>9, <1>10, <1>11, <1>12, <1>13, <1>14
     DEF Next, Environment, Server, Webview

LEMMA CacheInit == Init => CacheInv
<1>. SUFFICES ASSUME Init PROVE CacheInv
  OBVIOUS
<1>1. memo = 0 /\ version = 1 /\ cache = {} /\ query.on = FALSE
  BY DEF Init, NoQuery
<1>. QED BY <1>1 DEF CacheInv, KeysGrow, CacheFollowsWatch, Worn, Hits

\* What the backend keeps of the refs is dropped before it can be served again (query_service.py,
\* GitMetadataEventService, command_service.py), whatever changes the version misses: older refs
\* are in the cache, or on their way into it, only while the watch or a command's end has yet to
\* invalidate it, or after a change that went unheard in one of the ways the definition names.
THEOREM CacheFollows == Spec => []CacheFollowsWatch
<1>1. Init => TypeOK /\ CacheInv
  BY TypeInit, CacheInit
<1>2. TypeOK /\ CacheInv /\ [Next]_vars => TypeOK' /\ CacheInv'
  BY TypeStep, CacheStep
<1>3. CacheInv => CacheFollowsWatch
  BY DEF CacheInv
<1>. QED BY <1>1, <1>2, <1>3, PTL DEF Spec

\* While the repository is watched, no snapshot is silently out of date: the mark of a domain is
\* never cleared by a result read before a change whose news the webview will not get, be it read
\* from the repository or from the cache.  Except for the domains in the notes: news dropped by
\* its number or for a failure, a question that has joined an older read, and refs after a change
\* the cache was not told of.
THEOREM Fresh == Spec => []FreshOrMarked
<1>1. Init => TypeOK /\ BindInv /\ CacheInv /\ FreshInv
  BY TypeInit, BindInit, CacheInit DEF Init, FreshInv, Watched
<1>2. TypeOK /\ BindInv /\ CacheInv /\ FreshInv /\ [Next]_vars => TypeOK' /\ BindInv' /\ CacheInv' /\ FreshInv'
  <2>. SUFFICES ASSUME TypeOK, BindInv, CacheInv, FreshInv, [Next]_vars PROVE FreshInv'
    BY TypeStep, BindStep, CacheStep
  <2>1. CacheFollowsWatch
    BY DEF CacheInv
  <2>2. CASE UNCHANGED vars
    BY <2>2, Quiet DEF vars, server, served, wire, page, store, queue, notes, Excused
  <2>3. CASE Next
    BY <2>1, <2>3, ServerFresh, EnvironmentFresh, WebviewFresh DEF Next
  <2>. QED BY <2>2, <2>3
<1>3. FreshInv => FreshOrMarked
  BY DEF FreshInv, FreshOrMarked, Known
<1>. QED BY <1>1, <1>2, <1>3, PTL DEF Spec

-----------------------------------------------------------------------------
(* Scheduling.                                                             *)

\* The drain has d before it: in the round that runs or in the next one.
Queued(d) == d \in requested \/ Loading(d)

Scheduled(d) == timer \/ Queued(d) \/ d \in without

\* A step after which every demanded domain that is invalid is scheduled, unless it was before
\* and nothing was taken from it.
LEMMA StaysScheduled ==
  ASSUME DemandedIsScheduled,
         Watched' /\ ~Resyncing' => Watched /\ ~Resyncing,
         \A d \in invalid' \cap Demanded' :
           Scheduled(d)' \/ (d \in invalid \cap Demanded /\ (Scheduled(d) => Scheduled(d)'))
  PROVE  DemandedIsScheduled'
BY DEF DemandedIsScheduled, Scheduled, Queued

\* Steps that leave the wires and the wish alone, and all that is scheduled.
LEMMA SameSchedule ==
  ASSUME DemandedIsScheduled, UNCHANGED <<conn, up, down, desired, surface, invalid, without>>,
         UNCHANGED timer, UNCHANGED requested,
         drain'.on = drain.on, drain'.cur = drain.cur, drain'.left = drain.left
  PROVE  DemandedIsScheduled'
BY DEF DemandedIsScheduled, Watched, Resyncing, Demanded, Loading

\* What is requested is queued, and nothing that was queued is forgotten.
LEMMA RequestQueues ==
  ASSUME NEW ds \in SUBSET Domains, Request(ds), NEW d \in Domains, d \in ds \/ Queued(d)
  PROVE  Queued(d)'
<1>1. CASE ds = {} \/ drain.on
  BY <1>1 DEF Request, Queued, Loading
<1>2. CASE ds # {} /\ ~drain.on
  <2>1. d \in requested \cup ds
    BY <1>2 DEF Queued, Loading
  <2>2. PICK e \in requested \cup ds : drain' = Round(requested \cup ds, e)
    BY <1>2 DEF Request
  <2>. QED BY <2>1, <2>2 DEF Round, Queued, Loading
<1>. QED BY <1>1, <1>2

\* An immediate invalidation queues whatever is invalid and demanded: nothing is left to the
\* timer it clears.
LEMMA NowQueues ==
  ASSUME TypeOK, NEW ds \in SUBSET Domains, InvalidateNow(ds), UNCHANGED surface, NEW d \in invalid' \cap Demanded'
  PROVE  Queued(d)'
<1>1. d \in Domains /\ d \in invalid' \cap Demanded /\ invalid' \cap Demanded \in SUBSET Domains
  BY DomainAssumption DEF Demanded, InvalidateNow, TypeOK, StoreType
<1>2. CASE drain.on
  BY <1>1, <1>2 DEF InvalidateNow, Queued
<1>3. CASE ~drain.on
  BY <1>1, <1>3, RequestQueues DEF InvalidateNow
<1>. QED BY <1>2, <1>3

\* A debounced one leaves the demanded domains to the timer, and the drain goes on.
LEMMA LaterSchedules ==
  ASSUME TypeOK, DemandedIsScheduled, NEW ds, InvalidateLater(ds), UNCHANGED <<surface, without>>,
         Watched' /\ ~Resyncing' => Watched /\ ~Resyncing
  PROVE  DemandedIsScheduled'
<1>1. drain'.on = drain.on /\ drain'.cur = drain.cur /\ drain'.left = drain.left
  BY DEF InvalidateLater, Outdated, TypeOK, QueueType
<1>2. ASSUME NEW d \in invalid' \cap Demanded'
      PROVE  Scheduled(d)' \/ (d \in invalid \cap Demanded /\ (Scheduled(d) => Scheduled(d)'))
  BY <1>1, <1>2 DEF InvalidateLater, Scheduled, Queued, Loading, Demanded
<1>. QED BY <1>2, StaysScheduled

\* The drain goes on with its round, with what was requested meanwhile, or ends with nothing left.
LEMMA AdvanceQueues ==
  ASSUME TypeOK, drain.on, Advance, NEW d \in Domains, d \in requested \/ d \in drain.left
  PROVE  Queued(d)'
<1>1. drain \in [on : BOOLEAN, left : SUBSET Domains, cur : Domains \cup {"none"},
                 phase : {"ask", "wait", "answered"}, val : Nat, current : BOOLEAN]
  BY DEF TypeOK, QueueType
<1>2. ASSUME NEW e \in drain.left, UNCHANGED requested,
             drain' = [drain EXCEPT !.left = @ \ {e}, !.cur = e, !.phase = "ask", !.val = 0]
      PROVE  Queued(d)'
  <2>1. drain'.on /\ drain'.left = drain.left \ {e} /\ drain'.cur = e
    BY <1>1, <1>2
  <2>. QED BY <1>2, <2>1 DEF Queued, Loading
<1>3. ASSUME drain.left = {}, NEW e \in requested, drain' = Round(requested, e)
      PROVE  Queued(d)'
  BY <1>3 DEF Round, Queued, Loading
<1>. QED BY <1>2, <1>3, Zenon DEF Advance

\* If the end of the drain binds the watch, its resync is still to come.
LEMMA AdvanceSyncs ==
  ASSUME TypeOK, Advance, UNCHANGED <<conn, down>>
  PROVE  Watched' /\ ~Resyncing' => Watched /\ ~Resyncing
<1>1. "status" \in Domains
  BY DomainAssumption
<1>2. Watched' => (Watched /\ UNCHANGED up) \/ \E i \in DOMAIN up' : up'[i] = "bind"
  BY <1>1, AdvanceFresh
<1>. QED BY <1>2 DEF Resyncing

\* A result is stored, dropped, or does not come: its domain is valid, is to be loaded again, or noted.
LEMMA LoadedSchedules ==
  ASSUME TypeOK, DemandedIsScheduled, Install \/ Fail
  PROVE  DemandedIsScheduled'
<1>1. /\ drain.on /\ Advance /\ UNCHANGED <<conn, down, surface, timer>> /\ invalid' \subseteq invalid
      /\ \A d \in Domains : d # drain.cur /\ d \in without => d \in without'
      /\ drain.cur \in invalid' => timer \/ drain.cur \in requested \/ drain.cur \in without'
  <2>1. CASE Install
    BY <2>1 DEF Install
  <2>2. CASE Fail
    BY <2>2 DEF Fail, store
  <2>. QED BY <2>1, <2>2
<1>2. Watched' /\ ~Resyncing' => Watched /\ ~Resyncing
  BY <1>1, AdvanceSyncs
<1>3. ASSUME NEW d \in invalid' \cap Demanded'
      PROVE  d \in invalid \cap Demanded /\ (Scheduled(d) => Scheduled(d)')
  <2>1. d \in invalid \cap Demanded /\ d \in Domains
    BY <1>1, <1>3 DEF Demanded, TypeOK, StoreType
  <2>2. d \in requested \/ d \in drain.left => Queued(d)'
    BY <1>1, <2>1, AdvanceQueues
  <2>3. CASE d = drain.cur
    BY <1>1, <1>3, <2>1, <2>2, <2>3 DEF Scheduled
  <2>4. CASE d # drain.cur
    BY <1>1, <2>1, <2>2, <2>4 DEF Scheduled, Queued, Loading
  <2>. QED BY <2>1, <2>3, <2>4
<1>. QED BY <1>2, <1>3, StaysScheduled

\* The messages of the wires: a binding and its resync are seen until the resync has arrived.
LEMMA WireSchedules ==
  ASSUME TypeOK, DemandedIsScheduled, SendBatch \/ ServeBind \/ ServeUnbind \/ Lose \/ Reconnect \/ Deactivate
  PROVE  DemandedIsScheduled'
<1>. USE DEF page, store, queue, notes
<1>0. up \in Seq({"bind", "unbind"}) /\ down \in Seq(Message)
  BY DEF TypeOK, WireType
<1>1. UNCHANGED <<surface, invalid, without, timer, requested, drain>>
  BY DEF SendBatch, ServeBind, ServeUnbind, Lose, Reconnect, Deactivate
<1>2. Watched' /\ ~Resyncing' => Watched /\ ~Resyncing
  <2>1. CASE SendBatch
    <3>1. UNCHANGED <<desired, conn, up>>
      BY <2>1 DEF SendBatch
    <3>2. \A i \in DOMAIN down : i \in DOMAIN down' /\ down'[i] = down[i]
      <4>1. CASE UNCHANGED down
        BY <4>1
      <4>2. ASSUME NEW m, down' = Append(down, m) PROVE \A i \in DOMAIN down : i \in DOMAIN down' /\ down'[i] = down[i]
        BY <1>0, <4>2
      <4>. QED BY <2>1, <4>1, <4>2, Zenon DEF SendBatch
    <3>. QED BY <3>1, <3>2 DEF Watched, Resyncing
  <2>2. CASE ServeBind
    <3>1. down' = Append(down, [type |-> "bound", seq |-> watch.seq, domains |-> Domains])
      BY <2>2 DEF ServeBind
    <3>2. Len(down) + 1 \in DOMAIN down' /\ down'[Len(down) + 1].type = "bound"
      BY <1>0, <3>1
    <3>. QED BY <3>2 DEF Resyncing
  <2>3. CASE ServeUnbind
    <3>1. UNCHANGED <<desired, conn, down>> /\ up # <<>> /\ Head(up) = "unbind" /\ up' = Tail(up)
      BY <2>3 DEF ServeUnbind
    <3>2. ASSUME NEW i \in DOMAIN up, up[i] = "bind" PROVE i - 1 \in DOMAIN up' /\ up'[i - 1] = "bind"
      <4>1. i # 1 /\ i \in 1 .. Len(up)
        BY <1>0, <3>1, <3>2, HeadTail
      <4>. QED BY <1>0, <3>1, <3>2, <4>1
    <3>. QED BY <3>1, <3>2 DEF Watched, Resyncing
  <2>4. CASE Lose
    <3>1. conn'.open = FALSE
      BY <2>4 DEF Lose, TypeOK, WireType
    <3>. QED BY <3>1 DEF Watched
  <2>5. CASE Reconnect
    <3>1. desired' => up' = <<"bind">>
      BY <2>5 DEF Reconnect
    <3>2. up' = <<"bind">> => 1 \in DOMAIN up' /\ up'[1] = "bind"
      OBVIOUS
    <3>. QED BY <3>1, <3>2 DEF Watched, Resyncing
  <2>6. CASE Deactivate
    BY <2>6 DEF Deactivate, Watched
  <2>. QED BY <2>1, <2>2, <2>3, <2>4, <2>5, <2>6
<1>3. ASSUME NEW d \in invalid' \cap Demanded'
      PROVE  d \in invalid \cap Demanded /\ (Scheduled(d) => Scheduled(d)')
  BY <1>1, <1>3 DEF Demanded, Scheduled, Queued, Loading
<1>. QED BY <1>2, <1>3, StaysScheduled

\* An event arrives: what it invalidates is left to the timer, the resyncs stay on their way.
LEMMA EventSchedules ==
  ASSUME TypeOK, DemandedIsScheduled, ReceiveEvent
  PROVE  DemandedIsScheduled'
<1>1. /\ down \in Seq(Message) /\ down # <<>> /\ Head(down).type = "event" /\ down' = Tail(down)
      /\ UNCHANGED <<conn, up, desired, surface, without>>
  BY DEF ReceiveEvent, TypeOK, WireType, page
<1>2. ASSUME NEW i \in DOMAIN down, down[i].type = "bound" PROVE i - 1 \in DOMAIN down' /\ down'[i - 1].type = "bound"
  <2>1. i # 1 /\ i \in 1 .. Len(down)
    BY <1>1, <1>2, HeadTail
  <2>. QED BY <1>1, <1>2, <2>1
<1>3. Watched' /\ ~Resyncing' => Watched /\ ~Resyncing
  BY <1>1, <1>2 DEF Watched, Resyncing
<1>4. CASE Head(down).seq <= lastSeq
  <2>1. UNCHANGED <<invalid, timer, requested, drain>>
    BY <1>4 DEF ReceiveEvent, store, queue
  <2>2. ASSUME NEW d \in invalid' \cap Demanded'
        PROVE  d \in invalid \cap Demanded /\ (Scheduled(d) => Scheduled(d)')
    BY <1>1, <2>1, <2>2 DEF Demanded, Scheduled, Queued, Loading
  <2>. QED BY <1>3, <2>2, StaysScheduled
<1>5. CASE ~(Head(down).seq <= lastSeq)
  <2>1. InvalidateLater(Head(down).domains)
    BY <1>5 DEF ReceiveEvent
  <2>. QED BY <1>1, <1>3, <2>1, LaterSchedules
<1>. QED BY <1>4, <1>5

\* The timer, an activation, or the surface that opens and demands all that is invalid, queue what they
\* were to refresh.
LEMMA RequestSchedules ==
  ASSUME TypeOK, BindInv, DemandedIsScheduled, TimerFires \/ Activate \/ OpenSurface \/ CloseSurface
  PROVE  DemandedIsScheduled'
<1>. USE DEF wire, page, store, queue, notes
<1>1. UNCHANGED <<conn, up, down, desired, invalid, without>> /\ invalid \subseteq Domains
  BY DEF TimerFires, Activate, OpenSurface, CloseSurface, TypeOK, StoreType
<1>2. Watched' /\ ~Resyncing' => Watched /\ ~Resyncing
  BY <1>1 DEF Watched, Resyncing
<1>3. ASSUME Watched, NEW d \in invalid' \cap Demanded'
      PROVE  Scheduled(d)' \/ (d \in invalid \cap Demanded /\ (Scheduled(d) => Scheduled(d)'))
  <2>0. d \in Domains /\ d \in invalid
    BY <1>1, <1>3
  <2>1. CASE TimerFires
    <3>1. d \in invalid \cap Demanded /\ invalid \cap Demanded \in SUBSET Domains
      BY <1>1, <1>3, <2>1 DEF TimerFires, Demanded
    <3>2. Request(invalid \cap Demanded)
      BY <2>1 DEF TimerFires
    <3>3. Queued(d)'
      BY <2>0, <3>1, <3>2, RequestQueues
    <3>. QED BY <3>3 DEF Scheduled
  <2>2. CASE Activate
    <3>1. Request({"status", "refs"}) /\ {"status", "refs"} \in SUBSET Domains /\ d \in Demanded
          /\ UNCHANGED timer
      BY <1>3, <2>2, DomainAssumption DEF Activate, Demanded
    <3>2. Queued(d) => Queued(d)'
      BY <2>0, <3>1, RequestQueues
    <3>. QED BY <1>1, <2>0, <3>1, <3>2 DEF Scheduled
  <2>3. CASE OpenSurface
    <3>1. Request(invalid)
      BY <1>3, <2>0, <2>3 DEF OpenSurface, BindInv, Opening, Watched
    <3>2. Queued(d)'
      BY <1>1, <2>0, <3>1, RequestQueues
    <3>. QED BY <3>2 DEF Scheduled
  <2>4. CASE CloseSurface
    <3>1. d \in Demanded /\ UNCHANGED <<timer, requested, drain>>
      BY <1>3, <2>0, <2>4, DomainAssumption DEF CloseSurface, Demanded
    <3>. QED BY <1>1, <2>0, <3>1 DEF Scheduled, Queued, Loading
  <2>. QED BY <2>1, <2>2, <2>3, <2>4
<1>4. CASE Watched
  BY <1>2, <1>3, <1>4, StaysScheduled
<1>5. CASE ~Watched
  BY <1>2, <1>5 DEF DemandedIsScheduled
<1>. QED BY <1>4, <1>5

\* Every step keeps what is demanded scheduled.
LEMMA ScheduleStep ==
  ASSUME TypeOK, BindInv, DemandedIsScheduled, [Next]_vars
  PROVE  DemandedIsScheduled'
<1>. USE DEF server, wire, page, store, notes
<1>1. CASE UNCHANGED vars
  BY <1>1, SameSchedule DEF vars, queue
<1>2. CASE \/ (\E k \in Kinds : Change(k)) \/ Edit \/ Command \/ CommandEnds \/ WatcherStarts \/ WatcherFails \/ TakeBatch
           \/ (\E c \in watch.subs : ServeGone(c)) \/ FlushPaths \/ BackoffEnds
  <2>1. UNCHANGED <<conn, up, down, desired, surface, invalid, without, timer, requested, drain>>
    BY <1>2 DEF Change, Edit, Command, CommandEnds, WatcherStarts, WatcherFails, TakeBatch, ServeGone, FlushPaths, BackoffEnds,
                queue
  <2>. QED BY <2>1, SameSchedule
<1>3. CASE Ask \/ ReadRepository \/ EndQuery \/ \E d \in Domains : OtherAsks(d)
  <2>1. drain'.on = drain.on /\ drain'.cur = drain.cur /\ drain'.left = drain.left
    BY <1>3 DEF Ask, ReadRepository, EndQuery, OtherAsks, queue, TypeOK, QueueType
  <2>2. UNCHANGED <<conn, up, down, desired, surface, invalid, without, timer, requested>>
    BY <1>3 DEF Ask, ReadRepository, EndQuery, OtherAsks, queue
  <2>. QED BY <2>1, <2>2, SameSchedule
<1>4. CASE SendBatch \/ ServeBind \/ ServeUnbind \/ Lose \/ Reconnect \/ Deactivate
  BY <1>4, WireSchedules
<1>5. CASE Install \/ Fail
  BY <1>5, LoadedSchedules
<1>6. CASE ReceiveEvent
  BY <1>6, EventSchedules
<1>7. CASE TimerFires \/ Activate \/ OpenSurface \/ CloseSurface
  BY <1>7, RequestSchedules
<1>8. CASE ReceiveBound \/ CommandPolled
  <2>1. InvalidateNow(Domains) /\ UNCHANGED surface
    BY <1>8 DEF ReceiveBound, CommandPolled
  <2>2. ASSUME NEW d \in invalid' \cap Demanded' PROVE Queued(d)'
    BY <2>1, <2>2, NowQueues
  <2>. QED BY <2>2 DEF DemandedIsScheduled, Queued
<1>9. CASE PathsRelevant \/ PathsFail
  <2>1. UNCHANGED <<conn, up, down, desired, surface, without>>
    BY <1>9 DEF PathsRelevant, PathsFail
  <2>2. InvalidateLater({"status"}) \/ UNCHANGED <<invalid, timer, requested, drain>>
    BY <1>9 DEF PathsRelevant, PathsFail, queue
  <2>3. Watched' /\ ~Resyncing' => Watched /\ ~Resyncing
    BY <2>1 DEF Watched, Resyncing
  <2>. QED BY <2>1, <2>2, <2>3, LaterSchedules, SameSchedule
<1>. QED BY <1>1, <1>2, <1>3, <1>4, <1>5, <1>6, <1>7, <1>8, <1>9 DEF Next, Environment, Server, Webview

\* While the repository is watched, a domain somebody looks at is never left invalid with nothing to
\* refresh it: the timer, the round that runs or the next one will, for any domains, any number of
\* events and rebindings, and any order of opening, closing, switching and failing.
THEOREM Served == Spec => []DemandedIsScheduled
<1>1. Init => TypeOK /\ BindInv /\ DemandedIsScheduled
  BY TypeInit, BindInit DEF Init, DemandedIsScheduled, Watched
<1>2. TypeOK /\ BindInv /\ DemandedIsScheduled /\ [Next]_vars => TypeOK' /\ BindInv' /\ DemandedIsScheduled'
  BY TypeStep, BindStep, ScheduleStep
<1>. QED BY <1>1, <1>2, PTL DEF Spec
=============================================================================
