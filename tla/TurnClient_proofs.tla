--------------------------- MODULE TurnClient_proofs ---------------------------
(***************************************************************************)
(* What the Warp client is told, for every capacity, every bound and every *)
(* schedule.                                                               *)
(*                                                                         *)
(* It can apply every event it receives (NoClientFault).  The argument is  *)
(* about the events in flight: whatever the adapter appends to them will   *)
(* land when its turn comes (the lemmas on extending the flight), and      *)
(* receiving the first of them keeps that true of the rest.                *)
(*                                                                         *)
(* A failed stream is reported to it before its body ends                  *)
(* (FailureReported).  The argument follows the error: the drain task      *)
(* sends nothing after it, the pump takes nothing after it, and until the  *)
(* client has its verdict it is in exactly one place along the way, none   *)
(* of which is given up before it has moved on (FailureInv in              *)
(* TurnProperties).                                                        *)
(*                                                                         *)
(* The tasks and channels make no difference to what it has when its body  *)
(* ends (AsIfSequential).  The argument adds up what is on its way: were   *)
(* the events in flight received, the frames in the pump's hands flushed   *)
(* and the items sent to it pumped, the turn would be the one that pumps   *)
(* all that was read, one event after the other (SequentialInv).  A step   *)
(* moves an element from one fold to the next, which is what the lemmas on *)
(* folds in Flatten_proofs are for.                                        *)
(***************************************************************************)
EXTENDS Turn_proofs, Flatten_proofs

-----------------------------------------------------------------------------
(* Sequences                                                               *)

\* The elements of a sequence extended by one event.
LEMMA Extension ==
  ASSUME NEW q \in Seq(ResponseEvent), NEW e \in ResponseEvent
  PROVE  /\ q \o <<e>> \in Seq(ResponseEvent)
         /\ Len(q \o <<e>>) = Len(q) + 1
         /\ \A i \in 1..Len(q) : (q \o <<e>>)[i] = q[i]
         /\ (q \o <<e>>)[Len(q) + 1] = e
  OBVIOUS

\* Moving the head of the second sequence to the end of the first one.
LEMMA MoveHead ==
  ASSUME NEW s \in Seq(ResponseEvent), NEW t \in Seq(ResponseEvent), t # <<>>
  PROVE  Append(s, Head(t)) \o Tail(t) = s \o t
  OBVIOUS

\* Taking the head of a concatenation.
LEMMA TakeHead ==
  ASSUME NEW s \in Seq(ResponseEvent), NEW t \in Seq(ResponseEvent), s # <<>>
  PROVE  /\ s \o t \in Seq(ResponseEvent)
         /\ Len(s \o t) >= 1
         /\ (s \o t)[1] = Head(s)
         /\ Tail(s \o t) = Tail(s) \o t
  OBVIOUS

-----------------------------------------------------------------------------
(* Extending what is in flight                                             *)

\* A registered message is registered with one more event in flight.
LEMMA RegisteredExtends ==
  ASSUME NEW c, NEW q \in Seq(ResponseEvent), NEW e \in ResponseEvent,
         NEW n \in 0..Len(q), NEW id, NEW kind, Registered(c, q, n, id, kind)
  PROVE  Registered(c, q \o <<e>>, n, id, kind)
  BY Extension DEF Registered

\* The prelude opens the flight of a turn that had sent nothing.
LEMMA PreludeTakesOff ==
  ASSUME NEW c, IsClient(c), NEW q \in Seq(ResponseEvent), NEW a \in Adapter,
         InFlight(c, q, a), NEW f \in OzResponseFrame, NeedsPrelude(f)
  PROVE  /\ q \o Prelude(a, f) \in Seq(ResponseEvent)
         /\ InFlight(c, q \o Prelude(a, f), Opened(a, f))
         /\ Opened(a, f).sent_init
<1>1. Opened(a, f).sent_init
  BY DEF Opened, Adapter
<1>2. /\ Opened(a, f).message_id = a.message_id
      /\ Opened(a, f).active_kind = a.active_kind
  BY DEF Opened, Adapter
<1>3. CASE a.sent_init
  <2>1. q \o Prelude(a, f) = q
    BY <1>3 DEF Prelude
  <2> QED BY <1>1, <1>2, <1>3, <2>1
          DEF InFlight, PreludeInFlight, FreshIds, AppendsLand, OpenMessage
<1>4. CASE ~a.sent_init
  <2>1. q = <<>> /\ ~c.init /\ ~c.task
    BY <1>4 DEF InFlight, PreludeInFlight
  <2>2. q \o Prelude(a, f) = <<StreamInit, CreateTask>>
    BY <1>4, <2>1 DEF Prelude
  <2> DEFINE p == <<StreamInit, CreateTask>>
  <2>3. p \in Seq(ResponseEvent)
    BY DEF ResponseEvent, StreamInit, CreateTask
  <2>4. PreludeInFlight(c, p, Opened(a, f))
    BY <1>1, <2>1 DEF PreludeInFlight, NoPreludeFrom
  <2>5. \A i \in 1..Len(p) : p[i].type \in {"StreamInit", "CreateTask"}
    BY DEF StreamInit, CreateTask
  <2>6. FreshIds(c, p, Opened(a, f)) /\ AppendsLand(c, p)
    BY <1>2, <2>5 DEF InFlight, FreshIds, AppendsLand
  <2>7. OpenMessage(c, p, Opened(a, f))
    BY <1>2, <2>1 DEF InFlight, OpenMessage, Registered
  <2> QED BY <1>1, <2>2, <2>3, <2>4, <2>6, <2>7 DEF InFlight
<1> QED BY <1>3, <1>4

\* An event other than the prelude's keeps the prelude in order.
LEMMA PreludeExtends ==
  ASSUME NEW c, NEW q \in Seq(ResponseEvent), NEW a, NEW b, NEW e \in ResponseEvent,
         PreludeInFlight(c, q, a), a.sent_init, b.sent_init,
         e.type \notin {"StreamInit", "CreateTask"}
  PROVE  PreludeInFlight(c, q \o <<e>>, b)
<1>1. \A k \in 1..3 : NoPreludeFrom(q, k) => NoPreludeFrom(q \o <<e>>, k)
  BY Extension DEF NoPreludeFrom
<1> QED BY <1>1, Extension DEF PreludeInFlight

\* A message of a new kind is registered under an id that no one has seen.
LEMMA AddTakesOff ==
  ASSUME NEW c, IsClient(c), NEW q \in Seq(ResponseEvent), NEW a \in Adapter,
         InFlight(c, q, a), a.sent_init, NEW kind \in ActiveKind, Rotates(a, kind)
  PROVE  InFlight(c, q \o <<AddMessages(a.message_id + 1, kind)>>, EnsureKind(a, kind))
<1> DEFINE e == AddMessages(a.message_id + 1, kind)
           b == EnsureKind(a, kind)
           r == q \o <<e>>
<1>1. a.message_id \in Nat
  BY DEF Adapter
<1>2. e \in ResponseEvent /\ e.type = "AddMessagesToTask" /\ e.id = a.message_id + 1
  BY <1>1 DEF AddMessages, ResponseEvent
<1>3. b.sent_init /\ b.message_id = a.message_id + 1 /\ b.active_kind = <<kind>>
  BY DEF EnsureKind, Adapter
<1> HIDE DEF e, b
<1>4. /\ Len(r) = Len(q) + 1 /\ Len(q) \in Nat
      /\ \A i \in 1..Len(q) : r[i] = q[i]
      /\ r[Len(q) + 1] = e
  BY <1>2, Extension
<1>5. PreludeInFlight(c, r, b)
  BY <1>2, <1>3, PreludeExtends DEF InFlight
<1>6. FreshIds(c, r, b)
  <2>1. \A id \in DOMAIN c.messages : id \in Nat /\ id =< a.message_id
    BY DEF InFlight, FreshIds, IsClient
  <2>2. \A i \in 1..Len(q) : q[i].type = "AddMessagesToTask" =>
          q[i].id \in Nat /\ q[i].id =< a.message_id
    BY DEF InFlight, FreshIds, ResponseEvent
  <2>3. SUFFICES ASSUME NEW i \in 1..Len(r), r[i].type = "AddMessagesToTask"
                 PROVE  /\ r[i].id =< b.message_id
                        /\ r[i].id \notin DOMAIN c.messages
                        /\ \A j \in 1..(i - 1) :
                             r[j].type = "AddMessagesToTask" => r[j].id # r[i].id
    BY <1>1, <1>3, <2>1 DEF FreshIds
  <2>4. CASE i \in 1..Len(q)
    <3>1. \A j \in 1..(i - 1) : j \in 1..Len(q)
      BY <1>4, <2>4
    <3> QED BY <1>1, <1>3, <1>4, <2>2, <2>3, <2>4, <3>1 DEF InFlight, FreshIds
  <2>5. CASE i = Len(q) + 1
    BY <1>1, <1>2, <1>3, <1>4, <2>1, <2>2, <2>5
  <2> QED BY <1>4, <2>4, <2>5
<1>7. AppendsLand(c, r)
  <2> SUFFICES ASSUME NEW i \in 1..Len(r), r[i].type = "AppendToMessageContent"
               PROVE  Registered(c, r, i - 1, r[i].id, r[i].kind)
    BY DEF AppendsLand
  <2>1. i \in 1..Len(q)
    BY <1>2, <1>4
  <2>2. Registered(c, q, i - 1, q[i].id, q[i].kind)
    BY <1>4, <2>1 DEF InFlight, AppendsLand
  <2> QED BY <1>2, <1>4, <2>1, <2>2, RegisteredExtends
<1>8. OpenMessage(c, r, b)
  <2>1. Registered(c, r, Len(r), b.message_id, kind)
    BY <1>3, <1>4 DEF Registered, e
  <2> QED BY <1>3, <2>1 DEF OpenMessage
<1> QED BY <1>5, <1>6, <1>7, <1>8 DEF InFlight, e, b

\* What names the open message lands, and so does a StreamFinished.
LEMMA OtherTakesOff ==
  ASSUME NEW c, IsClient(c), NEW q \in Seq(ResponseEvent), NEW a \in Adapter,
         InFlight(c, q, a), a.sent_init, NEW e \in ResponseEvent,
         \/ e.type = "StreamFinished"
         \/ /\ e.type = "AppendToMessageContent"
            /\ e.id = a.message_id /\ a.active_kind = <<e.kind>>
  PROVE  InFlight(c, q \o <<e>>, a)
<1> DEFINE r == q \o <<e>>
<1>1. /\ Len(r) = Len(q) + 1 /\ Len(q) \in Nat
      /\ \A i \in 1..Len(q) : r[i] = q[i]
      /\ r[Len(q) + 1] = e
  BY Extension
<1>2. PreludeInFlight(c, r, a)
  BY PreludeExtends DEF InFlight
<1>3. FreshIds(c, r, a)
  <2>1. \A i \in 1..Len(r) : r[i].type = "AddMessagesToTask" => i \in 1..Len(q)
    BY <1>1
  <2>2. \A i \in 1..Len(q) : \A j \in 1..(i - 1) : j \in 1..Len(q)
    BY <1>1
  <2> QED BY <1>1, <2>1, <2>2 DEF InFlight, FreshIds
<1>4. AppendsLand(c, r)
  <2> SUFFICES ASSUME NEW i \in 1..Len(r), r[i].type = "AppendToMessageContent"
               PROVE  Registered(c, r, i - 1, r[i].id, r[i].kind)
    BY DEF AppendsLand
  <2>1. CASE i \in 1..Len(q)
    <3>1. Registered(c, q, i - 1, q[i].id, q[i].kind)
      BY <1>1, <2>1 DEF InFlight, AppendsLand
    <3> QED BY <1>1, <2>1, <3>1, RegisteredExtends
  <2>2. CASE i = Len(q) + 1
    <3>1. e.kind \in ActiveKind
      BY <1>1, <2>2 DEF ResponseEvent
    <3>2. Registered(c, q, Len(q), e.id, e.kind)
      BY <1>1, <2>2, <3>1 DEF InFlight, OpenMessage
    <3> QED BY <1>1, <2>2, <3>2, RegisteredExtends
  <2> QED BY <1>1, <2>1, <2>2
<1>5. OpenMessage(c, r, a)
  <2> SUFFICES ASSUME NEW kind \in ActiveKind, a.active_kind = <<kind>>
               PROVE  Registered(c, r, Len(r), a.message_id, kind)
    BY DEF OpenMessage
  <2>1. Registered(c, q, Len(q), a.message_id, kind)
    BY DEF InFlight, OpenMessage
  <2>2. Registered(c, r, Len(q), a.message_id, kind)
    BY <1>1, <2>1, RegisteredExtends
  <2> QED BY <1>1, <2>2 DEF Registered
<1> QED BY <1>2, <1>3, <1>4, <1>5 DEF InFlight

\* translate() keeps what is in flight going to land, for every frame.
LEMMA TranslateTakesOff ==
  ASSUME NEW c, IsClient(c), NEW q \in Seq(ResponseEvent), NEW a \in Adapter,
         InFlight(c, q, a), NEW f \in OzResponseFrame
  PROVE  InFlight(c, q \o TranslateEvents(a, f), TranslateAdapter(a, f))
<1> DEFINE p == q \o Prelude(a, f)
           b == Opened(a, f)
           k == KindOf(f)
<1>1. Prelude(a, f) \in Seq(ResponseEvent)
  <2>1. StreamInit \in ResponseEvent /\ CreateTask \in ResponseEvent
    BY DEF StreamInit, CreateTask, ResponseEvent
  <2> QED BY <2>1 DEF Prelude
<1>2. b \in Adapter
  <2>1. a.sent_init \/ NeedsPrelude(f) \in BOOLEAN
    BY DEF Adapter, NeedsPrelude
  <2> QED BY <2>1 DEF Adapter, Opened
<1>3. CASE HasContent(f)
  <2>1. NeedsPrelude(f)
    BY <1>3 DEF NeedsPrelude, HasContent
  <2>2. p \in Seq(ResponseEvent) /\ InFlight(c, p, b) /\ b.sent_init
    BY <2>1, PreludeTakesOff
  <2>3. k \in ActiveKind /\ ContentOf(f) \in Seq(Content)
    BY <1>3, ContentType
  <2> DEFINE d == EnsureKind(b, k)
             e == AppendContent(d.message_id, k, ContentOf(f))
             s == EnsureKindEvents(b, k)
  <2>4. /\ s \in Seq(ResponseEvent) /\ InFlight(c, p \o s, d)
        /\ d \in Adapter /\ d.sent_init /\ d.active_kind = <<k>>
    <3>1. CASE Rotates(b, k)
      <4>1. b.message_id + 1 \in Nat
        BY <1>2 DEF Adapter
      <4>2. AddMessages(b.message_id + 1, k) \in ResponseEvent
        BY <2>3, <4>1 DEF AddMessages, ResponseEvent
      <4>3. <<k>> \in Option(ActiveKind)
        BY <2>3 DEF Option
      <4>4. d \in Adapter /\ d.sent_init /\ d.active_kind = <<k>>
        BY <1>2, <2>2, <3>1, <4>1, <4>3 DEF EnsureKind, Adapter
      <4>5. s = <<AddMessages(b.message_id + 1, k)>>
        BY <3>1 DEF EnsureKindEvents
      <4>6. s \in Seq(ResponseEvent)
        BY <4>2, <4>5
      <4>7. InFlight(c, p \o <<AddMessages(b.message_id + 1, k)>>, EnsureKind(b, k))
        BY <1>2, <2>2, <2>3, <3>1, AddTakesOff
      <4> QED BY <4>4, <4>5, <4>6, <4>7
    <3>2. CASE ~Rotates(b, k)
      <4>1. d = b /\ s = <<>>
        BY <3>2 DEF EnsureKind, EnsureKindEvents
      <4>2. p \o s = p
        BY <2>2, <4>1
      <4> QED BY <1>2, <2>2, <3>2, <4>1, <4>2 DEF Rotates
    <3> QED BY <3>1, <3>2
  <2>5. /\ e \in ResponseEvent /\ e.type = "AppendToMessageContent"
        /\ e.id = d.message_id /\ d.active_kind = <<e.kind>>
    BY <2>3, <2>4 DEF AppendContent, ResponseEvent, Adapter
  <2>6. p \o s \in Seq(ResponseEvent)
    BY <2>2, <2>4
  <2> HIDE DEF s, e, d
  <2>7. InFlight(c, (p \o s) \o <<e>>, d)
    BY <2>4, <2>5, <2>6, OtherTakesOff
  <2>8. TranslateAdapter(a, f) = d
    BY <1>3 DEF TranslateAdapter, HasContent, d
  <2>9. TranslateEvents(a, f) = Prelude(a, f) \o (s \o <<e>>)
    <3>1. b.message_id = a.message_id /\ b.active_kind = a.active_kind
      BY DEF Opened, Adapter
    <3>2. /\ EnsureKindEvents(a, k) = s
          /\ EnsureKind(a, k).message_id = d.message_id
      BY <1>2, <3>1 DEF s, d, EnsureKindEvents, EnsureKind, Rotates, Adapter
    <3>3. ContentEvents(a, f) = s \o <<e>>
      BY <3>2 DEF ContentEvents, e
    <3> QED BY <1>3, <3>3 DEF TranslateEvents, HasContent
  <2>10. q \o (Prelude(a, f) \o (s \o <<e>>)) = (p \o s) \o <<e>>
    <3>1. <<e>> \in Seq(ResponseEvent) /\ s \o <<e>> \in Seq(ResponseEvent)
      BY <2>4, <2>5
    <3> QED BY <1>1, <2>4, <3>1, ConcatAssociative
  <2> QED BY <2>7, <2>8, <2>9, <2>10
<1>4. CASE ~HasContent(f) /\ f.type = "Done"
  <2>1. NeedsPrelude(f)
    BY <1>4 DEF NeedsPrelude
  <2>2. p \in Seq(ResponseEvent) /\ InFlight(c, p, b) /\ b.sent_init
    BY <2>1, PreludeTakesOff
  <2> DEFINE e == StreamFinished(FinishReason(f.reason), a.pending_usage)
  <2>3. e \in ResponseEvent /\ e.type = "StreamFinished"
    <3>1. FinishReason(f.reason) \in Reason /\ a.pending_usage \in Option(0..U32Max)
      BY DEF FinishReason, Reason, Adapter
    <3> QED BY <3>1 DEF StreamFinished, ResponseEvent
  <2>4. TranslateAdapter(a, f) = b /\ TranslateEvents(a, f) = Prelude(a, f) \o <<e>>
    BY <1>4 DEF TranslateAdapter, TranslateEvents, HasContent
  <2> HIDE DEF e
  <2>5. InFlight(c, p \o <<e>>, b)
    BY <1>2, <2>2, <2>3, OtherTakesOff
  <2>6. q \o (Prelude(a, f) \o <<e>>) = p \o <<e>>
    <3>1. <<e>> \in Seq(ResponseEvent)
      BY <2>3
    <3> QED BY <1>1, <3>1, ConcatAssociative
  <2> QED BY <2>4, <2>5, <2>6
<1>5. CASE ~HasContent(f) /\ f.type # "Done"
  <2>1. ~NeedsPrelude(f)
    BY <1>5 DEF NeedsPrelude, HasContent
  <2>2. TranslateEvents(a, f) = <<>>
    BY <1>5, <2>1 DEF TranslateEvents, Prelude, HasContent
  <2>3. /\ TranslateAdapter(a, f).sent_init = a.sent_init
        /\ TranslateAdapter(a, f).message_id = a.message_id
        /\ TranslateAdapter(a, f).active_kind = a.active_kind
    <3>1. /\ Opened(a, f).sent_init = a.sent_init
          /\ Opened(a, f).message_id = a.message_id
          /\ Opened(a, f).active_kind = a.active_kind
      BY <2>1 DEF Opened, Adapter
    <3>2. /\ WithUsage(a, f).sent_init = a.sent_init
          /\ WithUsage(a, f).message_id = a.message_id
          /\ WithUsage(a, f).active_kind = a.active_kind
      BY DEF WithUsage, Adapter
    <3> QED BY <1>5, <3>1, <3>2 DEF TranslateAdapter, HasContent
  <2>4. q \o TranslateEvents(a, f) = q
    BY <2>2
  <2> QED BY <2>3, <2>4 DEF InFlight, PreludeInFlight, FreshIds, OpenMessage
<1> QED BY <1>3, <1>4, <1>5

-----------------------------------------------------------------------------
(* Receiving what is in flight                                             *)

\* The first event in flight lands, and the rest will after it.
LEMMA FirstLands ==
  ASSUME NEW c, IsClient(c), NEW q \in Seq(ResponseEvent), q # <<>>,
         NEW a \in Adapter, InFlight(c, q, a)
  PROVE  /\ Receive(c, Head(q)).fault = c.fault
         /\ InFlight(Receive(c, Head(q)), Tail(q), a)
<1> DEFINE e == q[1]
           r == Tail(q)
           d == Applied(c, e)
<1>1. /\ Len(q) \in Nat /\ Len(q) >= 1 /\ Head(q) = e /\ e \in ResponseEvent
      /\ Len(r) = Len(q) - 1 /\ \A i \in 1..Len(r) : r[i] = q[i + 1]
      /\ r \in Seq(ResponseEvent)
  OBVIOUS
<1> HIDE DEF r
<1>2. e.type \in {"StreamInit", "CreateTask", "AddMessagesToTask",
                  "AppendToMessageContent", "StreamFinished"}
  BY <1>1 DEF ResponseEvent
<1>3. Lands(c, e)
  <2>1. CASE e.type = "StreamInit"
    BY <1>1, <2>1 DEF InFlight, PreludeInFlight, NoPreludeFrom, CreateTask, Lands
  <2>2. CASE e.type = "CreateTask"
    BY <1>1, <2>2 DEF InFlight, PreludeInFlight, NoPreludeFrom, StreamInit, Lands
  <2>3. CASE e.type = "AddMessagesToTask"
    BY <1>1, <2>3 DEF InFlight, PreludeInFlight, FreshIds, StreamInit, CreateTask, Lands
  <2>4. CASE e.type = "AppendToMessageContent"
    BY <1>1, <2>4 DEF InFlight, AppendsLand, Registered, Lands
  <2>5. CASE e.type = "StreamFinished"
    BY <1>1, <2>5 DEF InFlight, PreludeInFlight, StreamInit, CreateTask, Lands
  <2> QED BY <1>2, <2>1, <2>2, <2>3, <2>4, <2>5
<1>4. Receive(c, Head(q)) = d /\ d.fault = c.fault
  BY <1>1, <1>3 DEF Receive, Applied, IsClient
<1>5. /\ d.init <=> c.init \/ e.type = "StreamInit"
      /\ d.task <=> c.task \/ e.type = "CreateTask"
  BY <1>2 DEF Applied, IsClient
<1>6. /\ e.type # "AddMessagesToTask" => DOMAIN d.messages = DOMAIN c.messages
      /\ e.type = "AddMessagesToTask" => /\ DOMAIN d.messages = DOMAIN c.messages \cup {e.id}
                                         /\ d.messages[e.id].kind = e.kind
  BY <1>2 DEF Applied, IsClient, Register, Extend
<1>7. ASSUME NEW id \in DOMAIN c.messages, ~(e.type = "AddMessagesToTask" /\ id = e.id)
      PROVE  d.messages[id].kind = c.messages[id].kind
  <2>1. CASE e.type = "AddMessagesToTask"
    BY <1>7, <2>1 DEF Applied, IsClient, Register
  <2>2. CASE e.type = "AppendToMessageContent"
    BY <2>2 DEF Applied, IsClient, Extend
  <2>3. CASE e.type \in {"StreamInit", "CreateTask", "StreamFinished"}
    BY <2>3 DEF Applied, IsClient
  <2> QED BY <1>2, <2>1, <2>2, <2>3
<1>8. ASSUME NEW n \in 1..Len(q), NEW id, NEW kind \in ActiveKind, Registered(c, q, n, id, kind)
      PROVE  Registered(d, r, n - 1, id, kind)
  <2>1. CASE id \in DOMAIN c.messages /\ c.messages[id].kind = kind
    <3>1. e.type = "AddMessagesToTask" => id # e.id
      BY <1>1, <2>1 DEF InFlight, FreshIds
    <3>2. d.messages[id].kind = kind
      BY <1>7, <2>1, <3>1
    <3>3. id \in DOMAIN d.messages
      BY <1>6, <2>1
    <3> QED BY <3>2, <3>3 DEF Registered
  <2>2. CASE e = AddMessages(id, kind)
    BY <1>6, <2>2 DEF Registered, AddMessages
  <2>3. CASE \E j \in 2..n : q[j] = AddMessages(id, kind)
    <3>1. PICK j \in 2..n : q[j] = AddMessages(id, kind)
      BY <2>3
    <3>2. j - 1 \in 1..(n - 1) /\ r[j - 1] = AddMessages(id, kind)
      BY <1>1, <3>1
    <3> QED BY <3>2 DEF Registered
  <2> QED BY <1>1, <1>8, <2>1, <2>2, <2>3 DEF Registered
<1> HIDE DEF d
<1>9. PreludeInFlight(d, r, a)
  <2>1. \A k \in 1..2 : NoPreludeFrom(q, k + 1) => NoPreludeFrom(r, k)
    BY <1>1 DEF NoPreludeFrom
  <2>2. a.sent_init /\ PreludeInFlight(c, q, a)
    BY <1>1 DEF InFlight, PreludeInFlight
  <2>3. CASE c.init /\ c.task
    <3>1. NoPreludeFrom(q, 1)
      BY <2>2, <2>3 DEF PreludeInFlight
    <3>2. NoPreludeFrom(r, 1)
      BY <1>1, <3>1 DEF NoPreludeFrom
    <3> QED BY <1>5, <2>2, <2>3, <3>2 DEF PreludeInFlight
  <2>4. CASE c.init /\ ~c.task
    <3>1. e = CreateTask /\ NoPreludeFrom(q, 2)
      BY <2>2, <2>4 DEF PreludeInFlight
    <3>2. d.init /\ d.task
      BY <1>5, <2>4, <3>1 DEF CreateTask
    <3> QED BY <2>1, <2>2, <3>1, <3>2 DEF PreludeInFlight
  <2>5. CASE ~c.init
    <3>1. e = StreamInit /\ ~c.task /\ Len(q) >= 2 /\ q[2] = CreateTask /\ NoPreludeFrom(q, 3)
      BY <2>2, <2>5 DEF PreludeInFlight
    <3>2. d.init /\ ~d.task
      BY <1>5, <3>1 DEF StreamInit
    <3>3. Len(r) >= 1 /\ r[1] = CreateTask /\ NoPreludeFrom(r, 2)
      BY <1>1, <2>1, <3>1
    <3> QED BY <2>2, <3>2, <3>3 DEF PreludeInFlight
  <2> QED BY <2>3, <2>4, <2>5
<1>10. d.task \/ DOMAIN d.messages = {}
  BY <1>3, <1>5, <1>6 DEF InFlight, Lands
<1>11. FreshIds(d, r, a)
  <2>1. \A id \in DOMAIN d.messages : id =< a.message_id
    BY <1>1, <1>6 DEF InFlight, FreshIds
  <2>2. SUFFICES ASSUME NEW i \in 1..Len(r), r[i].type = "AddMessagesToTask"
                 PROVE  /\ r[i].id =< a.message_id
                        /\ r[i].id \notin DOMAIN d.messages
                        /\ \A j \in 1..(i - 1) :
                             r[j].type = "AddMessagesToTask" => r[j].id # r[i].id
    BY <2>1 DEF FreshIds
  <2>3. i + 1 \in 1..Len(q) /\ r[i] = q[i + 1] /\ 1 \in 1..i
    BY <1>1
  <2>4. /\ q[i + 1].id =< a.message_id
        /\ q[i + 1].id \notin DOMAIN c.messages
        /\ \A j \in 1..i : q[j].type = "AddMessagesToTask" => q[j].id # q[i + 1].id
    BY <2>2, <2>3 DEF InFlight, FreshIds
  <2>5. \A j \in 1..(i - 1) : r[j] = q[j + 1] /\ j + 1 \in 1..i
    BY <1>1
  <2> QED BY <1>6, <2>3, <2>4, <2>5
<1>12. AppendsLand(d, r)
  <2> SUFFICES ASSUME NEW i \in 1..Len(r), r[i].type = "AppendToMessageContent"
               PROVE  Registered(d, r, i - 1, r[i].id, r[i].kind)
    BY DEF AppendsLand
  <2>1. i + 1 \in 1..Len(q) /\ r[i] = q[i + 1] /\ i \in 1..Len(q) /\ r[i] \in ResponseEvent
    BY <1>1
  <2>2. Registered(c, q, i, r[i].id, r[i].kind)
    BY <2>1 DEF InFlight, AppendsLand
  <2>3. r[i].kind \in ActiveKind
    BY <2>1 DEF ResponseEvent
  <2> QED BY <1>8, <2>1, <2>2, <2>3
<1>13. OpenMessage(d, r, a)
  <2> SUFFICES ASSUME NEW kind \in ActiveKind, a.active_kind = <<kind>>
               PROVE  Registered(d, r, Len(r), a.message_id, kind)
    BY DEF OpenMessage
  <2>1. Registered(c, q, Len(q), a.message_id, kind)
    BY DEF InFlight, OpenMessage
  <2> QED BY <1>1, <1>8, <2>1
<1> QED BY <1>4, <1>9, <1>10, <1>11, <1>12, <1>13 DEF InFlight, r

-----------------------------------------------------------------------------
(* No event without its place                                              *)

\* Nothing is in flight at first.
LEMMA ClientInit == Init => ClientInv
<1> SUFFICES ASSUME Init PROVE ClientInv
  OBVIOUS
<1>1. TypeOK
  BY InitType
<1>2. body_stream \o events = <<>>
  BY DEF Init
<1>3. InFlight(NewClient, <<>>, NewAdapter)
  BY DEF InFlight, PreludeInFlight, FreshIds, AppendsLand, OpenMessage, NewClient, NewAdapter
<1> QED BY <1>1, <1>2, <1>3 DEF ClientInv, Init, NewClient

\* Only the handler's response starts the pump and opens the body.
LEMMA RespondedStep ==
  ASSUME handler # "responded" => pump = "idle" /\ body = "none", [Next]_vars
  PROVE  handler' # "responded" => pump' = "idle" /\ body' = "none"
<1>1. CASE Handle
  BY <1>1 DEF Handle, ReadRequest, RejectRequest, CancelRequest, Dispatch, Respond,
              pumpVars, bodyVars
<1>2. CASE Drain
  BY <1>2 DEF Drain, DrainRecv, DrainErr, DrainEof, DrainSend, pumpVars, bodyVars
<1>3. CASE PumpStream
  BY <1>3 DEF PumpStream, PumpRecv, PumpTranslate, PumpSend, PumpAbort, PumpContinue,
              PumpBreak, PumpEnd, PumpReturns
<1>4. CASE Body
  BY <1>4 DEF Body, BodyPoll, BodyEnd, ClientDrop
<1>5. CASE UNCHANGED vars
  BY <1>5 DEF vars, pumpVars, bodyVars
<1> QED BY <1>1, <1>2, <1>3, <1>4, <1>5 DEF Next

\* Each step keeps what is in flight landing: the pump adds to its end, hyper
\* takes from its front, and no other step touches it.
LEMMA ClientStep == ClientInv /\ [Next]_vars => ClientInv'
<1> SUFFICES ASSUME ClientInv, [Next]_vars PROVE ClientInv'
  OBVIOUS
<1> DEFINE q == body_stream \o events
<1>1. TypeOK /\ TypeOK' /\ (handler' # "responded" => pump' = "idle" /\ body' = "none")
  BY TypeStep, RespondedStep DEF ClientInv
<1>2. /\ body_stream \in Seq(ResponseEvent) /\ events \in Seq(ResponseEvent)
      /\ q \in Seq(ResponseEvent)
      /\ frames \in Seq(OzResponseFrame) /\ adapter \in Adapter /\ IsClient(client)
  BY <1>1 DEF TypeOK
<1>3. ASSUME UNCHANGED <<client, body_stream, adapter, frames, events>>,
             pump' # "flush" => pump # "flush" \/ (frames = <<>> /\ events = <<>>),
             body' \in {"none", "open"} => body \in {"none", "open"}
      PROVE  ClientInv'
  BY <1>1, <1>3 DEF ClientInv
<1>4. CASE Handle \/ Drain \/ (Settled /\ UNCHANGED vars) \/ UNCHANGED vars
  <2>1. CASE Respond
    <3>1. /\ body = "none" /\ frames = <<>> /\ events = <<>>
          /\ handler' = "responded" /\ UNCHANGED <<adapter, frames, events, body_stream, client>>
      BY <2>1 DEF Respond, ClientInv
    <3> QED BY <1>1, <3>1 DEF ClientInv
  <2>2. CASE ReadRequest \/ RejectRequest \/ CancelRequest \/ Dispatch
    BY <1>3, <2>2 DEF ReadRequest, RejectRequest, CancelRequest, Dispatch, pumpVars, bodyVars
  <2>3. CASE Drain
    BY <1>3, <2>3 DEF Drain, DrainRecv, DrainErr, DrainEof, DrainSend, pumpVars, bodyVars
  <2>4. CASE UNCHANGED vars
    BY <1>3, <2>4 DEF vars, pumpVars, bodyVars
  <2> QED BY <1>4, <2>1, <2>2, <2>3, <2>4 DEF Handle
<1>5. CASE PumpRecv
  <2>1. events = <<>> /\ UNCHANGED <<client, body_stream, adapter, events, body>>
    BY <1>5 DEF PumpRecv, bodyVars, ClientInv
  <2> QED BY <1>1, <1>5, <2>1 DEF PumpRecv, ClientInv
<1>6. CASE PumpTranslate
  <2>1. /\ events = <<>> /\ Head(frames) \in OzResponseFrame
        /\ UNCHANGED <<client, body_stream, body, pump>>
    BY <1>2, <1>6 DEF PumpTranslate, bodyVars
  <2>2. q = body_stream
    BY <1>2, <2>1
  <2>3. body \in {"none", "open"} =>
          InFlight(client, body_stream \o TranslateEvents(adapter, Head(frames)),
                   TranslateAdapter(adapter, Head(frames)))
    BY <1>2, <2>1, <2>2, TranslateTakesOff DEF ClientInv
  <2> QED BY <1>1, <1>6, <2>1, <2>3 DEF PumpTranslate, ClientInv
<1>7. CASE PumpSend
  <2>1. (body_stream \o events)' = q
    BY <1>2, <1>7, MoveHead DEF PumpSend
  <2> QED BY <1>1, <1>7, <2>1 DEF PumpSend, bodyVars, ClientInv
<1>8. CASE PumpAbort
  <2>1. /\ frames' = <<>> /\ events' = <<>> /\ body' = "dropped" /\ client' = client
    BY <1>8 DEF PumpAbort, PumpReturns, bodyVars
  <2> QED BY <1>1, <2>1 DEF ClientInv
<1>9. CASE PumpContinue
  BY <1>3, <1>9 DEF PumpContinue, bodyVars
<1>10. CASE PumpBreak \/ PumpEnd
  <2>1. frames = <<>> /\ events = <<>>
    BY <1>10 DEF PumpBreak, PumpEnd, ClientInv
  <2> QED BY <1>3, <1>10, <2>1 DEF PumpBreak, PumpEnd, PumpReturns, bodyVars
<1>11. CASE BodyPoll
  <2>1. /\ body = "open" /\ body' = body /\ body_stream # <<>>
        /\ client' = Receive(client, Head(body_stream))
        /\ body_stream' = Tail(body_stream)
        /\ UNCHANGED <<pump, adapter, frames, events>>
    BY <1>11 DEF BodyPoll, pumpVars
  <2>2. /\ Head(q) = Head(body_stream) /\ q # <<>>
        /\ Tail(q) = Tail(body_stream) \o events
    BY <1>2, <2>1, TakeHead, SMTT(60)
  <2>3. InFlight(client, q, adapter)
    BY <2>1 DEF ClientInv
  <2>4. /\ Receive(client, Head(q)).fault = client.fault
        /\ InFlight(Receive(client, Head(q)), Tail(q), adapter)
    BY <1>2, <2>2, <2>3, FirstLands
  <2> QED BY <1>1, <2>1, <2>2, <2>4 DEF ClientInv
<1>12. CASE BodyEnd \/ ClientDrop
  <2>1. /\ body' \in {"ended", "dropped"} /\ client' = client
        /\ UNCHANGED <<pump, frames, events>>
    BY <1>12 DEF BodyEnd, ClientDrop, pumpVars
  <2> QED BY <1>1, <2>1 DEF ClientInv
<1> QED BY <1>4, <1>5, <1>6, <1>7, <1>8, <1>9, <1>10, <1>11, <1>12 DEF Next, PumpStream, Body

\* The Warp client can apply every event it receives (ui_adapter.rs:93-113,
\* 177-196): StreamInit and CreateTask come once and first, no message is
\* registered twice, every append finds a message of its own kind.
THEOREM ClientNeverFaults == Spec => []NoClientFault
<1>1. ClientInv => NoClientFault
  BY DEF ClientInv, NoClientFault
<1> QED BY <1>1, ClientInit, ClientStep, PTL DEF Spec

-----------------------------------------------------------------------------
(* What becomes of an error                                                *)

\* Taking the head of a sequence keeps its last element, unless it was the head.
LEMMA TailKeepsLast ==
  ASSUME NEW S, NEW s \in Seq(S), s # <<>>
  PROVE  /\ Tail(s) # <<>> => Last(Tail(s)) = Last(s)
         /\ Tail(s) = <<>> => Len(s) = 1 /\ Head(s) = Last(s)
<1>1. /\ Len(s) \in Nat \ {0} /\ Tail(s) \in Seq(S) /\ Len(Tail(s)) = Len(s) - 1
      /\ \A i \in 1..Len(Tail(s)) : Tail(s)[i] = s[i + 1]
  BY EmptySeq, HeadTailProperties
<1>2. Tail(s) # <<>> => Len(Tail(s)) \in Nat \ {0}
  BY <1>1, EmptySeq
<1>3. Tail(s) # <<>> => Tail(s)[Len(Tail(s))] = s[Len(s)]
  BY <1>1, <1>2
<1>4. Tail(s) = <<>> => Len(s) = 1
  <2> SUFFICES ASSUME Tail(s) = <<>> PROVE Len(s) = 1
    OBVIOUS
  <2>1. Len(Tail(s)) = 0
    BY EmptySeq
  <2> QED BY <1>1, <2>1
<1>5. Head(s) = s[1]
  BY HeadTailProperties
<1> QED BY <1>3, <1>4, <1>5 DEF Last

\* The stop synthesized for an error makes one frame.
LEMMA SynthFrames ==
  ASSUME NEW bs
  PROVE  HandleFrames(bs, SynthStop) = <<[type |-> "Done", reason |-> "error"]>>
  BY DEF HandleFrames, SynthStop

\* The last event of that frame is the verdict.
LEMMA DoneYieldsVerdict ==
  ASSUME NEW a \in Adapter
  PROVE  LET yields == TranslateEvents(a, [type |-> "Done", reason |-> "error"])
         IN  yields # <<>> /\ Verdict(Last(yields))
<1> DEFINE f == [type |-> "Done", reason |-> "error"]
           e == StreamFinished("Other", a.pending_usage)
<1>1. TranslateEvents(a, f) = Prelude(a, f) \o <<e>>
  BY DEF TranslateEvents, HasContent, FinishReason
<1>2. Prelude(a, f) = <<>> \/ Prelude(a, f) = <<StreamInit, CreateTask>>
  BY DEF Prelude
<1>3. Verdict(e)
  BY DEF Verdict, StreamFinished
<1> HIDE DEF e
<1>4. Prelude(a, f) \o <<e>> # <<>> /\ Last(Prelude(a, f) \o <<e>>) = e
  BY <1>2 DEF Last
<1> QED BY <1>1, <1>3, <1>4

\* A verdict the client can apply is the last it has.
LEMMA VerdictReceived ==
  ASSUME NEW c, IsClient(c), NEW e, Verdict(e), ~Receive(c, e).fault
  PROVE  /\ Receive(c, e).finished # <<>>
         /\ Last(Receive(c, e).finished) = e
<1>1. Lands(c, e)
  BY DEF Receive, IsClient
<1>2. Receive(c, e).finished = Append(c.finished, e)
  BY <1>1 DEF Receive, Applied, Verdict, IsClient
<1>3. c.finished \in Seq(ResponseEvent)
  BY DEF IsClient
<1> QED BY <1>2, <1>3 DEF Last

-----------------------------------------------------------------------------
(* No error is lost on its way                                             *)

\* The drain task sends nothing after an error, the pump takes nothing after it.
LEMMA ErrorComesLastStep ==
  ASSUME FailureInv, [Next]_vars
  PROVE  ErrorComesLast'
<1>1. /\ TypeOK /\ ErrorComesLast
      /\ handler # "responded" => pump = "idle" /\ body = "none"
      /\ bedrock_stream \in Seq(Item)
  BY DEF FailureInv, ClientInv, TypeOK
<1>2. ASSUME UNCHANGED <<handler, drain, held, bedrock_stream, synth, pump>>
      PROVE  ErrorComesLast'
  BY <1>1, <1>2 DEF ErrorComesLast
<1>3. CASE Handle
  BY <1>1, <1>3 DEF Handle, ReadRequest, RejectRequest, CancelRequest, Dispatch, Respond,
                    drainVars, pumpVars, ErrorComesLast, TypeOK
<1>4. CASE DrainRecv \/ DrainErr \/ DrainEof
  BY <1>1, <1>4 DEF DrainRecv, DrainErr, DrainEof, pumpVars, ErrorComesLast
<1>5. CASE DrainSend
  <2>1. /\ drain = "run" /\ ~synth /\ drain' # "idle" /\ held' = <<>>
        /\ UNCHANGED <<handler, synth, pump>>
        /\ \A i \in 1..Len(bedrock_stream) : bedrock_stream[i] # StreamErr
    BY <1>1, <1>5 DEF DrainSend, pumpVars, ErrorComesLast
  <2>2. held[1] \in Item
    BY <1>1, <1>5 DEF DrainSend, TypeOK, Option
  <2>3. \A i \in 1..Len(bedrock_stream') :
          bedrock_stream'[i] = StreamErr => drain' = "done" /\ i = Len(bedrock_stream')
    BY <1>1, <1>5, <2>1, <2>2 DEF DrainSend
  <2> QED BY <1>1, <2>1, <2>3 DEF ErrorComesLast
<1>6. CASE PumpRecv
  <2>1. /\ bedrock_stream # <<>> /\ bedrock_stream' = Tail(bedrock_stream)
        /\ synth' = (bedrock_stream[1] = StreamErr) /\ pump' = "flush"
        /\ UNCHANGED <<handler, drain, held>>
    BY <1>1, <1>6 DEF PumpRecv, drainVars
  <2>2. \A i \in 1..Len(bedrock_stream') :
          bedrock_stream'[i] = StreamErr => drain = "done" /\ i = Len(bedrock_stream')
    BY <1>1, <2>1 DEF ErrorComesLast
  <2>3. ASSUME synth' PROVE drain = "done" /\ bedrock_stream' = <<>>
    <3>1. bedrock_stream[1] = StreamErr
      BY <2>1, <2>3
    <3>2. Len(bedrock_stream) \in Nat \ {0}
      BY <1>1, <2>1, EmptySeq
    <3>3. drain = "done" /\ Len(bedrock_stream) = 1
      <4>1. 1 \in 1..Len(bedrock_stream)
        BY <3>2
      <4> QED BY <1>1, <3>1, <4>1 DEF ErrorComesLast
    <3>4. Tail(bedrock_stream) \in Seq(Item) /\ Len(Tail(bedrock_stream)) = 0
      BY <1>1, <2>1, <3>3, HeadTailProperties
    <3>5. Tail(bedrock_stream) = <<>>
      BY <3>4, EmptySeq
    <3> QED BY <2>1, <3>3, <3>5
  <2> QED BY <1>1, <2>1, <2>2, <2>3 DEF ErrorComesLast
<1>7. CASE PumpTranslate \/ PumpSend
  BY <1>2, <1>7 DEF PumpTranslate, PumpSend, drainVars
<1>8. CASE PumpAbort \/ PumpBreak \/ PumpEnd
  BY <1>1, <1>8 DEF PumpAbort, PumpBreak, PumpEnd, PumpReturns, drainVars, ErrorComesLast
<1>9. CASE PumpContinue
  BY <1>1, <1>9 DEF PumpContinue, drainVars, ErrorComesLast
<1>10. CASE Body \/ (Settled /\ UNCHANGED vars) \/ UNCHANGED vars
  BY <1>2, <1>10 DEF Body, BodyPoll, BodyEnd, ClientDrop, drainVars, pumpVars, vars
<1> QED BY <1>3, <1>4, <1>5, <1>6, <1>7, <1>8, <1>9, <1>10 DEF Next, Drain, PumpStream

\* Unless the client leaves, the tasks end one after the other, then the body.
LEMMA EndsInOrderStep ==
  ASSUME FailureInv, [Next]_vars
  PROVE  EndsInOrder'
<1>1. /\ EndsInOrder
      /\ handler # "responded" => pump = "idle" /\ body = "none"
      /\ synth => drain = "done"
      /\ drain # "idle" => handler \in {"spawn", "responded"}
      /\ held # <<>> => drain = "run"
  BY DEF FailureInv, ClientInv, ErrorComesLast
<1>2. CASE Handle
  BY <1>1, <1>2 DEF Handle, ReadRequest, RejectRequest, CancelRequest, Dispatch, Respond,
                    drainVars, pumpVars, bodyVars, EndsInOrder
<1>3. CASE Drain
  BY <1>1, <1>3 DEF Drain, DrainRecv, DrainErr, DrainEof, DrainSend, pumpVars, bodyVars,
                    EndsInOrder
<1>4. CASE PumpStream
  BY <1>1, <1>4 DEF PumpStream, PumpRecv, PumpTranslate, PumpSend, PumpAbort, PumpContinue,
                    PumpBreak, PumpEnd, PumpReturns, drainVars, bodyVars, EndsInOrder
<1>5. CASE Body
  BY <1>1, <1>5 DEF Body, BodyPoll, BodyEnd, ClientDrop, drainVars, pumpVars, EndsInOrder
<1>6. CASE UNCHANGED vars
  BY <1>1, <1>6 DEF vars, drainVars, pumpVars, bodyVars, EndsInOrder
<1> QED BY <1>2, <1>3, <1>4, <1>5, <1>6 DEF Next

\* The error moves on, or stays where it is.
LEMMA ErrorMovesOn ==
  ASSUME FailureInv, [Next]_vars, failed', body' # "dropped"
  PROVE  ErrorOnItsWay'
<1>1. /\ TypeOK /\ ErrorComesLast /\ EndsInOrder
      /\ handler # "responded" => body = "none"
      /\ pump # "flush" => frames = <<>> /\ events = <<>>
      /\ failed /\ body # "dropped" => ErrorOnItsWay
      /\ ~client'.fault
  BY ClientStep DEF FailureInv, ClientInv
<1>2. /\ bedrock_stream \in Seq(Item) /\ adapter \in Adapter /\ IsClient(client)
      /\ frames \in Seq(OzResponseFrame)
      /\ events \in Seq(ResponseEvent) /\ body_stream \in Seq(ResponseEvent)
  BY <1>1 DEF TypeOK
<1>3. body # "dropped"
  BY <1>1 DEF Next, Handle, ReadRequest, RejectRequest, CancelRequest, Dispatch, Respond, Drain,
         DrainRecv, DrainErr, DrainEof, DrainSend, PumpStream, PumpRecv, PumpTranslate, PumpSend,
         PumpAbort, PumpContinue, PumpBreak, PumpEnd, PumpReturns, Body, BodyPoll, BodyEnd,
         ClientDrop, vars, bodyVars
<1>4. CASE DrainErr
  BY <1>4 DEF DrainErr, ErrorOnItsWay
<1>5. CASE ~DrainErr
  <2>1. failed /\ ErrorOnItsWay
    BY <1>1, <1>3, <1>5
    DEF Next, Handle, ReadRequest, RejectRequest, CancelRequest, Dispatch, Respond, Drain,
        DrainRecv, DrainEof, DrainSend, PumpStream, PumpRecv, PumpTranslate, PumpSend, PumpAbort,
        PumpContinue, PumpBreak, PumpEnd, PumpReturns, Body, BodyPoll, BodyEnd, ClientDrop, vars,
        drainVars
  <2>2. ASSUME UNCHANGED <<held, bedrock_stream, synth, frames, events, body_stream, client>>
        PROVE  ErrorOnItsWay'
    BY <2>1, <2>2 DEF ErrorOnItsWay
  <2>3. CASE Handle
    BY <2>2, <2>3 DEF Handle, ReadRequest, RejectRequest, CancelRequest, Dispatch, Respond,
                      drainVars, pumpVars, bodyVars
  <2>4. CASE DrainRecv
    BY <2>1, <2>4 DEF DrainRecv, pumpVars, bodyVars, ErrorOnItsWay
  <2>5. CASE DrainEof
    BY <2>2, <2>5 DEF DrainEof, pumpVars, bodyVars
  <2>6. CASE DrainSend
    <3>1. drain = "run" /\ held # <<>> /\ ~synth /\ pump # "done"
      BY <1>1, <1>3, <2>6 DEF DrainSend, ErrorComesLast, EndsInOrder
    <3>2. ~(bedrock_stream # <<>> /\ Last(bedrock_stream) = StreamErr)
      BY <1>1, <1>2, <3>1 DEF ErrorComesLast, Last
    <3>3. held = <<StreamErr>>
      BY <2>1, <3>1, <3>2 DEF ErrorOnItsWay
    <3>4. bedrock_stream' = Append(bedrock_stream, StreamErr)
      BY <2>6, <3>1, <3>3 DEF DrainSend
    <3>5. bedrock_stream' # <<>> /\ Last(bedrock_stream') = StreamErr
      BY <1>2, <3>4 DEF Last
    <3> QED BY <3>5 DEF ErrorOnItsWay
  <2>7. CASE PumpRecv
    <3>1. bedrock_stream # <<>> /\ ~synth /\ events' = <<>> /\ held' = held
      BY <1>1, <2>7 DEF PumpRecv, drainVars, ErrorComesLast
    <3>2. CASE Head(bedrock_stream) = StreamErr
      <4>1. synth' /\ frames' = HandleFrames(blocks, SynthStop)
        BY <2>7, <3>2 DEF PumpRecv, EventOf
      <4> QED BY <3>1, <4>1, SynthFrames DEF ErrorOnItsWay
    <3>3. CASE Head(bedrock_stream) # StreamErr /\ Last(bedrock_stream) = StreamErr
      <4>1. Tail(bedrock_stream) # <<>> /\ Last(Tail(bedrock_stream)) = StreamErr
        BY <1>2, <3>1, <3>3, TailKeepsLast
      <4> QED BY <2>7, <4>1 DEF PumpRecv, ErrorOnItsWay
    <3>4. CASE held = <<StreamErr>>
      BY <3>1, <3>4 DEF ErrorOnItsWay
    <3> QED BY <2>1, <3>1, <3>2, <3>3, <3>4 DEF ErrorOnItsWay
  <2>8. CASE PumpTranslate
    <3>1. CASE synth
      <4>1. held = <<>> /\ bedrock_stream = <<>>
        BY <1>1, <3>1 DEF ErrorComesLast
      <4>2. frames = <<[type |-> "Done", reason |-> "error"]>>
        BY <2>1, <2>8, <4>1 DEF PumpTranslate, ErrorOnItsWay
      <4>3. /\ synth' /\ frames' = <<>>
            /\ events' = TranslateEvents(adapter, [type |-> "Done", reason |-> "error"])
        BY <2>8, <3>1, <4>2 DEF PumpTranslate
      <4> QED BY <1>2, <4>3, DoneYieldsVerdict DEF ErrorOnItsWay
    <3>2. CASE ~synth
      BY <2>1, <2>8, <3>2 DEF PumpTranslate, drainVars, ErrorOnItsWay
    <3> QED BY <3>1, <3>2
  <2>9. CASE PumpSend
    <3>1. CASE synth /\ frames = <<>> /\ events # <<>> /\ Verdict(Last(events))
      <4>1. CASE Tail(events) # <<>>
        <5>1. Last(Tail(events)) = Last(events)
          BY <1>2, <3>1, <4>1, TailKeepsLast
        <5> QED BY <2>9, <3>1, <4>1, <5>1 DEF PumpSend, ErrorOnItsWay
      <4>2. CASE Tail(events) = <<>>
        <5>1. Head(events) = Last(events)
          BY <1>2, <3>1, <4>2, TailKeepsLast
        <5>2. /\ Append(body_stream, Head(events)) # <<>>
              /\ Last(Append(body_stream, Head(events))) = Head(events)
          BY <1>2, <3>1, SMTT(60) DEF Last
        <5> QED BY <2>9, <3>1, <4>2, <5>1, <5>2 DEF PumpSend, ErrorOnItsWay
      <4> QED BY <4>1, <4>2
    <3>2. CASE held = <<StreamErr>> \/ (bedrock_stream # <<>> /\ Last(bedrock_stream) = StreamErr)
      BY <2>9, <3>2 DEF PumpSend, drainVars, ErrorOnItsWay
    <3> QED BY <2>1, <2>9, <3>1, <3>2 DEF PumpSend, ErrorOnItsWay
  <2>10. CASE PumpAbort
    BY <1>3, <2>10 DEF PumpAbort
  <2>11. CASE PumpContinue
    BY <2>2, <2>11 DEF PumpContinue, drainVars, bodyVars
  <2>12. CASE PumpBreak \/ PumpEnd
    <3>1. bedrock_stream = <<>> /\ frames = <<>> /\ events = <<>>
      BY <1>1, <2>12 DEF PumpBreak, PumpEnd, ErrorComesLast
    <3> QED BY <2>2, <2>12, <3>1 DEF PumpBreak, PumpEnd, PumpReturns, drainVars, bodyVars
  <2>13. CASE BodyPoll
    <3>1. CASE /\ synth /\ frames = <<>> /\ events = <<>>
               /\ body_stream # <<>> /\ Verdict(Last(body_stream))
      <4>1. CASE Tail(body_stream) # <<>>
        <5>1. Last(Tail(body_stream)) = Last(body_stream)
          BY <1>2, <3>1, <4>1, TailKeepsLast
        <5> QED BY <2>13, <3>1, <4>1, <5>1 DEF BodyPoll, pumpVars, ErrorOnItsWay
      <4>2. CASE Tail(body_stream) = <<>>
        <5>1. Head(body_stream) = Last(body_stream)
          BY <1>2, <3>1, <4>2, TailKeepsLast
        <5>2. client'.finished # <<>> /\ Verdict(Last(client'.finished))
          BY <1>1, <1>2, <2>13, <3>1, <5>1, VerdictReceived DEF BodyPoll
        <5> QED BY <2>13, <3>1, <4>2, <5>2 DEF BodyPoll, pumpVars, ErrorOnItsWay
      <4> QED BY <4>1, <4>2
    <3>2. CASE events # <<>> \/ held = <<StreamErr>> \/ frames # <<>>
                 \/ (bedrock_stream # <<>> /\ Last(bedrock_stream) = StreamErr)
      BY <2>1, <2>13, <3>2 DEF BodyPoll, drainVars, pumpVars, ErrorOnItsWay
    <3> QED BY <2>1, <2>13, <3>1, <3>2 DEF BodyPoll, ErrorOnItsWay
  <2>14. CASE BodyEnd \/ ClientDrop
    BY <2>2, <2>14 DEF BodyEnd, ClientDrop, drainVars, pumpVars
  <2>15. CASE UNCHANGED vars
    BY <2>2, <2>15 DEF vars, drainVars, pumpVars, bodyVars
  <2> QED BY <1>5, <2>3, <2>4, <2>5, <2>6, <2>7, <2>8, <2>9, <2>10, <2>11, <2>12, <2>13, <2>14,
             <2>15
          DEF Next, Drain, PumpStream, Body
<1> QED BY <1>4, <1>5

-----------------------------------------------------------------------------

\* Every step preserves FailureInv,
LEMMA FailureStep == FailureInv /\ [Next]_vars => FailureInv'
  BY ClientStep, ErrorComesLastStep, EndsInOrderStep, ErrorMovesOn DEF FailureInv

\* which holds before the first.
LEMMA FailureInit == Init => FailureInv
  BY ClientInit DEF Init, FailureInv, ErrorComesLast, EndsInOrder

\* After a mid-stream error a body that ends by itself has delivered a
\* verdict, and the last one says Other (route_multi_agent.rs:132-138).
THEOREM FailuresAreReported == Spec => []FailureReported
<1>1. FailureInv => FailureReported
  <2> SUFFICES ASSUME FailureInv, body = "ended", failed
               PROVE  client.finished # <<>> /\ Last(client.finished).reason = "Other"
    BY DEF FailureReported
  <2>1. /\ pump = "done" /\ drain = "done" /\ bedrock_stream = <<>> /\ body_stream = <<>>
        /\ held = <<>> /\ frames = <<>> /\ events = <<>> /\ ErrorOnItsWay
    BY DEF FailureInv, ClientInv, ErrorComesLast, EndsInOrder
  <2> QED BY <2>1 DEF ErrorOnItsWay, Verdict
<1> QED BY <1>1, FailureInit, FailureStep, PTL DEF Spec

-----------------------------------------------------------------------------
(* What is on its way adds up                                              *)

\* The events of items, one by one.
LEMMA EventsOfConcat ==
  ASSUME NEW S, NEW s \in Seq(S), NEW t \in Seq(S)
  PROVE  /\ EventsOf(s) \in Seq({EventOf(x) : x \in S})
         /\ EventsOf(s \o t) = EventsOf(s) \o EventsOf(t)
         /\ EventsOf(<<>>) = <<>>
<1> DEFINE f == [x \in S |-> EventOf(x)]
           R == {EventOf(x) : x \in S}
           a == EventsOf(s)
           b == EventsOf(t)
           c == EventsOf(s \o t)
<1>1. \A x \in S : f[x] \in R
  OBVIOUS
<1>2. /\ a = [i \in 1..Len(s) |-> f[s[i]]]
      /\ b = [i \in 1..Len(t) |-> f[t[i]]]
      /\ c = [i \in 1..Len(s \o t) |-> f[(s \o t)[i]]]
  <2>1. /\ \A i \in 1..Len(s) : s[i] \in S
        /\ \A i \in 1..Len(t) : t[i] \in S
        /\ \A i \in 1..Len(s \o t) : (s \o t)[i] \in S
    BY ConcatProperties, ElementOfSeq
  <2> QED BY <2>1 DEF EventsOf
<1>3. EventsOf(<<>>) = <<>>
  BY DEF EventsOf
<1> SUFFICES a \in Seq(R) /\ c = a \o b
  BY <1>3
<1> HIDE DEF f, R, a, b, c
<1>4. a \in Seq(R) /\ b \in Seq(R) /\ c \in Seq(R)
  BY <1>1, <1>2
<1>5. c = a \o b
  BY <1>2
<1> QED BY <1>4, <1>5

\* The events of items, the first of them apart.
LEMMA EventsOfHead ==
  ASSUME NEW S, NEW s \in Seq(S), s # <<>>
  PROVE  /\ EventsOf(s) # <<>>
         /\ Head(EventsOf(s)) = EventOf(Head(s))
         /\ Tail(EventsOf(s)) = EventsOf(Tail(s))
<1> DEFINE h == <<Head(s)>>
           t == Tail(s)
           e == EventOf(Head(s))
           d == EventsOf(t)
<1>1. h \in Seq(S) /\ t \in Seq(S) /\ s = h \o t
  BY HeadTailProperties
<1>2. EventsOf(h) = <<e>>
  BY DEF EventsOf
<1> SUFFICES EventsOf(s) # <<>> /\ Head(EventsOf(s)) = e /\ Tail(EventsOf(s)) = d
  OBVIOUS
<1> HIDE DEF h, t, e
<1>3. EventsOf(h \o t) = <<e>> \o d /\ d \in Seq({EventOf(x) : x \in S})
  BY <1>1, <1>2, EventsOfConcat
<1> HIDE DEF d
<1>4. EventsOf(s) = <<e>> \o d /\ d \in Seq({EventOf(x) : x \in S} \cup {e})
  BY <1>1, <1>3
<1>5. <<e>> \o d # <<>> /\ Head(<<e>> \o d) = e /\ Tail(<<e>> \o d) = d
  BY <1>4
<1> QED BY <1>4, <1>5

\* The turn with these events on their way to the client, and with these frames and
\* these events of Bedrock yet to come.
InHand(b, a, c, q) == [blocks |-> b, adapter |-> a, client |-> Fold("receive", c, q)]
Sum(b, a, c, q, fr, ev) == Fold("pump", Fold("flush", InHand(b, a, c, q), fr), ev)

\* Such is Drained.
LEMMA DrainedIs ==
  /\ Drained = Sum(blocks, adapter, client, body_stream \o events, frames,
                   EventsOf(bedrock_stream \o held))
  /\ Drained' = Sum(blocks', adapter', client', body_stream' \o events', frames',
                    EventsOf(bedrock_stream' \o held'))
  BY DEF Drained, Flushed, Arrived, Sum, InHand, Fold, EventsOf, EventOf, SynthStop, StreamErr

\* The client receives the first event on its way.
LEMMA SumReceived ==
  ASSUME NEW b, NEW a, NEW c, NEW q \in Seq(ResponseEvent), q # <<>>, NEW fr, NEW ev
  PROVE  Sum(b, a, c, q, fr, ev) = Sum(b, a, Receive(c, Head(q)), Tail(q), fr, ev)
<1>1. "receive" \in Folded /\ Step("receive", c, Head(q)) = Receive(c, Head(q))
  BY DEF Folded, Step
<1>2. Fold("receive", c, q) = Fold("receive", Receive(c, Head(q)), Tail(q))
  BY <1>1, FoldHead
<1> QED BY <1>2 DEF Sum, InHand

\* The pump flushes the first frame.
LEMMA SumTranslated ==
  ASSUME NEW b, NEW a \in Adapter, NEW c, NEW q \in Seq(ResponseEvent),
         NEW fr \in Seq(OzResponseFrame), fr # <<>>, NEW ev
  PROVE  Sum(b, a, c, q, fr, ev) =
         Sum(b, TranslateAdapter(a, Head(fr)), c, q \o TranslateEvents(a, Head(fr)), Tail(fr), ev)
<1> DEFINE f == Head(fr)
           r == TranslateEvents(a, f)
           t == InHand(b, a, c, q)
<1>1. f \in OzResponseFrame
  BY HeadTailProperties
<1>2. r \in Seq(ResponseEvent)
  BY <1>1, TranslateEventsType
<1>3. "flush" \in Folded /\ "receive" \in Folded
  BY DEF Folded
<1>4. Fold("flush", t, fr) = Fold("flush", Flush(t, f), Tail(fr))
  <2>1. Step("flush", t, f) = Flush(t, f)
    BY DEF Step
  <2> HIDE DEF t
  <2> QED BY <1>3, <2>1, FoldHead
<1>5. Flush(t, f) = InHand(b, TranslateAdapter(a, f), c, q \o r)
  <2> DEFINE d == Fold("receive", c, q)
             n == Fold("receive", d, r)
             z == TranslateAdapter(a, f)
  <2>1. Flush(t, f) = [blocks |-> b, adapter |-> z, client |-> n]
    <3>1. n = FoldLeft(Receive, d, r)
      BY DEF Fold
    <3>2. t = [blocks |-> b, adapter |-> a, client |-> d]
      BY DEF InHand
    <3> HIDE DEF d, n, t, z
    <3>3. t.adapter = a /\ t.client = d
      BY <3>2
    <3> DEFINE u == [t EXCEPT !.adapter = z]
    <3>4. u = [blocks |-> b, adapter |-> z, client |-> d]
      BY <3>2
    <3>5. [u EXCEPT !.client = n] = [blocks |-> b, adapter |-> z, client |-> n]
      <4> HIDE DEF u
      <4> QED BY <3>4
    <3>6. Flush(t, f) = [t EXCEPT !.adapter = z, !.client = n]
      BY <3>1, <3>3 DEF Flush, z
    <3> QED BY <3>5, <3>6
  <2> HIDE DEF r, f
  <2>2. Fold("receive", c, q \o r) = Fold("receive", Fold("receive", c, q), r)
    BY <1>2, <1>3, FoldConcat
  <2> QED BY <2>1, <2>2 DEF InHand
<1> QED BY <1>4, <1>5 DEF Sum

\* The pump takes the first event, when it has no frame left.
LEMMA SumPumped ==
  ASSUME NEW b, NEW a, NEW c, NEW q, NEW S, NEW ev \in Seq(S), ev # <<>>
  PROVE  Sum(b, a, c, q, <<>>, ev) =
         Sum(HandleBlocks(b, Head(ev)), a, c, q, HandleFrames(b, Head(ev)), Tail(ev))
<1> DEFINE e == Head(ev)
           t == InHand(b, a, c, q)
           u == InHand(HandleBlocks(b, e), a, c, q)
<1>1. "flush" \in Folded /\ "pump" \in Folded
  BY DEF Folded
<1>2. Pump(t, e) = Fold("flush", u, HandleFrames(b, e))
  <2>1. [t EXCEPT !.blocks = HandleBlocks(@, e)] = u /\ t.blocks = b
    BY DEF InHand
  <2> HIDE DEF t, u
  <2> QED BY <2>1 DEF Pump, Fold
<1>3. Step("pump", t, e) = Pump(t, e)
  BY DEF Step
<1> HIDE DEF t, u, e
<1>4. Fold("flush", t, <<>>) = t
  BY <1>1, FoldShort
<1>5. Fold("pump", t, ev) = Fold("pump", Pump(t, e), Tail(ev))
  BY <1>1, <1>3, FoldHead DEF e
<1> QED BY <1>2, <1>4, <1>5 DEF Sum, t, u, e

\* More items come.
LEMMA SumGrows ==
  ASSUME NEW b, NEW a, NEW c, NEW q, NEW fr, NEW S, NEW s \in Seq(S), NEW t \in Seq(S)
  PROVE  Sum(b, a, c, q, fr, EventsOf(s \o t)) =
         Fold("pump", Sum(b, a, c, q, fr, EventsOf(s)), EventsOf(t))
<1> DEFINE w == Fold("flush", InHand(b, a, c, q), fr)
           x == EventsOf(s)
           y == EventsOf(t)
<1>1. /\ x \in Seq({EventOf(i) : i \in S}) /\ y \in Seq({EventOf(i) : i \in S})
      /\ EventsOf(s \o t) = x \o y
  BY EventsOfConcat
<1>2. "pump" \in Folded
  BY DEF Folded
<1> HIDE DEF w, x, y
<1>3. Fold("pump", w, x \o y) = Fold("pump", Fold("pump", w, x), y)
  BY <1>1, <1>2, FoldConcat
<1> QED BY <1>1, <1>3 DEF Sum, w, x, y

\* What the drain task makes of an event, for the implementation p of BedrockLike.
RelayedBy(p, ev) ==
  IF Skipped(ev) THEN <<>>
  ELSE << IF ev.type = "block_start"
          THEN [type |-> "block_start", index |-> ev.index, id |-> ev.id,
                kind |-> IF p = "mock" \/ ev.start = "tool_use" THEN ev.start ELSE "text"]
          ELSE ev >>
RelayedItem(p) == { RelayedBy(p, ev)[1] : ev \in SdkEvent } \cup {StreamErr}
RelayedOn(p) == [ev \in SdkEvent |-> RelayedBy(p, ev)]

\* It makes at most one item of it.
LEMMA RelayedReading ==
  ASSUME NEW p
  PROVE  RelayedOn(p) \in Reading(SdkEvent, RelayedItem(p))
<1> DEFINE R == RelayedItem(p)
<1>1. ASSUME NEW ev \in SdkEvent PROVE RelayedBy(p, ev) \in Seq(R)
  <2> DEFINE x == RelayedBy(p, ev)[1]
  <2>1. x \in R
    BY DEF RelayedItem
  <2>2. RelayedBy(p, ev) = <<>> \/ RelayedBy(p, ev) = <<x>>
    BY DEF RelayedBy
  <2> HIDE DEF R, x
  <2>3. <<>> \in Seq(R) /\ <<x>> \in Seq(R)
    BY <2>1
  <2> QED BY <2>2, <2>3
<1> HIDE DEF R
<1> QED BY <1>1 DEF Reading, RelayedOn, R

\* Such are the items of the script.
LEMMA RelayedIs ==
  ASSUME TypeOK, TypeOK'
  PROVE  /\ Relayed = Gather(RelayedOn(provider), script)
                        \o (IF failed THEN <<StreamErr>> ELSE <<>>)
         /\ Relayed' = Gather(RelayedOn(provider'), script')
                         \o (IF failed' THEN <<StreamErr>> ELSE <<>>)
<1>1. /\ script \in Seq(SdkEvent) /\ script' \in Seq(SdkEvent)
  BY DEF TypeOK
<1>2. /\ \A ev : RelayedOf(ev) = RelayedBy(provider, ev)
      /\ \A ev : RelayedOf(ev)' = RelayedBy(provider', ev)
  BY DEF RelayedOf, RelayedBy, TranslateOutputEvent, StartKind
<1>3. \A i \in 1..Len(script) : RelayedOf(script[i]) = RelayedOn(provider)[script[i]]
  BY <1>1, <1>2 DEF RelayedOn
<1>4. \A i \in 1..Len(script') : RelayedOf(script[i])' = RelayedOn(provider')[script'[i]]
  BY <1>1 DEF RelayedOn, RelayedOf, RelayedBy, TranslateOutputEvent, StartKind
<1> QED BY <1>3, <1>4 DEF Relayed, Gather

\* The script grows as the drain task's hands fill.
LEMMA RelayedGrows ==
  ASSUME TypeOK, TypeOK', DrainRecv \/ DrainErr, ~failed
  PROVE  /\ Relayed \in Seq(RelayedItem(provider)) /\ held' \in Seq(RelayedItem(provider))
         /\ Relayed' = Relayed \o held'
<1> DEFINE f == RelayedOn(provider)
           R == RelayedItem(provider)
           g == Gather(f, script)
<1>1. /\ script \in Seq(SdkEvent) /\ provider' = provider
      /\ f \in Reading(SdkEvent, R) /\ StreamErr \in R
  BY RelayedReading DEF TypeOK, DrainRecv, DrainErr, RelayedItem
<1>2. /\ Relayed = g \o <<>>
      /\ Relayed' = Gather(f, script') \o (IF failed' THEN <<StreamErr>> ELSE <<>>)
  BY <1>1, RelayedIs
<1>3. g \in Seq(R)
  <2> HIDE DEF f, R
  <2> QED BY <1>1, GatherType
<1>4. CASE DrainRecv
  <2> PICK ev \in Offers(provider, producer) :
         /\ script' = Append(script, ev)
         /\ held' = IF Skipped(ev) THEN <<>> ELSE <<TranslateOutputEvent(ev)>>
    BY <1>4 DEF DrainRecv
  <2>1. ev \in SdkEvent
    BY OffersType DEF TypeOK
  <2>2. held' = f[ev] /\ ~failed'
    BY <1>4, <2>1 DEF DrainRecv, RelayedOn, RelayedBy, TranslateOutputEvent, StartKind
  <2>3. f[ev] \in Seq(R)
    BY <1>1, <2>1 DEF Reading
  <2> HIDE DEF f, R
  <2>4. Gather(f, script') = g \o f[ev]
    BY <1>1, <2>1, GatherAppend
  <2> HIDE DEF g
  <2> DEFINE x == f[ev]
  <2>5. Relayed = g \o <<>> /\ Relayed' = (g \o x) \o <<>> /\ held' = x /\ x \in Seq(R)
    BY <1>2, <2>2, <2>3, <2>4
  <2> HIDE DEF x
  <2>6. g \o <<>> = g /\ g \o x \in Seq(R)
    BY <1>3, <2>5, ConcatEmptySeq, ConcatProperties
  <2>7. (g \o x) \o <<>> = g \o x
    BY <2>6, ConcatEmptySeq
  <2> QED BY <1>3, <2>5, <2>6, <2>7 DEF R
<1>5. CASE DrainErr
  <2>1. held' = <<StreamErr>> /\ script' = script /\ failed'
    BY <1>5 DEF DrainErr
  <2> HIDE DEF f, R
  <2>2. <<StreamErr>> \in Seq(R)
    BY <1>1
  <2>3. g \o <<>> = g
    BY <1>3, ConcatEmptySeq
  <2> QED BY <1>2, <1>3, <2>1, <2>2, <2>3 DEF R
<1> QED BY <1>4, <1>5

\* The turn that pumps all of them, one after the other.
Sequential == Fold("pump", NewTurn, EventsOf(Relayed))

\* Reading on, the drain task adds the same events to both sides.
LEMMA DrainAdds ==
  ASSUME TypeOK, TypeOK', DrainRecv \/ DrainErr, ~failed, Drained = Sequential
  PROVE  Drained' = Sequential'
<1> DEFINE R == RelayedItem(provider) \cup Item
           r == Relayed
           h == held'
           q == bedrock_stream
<1>1. r \in Seq(RelayedItem(provider)) /\ h \in Seq(RelayedItem(provider)) /\ Relayed' = r \o h
  BY RelayedGrows
<1>2. q \in Seq(Item) /\ h \in Seq(Item)
  BY DEF TypeOK, Option
<1>3. /\ held = <<>>
      /\ UNCHANGED <<blocks, adapter, client, body_stream, events, frames, bedrock_stream>>
  BY DEF DrainRecv, DrainErr, pumpVars, bodyVars
<1>4. q \o held = q
  BY <1>2, <1>3, ConcatEmptySeq
<1> DEFINE w == body_stream \o events
           before == Sum(blocks, adapter, client, w, frames, EventsOf(q))
           after == Sum(blocks, adapter, client, w, frames, EventsOf(q \o h))
<1>5. Drained = before /\ Drained' = after
  BY <1>3, <1>4, DrainedIs
<1>6. Sequential = Fold("pump", NewTurn, EventsOf(r))
      /\ Sequential' = Fold("pump", NewTurn, EventsOf(r \o h))
  BY <1>1 DEF Sequential, NewTurn, EventsOf, Fold
<1>7. "pump" \in Folded
  BY DEF Folded
<1> HIDE DEF w, r, h, q
<1>8. after = Fold("pump", before, EventsOf(h))
  BY <1>2, SumGrows
<1> HIDE DEF before, after
<1>9. Fold("pump", NewTurn, EventsOf(r \o h))
        = Fold("pump", Fold("pump", NewTurn, EventsOf(r)), EventsOf(h))
  <2> DEFINE x == EventsOf(r)
             y == EventsOf(h)
             S == {EventOf(i) : i \in RelayedItem(provider)}
  <2>1. x \in Seq(S) /\ y \in Seq(S) /\ EventsOf(r \o h) = x \o y
    BY <1>1, EventsOfConcat
  <2> HIDE DEF x, y, S
  <2>2. Fold("pump", NewTurn, x \o y) = Fold("pump", Fold("pump", NewTurn, x), y)
    BY <1>7, <2>1, FoldConcat
  <2> QED BY <2>1, <2>2 DEF x, y
<1>10. Fold("pump", NewTurn, EventsOf(r)) = before
  BY <1>5, <1>6
<1> QED BY <1>5, <1>6, <1>8, <1>9, <1>10

\* Every step preserves SequentialInv: the item, the frame or the event that moves on
\* is in the sum before and after.
LEMMA SequentialStep == SequentialInv /\ [Next]_vars => SequentialInv'
<1> SUFFICES ASSUME SequentialInv, [Next]_vars, body' # "dropped"
             PROVE  Drained' = Sequential'
  BY FailureStep DEF SequentialInv, Sequential, Fold
<1>1. /\ TypeOK /\ TypeOK' /\ ErrorComesLast /\ EndsInOrder
      /\ failed /\ body # "dropped" => ErrorOnItsWay
      /\ handler # "responded" => body = "none"
      /\ pump # "flush" => frames = <<>> /\ events = <<>>
      /\ body # "dropped" => Drained = Sequential
  BY FailureStep DEF SequentialInv, FailureInv, ClientInv, Sequential, Fold
<1>2. /\ bedrock_stream \in Seq(Item) /\ held \in Option(Item) /\ adapter \in Adapter
      /\ frames \in Seq(OzResponseFrame)
      /\ events \in Seq(ResponseEvent) /\ body_stream \in Seq(ResponseEvent)
  BY <1>1 DEF TypeOK
<1>3. body # "dropped"
  <2>1. handler # "responded" => body = "none"
    BY <1>1
  <2> QED
    BY <2>1
    DEF Next, Handle, ReadRequest, RejectRequest, CancelRequest, Dispatch, Respond, Drain,
        DrainRecv, DrainErr, DrainEof, DrainSend, PumpStream, PumpRecv, PumpTranslate, PumpSend,
        PumpAbort, PumpContinue, PumpBreak, PumpEnd, PumpReturns, Body, BodyPoll, BodyEnd,
        ClientDrop, vars, bodyVars
<1> DEFINE way == body_stream \o events
           items == bedrock_stream \o held
<1>4. /\ Drained = Sum(blocks, adapter, client, way, frames, EventsOf(items))
      /\ Drained' = Sum(blocks', adapter', client', way', frames', EventsOf(items'))
  BY DrainedIs
<1>5. ASSUME UNCHANGED <<provider, script, failed>>, Drained' = Drained
      PROVE  Drained' = Sequential'
  BY <1>1, <1>3, <1>5 DEF Sequential, Relayed, RelayedOf, TranslateOutputEvent, StartKind, NewTurn
<1>6. ASSUME UNCHANGED <<provider, script, failed, blocks, adapter, client, body_stream, events,
                         frames, bedrock_stream, held>>
      PROVE  Drained' = Sequential'
  BY <1>4, <1>5, <1>6
<1>7. CASE Handle
  BY <1>6, <1>7 DEF Handle, ReadRequest, RejectRequest, CancelRequest, Dispatch, Respond,
                    drainVars, pumpVars, bodyVars
<1>8. CASE DrainRecv \/ DrainErr
  <2>1. drain = "run" /\ held = <<>>
    BY <1>8 DEF DrainRecv, DrainErr
  <2>2. ~(bedrock_stream # <<>> /\ Last(bedrock_stream) = StreamErr)
    BY <1>1, <1>2, <2>1 DEF ErrorComesLast, Last
  <2>3. ~failed
    BY <1>1, <1>3, <2>1, <2>2 DEF ErrorComesLast, ErrorOnItsWay
  <2>4. Drained = Sequential
    BY <1>1, <1>3
  <2> QED BY <1>1, <1>8, <2>3, <2>4, DrainAdds
<1>9. CASE DrainEof
  BY <1>6, <1>9 DEF DrainEof, pumpVars, bodyVars
<1>10. CASE DrainSend
  <2>1. /\ held # <<>> /\ held' = <<>> /\ pump # "done"
        /\ UNCHANGED <<provider, script, failed, blocks, adapter, client, body_stream, events,
                       frames>>
    BY <1>1, <1>3, <1>10 DEF DrainSend, pumpVars, bodyVars, ErrorComesLast, EndsInOrder
  <2>2. bedrock_stream' = Append(bedrock_stream, held[1])
    BY <1>10, <2>1 DEF DrainSend
  <2>3. Append(bedrock_stream, held[1]) \o <<>> = bedrock_stream \o held
    BY <1>2, <2>1 DEF Option
  <2> QED BY <1>4, <1>5, <2>1, <2>2, <2>3
<1>11. CASE PumpRecv
  <2> DEFINE ev == EventOf(Head(bedrock_stream))
  <2>1. /\ bedrock_stream # <<>> /\ frames = <<>> /\ bedrock_stream' = Tail(bedrock_stream)
        /\ frames' = HandleFrames(blocks, ev) /\ blocks' = HandleBlocks(blocks, ev)
        /\ UNCHANGED <<provider, script, failed, adapter, client, body_stream, events, held>>
    BY <1>1, <1>11 DEF PumpRecv, drainVars, bodyVars
  <2>2. /\ items \in Seq(Item) /\ items # <<>> /\ Head(items) = Head(bedrock_stream)
        /\ Tail(items) = Tail(bedrock_stream) \o held
    BY <1>2, <2>1 DEF Option
  <2> DEFINE coming == EventsOf(items)
  <2>3. /\ coming \in Seq({EventOf(x) : x \in Item}) /\ coming # <<>> /\ Head(coming) = ev
        /\ Tail(coming) = EventsOf(items')
    <3> DEFINE q == items
    <3>1. /\ q \in Seq(Item) /\ q # <<>> /\ Head(q) = Head(bedrock_stream)
          /\ Tail(q) = items'
      BY <2>1, <2>2
    <3> HIDE DEF q
    <3>2. EventsOf(q) \in Seq({EventOf(x) : x \in Item})
      BY <3>1, EventsOfConcat
    <3>3. EventsOf(q) # <<>> /\ Head(EventsOf(q)) = ev /\ Tail(EventsOf(q)) = EventsOf(items')
      BY <3>1, EventsOfHead
    <3> QED BY <3>2, <3>3 DEF q
  <2> HIDE DEF coming, ev
  <2>4. Sum(blocks, adapter, client, way, <<>>, coming) =
        Sum(HandleBlocks(blocks, ev), adapter, client, way, HandleFrames(blocks, ev), Tail(coming))
    BY <2>3, SumPumped
  <2>5. Drained = Sum(blocks, adapter, client, way, <<>>, coming)
    BY <1>4, <2>1 DEF coming
  <2>6. Drained' = Sum(HandleBlocks(blocks, ev), adapter, client, way, HandleFrames(blocks, ev),
                       Tail(coming))
    BY <1>4, <2>1, <2>3 DEF ev
  <2> QED BY <1>5, <2>1, <2>4, <2>5, <2>6
<1>12. CASE PumpTranslate
  <2> DEFINE f == Head(frames)
             yields == TranslateEvents(adapter, f)
  <2>1. /\ events = <<>> /\ frames # <<>> /\ frames' = Tail(frames)
        /\ adapter' = TranslateAdapter(adapter, f) /\ events' = yields
        /\ UNCHANGED <<provider, script, failed, blocks, client, body_stream, bedrock_stream, held>>
    BY <1>12 DEF PumpTranslate, drainVars, bodyVars
  <2>2. way = body_stream /\ way' = body_stream \o yields
    BY <1>2, <2>1, ConcatEmptySeq
  <2>3. Sum(blocks, adapter, client, body_stream, frames, EventsOf(items)) =
        Sum(blocks, TranslateAdapter(adapter, f), client, body_stream \o yields, Tail(frames),
            EventsOf(items))
    BY <1>2, <2>1, SumTranslated
  <2>4. Drained = Sum(blocks, adapter, client, body_stream, frames, EventsOf(items))
    BY <1>4, <2>2
  <2>5. Drained' = Sum(blocks, TranslateAdapter(adapter, f), client, body_stream \o yields,
                       Tail(frames), EventsOf(items))
    BY <1>4, <2>1, <2>2
  <2> QED BY <1>5, <2>1, <2>3, <2>4, <2>5
<1>13. CASE PumpSend
  <2>1. /\ events # <<>>
        /\ body_stream' = Append(body_stream, Head(events)) /\ events' = Tail(events)
        /\ UNCHANGED <<provider, script, failed, blocks, adapter, client, frames, bedrock_stream,
                       held>>
    BY <1>13 DEF PumpSend, drainVars, bodyVars
  <2>2. way' = way
    BY <1>2, <2>1, MoveHead
  <2> QED BY <1>4, <1>5, <2>1, <2>2
<1>14. CASE PumpAbort
  BY <1>3, <1>14 DEF PumpAbort
<1>15. CASE PumpContinue
  BY <1>6, <1>15 DEF PumpContinue, drainVars, bodyVars
<1>16. CASE PumpBreak \/ PumpEnd
  <2>1. bedrock_stream = <<>> /\ frames = <<>> /\ events = <<>>
    BY <1>1, <1>16 DEF PumpBreak, PumpEnd, ErrorComesLast
  <2> QED BY <1>6, <1>16, <2>1 DEF PumpBreak, PumpEnd, PumpReturns, drainVars, bodyVars
<1>17. CASE BodyPoll
  <2>1. /\ body_stream # <<>> /\ body_stream' = Tail(body_stream)
        /\ client' = Receive(client, Head(body_stream))
        /\ UNCHANGED <<provider, script, failed, blocks, adapter, events, frames, bedrock_stream,
                       held>>
    BY <1>17 DEF BodyPoll, drainVars, pumpVars
  <2>2. /\ way \in Seq(ResponseEvent) /\ way # <<>> /\ Head(way) = Head(body_stream)
        /\ Tail(way) = way'
    BY <1>2, <2>1
  <2> DEFINE w == way
  <2>3. /\ w \in Seq(ResponseEvent) /\ w # <<>> /\ client' = Receive(client, Head(w))
        /\ way' = Tail(w) /\ Drained = Sum(blocks, adapter, client, w, frames, EventsOf(items))
    BY <1>4, <2>1, <2>2
  <2> HIDE DEF w
  <2>4. Sum(blocks, adapter, client, w, frames, EventsOf(items)) =
        Sum(blocks, adapter, Receive(client, Head(w)), Tail(w), frames, EventsOf(items))
    BY <2>3, SumReceived
  <2>5. Drained' = Sum(blocks, adapter, Receive(client, Head(w)), Tail(w), frames, EventsOf(items))
    BY <1>4, <2>1, <2>3
  <2> QED BY <1>5, <2>1, <2>3, <2>4, <2>5
<1>18. CASE BodyEnd
  BY <1>6, <1>18 DEF BodyEnd, drainVars, pumpVars
<1>19. CASE ClientDrop
  BY <1>19 DEF ClientDrop
<1>20. CASE UNCHANGED vars
  BY <1>6, <1>20 DEF vars, drainVars, pumpVars, bodyVars
<1> QED BY <1>7, <1>8, <1>9, <1>10, <1>11, <1>12, <1>13, <1>14, <1>15, <1>16, <1>17, <1>18, <1>19,
           <1>20
        DEF Next, Drain, PumpStream, Body

\* It holds before the first one: nothing is on its way, and nothing was relayed.
LEMMA SequentialInit == Init => SequentialInv
<1> SUFFICES ASSUME Init PROVE Drained = Sequential
  BY FailureInit DEF SequentialInv, Sequential, Fold
<1>1. /\ script = <<>> /\ ~failed /\ bedrock_stream \o held = <<>> /\ body_stream \o events = <<>>
      /\ frames = <<>> /\ blocks = <<>> /\ adapter = NewAdapter /\ client = NewClient
  BY DEF Init
<1>2. Folded = {"receive", "flush", "pump"}
  BY DEF Folded
<1>3. InHand(<<>>, NewAdapter, NewClient, <<>>) = NewTurn
  BY <1>2, FoldShort DEF InHand, NewTurn
<1> DEFINE z == <<>>
<1>4. Sum(<<>>, NewAdapter, NewClient, <<>>, <<>>, z) = Fold("pump", NewTurn, z)
  BY <1>2, <1>3, FoldShort DEF Sum
<1>5. Drained = Sum(<<>>, NewAdapter, NewClient, <<>>, <<>>, EventsOf(<<>>))
  BY <1>1, DrainedIs
<1>6. Relayed = <<>> /\ EventsOf(<<>>) = <<>>
  <2>1. [i \in 1..Len(script) |-> RelayedOf(script[i])] = <<>>
    BY <1>1
  <2> QED BY <1>1, <2>1, FlattenEmpty DEF Relayed, EventsOf
<1> QED BY <1>4, <1>5, <1>6 DEF Sequential

\* The three tasks and the two channels make no difference to what the client has when
\* its body ends (route_multi_agent.rs:108-187): it is what a program pumping the same
\* events one after the other would have given it, whatever the schedule.
THEOREM TurnsRunAsOneProgram == Spec => []AsIfSequential
<1>1. SequentialInv => AsIfSequential
  <2> SUFFICES ASSUME SequentialInv, body = "ended" PROVE client = Sequential.client
    BY DEF AsIfSequential, Sequential, Fold
  <2>1. /\ bedrock_stream \o held = <<>> /\ body_stream \o events = <<>> /\ frames = <<>>
        /\ Drained = Sequential
    BY DEF SequentialInv, FailureInv, ClientInv, ErrorComesLast, EndsInOrder, Sequential, Fold
  <2>2. Drained = Sum(blocks, adapter, client, <<>>, <<>>, EventsOf(<<>>))
    BY <2>1, DrainedIs
  <2>3. EventsOf(<<>>) = <<>>
    BY DEF EventsOf
  <2>4. Folded = {"receive", "flush", "pump"}
    BY DEF Folded
  <2>5. Drained = InHand(blocks, adapter, client, <<>>)
    BY <2>2, <2>3, <2>4, FoldShort DEF Sum
  <2>6. InHand(blocks, adapter, client, <<>>).client = client
    BY <2>4, FoldShort DEF InHand
  <2> QED BY <2>1, <2>5, <2>6
<1> QED BY <1>1, SequentialInit, SequentialStep, PTL DEF Spec

=============================================================================
