--------------------------- MODULE TurnAnswer_proofs ---------------------------
(***************************************************************************)
(* For every capacity, every bound and every schedule, the client is shown *)
(* the answer in order, whole when the body ends, and under a verdict that *)
(* tells the truth; and the three tasks implement TurnContract.  The       *)
(* argument is AnswerInv (TurnAnswer): what the client shows, followed by  *)
(* what is on its way, is the answer.                                      *)
(***************************************************************************)
EXTENDS TurnAnswer, TurnClient_proofs, Flatten_proofs, FiniteSetTheorems

-----------------------------------------------------------------------------
(* What the events, frames and items say                                   *)

EventReading == [e \in ResponseEvent |-> EventContent(e)]
FrameReading == [f \in OzResponseFrame |-> FrameContent(f)]

\* The items of a script and those of the channel.
AnyItem == Item \cup SdkEvent
PieceReading(p, s) == [e \in AnyItem |-> Piece(p, s, e)]
InputReading(index) == [e \in AnyItem |-> InputIn(e, index)]

\* An event says at most one thing.
LEMMA EventReadingType == EventReading \in Reading(ResponseEvent, Content)
<1>1. ASSUME NEW e \in ResponseEvent PROVE EventContent(e) \in Seq(Content)
  BY EmptySeq DEF EventContent, ResponseEvent
<1> QED BY <1>1 DEF EventReading, Reading

\* Events say what each of them says.
LEMMA EventsGather ==
  ASSUME NEW q \in Seq(ResponseEvent)
  PROVE  EventsSay(q) = Gather(EventReading, q)
<1>1. \A i \in 1..Len(q) : EventReading[q[i]] = EventContent(q[i])
  BY ElementOfSeq DEF EventReading
<1>2. [i \in 1..Len(q) |-> EventReading[q[i]]] = [i \in 1..Len(q) |-> EventContent(q[i])]
  BY <1>1
<1> QED BY <1>2 DEF EventsSay, Gather

\* No event, and one.
LEMMA EventsSayOf ==
  /\ EventsSay(<<>>) = <<>>
  /\ \A e \in ResponseEvent : EventsSay(<<e>>) = EventContent(e)
<1>1. EventsSay(<<>>) = <<>>
  <2> DEFINE z == <<>>
  <2>1. z \in Seq(ResponseEvent) /\ Gather(EventReading, z) = <<>>
    BY GatherEmpty
  <2> HIDE DEF z
  <2>2. EventsSay(z) = <<>>
    BY <2>1, EventsGather
  <2> QED BY <2>2 DEF z
<1>2. ASSUME NEW e \in ResponseEvent PROVE EventsSay(<<e>>) = EventContent(e)
  <2> DEFINE z == <<e>>
  <2>1. z \in Seq(ResponseEvent) /\ EventReading[e] = EventContent(e)
    BY DEF EventReading
  <2>2. Gather(EventReading, z) = EventReading[e]
    BY EventReadingType, GatherOne
  <2> HIDE DEF z
  <2>3. EventsSay(z) = Gather(EventReading, z)
    BY <2>1, EventsGather
  <2> QED BY <2>1, <2>2, <2>3 DEF z
<1> QED BY <1>1, <1>2

\* The rules for reading events.
LEMMA EventsSayRules ==
  ASSUME NEW q \in Seq(ResponseEvent), NEW r \in Seq(ResponseEvent)
  PROVE  /\ EventsSay(q) \in Seq(Content)
         /\ EventsSay(q \o r) = EventsSay(q) \o EventsSay(r)
         /\ q # <<>> => EventsSay(q) = EventContent(Head(q)) \o EventsSay(Tail(q))
         /\ (\A i \in 1..Len(q) : EventContent(q[i]) = <<>>) => EventsSay(q) = <<>>
         /\ (\A i \in 1..Len(q) : Len(EventContent(q[i])) =< 1) => Len(EventsSay(q)) =< Len(q)
<1> DEFINE qr == q \o r
           t == Tail(q)
           h == Head(q)
<1>1. qr \in Seq(ResponseEvent) /\ (q # <<>> => h \in ResponseEvent /\ t \in Seq(ResponseEvent))
  BY ConcatProperties, HeadTailProperties
<1>2. /\ \A i \in 1..Len(q) : EventReading[q[i]] = EventContent(q[i])
      /\ q # <<>> => EventReading[h] = EventContent(h)
  BY <1>1, ElementOfSeq DEF EventReading
<1>3. /\ Gather(EventReading, q) \in Seq(Content)
      /\ Gather(EventReading, qr) = Gather(EventReading, q) \o Gather(EventReading, r)
      /\ q # <<>> => Gather(EventReading, q) = EventReading[h] \o Gather(EventReading, t)
      /\ (\A i \in 1..Len(q) : EventReading[q[i]] = <<>>) => Gather(EventReading, q) = <<>>
      /\ (\A i \in 1..Len(q) : Len(EventReading[q[i]]) =< 1) => Len(Gather(EventReading, q)) =< Len(q)
  BY EventReadingType, GatherRules
<1> HIDE DEF qr, t, h
<1>4. /\ EventsSay(q) = Gather(EventReading, q) /\ EventsSay(r) = Gather(EventReading, r)
      /\ EventsSay(qr) = Gather(EventReading, qr)
      /\ q # <<>> => EventsSay(t) = Gather(EventReading, t)
  BY <1>1, EventsGather
<1> QED BY <1>2, <1>3, <1>4 DEF qr, t, h

\* A frame says at most one thing.
LEMMA FrameReadingType == FrameReading \in Reading(OzResponseFrame, Content)
<1>1. ASSUME NEW f \in OzResponseFrame PROVE FrameContent(f) \in Seq(Content)
  <2>1. CASE f.type = "ToolUse"
    <3>1. [kind |-> "tool_call", id |-> f.id, input |-> f.input] \in Content
      BY <2>1 DEF OzResponseFrame, Content
    <3> QED BY <2>1, <3>1 DEF FrameContent, HasContent, ContentOf
  <2>2. CASE f.type \in {"TextDelta", "ThinkingDelta"}
    <3>1. f.text \in Seq(Chunk)
      BY <2>2 DEF OzResponseFrame
    <3>2. KindOf(f) \in {"agent_output", "agent_reasoning"}
      BY <2>2 DEF KindOf
    <3>3. \A i \in 1..Len(f.text) : [kind |-> KindOf(f), chunk |-> f.text[i]] \in Content
      BY <3>1, <3>2 DEF Content
    <3>4. ContentOf(f) = [i \in 1..Len(f.text) |-> [kind |-> KindOf(f), chunk |-> f.text[i]]]
      BY <2>2 DEF ContentOf
    <3>5. ContentOf(f) \in Seq(Content)
      BY <3>1, <3>3, <3>4
    <3> QED BY <2>2, <3>5 DEF FrameContent, HasContent
  <2>3. CASE f.type \notin {"ToolUse", "TextDelta", "ThinkingDelta"}
    BY <2>3 DEF FrameContent, HasContent
  <2> QED BY <2>1, <2>2, <2>3
<1> QED BY <1>1 DEF FrameReading, Reading

\* Frames say what each of them says.
LEMMA FramesGather ==
  ASSUME NEW q \in Seq(OzResponseFrame)
  PROVE  FramesSay(q) = Gather(FrameReading, q)
<1>1. \A i \in 1..Len(q) : FrameReading[q[i]] = FrameContent(q[i])
  BY ElementOfSeq DEF FrameReading
<1>2. [i \in 1..Len(q) |-> FrameReading[q[i]]] = [i \in 1..Len(q) |-> FrameContent(q[i])]
  BY <1>1
<1> QED BY <1>2 DEF FramesSay, Gather

\* The rules for reading frames.
LEMMA FramesSayRules ==
  ASSUME NEW q \in Seq(OzResponseFrame)
  PROVE  /\ FramesSay(q) \in Seq(Content)
         /\ q # <<>> => FramesSay(q) = FrameContent(Head(q)) \o FramesSay(Tail(q))
         /\ (\A i \in 1..Len(q) : FrameContent(q[i]) = <<>>) => FramesSay(q) = <<>>
<1> DEFINE t == Tail(q)
           h == Head(q)
<1>1. q # <<>> => h \in OzResponseFrame /\ t \in Seq(OzResponseFrame)
  BY HeadTailProperties
<1>2. /\ \A i \in 1..Len(q) : FrameReading[q[i]] = FrameContent(q[i])
      /\ q # <<>> => FrameReading[h] = FrameContent(h)
  BY <1>1, ElementOfSeq DEF FrameReading
<1>3. /\ Gather(FrameReading, q) \in Seq(Content)
      /\ q # <<>> => Gather(FrameReading, q) = FrameReading[h] \o Gather(FrameReading, t)
      /\ (\A i \in 1..Len(q) : FrameReading[q[i]] = <<>>) => Gather(FrameReading, q) = <<>>
  BY FrameReadingType, GatherRules
<1> HIDE DEF t, h
<1>4. /\ FramesSay(q) = Gather(FrameReading, q)
      /\ q # <<>> => FramesSay(t) = Gather(FrameReading, t)
  BY <1>1, FramesGather
<1> QED BY <1>2, <1>3, <1>4 DEF t, h

\* No frame, and one.
LEMMA FramesSayOf ==
  /\ FramesSay(<<>>) = <<>>
  /\ \A f \in OzResponseFrame : FramesSay(<<f>>) = FrameContent(f)
<1>1. FramesSay(<<>>) = <<>>
  BY FlattenEmpty DEF FramesSay
<1>2. ASSUME NEW f \in OzResponseFrame PROVE FramesSay(<<f>>) = FrameContent(f)
  <2> DEFINE z == <<f>>
  <2>1. z \in Seq(OzResponseFrame) /\ FrameReading[f] = FrameContent(f)
    BY DEF FrameReading
  <2>2. Gather(FrameReading, z) = FrameReading[f]
    BY FrameReadingType, GatherOne
  <2> HIDE DEF z
  <2>3. FramesSay(z) = Gather(FrameReading, z)
    BY <2>1, FramesGather
  <2> QED BY <2>1, <2>2, <2>3 DEF z
<1> QED BY <1>1, <1>2

\* The items of the channel and the events of a script are of one set.
LEMMA ItemsType ==
  /\ Seq(SdkEvent) \subseteq Seq(AnyItem)
  /\ Seq(Item) \subseteq Seq(AnyItem)
  BY SeqMonotonic DEF AnyItem

\* An item has a part of the input of a block, or none of it.
LEMMA InputReadingType ==
  ASSUME NEW index
  PROVE  InputReading(index) \in Reading(AnyItem, Chunk)
<1>1. ASSUME NEW e \in AnyItem PROVE InputIn(e, index) \in Seq(Chunk)
  <2>1. CASE e.type = "delta"
    <3>1. e.chunk \in Chunk
      BY <2>1 DEF AnyItem, Item, BedrockEvent, SdkEvent, StreamErr
    <3> QED BY <3>1 DEF InputIn
  <2>2. CASE e.type # "delta"
    BY <2>2 DEF InputIn
  <2> QED BY <2>1, <2>2
<1> QED BY <1>1 DEF InputReading, Reading

\* The input of a block is in the items of its index, in their order.
LEMMA InputGather ==
  ASSUME NEW q \in Seq(AnyItem), NEW index
  PROVE  InputOf(q, index) = Gather(InputReading(index), q)
<1>1. \A i \in 1..Len(q) : InputReading(index)[q[i]] = InputIn(q[i], index)
  BY ElementOfSeq DEF InputReading
<1>2. [i \in 1..Len(q) |-> InputReading(index)[q[i]]] = [i \in 1..Len(q) |-> InputIn(q[i], index)]
  BY <1>1
<1> QED BY <1>2 DEF InputOf, Gather

\* The rules for reading the input of a block.
LEMMA InputRules ==
  ASSUME NEW q \in Seq(AnyItem), NEW r \in Seq(AnyItem), NEW index
  PROVE  /\ InputOf(q, index) \in Seq(Chunk)
         /\ InputOf(q \o r, index) = InputOf(q, index) \o InputOf(r, index)
         /\ q # <<>> => InputOf(q, index) = InputIn(Head(q), index) \o InputOf(Tail(q), index)
         /\ (\A i \in 1..Len(q) : InputIn(q[i], index) = <<>>) => InputOf(q, index) = <<>>
<1> DEFINE qr == q \o r
           t == Tail(q)
           h == Head(q)
           f == InputReading(index)
<1>1. qr \in Seq(AnyItem) /\ (q # <<>> => h \in AnyItem /\ t \in Seq(AnyItem))
  BY ConcatProperties, HeadTailProperties
<1>2. /\ \A i \in 1..Len(q) : f[q[i]] = InputIn(q[i], index)
      /\ q # <<>> => f[h] = InputIn(h, index)
  BY <1>1, ElementOfSeq DEF InputReading
<1>3. /\ Gather(f, q) \in Seq(Chunk)
      /\ Gather(f, qr) = Gather(f, q) \o Gather(f, r)
      /\ q # <<>> => Gather(f, q) = f[h] \o Gather(f, t)
      /\ (\A i \in 1..Len(q) : f[q[i]] = <<>>) => Gather(f, q) = <<>>
  <2>1. f \in Reading(AnyItem, Chunk)
    BY InputReadingType
  <2> HIDE DEF f
  <2> QED BY <2>1, GatherRules
<1> HIDE DEF qr, t, h
<1>4. /\ InputOf(q, index) = Gather(f, q) /\ InputOf(r, index) = Gather(f, r)
      /\ InputOf(qr, index) = Gather(f, qr)
      /\ q # <<>> => InputOf(t, index) = Gather(f, t)
  BY <1>1, InputGather
<1> QED BY <1>2, <1>3, <1>4 DEF qr, t, h

\* No item, and one.
LEMMA InputOfOne ==
  ASSUME NEW index
  PROVE  /\ InputOf(<<>>, index) = <<>>
         /\ \A e \in AnyItem : InputOf(<<e>>, index) = InputIn(e, index)
<1>1. InputOf(<<>>, index) = <<>>
  BY FlattenEmpty DEF InputOf
<1>2. ASSUME NEW e \in AnyItem PROVE InputOf(<<e>>, index) = InputIn(e, index)
  <2> DEFINE z == <<e>>
             f == InputReading(index)
  <2>1. z \in Seq(AnyItem) /\ f[e] = InputIn(e, index)
    BY DEF InputReading
  <2>2. Gather(f, z) = f[e]
    BY InputReadingType, GatherOne
  <2> HIDE DEF z
  <2>3. InputOf(z, index) = Gather(f, z)
    BY <2>1, InputGather
  <2> QED BY <2>1, <2>2, <2>3 DEF z
<1> QED BY <1>1, <1>2

\* Something or nothing, as a sequence.
LEMMA AtMostOne ==
  ASSUME NEW S, NEW x \in S, NEW q, q \in {<<x>>, <<>>}
  PROVE  q \in Seq(S) /\ Len(q) =< 1
<1>1. CASE q = <<x>>
  BY <1>1
<1>2. CASE q = <<>>
  BY <1>2
<1> QED BY <1>1, <1>2

\* An item is worth at most one piece of the answer.
LEMMA PieceType ==
  ASSUME NEW p, NEW s \in Seq(SdkEvent), NEW e \in AnyItem
  PROVE  Piece(p, s, e) \in Seq(Content) /\ Len(Piece(p, s, e)) =< 1
<1>1. CASE e.type = "delta"
  <2>1. e.chunk \in Chunk
    BY <1>1 DEF AnyItem, Item, BedrockEvent, SdkEvent, StreamErr
  <2>2. /\ [kind |-> "agent_output", chunk |-> e.chunk] \in Content
        /\ [kind |-> "agent_reasoning", chunk |-> e.chunk] \in Content
    BY <2>1 DEF Content
  <2>3. PICK x \in Content : Piece(p, s, e) \in {<<x>>, <<>>}
    BY <1>1, <2>2 DEF Piece
  <2> QED BY <2>3, AtMostOne
<1>2. CASE e.type = "block_stop"
  <2> DEFINE c == [kind |-> "tool_call", id |-> e.index,
                   input |-> ToolInput(InputOf(s, e.index))]
  <2>1. e.index \in Nat
    BY <1>2 DEF AnyItem, Item, BedrockEvent, SdkEvent, StreamErr
  <2>2. InputOf(s, e.index) \in Seq(Chunk)
    BY ItemsType, InputRules
  <2>3. ToolInput(InputOf(s, e.index)) \in Seq(Chunk)
    BY <2>2, EmptySeq DEF ToolInput, EmptyObject
  <2>4. c \in Content
    BY <2>1, <2>3 DEF Content
  <2>5. Piece(p, s, e) \in {<<c>>, <<>>}
    BY <1>2 DEF Piece
  <2> HIDE DEF c
  <2> QED BY <2>4, <2>5, AtMostOne
<1>3. CASE e.type \notin {"delta", "block_stop"}
  BY <1>3 DEF Piece
<1> QED BY <1>1, <1>2, <1>3

\* So it is a reading.
LEMMA PieceReadingType ==
  ASSUME NEW p, NEW s \in Seq(SdkEvent)
  PROVE  PieceReading(p, s) \in Reading(AnyItem, Content)
  BY PieceType DEF PieceReading, Reading

\* Items say what each of them says, given the script they are from.
LEMMA SaysGather ==
  ASSUME NEW p, NEW s, NEW q \in Seq(AnyItem)
  PROVE  Says(p, s, q) = Gather(PieceReading(p, s), q)
<1>1. \A i \in 1..Len(q) : PieceReading(p, s)[q[i]] = Piece(p, s, q[i])
  BY ElementOfSeq DEF PieceReading
<1>2. [i \in 1..Len(q) |-> PieceReading(p, s)[q[i]]] = [i \in 1..Len(q) |-> Piece(p, s, q[i])]
  BY <1>1
<1> QED BY <1>2 DEF Says, Gather

\* The rules for reading items.
LEMMA SaysRules ==
  ASSUME NEW p, NEW s \in Seq(SdkEvent), NEW q \in Seq(AnyItem), NEW r \in Seq(AnyItem)
  PROVE  /\ Says(p, s, q) \in Seq(Content)
         /\ Says(p, s, q \o r) = Says(p, s, q) \o Says(p, s, r)
         /\ q # <<>> => Says(p, s, q) = Piece(p, s, Head(q)) \o Says(p, s, Tail(q))
         /\ (\A i \in 1..Len(q) : Piece(p, s, q[i]) = <<>>) => Says(p, s, q) = <<>>
         /\ Len(Says(p, s, q)) =< Len(q)
<1> DEFINE qr == q \o r
           t == Tail(q)
           h == Head(q)
           f == PieceReading(p, s)
<1>1. qr \in Seq(AnyItem) /\ (q # <<>> => h \in AnyItem /\ t \in Seq(AnyItem))
  BY ConcatProperties, HeadTailProperties
<1>2. /\ \A i \in 1..Len(q) : f[q[i]] = Piece(p, s, q[i]) /\ Len(f[q[i]]) =< 1
      /\ q # <<>> => f[h] = Piece(p, s, h)
  BY <1>1, ElementOfSeq, PieceType DEF PieceReading
<1>3. /\ Gather(f, q) \in Seq(Content)
      /\ Gather(f, qr) = Gather(f, q) \o Gather(f, r)
      /\ q # <<>> => Gather(f, q) = f[h] \o Gather(f, t)
      /\ (\A i \in 1..Len(q) : f[q[i]] = <<>>) => Gather(f, q) = <<>>
      /\ (\A i \in 1..Len(q) : Len(f[q[i]]) =< 1) => Len(Gather(f, q)) =< Len(q)
  <2>1. f \in Reading(AnyItem, Content)
    BY PieceReadingType
  <2> HIDE DEF f
  <2> QED BY <2>1, GatherRules
<1> HIDE DEF qr, t, h
<1>4. /\ Says(p, s, q) = Gather(f, q) /\ Says(p, s, r) = Gather(f, r)
      /\ Says(p, s, qr) = Gather(f, qr)
      /\ q # <<>> => Says(p, s, t) = Gather(f, t)
  BY <1>1, SaysGather
<1> HIDE DEF f
<1> QED BY <1>2, <1>3, <1>4 DEF qr, t, h

\* No item, and one.
LEMMA SaysOf ==
  ASSUME NEW p, NEW s \in Seq(SdkEvent)
  PROVE  /\ Says(p, s, <<>>) = <<>>
         /\ \A e \in AnyItem : Says(p, s, <<e>>) = Piece(p, s, e)
<1>1. Says(p, s, <<>>) = <<>>
  BY FlattenEmpty DEF Says
<1>2. ASSUME NEW e \in AnyItem PROVE Says(p, s, <<e>>) = Piece(p, s, e)
  <2> DEFINE z == <<e>>
             f == PieceReading(p, s)
  <2>1. z \in Seq(AnyItem) /\ f[e] = Piece(p, s, e)
    BY DEF PieceReading
  <2>2. Gather(f, z) = f[e]
    BY PieceReadingType, GatherOne
  <2> HIDE DEF z
  <2>3. Says(p, s, z) = Gather(f, z)
    BY <2>1, SaysGather
  <2> QED BY <2>1, <2>2, <2>3 DEF z
<1> QED BY <1>1, <1>2

\* Two readings that agree on the items agree on what the items say.
LEMMA SaysSame ==
  ASSUME NEW p, NEW s, NEW t, NEW q \in Seq(AnyItem),
         \A i \in 1..Len(q) : Piece(p, s, q[i]) = Piece(p, t, q[i])
  PROVE  Says(p, s, q) = Says(p, t, q)
<1>1. [i \in 1..Len(q) |-> Piece(p, s, q[i])] = [i \in 1..Len(q) |-> Piece(p, t, q[i])]
  OBVIOUS
<1> QED BY <1>1 DEF Says

-----------------------------------------------------------------------------
(* What the client displays                                                *)

Bodies(m, n) == [id \in 1..n |-> m[id].body]

\* A table of messages, numbered 1..n.
LEMMA NumberedIs ==
  ASSUME NEW m, NEW n \in Nat, DOMAIN m = 1..n
  PROVE  /\ Numbered(m) /\ Cardinality(DOMAIN m) = n
         /\ Display(m) = FlattenSeq(Bodies(m, n))
<1>1. IsFiniteSet(1..n) /\ Cardinality(1..n) = n
  <2>1. Cardinality(1..n) = IF 1 > n THEN 0 ELSE n - 1 + 1
    BY FS_Interval
  <2> QED BY <2>1, FS_Interval
<1>2. IsFiniteSet(DOMAIN m) /\ Cardinality(DOMAIN m) = n
  BY <1>1
<1> QED BY <1>2 DEF Numbered, Display, Bodies

\* Messages numbered from 1 have a last number.
LEMMA NumberedHas ==
  ASSUME NEW m, Numbered(m)
  PROVE  \E n \in Nat : DOMAIN m = 1..n
  BY FS_CardinalityType DEF Numbered

\* The bodies of the client's messages, in order.
LEMMA BodiesType ==
  ASSUME NEW m, NEW n \in Nat, \A id \in 1..n : m[id] \in Message
  PROVE  /\ Bodies(m, n) \in Seq(Seq(Content)) /\ Len(Bodies(m, n)) = n
         /\ \A id \in 1..n : Bodies(m, n)[id] = m[id].body
<1> DEFINE S == Seq(Content)
<1>1. \A id \in 1..n : m[id].body \in S
  BY DEF Message
<1> HIDE DEF S
<1>2. Bodies(m, n) \in [1..n -> S]
  BY <1>1 DEF Bodies
<1>3. Bodies(m, n) \in Seq(S) /\ Len(Bodies(m, n)) = n
  BY <1>2
<1> QED BY <1>3 DEF Bodies, S

\* A new message is displayed last, and is empty at first.
LEMMA RegisterShows ==
  ASSUME NEW m, NEW n \in Nat, DOMAIN m = 1..n, \A id \in 1..n : m[id] \in Message,
         NEW kind \in ActiveKind
  PROVE  /\ DOMAIN Register(m, n + 1, kind) = 1..(n + 1)
         /\ Display(Register(m, n + 1, kind)) = Display(m)
<1> DEFINE r == Register(m, n + 1, kind)
           S == Content
           b == Bodies(m, n)
<1>1. DOMAIN r = 1..(n + 1)
  BY DEF Register
<1>2. \A id \in 1..n : r[id].body = m[id].body
  BY DEF Register
<1>3. r[n + 1].body = <<>>
  BY DEF Register
<1>4. b \in Seq(Seq(S)) /\ Len(b) = n /\ \A id \in 1..n : b[id] = m[id].body
  BY BodiesType
<1>5. Display(r) = FlattenSeq(Bodies(r, n + 1)) /\ Display(m) = FlattenSeq(b)
  BY <1>1, NumberedIs
<1>6. <<>> \in Seq(S) /\ FlattenSeq(b) \in Seq(S)
  BY <1>4, FlattenType, EmptySeq
<1>7. Bodies(r, n + 1) = Append(b, <<>>)
  <2> HIDE DEF b, r
  <2>1. /\ Len(Append(b, <<>>)) = n + 1 /\ Append(b, <<>>) \in Seq(Seq(S))
        /\ \A id \in 1..n : Append(b, <<>>)[id] = b[id]
        /\ Append(b, <<>>)[n + 1] = <<>>
    BY <1>4, <1>6, AppendProperties
  <2> DEFINE z == Append(b, <<>>)
  <2>2. z = [id \in 1..(n + 1) |-> z[id]]
    BY <2>1, LenProperties
  <2> HIDE DEF z
  <2>3. \A id \in 1..(n + 1) : z[id] = r[id].body
    BY <2>1, <1>2, <1>3, <1>4 DEF z
  <2> QED BY <2>2, <2>3 DEF Bodies, z
<1>8. FlattenSeq(Append(b, <<>>)) = FlattenSeq(b) \o <<>>
  BY <1>4, <1>6, FlattenAppend
<1>9. FlattenSeq(b) \o <<>> = FlattenSeq(b)
  BY <1>6, ConcatEmptySeq
<1> QED BY <1>1, <1>5, <1>7, <1>8, <1>9

\* An append to the last message adds its content to the end of what is displayed.
LEMMA ExtendShows ==
  ASSUME NEW m, NEW n \in Nat \ {0}, DOMAIN m = 1..n, \A id \in 1..n : m[id] \in Message,
         NEW c \in Seq(Content)
  PROVE  /\ DOMAIN Extend(m, n, c) = 1..n
         /\ Display(Extend(m, n, c)) = Display(m) \o c
<1> DEFINE r == Extend(m, n, c)
<1>1. DOMAIN r = 1..n
  BY DEF Extend
<1>2. \A id \in 1..n : r[id].body = IF id = n THEN m[id].body \o c ELSE m[id].body
  BY DEF Extend
<1>3. \A id \in 1..n : r[id] \in Message
  <2>1. m[n].body \o c \in Seq(Content)
    BY ConcatProperties DEF Message
  <2> QED BY <2>1 DEF Extend, Message
<1>4. /\ Bodies(m, n) \in Seq(Seq(Content)) /\ Len(Bodies(m, n)) = n
      /\ \A id \in 1..n : Bodies(m, n)[id] = m[id].body
  BY BodiesType
<1> HIDE DEF r
<1>5. /\ Bodies(r, n) \in Seq(Seq(Content)) /\ Len(Bodies(r, n)) = n
      /\ \A id \in 1..n : Bodies(r, n)[id] = r[id].body
  BY <1>3, BodiesType
<1>6. Display(r) = FlattenSeq(Bodies(r, n)) /\ Display(m) = FlattenSeq(Bodies(m, n))
  BY <1>1, NumberedIs
<1>7. FlattenSeq(Bodies(r, n)) = FlattenSeq(Bodies(m, n)) \o c
  <2>1. Bodies(m, n) # <<>>
    BY <1>4, EmptySeq
  <2>2. \A id \in 1..n : Bodies(r, n)[id] = IF id = n THEN Bodies(m, n)[id] \o c ELSE Bodies(m, n)[id]
    BY <1>2, <1>4, <1>5
  <2> DEFINE ss == Bodies(m, n)
             tt == Bodies(r, n)
  <2>3. ss \in Seq(Seq(Content)) /\ tt \in Seq(Seq(Content)) /\ ss # <<>> /\ Len(tt) = Len(ss)
    BY <2>1, <1>4, <1>5
  <2>4. \A i \in 1..Len(ss) : tt[i] = IF i = Len(ss) THEN ss[i] \o c ELSE ss[i]
    BY <2>2, <1>4
  <2> HIDE DEF ss, tt
  <2>5. FlattenSeq(tt) = FlattenSeq(ss) \o c
    BY <2>3, <2>4, FlattenLast
  <2> QED BY <2>5 DEF ss, tt
<1> QED BY <1>1, <1>6, <1>7 DEF r

-----------------------------------------------------------------------------
(* The script grows by an event that the producer offers                   *)

\* What a producer can offer in its state.
LEMMA OffersFit ==
  ASSUME NEW pr \in Providers, NEW p \in Producer, NEW ev \in Offers(pr, p),
         p.phase # "open" => p.block = "none"
  PROVE  /\ OfBlock(ev) => p.phase = "open" /\ ev.index = p.index
         /\ ev.type = "block_start" =>
              /\ p.block = "none" /\ ev.id = ev.index
              /\ IF pr = "mock" THEN ev.start \in BlockKind ELSE ev.start \in {"tool_use", "none"}
         /\ ev.type = "delta" =>
              /\ ev.delta \in DeltasOf(pr, p.block)
              /\ ev.chunk.closes => p.block = "tool_use"
              /\ pr = "mock" => p.block # "none"
         /\ ev.type = "block_stop" => p.block # "none"
         /\ ev.type = "message_stop" => p.phase = "open" /\ p.block = "none"
         /\ ev.type = "message_start" => p.phase = "new"
         /\ ev.type \in {"message_start", "block_start", "delta", "block_stop", "message_stop",
                         "metadata", "unknown"}
<1> USE DEF OfBlock
<1>1. CASE ev \in MessageStarts(p)
  BY <1>1 DEF MessageStarts
<1>2. CASE ev \in BlockStarts(pr, p)
  BY <1>2 DEF BlockStarts, StartsOf, Providers
<1>3. CASE ev \in Deltas(pr, p)
  <2>1. PICK d \in DeltasOf(pr, p.block), c \in MayClose(p.block) :
          ev = [type |-> "delta", index |-> p.index, delta |-> d,
                chunk |-> [n |-> p.deltas + 1, closes |-> c]]
    BY <1>3 DEF Deltas
  <2>2. p.phase = "open" /\ (pr = "mock" => p.block # "none")
    BY <1>3 DEF Deltas
  <2>3. c => p.block = "tool_use"
    BY DEF MayClose
  <2> QED BY <2>1, <2>2, <2>3
<1>4. CASE ev \in BlockStops(p)
  BY <1>4 DEF BlockStops
<1>5. CASE ev \in MessageStops(p)
  BY <1>5 DEF MessageStops
<1>6. CASE ev \in Extras(pr, p)
  BY <1>6 DEF Extras, CountsOf
<1> QED BY <1>1, <1>2, <1>3, <1>4, <1>5, <1>6 DEF Offers

\* A sequence without an event of a block has neither its start nor its input.
LEMMA NothingOf ==
  ASSUME NEW q \in Seq(AnyItem), NEW index,
         \A i \in 1..Len(q) : OfBlock(q[i]) => q[i].index # index
  PROVE  InputOf(q, index) = <<>> /\ \A kind : ~Starts(q, index, kind)
<1>1. \A i \in 1..Len(q) : InputIn(q[i], index) = <<>>
  BY DEF InputIn, OfBlock
<1>2. InputOf(q, index) = <<>>
  BY <1>1, InputRules
<1> QED BY <1>2 DEF Starts, OfBlock

\* A script with one more event.
LEMMA Grown ==
  ASSUME NEW s \in Seq(SdkEvent), NEW ev \in SdkEvent
  PROVE  /\ Append(s, ev) \in Seq(SdkEvent) /\ Len(Append(s, ev)) = Len(s) + 1
         /\ \A i \in 1..Len(s) : Append(s, ev)[i] = s[i]
         /\ Append(s, ev)[Len(s) + 1] = ev
         /\ \A index : InputOf(Append(s, ev), index) = InputOf(s, index) \o InputIn(ev, index)
         /\ \A index, kind : Starts(Append(s, ev), index, kind) <=>
              \/ Starts(s, index, kind)
              \/ ev.type = "block_start" /\ ev.index = index /\ ev.start = kind
<1> DEFINE t == Append(s, ev)
           z == <<ev>>
<1>1. /\ t \in Seq(SdkEvent) /\ Len(t) = Len(s) + 1 /\ Len(s) \in Nat
      /\ \A i \in 1..Len(s) : t[i] = s[i]
      /\ t[Len(s) + 1] = ev
  BY AppendProperties, LenProperties
<1>2. t = s \o z /\ z \in Seq(AnyItem) /\ s \in Seq(AnyItem) /\ ev \in AnyItem
  BY ItemsType DEF AnyItem
<1>3. \A index : InputOf(z, index) = InputIn(ev, index)
  BY <1>2, InputOfOne
<1> HIDE DEF z, t
<1>4. \A index : InputOf(t, index) = InputOf(s, index) \o InputIn(ev, index)
  <2> SUFFICES ASSUME NEW index
               PROVE  InputOf(t, index) = InputOf(s, index) \o InputIn(ev, index)
    OBVIOUS
  <2>1. InputOf(s \o z, index) = InputOf(s, index) \o InputOf(z, index)
    BY <1>2, InputRules
  <2> QED BY <2>1, <1>2, <1>3
<1>5. \A index, kind : Starts(t, index, kind) <=>
        \/ Starts(s, index, kind)
        \/ ev.type = "block_start" /\ ev.index = index /\ ev.start = kind
  BY <1>1 DEF Starts
<1> QED BY <1>1, <1>4, <1>5 DEF t

\* What was behind the producer stays there, and the new event is behind it too.
LEMMA BehindGrows ==
  ASSUME NEW pr \in Providers, NEW p \in Producer, NEW ev \in Offers(pr, p),
         p.phase # "open" => p.block = "none"
  PROVE  /\ \A x : Behind(p, x) /\ (OfBlock(x) => x.index \in Nat) => Behind(After(p, ev), x)
         /\ Behind(After(p, ev), ev)
<1>1. /\ p.index \in Nat
      /\ After(p, ev).index = IF ev.type = "block_stop" THEN p.index + 1 ELSE p.index
      /\ After(p, ev).block = "none" => ev.type = "block_stop" \/ p.block = "none"
      /\ ev.type \in {"block_start", "delta"} => After(p, ev).block # "none"
  BY DEF After, Producer, BlockOfDelta
<1> QED BY <1>1, OffersFit DEF Behind, OfBlock

\* The script has nothing yet of the block after the open one, or of the next block
\* when none is open.
LEMMA NothingYet ==
  ASSUME TypeOK, Upstream
  PROVE  /\ \A index \in Nat : index > producer.index =>
              InputOf(script, index) = <<>> /\ \A kind : ~Starts(script, index, kind)
         /\ producer.block = "none" =>
              /\ InputOf(script, producer.index) = <<>>
              /\ \A kind : ~Starts(script, producer.index, kind)
<1>1. script \in Seq(SdkEvent) /\ script \in Seq(AnyItem) /\ producer.index \in Nat
  BY ItemsType DEF TypeOK, Producer
<1>2. \A i \in 1..Len(script) : OfBlock(script[i]) => script[i].index \in Nat
  BY <1>1, ElementOfSeq DEF SdkEvent, OfBlock
<1>3. \A i \in 1..Len(script) : Behind(producer, script[i])
  BY DEF Upstream
<1>4. ASSUME NEW index \in Nat, index > producer.index
      PROVE  InputOf(script, index) = <<>> /\ \A kind : ~Starts(script, index, kind)
  <2>1. \A i \in 1..Len(script) : OfBlock(script[i]) => script[i].index # index
    BY <1>1, <1>2, <1>3, <1>4 DEF Behind
  <2> QED BY <1>1, <2>1, NothingOf
<1>5. ASSUME producer.block = "none"
      PROVE  /\ InputOf(script, producer.index) = <<>>
             /\ \A kind : ~Starts(script, producer.index, kind)
  <2>1. \A i \in 1..Len(script) : OfBlock(script[i]) => script[i].index # producer.index
    BY <1>1, <1>2, <1>3, <1>5 DEF Behind
  <2> QED BY <1>1, <2>1, NothingOf
<1> QED BY <1>4, <1>5

\* The script is in the producer's language still.
LEMMA UpstreamGrows ==
  ASSUME TypeOK, Upstream, NEW ev \in Offers(provider, producer),
         producer' = After(producer, ev), script' = Append(script, ev), provider' = provider
  PROVE  Upstream'
<1>1. /\ script \in Seq(SdkEvent) /\ provider \in Providers /\ producer \in Producer
      /\ ev \in SdkEvent /\ producer' \in Producer /\ Len(script) \in Nat
      /\ producer.phase # "open" => producer.block = "none"
  BY OffersType, LenProperties DEF TypeOK, Upstream, OpenFits
<1>2. /\ Len(script') = Len(script) + 1
      /\ \A i \in 1..Len(script) : script'[i] = script[i]
      /\ script'[Len(script) + 1] = ev
      /\ \A index : InputOf(script', index) = InputOf(script, index) \o InputIn(ev, index)
      /\ \A index, kind : Starts(script', index, kind) <=>
           \/ Starts(script, index, kind)
           \/ ev.type = "block_start" /\ ev.index = index /\ ev.start = kind
  BY <1>1, Grown
<1>3. \A i \in 1..Len(script') : Behind(producer', script'[i])
  <2>1. \A i \in 1..Len(script) : OfBlock(script[i]) => script[i].index \in Nat
    BY <1>1, ElementOfSeq DEF SdkEvent, OfBlock
  <2>2. \A i \in 1..Len(script) : Behind(producer, script[i])
    BY DEF Upstream
  <2> QED BY <1>1, <1>2, <2>1, <2>2, BehindGrows
<1> DEFINE p == producer
           n == producer'
<1>4. /\ p.index \in Nat /\ n.index \in Nat
      /\ n.index = IF ev.type = "block_stop" THEN p.index + 1 ELSE p.index
      /\ ev.type = "block_start" =>
           n.phase = p.phase /\ n.block = IF ev.start = "none" THEN "untyped" ELSE ev.start
      /\ ev.type = "delta" => n.phase = p.phase /\ n.block = BlockOfDelta(ev)
      /\ ev.type = "block_stop" => n.phase = p.phase /\ n.block = "none"
      /\ ev.type = "message_start" => n.phase = "open" /\ n.block = p.block
      /\ ev.type = "message_stop" => n.phase = "stopped" /\ n.block = p.block
      /\ ev.type \in {"metadata", "unknown"} => n.phase = p.phase /\ n.block = p.block
  BY <1>1 DEF After, Producer
<1>5. /\ OfBlock(ev) => p.phase = "open" /\ ev.index = p.index
      /\ ev.type = "block_start" =>
           /\ p.block = "none" /\ ev.id = ev.index
           /\ IF provider = "mock" THEN ev.start \in BlockKind ELSE ev.start \in {"tool_use", "none"}
      /\ ev.type = "delta" =>
           /\ ev.delta \in DeltasOf(provider, p.block)
           /\ ev.chunk.closes => p.block = "tool_use"
           /\ provider = "mock" => p.block # "none"
      /\ ev.type = "block_stop" => p.block # "none"
      /\ ev.type = "message_stop" => p.phase = "open" /\ p.block = "none"
      /\ ev.type = "message_start" => p.phase = "new"
      /\ ev.type \in {"message_start", "block_start", "delta", "block_stop", "message_stop",
                      "metadata", "unknown"}
  BY <1>1, OffersFit
<1>6. /\ \A index \in Nat : index > p.index =>
           InputOf(script, index) = <<>> /\ \A kind : ~Starts(script, index, kind)
      /\ p.block = "none" =>
           /\ InputOf(script, p.index) = <<>>
           /\ \A kind : ~Starts(script, p.index, kind)
  BY NothingYet
<1>7. OpenFits
  BY DEF Upstream
<1>8. p.block \in OpenBlock
  BY <1>1 DEF Producer
<1> HIDE DEF p, n
<1>9. OpenFits'
  <2>1. CASE ev.type = "block_start"
    BY <2>1, <1>1, <1>2, <1>4, <1>5, <1>6, <1>7
       DEF OpenFits, IsTool, IsReasoning, OfBlock, p, n, BlockKind, Providers
  <2>2. CASE ev.type = "delta"
    <3>1. /\ p.block \in {"tool_use", "tool_done"} <=> n.block \in {"tool_use", "tool_done"}
          /\ provider = "mock" =>
               n.block # "untyped" /\ (p.block = "thinking" <=> n.block = "thinking")
          /\ n.phase = "open"
      BY <2>2, <1>4, <1>5, <1>7, <1>8
         DEF OpenFits, OfBlock, DeltasOf, BlockOfDelta, p, Providers, OpenBlock, BlockKind
    <3>2. \A index, kind : Starts(script', index, kind) <=> Starts(script, index, kind)
      BY <2>2, <1>2
    <3>3. n.index = p.index
      BY <2>2, <1>4
    <3>4. /\ p.block \in {"tool_use", "tool_done"} <=> IsTool(script, p.index)
          /\ provider = "mock" => (p.block = "thinking" <=> IsReasoning(provider, script, p.index))
      BY <1>7 DEF OpenFits, p
    <3>5. n.block \in {"tool_use", "tool_done"} <=> IsTool(script', n.index)
      BY <3>1, <3>2, <3>3, <3>4 DEF IsTool
    <3>6. provider = "mock" => (n.block = "thinking" <=> IsReasoning(provider, script', n.index))
      BY <3>1, <3>2, <3>3, <3>4 DEF IsReasoning
    <3> QED BY <3>1, <3>5, <3>6 DEF OpenFits, n
  <2>3. CASE ev.type = "block_stop"
    <3>1. \A kind : ~Starts(script', n.index, kind)
      BY <2>3, <1>2, <1>4, <1>6
    <3> QED BY <2>3, <3>1, <1>4, <1>5, <1>7 DEF OpenFits, IsTool, IsReasoning, OfBlock, p, n
  <2>4. CASE ev.type \notin {"block_start", "delta", "block_stop"}
    <3>1. \A index, kind : Starts(script', index, kind) <=> Starts(script, index, kind)
      BY <2>4, <1>2
    <3> QED BY <2>4, <3>1, <1>4, <1>5, <1>7 DEF OpenFits, IsTool, IsReasoning, p, n
  <2> QED BY <2>1, <2>2, <2>3, <2>4
<1>10. InputEnds'
  <2> SUFFICES ASSUME NEW index \in 0..n.index, NEW k \in 1..Len(InputOf(script', index)),
                      InputOf(script', index)[k].closes
               PROVE  /\ k = Len(InputOf(script', index))
                      /\ index = n.index => n.block # "tool_use"
    BY DEF InputEnds, n
  <2> DEFINE old == InputOf(script, index)
             new == InputOf(script', index)
             piece == InputIn(ev, index)
  <2>1. script \in Seq(AnyItem) /\ ev \in AnyItem /\ index \in Nat
    BY <1>1, <1>4, ItemsType DEF AnyItem
  <2>2. old \in Seq(Chunk) /\ new = old \o piece
    BY <2>1, <1>2, InputRules
  <2>3. index =< p.index => \A l \in 1..Len(old) :
          old[l].closes => l = Len(old) /\ (index = p.index => p.block # "tool_use")
    <3>1. InputEnds
      BY DEF Upstream
    <3> QED BY <3>1, <2>1, <1>4 DEF InputEnds, p
  <2>4. index > p.index => old = <<>>
    BY <1>6, <2>1
  <2>5. CASE piece = <<>>
    <3>1. new = old
      BY <2>2, <2>5, ConcatEmptySeq
    <3>2. index =< p.index
      BY <3>1, <2>1, <2>4, <1>4
    <3>3. k = Len(new) /\ (index = p.index => p.block # "tool_use")
      BY <2>3, <3>1, <3>2
    <3>4. index = n.index => n.block # "tool_use"
      <4>1. CASE ev.type = "block_start"
        <5>1. index = n.index => new = <<>>
          BY <4>1, <3>1, <1>4, <1>5, <1>6
        <5> QED BY <5>1
      <4>2. CASE ev.type = "delta"
        <5>1. index = n.index /\ n.block = "tool_use" => p.block = "tool_use"
          BY <4>2, <1>4, <1>5 DEF DeltasOf, BlockOfDelta
        <5> QED BY <5>1, <4>2, <3>3, <1>4
      <4>3. CASE ev.type \notin {"block_start", "delta"}
        BY <4>3, <3>3, <1>4, <1>5
      <4> QED BY <4>1, <4>2, <4>3
    <3> QED BY <3>3, <3>4
  <2>6. CASE piece # <<>>
    <3>1. /\ piece = <<ev.chunk>> /\ ev.type = "delta" /\ ev.delta = "input_json_delta"
          /\ index = p.index /\ index = n.index
      BY <2>6, <1>4, <1>5 DEF InputIn, OfBlock
    <3>2. p.block = "tool_use" /\ n.block = IF ev.chunk.closes THEN "tool_done" ELSE "tool_use"
      BY <3>1, <1>4, <1>5 DEF DeltasOf, BlockOfDelta
    <3>3. \A l \in 1..Len(old) : ~old[l].closes
      BY <2>3, <3>1, <3>2, <1>4
    <3>4. /\ Len(new) = Len(old) + 1 /\ Len(old) \in Nat
          /\ \A l \in 1..Len(old) : new[l] = old[l]
          /\ new[Len(old) + 1] = ev.chunk
      BY <2>2, <3>1
    <3> HIDE DEF old, new
    <3>5. k \in 1..Len(new) /\ new[k].closes
      BY DEF new
    <3>6. k = Len(new) /\ ev.chunk.closes
      BY <3>3, <3>4, <3>5
    <3> QED BY <3>2, <3>6 DEF new
  <2> QED BY <2>5, <2>6
<1>11. StopsOnce'
  <2>1. StopsOnce
    BY DEF Upstream
  <2>2. ASSUME NEW i \in 1..Len(script), script[i].type = "message_stop"
        PROVE  p.phase = "stopped" /\ n.phase = "stopped" /\ ev.type # "message_stop"
    BY <2>1, <2>2, <1>4, <1>5 DEF StopsOnce, OfBlock, p
  <2>3. ev.type = "message_stop" => n.phase = "stopped"
    BY <1>4
  <2> QED BY <2>1, <2>2, <2>3, <1>1, <1>2 DEF StopsOnce, n
<1> QED BY <1>3, <1>9, <1>10, <1>11 DEF Upstream

\* What was said of the blocks behind the producer stands, and the answer grows by what
\* the new event says.
LEMMA AnswerGrows ==
  ASSUME TypeOK, Upstream, NEW ev \in Offers(provider, producer), script' = Append(script, ev),
         provider' = provider
  PROVE  /\ \A q \in Seq(AnyItem) : (\A i \in 1..Len(q) : Behind(producer, q[i])) =>
              Says(provider, script', q) = Says(provider, script, q)
         /\ \A index \in 0..producer.index :
              (producer.block = "none" => index < producer.index) =>
                \A kind : KindFits(provider, script', index, kind)
                          <=> KindFits(provider, script, index, kind)
         /\ Answer' = Answer \o Piece(provider, script', ev)
<1>1. /\ script \in Seq(SdkEvent) /\ provider \in Providers /\ producer \in Producer
      /\ ev \in SdkEvent /\ ev \in AnyItem /\ producer.index \in Nat
      /\ producer.phase # "open" => producer.block = "none"
  BY OffersType DEF TypeOK, Upstream, OpenFits, AnyItem, Producer
<1>2. /\ script' \in Seq(SdkEvent)
      /\ \A index : InputOf(script', index) = InputOf(script, index) \o InputIn(ev, index)
      /\ \A index, kind : Starts(script', index, kind) <=>
           \/ Starts(script, index, kind)
           \/ ev.type = "block_start" /\ ev.index = index /\ ev.start = kind
  BY <1>1, Grown
<1>3. /\ OfBlock(ev) => ev.index = producer.index
      /\ ev.type = "block_start" => producer.block = "none"
  BY <1>1, OffersFit
<1>4. ASSUME NEW e \in AnyItem, Behind(producer, e)
      PROVE  Piece(provider, script', e) = Piece(provider, script, e)
  <2>1. CASE e.type # "block_stop"
    BY <2>1 DEF Piece
  <2>2. CASE e.type = "block_stop"
    <3>1. e.index < producer.index /\ e.index \in Nat
      BY <1>1, <1>4, <2>2 DEF Behind, OfBlock, AnyItem, Item, BedrockEvent, SdkEvent, StreamErr
    <3>2. /\ InputIn(ev, e.index) = <<>>
          /\ \A kind : Starts(script', e.index, kind) <=> Starts(script, e.index, kind)
      BY <3>1, <1>1, <1>2, <1>3 DEF InputIn, OfBlock
    <3>3. InputOf(script, e.index) \in Seq(Chunk)
      BY <1>1, ItemsType, InputRules
    <3>4. InputOf(script', e.index) = InputOf(script, e.index)
      BY <1>2, <3>2, <3>3, ConcatEmptySeq
    <3> QED BY <3>2, <3>4, <2>2 DEF Piece
  <2> QED BY <2>1, <2>2
<1>5. ASSUME NEW q \in Seq(AnyItem), \A i \in 1..Len(q) : Behind(producer, q[i])
      PROVE  Says(provider, script', q) = Says(provider, script, q)
  <2>1. \A i \in 1..Len(q) : Piece(provider, script', q[i]) = Piece(provider, script, q[i])
    BY <1>4, <1>5, ElementOfSeq
  <2> DEFINE t == script'
  <2> HIDE DEF t
  <2>2. \A i \in 1..Len(q) : Piece(provider, t, q[i]) = Piece(provider, script, q[i])
    BY <2>1 DEF t
  <2>3. Says(provider, t, q) = Says(provider, script, q)
    BY <2>2, SaysSame
  <2> QED BY <2>3 DEF t
<1>6. ASSUME NEW index \in 0..producer.index, producer.block = "none" => index < producer.index,
             NEW kind
      PROVE  KindFits(provider, script', index, kind) <=> KindFits(provider, script, index, kind)
  <2>1. \A k : Starts(script', index, k) <=> Starts(script, index, k)
    BY <1>1, <1>2, <1>3, <1>6 DEF OfBlock
  <2> QED BY <2>1 DEF KindFits, IsTool, IsReasoning
<1>7. Answer' = Answer \o Piece(provider, script', ev)
  <2> DEFINE t == script'
             z == <<ev>>
  <2>1. t = script \o z /\ z \in Seq(AnyItem) /\ script \in Seq(AnyItem)
    BY <1>1, ItemsType
  <2>2. t \in Seq(SdkEvent)
    BY <1>2
  <2>3. \A i \in 1..Len(script) : Behind(producer, script[i])
    BY DEF Upstream
  <2>4. Says(provider, t, script) = Answer
    BY <1>5, <2>1, <2>3 DEF Answer
  <2>5. Answer' = Says(provider, t, t)
    BY DEF Answer
  <2> HIDE DEF t, z
  <2>6. Says(provider, t, script \o z) = Says(provider, t, script) \o Says(provider, t, z)
    BY <2>1, <2>2, SaysRules
  <2>7. Says(provider, t, z) = Piece(provider, t, ev)
    BY <2>2, <1>1, SaysOf DEF z
  <2> QED BY <2>1, <2>4, <2>5, <2>6, <2>7 DEF t
<1> QED BY <1>5, <1>6, <1>7

\* A verdict that was honest remains so, and so is the one of the first stop.
LEMMA HonestGrows ==
  ASSUME NEW s \in Seq(SdkEvent), NEW ev \in SdkEvent, NEW f
  PROVE  /\ \A reason : Honest(s, f, reason) => Honest(Append(s, ev), f, reason)
         /\ /\ ev.type = "message_stop"
            /\ \A i \in 1..Len(s) : s[i].type # "message_stop"
            => Honest(Append(s, ev), f, FinishReason(ev.reason))
<1> DEFINE t == Append(s, ev)
<1>1. /\ Len(t) = Len(s) + 1 /\ Len(s) \in Nat
      /\ \A i \in 1..Len(s) : t[i] = s[i]
      /\ t[Len(s) + 1] = ev
  BY AppendProperties, LenProperties
<1> HIDE DEF t
<1>2. \A reason : Stopped(s, reason) => Stopped(t, reason)
  <2> SUFFICES ASSUME NEW reason, NEW i \in 1..Len(s),
                      s[i].type = "message_stop", s[i].reason = reason,
                      \A j \in 1..(i - 1) : s[j].type # "message_stop"
               PROVE  Stopped(t, reason)
    BY DEF Stopped
  <2>1. i \in 1..Len(t) /\ t[i] = s[i] /\ \A j \in 1..(i - 1) : t[j] = s[j]
    BY <1>1
  <2> QED BY <2>1 DEF Stopped
<1>3. ASSUME ev.type = "message_stop", \A i \in 1..Len(s) : s[i].type # "message_stop"
      PROVE  Stopped(t, ev.reason) /\ ev.reason \in StopReason
  <2>1. Len(s) + 1 \in 1..Len(t) /\ \A j \in 1..Len(s) : t[j].type # "message_stop"
    BY <1>1, <1>3
  <2>2. Stopped(t, ev.reason)
    BY <1>1, <1>3, <2>1 DEF Stopped
  <2> QED BY <2>2, <1>3 DEF SdkEvent
<1> QED BY <1>2, <1>3 DEF Honest, t

-----------------------------------------------------------------------------
(* The drain task                                                          *)

\* The item made of an event says what the event says.
LEMMA Translated ==
  ASSUME NEW ev \in SdkEvent, provider \in Providers,
         provider = "mock" /\ ev.type = "block_start" => ev.start \in BlockKind
  PROVE  LET x == TranslateOutputEvent(ev)
         IN  /\ ~Skipped(ev) => x \in Item
             /\ x.type = ev.type
             /\ OfBlock(ev) => x.index = ev.index
             /\ ev.type = "block_start" => x.kind = StartKind(ev) /\ x.id = ev.id
             /\ ev.type = "delta" => x.delta = ev.delta
             /\ ev.type = "message_stop" => x.reason = ev.reason
             /\ \A index : InputIn(x, index) = InputIn(ev, index)
             /\ \A p, s : Piece(p, s, x) = Piece(p, s, ev)
<1> DEFINE x == TranslateOutputEvent(ev)
<1>1. CASE ev.type = "block_start"
  <2>1. ev.index \in Nat /\ ev.id \in Nat /\ StartKind(ev) \in BlockKind
    BY <1>1 DEF SdkEvent, StartKind, BlockKind, Providers
  <2>2. x = [type |-> "block_start", index |-> ev.index, kind |-> StartKind(ev), id |-> ev.id]
    BY <1>1 DEF TranslateOutputEvent
  <2>3. x \in Item
    BY <2>1, <2>2 DEF Item, BedrockEvent
  <2> QED BY <2>2, <2>3, <1>1 DEF InputIn, Piece, OfBlock
<1>2. CASE ev.type # "block_start"
  <2>1. x = ev
    BY <1>2 DEF TranslateOutputEvent
  <2>2. ~Skipped(ev) => ev \in Item
    BY <1>2 DEF SdkEvent, Skipped, Item, BedrockEvent
  <2> QED BY <2>1, <2>2, <1>2
<1> QED BY <1>1, <1>2

\* What the drain task received joins what was on its way.
LEMMA Received ==
  ASSUME TypeOK, Upstream, \A i \in 1..Len(taken) : Behind(producer, taken[i]),
         held = <<>>, NEW ev \in Offers(provider, producer),
         script' = Append(script, ev),
         held' = IF Skipped(ev) THEN <<>> ELSE <<TranslateOutputEvent(ev)>>,
         UNCHANGED <<provider, bedrock_stream>>
  PROVE  /\ taken \in Seq(Item) /\ taken' \in Seq(Item)
         /\ Len(taken) \in Nat /\ Len(taken') \in Nat /\ Len(taken) =< Len(taken')
         /\ \A i \in 1..Len(taken) : taken'[i] = taken[i]
         /\ \A i \in 1..Len(taken') : i > Len(taken) =>
              i = Len(taken) + 1 /\ taken'[i] = TranslateOutputEvent(ev) /\ ~Skipped(ev)
         /\ ~Skipped(ev) => /\ Len(taken') = Len(taken) + 1
                            /\ taken'[Len(taken) + 1] = TranslateOutputEvent(ev)
         /\ \A index : InputOf(taken', index) = InputOf(taken, index) \o InputIn(ev, index)
         /\ Says(provider, script', taken')
              = Says(provider, script, taken) \o Piece(provider, script', ev)
<1> DEFINE x == TranslateOutputEvent(ev)
           z == <<x>>
           t == script'
           u == taken'
<1>1. /\ ev \in SdkEvent /\ ev \in AnyItem /\ t \in Seq(SdkEvent) /\ bedrock_stream \in Seq(Item)
      /\ provider \in Providers
      /\ provider = "mock" /\ ev.type = "block_start" => ev.start \in BlockKind
  BY OffersType, AppendProperties DEF TypeOK, AnyItem
<1>2. /\ ~Skipped(ev) => x \in Item
      /\ \A index : InputIn(x, index) = InputIn(ev, index)
      /\ \A p, s : Piece(p, s, x) = Piece(p, s, ev)
  BY <1>1, Translated
<1>3. taken = bedrock_stream
  BY <1>1, ConcatEmptySeq DEF taken
<1>4. /\ taken \in Seq(Item) /\ taken \in Seq(AnyItem) /\ Len(taken) \in Nat
  BY <1>1, <1>3, ItemsType, LenProperties
<1>5. Says(provider, t, taken) = Says(provider, script, taken)
  BY <1>4, AnswerGrows
<1>6. /\ Says(provider, t, taken) \in Seq(Content)
      /\ \A index : InputOf(taken, index) \in Seq(Chunk)
  BY <1>1, <1>4, SaysRules, InputRules
<1>7. CASE Skipped(ev)
  <2>1. u = taken
    BY <1>1, <1>3, <1>7, ConcatEmptySeq DEF taken
  <2>2. Piece(provider, t, ev) = <<>> /\ \A index : InputIn(ev, index) = <<>>
    BY <1>7 DEF Skipped, Piece, InputIn
  <2>3. /\ Says(provider, t, taken) \o <<>> = Says(provider, t, taken)
        /\ \A index : InputOf(taken, index) \o <<>> = InputOf(taken, index)
    BY <1>6, ConcatEmptySeq
  <2> HIDE DEF t, u
  <2>4. /\ Says(provider, t, u) = Says(provider, script, taken) \o Piece(provider, t, ev)
        /\ \A index : InputOf(u, index) = InputOf(taken, index) \o InputIn(ev, index)
    BY <2>1, <2>2, <2>3, <1>5
  <2> QED BY <1>4, <1>7, <2>1, <2>4 DEF t, u
<1>8. CASE ~Skipped(ev)
  <2>1. x \in Item /\ x \in AnyItem /\ z \in Seq(AnyItem)
    BY <1>2, <1>8 DEF AnyItem
  <2>2. u = taken \o z
    BY <1>3, <1>8 DEF taken
  <2>3. /\ u \in Seq(Item) /\ Len(u) = Len(taken) + 1 /\ \A i \in 1..Len(taken) : u[i] = taken[i]
        /\ u[Len(taken) + 1] = x
    <3> HIDE DEF x, u
    <3> QED BY <1>4, <2>1, <2>2
  <2>4. Says(provider, t, z) = Piece(provider, t, ev) /\ \A index : InputOf(z, index) = InputIn(ev, index)
    <3>1. Says(provider, t, z) = Piece(provider, t, x)
      BY <1>1, <2>1, SaysOf
    <3>2. \A index : InputOf(z, index) = InputIn(x, index)
      BY <2>1, InputOfOne
    <3> QED BY <3>1, <3>2, <1>2
  <2> HIDE DEF t, u, z
  <2>5. Says(provider, t, taken \o z) = Says(provider, t, taken) \o Says(provider, t, z)
    BY <1>1, <1>4, <2>1, SaysRules
  <2>6. \A index : InputOf(taken \o z, index) = InputOf(taken, index) \o InputOf(z, index)
    BY <1>4, <2>1, InputRules
  <2>7. /\ Says(provider, t, u) = Says(provider, script, taken) \o Piece(provider, t, ev)
        /\ \A index : InputOf(u, index) = InputOf(taken, index) \o InputIn(ev, index)
    BY <2>2, <2>4, <2>5, <2>6, <1>5
  <2> HIDE DEF x
  <2>8. \A i \in 1..Len(u) : i > Len(taken) => i = Len(taken) + 1 /\ u[i] = x
    BY <2>3, <1>4
  <2> QED BY <1>4, <1>8, <2>3, <2>7, <2>8 DEF t, u, x
<1> QED BY <1>7, <1>8

-----------------------------------------------------------------------------

\* A sequence precedes what it begins, also when more is added.
LEMMA PrefixGrows ==
  ASSUME NEW S, NEW a \in Seq(S), NEW b \in Seq(S), NEW c \in Seq(S)
  PROVE  IsPrefix(a, a \o b) /\ (IsPrefix(a, b) => IsPrefix(a, b \o c))
<1>1. /\ Len(a) \in Nat /\ Len(b) \in Nat /\ Len(c) \in Nat
      /\ Len(a \o b) = Len(a) + Len(b) /\ Len(b \o c) = Len(b) + Len(c)
      /\ a \o b \in Seq(S) /\ b \o c \in Seq(S)
      /\ \A i \in 1..Len(a) : (a \o b)[i] = a[i]
      /\ \A i \in 1..Len(b) : (b \o c)[i] = b[i]
  BY LenProperties, ConcatProperties
<1> DEFINE ab == a \o b
           bc == b \o c
<1> HIDE DEF ab, bc
<1>2. SubSeq(a, 1, Len(a)) = SubSeq(ab, 1, Len(a)) /\ Len(a) =< Len(ab)
  BY <1>1 DEF ab
<1>3. ASSUME IsPrefix(a, b) PROVE IsPrefix(a, bc)
  <2>1. Len(a) =< Len(b) /\ SubSeq(a, 1, Len(a)) = SubSeq(b, 1, Len(a))
    BY <1>3 DEF IsPrefix
  <2>2. SubSeq(b, 1, Len(a)) = SubSeq(bc, 1, Len(a)) /\ Len(a) =< Len(bc)
    BY <1>1, <2>1 DEF bc
  <2> QED BY <2>1, <2>2 DEF IsPrefix
<1> QED BY <1>2, <1>3 DEF IsPrefix, ab, bc

\* What the parts of AnswerInv say is content.
LEMMA SayTypes ==
  ASSUME TypeOK, Numbered(client.messages)
  PROVE  /\ sent \in Seq(ResponseEvent) /\ taken \in Seq(Item) /\ taken \in Seq(AnyItem)
         /\ Len(sent) \in Nat /\ Len(taken) \in Nat /\ Len(frames) \in Nat
         /\ Shown \in Seq(Content) /\ Answer \in Seq(Content)
         /\ EventsSay(sent) \in Seq(Content)
         /\ FramesSay(frames) \in Seq(Content)
         /\ Says(provider, script, taken) \in Seq(Content)
<1>1. /\ sent \in Seq(ResponseEvent) /\ taken \in Seq(Item) /\ frames \in Seq(OzResponseFrame)
      /\ script \in Seq(SdkEvent)
  BY ConcatProperties DEF TypeOK, Option, sent, taken
<1>2. taken \in Seq(AnyItem) /\ script \in Seq(AnyItem)
  BY <1>1, ItemsType
<1>3. Shown \in Seq(Content)
  <2>1. PICK n \in Nat : DOMAIN client.messages = 1..n
    BY NumberedHas
  <2>2. \A id \in 1..n : client.messages[id] \in Message
    BY <2>1 DEF TypeOK, IsClient
  <2>3. Shown = FlattenSeq(Bodies(client.messages, n))
    BY <2>1, NumberedIs DEF Shown
  <2>4. Bodies(client.messages, n) \in Seq(Seq(Content))
    BY <2>2, BodiesType
  <2> QED BY <2>3, <2>4, FlattenType
<1>4. Answer \in Seq(Content) /\ Says(provider, script, taken) \in Seq(Content)
  BY <1>1, <1>2, SaysRules DEF Answer
<1>5. EventsSay(sent) \in Seq(Content) /\ FramesSay(frames) \in Seq(Content)
  BY <1>1, EventsSayRules, FramesSayRules
<1> QED BY <1>1, <1>2, <1>3, <1>4, <1>5, LenProperties

\* An event received becomes an item, and joins the answer if it says something.
LEMMA DrainRecvStep ==
  ASSUME AnswerInv, DrainRecv
  PROVE  AnswerInv'
<1>1. /\ FailureInv /\ TypeOK /\ ErrorComesLast /\ Upstream /\ Numbered(client.messages)
      /\ IsPrefix(Shown, Answer) /\ Concluded
      /\ drain = "run" /\ held = <<>>
  BY DEF AnswerInv, FailureInv, ClientInv, DrainRecv
<1>2. PICK ev \in Offers(provider, producer) :
        /\ producer' = After(producer, ev)
        /\ script' = Append(script, ev)
        /\ held' = IF Skipped(ev) THEN <<>> ELSE <<TranslateOutputEvent(ev)>>
  BY DEF DrainRecv
<1>3. /\ handler' = handler /\ provider' = provider /\ failed' = failed /\ drain' = drain
      /\ bedrock_stream' = bedrock_stream /\ blocks' = blocks /\ adapter' = adapter
      /\ frames' = frames /\ events' = events /\ body_stream' = body_stream
      /\ body' = body /\ client' = client
  BY DEF DrainRecv, pumpVars, bodyVars
<1>4. FailureInv'
  BY <1>1, FailureStep DEF Next, Drain
<1>5. Upstream'
  BY <1>1, <1>2, <1>3, UpstreamGrows
<1> DEFINE s == script'
           p == producer'
           say == Piece(provider, s, ev)
<1>6. /\ ev \in SdkEvent /\ ev \in AnyItem /\ script \in Seq(SdkEvent) /\ s \in Seq(SdkEvent)
      /\ provider \in Providers /\ producer \in Producer /\ p \in Producer
      /\ provider = "mock" /\ ev.type = "block_start" => ev.start \in BlockKind
      /\ producer.phase # "open" => producer.block = "none"
      /\ say \in Seq(Content)
  BY <1>1, <1>2, OffersType, AppendProperties, PieceType DEF TypeOK, AnyItem, Upstream, OpenFits
<1>7. /\ Answer' = Answer \o say
      /\ \A index \in 0..producer.index :
           (producer.block = "none" => index < producer.index) =>
             \A kind : KindFits(provider, s, index, kind) <=> KindFits(provider, script, index, kind)
  BY <1>1, <1>2, <1>3, AnswerGrows
<1>8. Shown' = Shown /\ Numbered(client'.messages)
  BY <1>1, <1>3 DEF Shown
<1>9. IsPrefix(Shown', Answer')
  BY <1>1, <1>6, <1>7, <1>8, SayTypes, PrefixGrows
<1>10. \A reason : Honest(script, failed, reason) => Honest(s, failed, reason)
  BY <1>2, <1>6, HonestGrows
<1>11. ASSUME Closed
       PROVE  Closed' /\ say = <<>> /\ ev.type \in {"metadata", "unknown"}
  <2>1. producer.phase = "stopped"
    BY <1>1, <1>11 DEF Closed
  <2>2. ev.type \in {"metadata", "unknown"}
    BY <2>1, <1>6, OffersFit DEF OfBlock
  <2>3. p.phase = "stopped"
    BY <2>1, <2>2, <1>2, <1>6 DEF After, Producer
  <2> QED BY <2>2, <2>3 DEF Closed, Piece
<1>12. Concluded'
  <2> SUFFICES ASSUME NEW i \in 1..Len(client.finished)
               PROVE  Closed' /\ Shown' = Answer' /\ Honest(s, failed, client.finished[i].reason)
    BY <1>3 DEF Concluded
  <2>1. Closed /\ Shown = Answer /\ Honest(script, failed, client.finished[i].reason)
    BY <1>1 DEF Concluded
  <2>2. Answer \o <<>> = Answer
    BY <1>1, SayTypes, ConcatEmptySeq
  <2> QED BY <2>1, <2>2, <1>7, <1>8, <1>10, <1>11
<1>13. ASSUME body # "dropped" PROVE Underway'
  <2> DEFINE x == TranslateOutputEvent(ev)
             t == taken'
             n == Len(taken)
  <2>1. Underway /\ InOrder /\ \A i \in 1..n : Behind(producer, taken[i])
    BY <1>1, <1>13 DEF AnswerInv, Underway, InOrder
  <2>2. /\ taken \in Seq(Item) /\ t \in Seq(Item) /\ n \in Nat /\ Len(t) \in Nat /\ n =< Len(t)
        /\ \A i \in 1..n : t[i] = taken[i]
        /\ \A i \in 1..Len(t) : i > n => i = n + 1 /\ t[i] = x /\ ~Skipped(ev)
        /\ ~Skipped(ev) => Len(t) = n + 1 /\ t[n + 1] = x
        /\ \A index : InputOf(t, index) = InputOf(taken, index) \o InputIn(ev, index)
        /\ Says(provider, s, t) = Says(provider, script, taken) \o say
    BY <1>1, <1>2, <1>3, <2>1, Received
  <2>3. /\ x.type = ev.type
        /\ OfBlock(ev) => x.index = ev.index
        /\ ev.type = "block_start" => x.kind = StartKind(ev) /\ x.id = ev.id
        /\ ev.type = "delta" => x.delta = ev.delta
        /\ ev.type = "message_stop" => x.reason = ev.reason
    BY <1>6, Translated
  <2>4. \A i \in 1..n : OfBlock(taken[i]) => taken[i].index \in 0..producer.index
          /\ (producer.block = "none" => taken[i].index < producer.index)
          /\ (taken[i].type = "block_stop" => taken[i].index < producer.index)
    <3>1. \A i \in 1..n : taken[i] \in Item
      BY <2>2, ElementOfSeq
    <3>2. producer.index \in Nat
      BY <1>6 DEF Producer
    <3> QED BY <2>1, <3>1, <3>2 DEF Behind, OfBlock, Item, BedrockEvent, StreamErr
  <2>5. /\ OfBlock(ev) => ev.index = producer.index /\ producer.phase = "open"
        /\ ev.type = "block_start" =>
             /\ producer.block = "none" /\ ev.id = ev.index
             /\ IF provider = "mock" THEN ev.start \in BlockKind ELSE ev.start \in {"tool_use", "none"}
        /\ ev.type = "delta" =>
             /\ ev.delta \in DeltasOf(provider, producer.block)
             /\ provider = "mock" => producer.block # "none"
        /\ ev.type = "block_stop" => producer.block # "none"
        /\ ev.type = "message_stop" => producer.phase = "open" /\ producer.block = "none"
    BY <1>6, OffersFit
  <2> HIDE DEF t, n, x, s, p, say
  <2>6. InOrder'
    <3>1. \A i \in 1..Len(t) : Behind(p, t[i])
      <4>1. ASSUME NEW i \in 1..n PROVE Behind(p, taken[i])
        BY <1>2, <1>6, <2>1, <2>4, <4>1, BehindGrows DEF p
      <4>2. Behind(p, x)
        BY <1>2, <1>6, <2>3, BehindGrows DEF p, Behind, OfBlock
      <4> QED BY <2>2, <4>1, <4>2
    <3>2. ASSUME NEW i \in 1..Len(t), NEW j \in 1..Len(t), i < j, OfBlock(t[i]), OfBlock(t[j])
          PROVE  /\ t[i].index =< t[j].index
                 /\ t[i].type = "block_stop" \/ t[j].type = "block_start" => t[i].index < t[j].index
      <4>1. i \in 1..n /\ t[i] = taken[i]
        BY <2>2, <3>2
      <4>2. CASE j > n
        <5>1. t[j] = x /\ OfBlock(ev)
          BY <2>2, <2>3, <3>2, <4>2 DEF OfBlock
        <5> QED BY <4>1, <5>1, <3>2, <2>3, <2>4, <2>5
      <4>3. CASE ~(j > n)
        <5>1. j \in 1..n /\ t[j] = taken[j]
          BY <2>2, <4>3
        <5> QED BY <4>1, <5>1, <3>2, <2>1 DEF InOrder, n
      <4> QED BY <4>2, <4>3
    <3> QED BY <3>1, <3>2 DEF InOrder, t, p
  <2>7. Delivered'
    <3>1. /\ \A index : InputOf(s, index) = InputOf(script, index) \o InputIn(ev, index)
          /\ \A index, kind : Starts(s, index, kind) <=>
               \/ Starts(script, index, kind)
               \/ ev.type = "block_start" /\ ev.index = index /\ ev.start = kind
      BY <1>2, <1>6, Grown DEF s
    <3>2. \A i \in 1..n : StartFits(taken[i]) /\ DeltaFits(taken[i]) /\ StartedBefore(i)
      BY <2>1 DEF Underway, Delivered, n
    <3>3. \A i \in 1..n : taken[i].type \in {"block_start", "delta", "block_stop"} =>
            \A kind : KindFits(provider, s, taken[i].index, kind)
                      <=> KindFits(provider, script, taken[i].index, kind)
      BY <2>4, <1>7 DEF OfBlock
    <3>4. OpenFits
      BY <1>1 DEF Upstream
    <3>5. ev.type = "block_start" =>
            /\ InputOf(script, ev.index) = <<>> /\ InputOf(taken, ev.index) = <<>>
            /\ \A kind : ~Starts(script, ev.index, kind)
      <4> SUFFICES ASSUME ev.type = "block_start"
                   PROVE  /\ InputOf(script, ev.index) = <<>> /\ InputOf(taken, ev.index) = <<>>
                          /\ \A kind : ~Starts(script, ev.index, kind)
        OBVIOUS
      <4>1. ev.index = producer.index /\ producer.block = "none"
        BY <2>5 DEF OfBlock
      <4>2. InputOf(script, ev.index) = <<>> /\ \A kind : ~Starts(script, ev.index, kind)
        BY <1>1, <4>1, NothingYet
      <4>3. \A i \in 1..Len(taken) : OfBlock(taken[i]) => taken[i].index # ev.index
        BY <2>4, <4>1, <1>6 DEF n, Producer
      <4>4. taken \in Seq(AnyItem)
        BY <2>2, ItemsType
      <4> QED BY <4>2, <4>3, <4>4, NothingOf
    <3>6. ASSUME NEW i \in 1..Len(t), t[i].type = "block_start"
          PROVE  /\ t[i].id = t[i].index
                 /\ KindFits(provider, s, t[i].index, t[i].kind)
                 /\ InputOf(t, t[i].index) = InputOf(s, t[i].index)
      <4>1. CASE i > n
        <5>1. t[i] = x /\ ev.type = "block_start"
          BY <2>2, <2>3, <3>6, <4>1
        <5>2. x.id = x.index /\ x.index = ev.index /\ x.kind = StartKind(ev)
          BY <5>1, <2>3, <2>5 DEF OfBlock
        <5>3. KindFits(provider, s, ev.index, StartKind(ev))
          BY <5>1, <2>5, <3>1, <3>5, <1>6
             DEF KindFits, IsTool, IsReasoning, StartKind, Providers, BlockKind
        <5>4. InputOf(t, ev.index) = InputOf(s, ev.index)
          BY <5>1, <2>2, <3>1, <3>5
        <5> QED BY <5>1, <5>2, <5>3, <5>4
      <4>2. CASE ~(i > n)
        <5>1. i \in 1..n /\ t[i] = taken[i]
          BY <2>2, <4>2
        <5>2. /\ taken[i].id = taken[i].index
              /\ KindFits(provider, script, taken[i].index, taken[i].kind)
              /\ InputOf(taken, taken[i].index) = InputOf(script, taken[i].index)
          BY <5>1, <3>2, <3>6 DEF StartFits
        <5>3. KindFits(provider, s, taken[i].index, taken[i].kind)
          BY <5>1, <5>2, <3>3, <3>6
        <5>4. InputOf(t, taken[i].index) = InputOf(s, taken[i].index)
          BY <5>2, <3>1, <2>2
        <5> QED BY <5>1, <5>2, <5>3, <5>4
      <4> QED BY <4>1, <4>2
    <3>7. ASSUME NEW i \in 1..Len(t), t[i].type = "delta"
          PROVE  /\ t[i].delta = "text_delta" => KindFits(provider, s, t[i].index, "text")
                 /\ t[i].delta = "thinking_delta" /\ provider = "mock" =>
                      KindFits(provider, s, t[i].index, "thinking")
                 /\ t[i].delta = "input_json_delta" => KindFits(provider, s, t[i].index, "tool_use")
      <4>1. CASE i > n
        <5>1. t[i] = x /\ ev.type = "delta"
          BY <2>2, <2>3, <3>7, <4>1
        <5>2. x.index = ev.index /\ x.delta = ev.delta /\ ev.index = producer.index
          BY <5>1, <2>3, <2>5 DEF OfBlock
        <5>3. \A kind : Starts(s, producer.index, kind) <=> Starts(script, producer.index, kind)
          BY <5>1, <3>1
        <5>4. /\ ev.delta = "text_delta" => KindFits(provider, s, producer.index, "text")
              /\ ev.delta = "thinking_delta" /\ provider = "mock" =>
                   KindFits(provider, s, producer.index, "thinking")
              /\ ev.delta = "input_json_delta" => KindFits(provider, s, producer.index, "tool_use")
          BY <5>1, <5>3, <2>5, <3>4, <1>6
             DEF KindFits, IsTool, IsReasoning, OpenFits, DeltasOf, Providers, OpenBlock, BlockKind, Producer
        <5> QED BY <5>1, <5>2, <5>4
      <4>2. CASE ~(i > n)
        <5>1. i \in 1..n /\ t[i] = taken[i]
          BY <2>2, <4>2
        <5> QED BY <5>1, <3>2, <3>3, <3>7 DEF DeltaFits
      <4> QED BY <4>1, <4>2
    <3>8. \/ KindFits(provider, script, producer.index, "text")
          \/ producer.index \in DOMAIN blocks
          \/ \E j \in 1..n : taken[j].type = "block_start" /\ taken[j].index = producer.index
      BY <2>1 DEF Underway, Delivered, OpenStarted, n
    <3>9. ASSUME NEW i \in 1..Len(t), t[i].type \in {"delta", "block_stop"}
          PROVE  \/ KindFits(provider, s, t[i].index, "text")
                 \/ t[i].index \in DOMAIN blocks
                 \/ \E j \in 1..(i - 1) : t[j].type = "block_start" /\ t[j].index = t[i].index
      <4>1. CASE i > n
        <5>1. t[i] = x /\ ev.type \in {"delta", "block_stop"} /\ i = n + 1
          BY <2>2, <2>3, <3>9, <4>1
        <5>2. x.index = producer.index
          BY <5>1, <2>3, <2>5 DEF OfBlock
        <5>3. KindFits(provider, s, producer.index, "text") <=> KindFits(provider, script, producer.index, "text")
          BY <5>1, <3>1 DEF KindFits, IsTool, IsReasoning
        <5> QED BY <5>1, <5>2, <5>3, <3>8, <2>2
      <4>2. CASE ~(i > n)
        <5>1. i \in 1..n /\ t[i] = taken[i] /\ \A j \in 1..(i - 1) : t[j] = taken[j]
          BY <2>2, <4>2
        <5>2. \/ KindFits(provider, script, taken[i].index, "text")
              \/ taken[i].index \in DOMAIN blocks
              \/ \E j \in 1..(i - 1) :
                   taken[j].type = "block_start" /\ taken[j].index = taken[i].index
          BY <5>1, <3>2, <3>9 DEF StartedBefore
        <5> QED BY <5>1, <5>2, <3>3, <3>9
      <4> QED BY <4>1, <4>2
    <3>10. \/ KindFits(provider, s, p.index, "text")
           \/ p.index \in DOMAIN blocks
           \/ \E j \in 1..Len(t) : t[j].type = "block_start" /\ t[j].index = p.index
      <4>1. /\ producer.index \in Nat
            /\ p.index = IF ev.type = "block_stop" THEN producer.index + 1 ELSE producer.index
        BY <1>2, <1>6 DEF After, Producer, p
      <4>2. CASE ev.type = "block_start"
        <5>1. ~Skipped(ev)
          BY <4>2 DEF Skipped
        <5>2. n + 1 \in 1..Len(t) /\ t[n + 1].type = "block_start" /\ t[n + 1].index = p.index
          BY <4>1, <4>2, <5>1, <2>2, <2>3, <2>5 DEF OfBlock
        <5> QED BY <5>2
      <4>3. CASE ev.type = "block_stop"
        <5>1. \A kind : ~Starts(script, p.index, kind)
          BY <1>1, <4>1, <4>3, NothingYet
        <5>2. \A kind : ~Starts(s, p.index, kind)
          BY <5>1, <4>3, <3>1
        <5> QED BY <5>2 DEF KindFits, IsTool, IsReasoning
      <4>4. CASE ev.type \notin {"block_start", "block_stop"}
        <5>1. p.index = producer.index /\ \A j \in 1..n : j \in 1..Len(t) /\ t[j] = taken[j]
          BY <4>1, <4>4, <2>2
        <5>2. KindFits(provider, s, producer.index, "text") <=> KindFits(provider, script, producer.index, "text")
          BY <4>4, <3>1 DEF KindFits, IsTool, IsReasoning
        <5> QED BY <5>1, <5>2, <3>8
      <4> QED BY <4>2, <4>3, <4>4
    <3> QED BY <3>6, <3>7, <3>9, <3>10, <1>3
            DEF Delivered, StartFits, DeltaFits, StartedBefore, OpenStarted, s, t, p
  <2>8. Assembled'
    <3> SUFFICES ASSUME NEW index \in DOMAIN blocks
                 PROVE  /\ index =< p.index
                        /\ p.block = "none" => index < p.index
                        /\ KindFits(provider, s, index, blocks[index].kind)
                        /\ blocks[index].kind = "tool_use" =>
                             /\ blocks[index].id = index
                             /\ blocks[index].json \o InputOf(t, index) = InputOf(s, index)
      BY <1>3 DEF Assembled, s, t, p
    <3>1. /\ index =< producer.index
          /\ producer.block = "none" => index < producer.index
          /\ KindFits(provider, script, index, blocks[index].kind)
          /\ blocks[index].kind = "tool_use" =>
               /\ blocks[index].id = index
               /\ blocks[index].json \o InputOf(taken, index) = InputOf(script, index)
      BY <2>1 DEF Underway, Assembled
    <3>2. index \in Nat /\ blocks[index] \in BlockState /\ producer.index \in Nat
      BY <1>1, <1>6 DEF TypeOK, IsBlocks, Producer
    <3>3. KindFits(provider, s, index, blocks[index].kind)
      BY <3>1, <3>2, <1>7
    <3>4. /\ p.index = IF ev.type = "block_stop" THEN producer.index + 1 ELSE producer.index
          /\ p.block = "none" => ev.type = "block_stop" \/ producer.block = "none"
      BY <1>2, <1>6, OffersFit DEF After, Producer, BlockOfDelta, p
    <3>5. blocks[index].kind = "tool_use" =>
            blocks[index].json \o InputOf(t, index) = InputOf(s, index)
      <4>1. InputOf(s, index) = InputOf(script, index) \o InputIn(ev, index)
        BY <1>2, <1>6, Grown DEF s
      <4>2. /\ blocks[index].json \in Seq(Chunk) /\ InputOf(taken, index) \in Seq(Chunk)
            /\ InputIn(ev, index) \in Seq(Chunk)
        <5>1. InputIn(ev, index) \in Seq(Chunk)
          BY <1>6 DEF InputIn, SdkEvent
        <5>2. taken \in Seq(AnyItem)
          BY <2>2, ItemsType
        <5> QED BY <5>1, <5>2, <3>2, InputRules DEF BlockState
      <4> DEFINE j == blocks[index].json
                 o == InputOf(taken, index)
                 i == InputIn(ev, index)
      <4>3. j \in Seq(Chunk) /\ o \in Seq(Chunk) /\ i \in Seq(Chunk)
        BY <4>2
      <4> HIDE DEF j, o, i
      <4>4. (j \o o) \o i = j \o (o \o i)
        BY <4>3, SMTT(60)
      <4> QED BY <4>1, <4>4, <3>1, <2>2 DEF j, o, i
    <3> QED BY <3>1, <3>2, <3>3, <3>4, <3>5
  <2>9. AppendsLast(DOMAIN client.messages, sent, adapter.message_id)' /\ OneAtATime'
    BY <2>1, <1>3 DEF Underway, OneAtATime, sent
  <2>10. ItemsConclude'
    <3> SUFFICES ASSUME NEW i \in 1..Len(t), t[i].type \in {"message_stop", "err"}
                 PROVE  /\ Closed'
                        /\ Honest(s, failed, FinishReason(EventOf(t[i]).reason))
                        /\ \A j \in (i + 1)..Len(t) : t[j].type \in {"metadata", "err"}
      BY <1>3 DEF ItemsConclude, s, t
    <3>1. CASE i > n
      <4>1. t[i] = x /\ ev.type = "message_stop" /\ i = Len(t)
        <5>1. i = n + 1 /\ t[i] = x /\ x.type = ev.type /\ Len(t) = n + 1
          BY <2>2, <2>3, <3>1
        <5>2. ev.type # "err"
          BY <1>6 DEF SdkEvent
        <5> QED BY <5>1, <5>2
      <4>2. EventOf(x).reason = ev.reason
        BY <4>1, <2>3 DEF EventOf, StreamErr
      <4>3. \A j \in 1..Len(script) : script[j].type # "message_stop"
        BY <1>1, <2>5, <4>1 DEF Upstream, StopsOnce
      <4>4. Honest(s, failed, FinishReason(ev.reason))
        BY <1>2, <1>6, <4>1, <4>3, HonestGrows DEF s
      <4>5. Closed'
        BY <1>2, <1>6, <4>1 DEF After, Producer, Closed
      <4> QED BY <4>1, <4>2, <4>4, <4>5, <2>2
    <3>2. CASE ~(i > n)
      <4>1. i \in 1..n /\ t[i] = taken[i]
        BY <2>2, <3>2
      <4>2. /\ Closed /\ Honest(script, failed, FinishReason(EventOf(taken[i]).reason))
            /\ \A j \in (i + 1)..n : taken[j].type \in {"metadata", "err"}
        BY <4>1, <2>1 DEF Underway, ItemsConclude, n
      <4>3. Closed' /\ ev.type \in {"metadata", "unknown"}
        BY <4>2, <1>11
      <4>4. ASSUME NEW j \in (i + 1)..Len(t) PROVE t[j].type \in {"metadata", "err"}
        <5>1. CASE j > n
          <6>1. t[j] = x /\ ~Skipped(ev) /\ x.type = ev.type
            BY <5>1, <2>2, <2>3, <4>4
          <6> QED BY <6>1, <4>3 DEF Skipped
        <5>2. CASE ~(j > n)
          BY <5>2, <4>1, <4>2, <2>2, SMTT(60)
        <5> QED BY <5>1, <5>2
      <4> QED BY <4>1, <4>2, <4>3, <4>4, <1>10 DEF s
    <3> QED BY <3>1, <3>2
  <2>11. Closed => Says(provider, s, t) = Says(provider, script, taken)
    BY <1>1, <1>11, <2>2, SayTypes, ConcatEmptySeq DEF say, s
  <2>12. FramesConclude'
    BY <2>1, <2>11, <1>3, <1>10, <1>11 DEF Underway, FramesConclude, s, t
  <2>13. EventsConclude'
    BY <2>1, <2>11, <1>3, <1>10, <1>11 DEF Underway, EventsConclude, sent, s, t
  <2>14. Conserved'
    <3> DEFINE E == EventsSay(sent)
               F == FramesSay(frames)
               T == Says(provider, script, taken)
    <3>1. /\ E \in Seq(Content) /\ F \in Seq(Content) /\ T \in Seq(Content) /\ say \in Seq(Content)
          /\ Shown \in Seq(Content)
      BY <1>1, <1>6, SayTypes DEF say, s
    <3>2. /\ Answer = Shown \o (E \o (F \o T)) /\ Answer' = Answer \o say
          /\ Says(provider, s, t) = T \o say
      BY <2>1, <2>2, <1>7 DEF Underway, Conserved, say, s
    <3>3. Answer' = Shown \o (E \o (F \o (T \o say)))
      <4> DEFINE a == Shown
                 e == say
      <4>1. /\ a \in Seq(Content) /\ E \in Seq(Content) /\ F \in Seq(Content)
            /\ T \in Seq(Content) /\ e \in Seq(Content)
        BY <3>1
      <4> HIDE DEF E, F, T, a, e
      <4>2. Cat(F, T) \in Seq(Content)
        BY <4>1, CatType
      <4>3. Cat(Cat(a, Cat(E, Cat(F, T))), e) = Cat(a, Cat(E, Cat(F, Cat(T, e))))
        <5>1. Cat(Cat(a, Cat(E, Cat(F, T))), e) = Cat(a, Cat(E, Cat(Cat(F, T), e)))
          BY <4>1, <4>2, CatRegroup
        <5>2. Cat(Cat(F, T), e) = Cat(F, Cat(T, e))
          BY <4>1, CatAssociative
        <5> QED BY <5>1, <5>2
      <4>4. (a \o (E \o (F \o T))) \o e = a \o (E \o (F \o (T \o e)))
        BY <4>3 DEF Cat
      <4> QED BY <3>2, <4>4 DEF a, e
    <3>4. EventsSay(sent)' = E /\ FramesSay(frames)' = F
      BY <1>3 DEF sent
    <3> QED BY <3>2, <3>3, <3>4, <1>3, <1>8 DEF Conserved, t, s
  <2> QED BY <2>6, <2>7, <2>8, <2>9, <2>10, <2>12, <2>13, <2>14 DEF Underway
<1> QED BY <1>3, <1>4, <1>5, <1>8, <1>9, <1>12, <1>13 DEF AnswerInv

\* A step that leaves everything that is said where it was, or moves it on unchanged.
LEMMA QuietStep ==
  ASSUME AnswerInv, FailureInv',
         UNCHANGED <<provider, producer, script, blocks, adapter, client>>,
         failed => failed', Closed => Closed',
         body' # "dropped" =>
           body # "dropped" /\ taken' = taken /\ sent' = sent /\ frames' = frames /\ OneAtATime'
  PROVE  AnswerInv'
<1>1. /\ provider' = provider /\ producer' = producer /\ script' = script /\ blocks' = blocks
      /\ adapter' = adapter /\ client' = client
  OBVIOUS
<1>2. \A reason : Honest(script, failed, reason) => Honest(script, failed', reason)
  BY DEF Honest
<1>3. Upstream' /\ Numbered(client.messages)' /\ IsPrefix(Shown, Answer)'
  BY <1>1 DEF AnswerInv, Upstream, OpenFits, InputEnds, StopsOnce, Shown, Answer
<1>4. Shown' = Shown /\ Answer' = Answer
  BY <1>1 DEF Shown, Answer
<1>5. Concluded'
  BY <1>1, <1>2, <1>4 DEF AnswerInv, Concluded
<1>6. ASSUME body' # "dropped" PROVE Underway'
  <2>1. Underway /\ taken' = taken /\ sent' = sent /\ frames' = frames /\ OneAtATime'
    BY <1>6 DEF AnswerInv
  <2>2. InOrder' /\ Assembled'
    BY <1>1, <2>1 DEF Underway, InOrder, Assembled
  <2>3. Delivered'
    BY <1>1, <2>1 DEF Underway, Delivered, StartFits, DeltaFits, StartedBefore, OpenStarted
  <2>4. AppendsLast(DOMAIN client.messages, sent, adapter.message_id)'
    BY <1>1, <2>1 DEF Underway
  <2>5. ItemsConclude'
    BY <1>1, <1>2, <2>1 DEF Underway, ItemsConclude
  <2>6. FramesConclude' /\ EventsConclude'
    BY <1>1, <1>2, <2>1 DEF Underway, FramesConclude, EventsConclude
  <2>7. Conserved'
    BY <1>1, <1>4, <2>1 DEF Underway, Conserved
  <2> QED BY <2>1, <2>2, <2>3, <2>4, <2>5, <2>6, <2>7 DEF Underway
<1> QED BY <1>3, <1>5, <1>6 DEF AnswerInv

\* The handler's steps preserve AnswerInv.
LEMMA HandleStep == ASSUME AnswerInv, Handle PROVE AnswerInv'
<1>1. FailureInv'
  BY FailureStep DEF AnswerInv, Next
<1>2. drain = "done" => drain' = "done"
  BY DEF Handle, ReadRequest, RejectRequest, CancelRequest, Dispatch, Respond, drainVars,
         AnswerInv, FailureInv, ErrorComesLast
<1>3. /\ UNCHANGED <<provider, producer, script, failed, held, bedrock_stream, synth, blocks, adapter,
                   frames, events, body_stream, client>>
      /\ body' # "dropped" => body # "dropped"
  BY DEF Handle, ReadRequest, RejectRequest, CancelRequest, Dispatch, Respond, drainVars,
         pumpVars, bodyVars, AnswerInv, FailureInv, ClientInv
<1>4. /\ Closed => Closed'
      /\ taken' = taken /\ sent' = sent
  BY <1>2, <1>3 DEF Closed, taken, sent
<1>5. body # "dropped" => OneAtATime'
  BY <1>3, <1>4 DEF AnswerInv, Underway, OneAtATime
<1> QED BY <1>1, <1>3, <1>4, <1>5, QuietStep

\* The drain task reaches the end of the stream.
LEMMA DrainEofStep == ASSUME AnswerInv, DrainEof PROVE AnswerInv'
<1>1. FailureInv'
  BY FailureStep DEF AnswerInv, Next, Drain
<1>2. UNCHANGED <<provider, producer, script, failed, held, bedrock_stream, blocks, adapter,
                  frames, events, body_stream, body, client>> /\ drain' = "done"
  BY DEF DrainEof, pumpVars, bodyVars
<1>3. Closed' /\ taken' = taken /\ sent' = sent
  BY <1>2 DEF Closed, taken, sent
<1>4. body # "dropped" => OneAtATime'
  BY <1>2, <1>3 DEF AnswerInv, Underway, OneAtATime
<1> QED BY <1>1, <1>2, <1>3, <1>4, QuietStep

\* The item held is queued, or given up with the rest once the client has left.
LEMMA DrainSendStep == ASSUME AnswerInv, DrainSend PROVE AnswerInv'
<1>1. FailureInv'
  BY FailureStep DEF AnswerInv, Next, Drain
<1>2. /\ UNCHANGED <<provider, producer, script, failed, blocks, adapter, frames, events,
                     body_stream, body, client>>
      /\ held # <<>> /\ held' = <<>> /\ (held = <<StreamErr>> => drain' = "done")
  BY DEF DrainSend, pumpVars, bodyVars
<1>3. /\ held # <<>> => drain = "run"
      /\ pump = "done" /\ body # "dropped" => drain = "done"
      /\ held \in Option(Item) /\ bedrock_stream \in Seq(Item)
  BY DEF AnswerInv, FailureInv, ClientInv, ErrorComesLast, EndsInOrder, TypeOK
<1>4. Closed => Closed'
  BY <1>2, <1>3 DEF Closed
<1>5. ASSUME body # "dropped" PROVE taken' = taken
  <2>1. bedrock_stream' = Append(bedrock_stream, held[1])
    BY <1>2, <1>3, <1>5 DEF DrainSend
  <2>2. held \in Seq(Item) /\ Len(held) =< 1
    BY <1>3 DEF Option
  <2>3. held = <<held[1]>> /\ held[1] \in Item
    <3>1. Len(held) = 1 /\ held[1] \in Item
      BY <1>2, <2>2, EmptySeq, LenProperties, ElementOfSeq
    <3> QED BY <3>1, <2>2
  <2> DEFINE h == held[1]
  <2> HIDE DEF h
  <2>4. Append(bedrock_stream, h) \o <<>> = bedrock_stream \o <<h>>
    BY <1>3, <2>3 DEF h
  <2> QED BY <1>2, <2>1, <2>3, <2>4 DEF taken, h
<1>6. sent' = sent
  BY <1>2 DEF sent
<1>7. body # "dropped" => OneAtATime'
  BY <1>2, <1>6 DEF AnswerInv, Underway, OneAtATime
<1> QED BY <1>1, <1>2, <1>4, <1>5, <1>6, <1>7, QuietStep

\* The client leaves, or the body ends.
LEMMA BodyGoneStep == ASSUME AnswerInv, BodyEnd \/ ClientDrop PROVE AnswerInv'
<1>1. FailureInv'
  BY FailureStep DEF AnswerInv, Next, Body
<1>2. /\ UNCHANGED <<provider, producer, script, failed, drain, held, bedrock_stream, blocks,
                     adapter, frames, events, client>>
      /\ body' # "dropped" => body # "dropped" /\ body_stream' = body_stream
  BY DEF BodyEnd, ClientDrop, drainVars, pumpVars
<1>3. /\ Closed => Closed'
      /\ taken' = taken /\ (body' # "dropped" => sent' = sent)
  BY <1>2 DEF Closed, taken, sent
<1>4. body' # "dropped" => OneAtATime'
  BY <1>2, <1>3 DEF AnswerInv, Underway, OneAtATime
<1> QED BY <1>1, <1>2, <1>3, <1>4, QuietStep

\* The pump hands an event to the body, goes back to its loop, or returns.
LEMMA PumpQuietStep ==
  ASSUME AnswerInv, PumpSend \/ PumpAbort \/ PumpContinue \/ PumpBreak \/ PumpEnd
  PROVE  AnswerInv'
<1>1. FailureInv'
  BY FailureStep DEF AnswerInv, Next, PumpStream
<1>2. UNCHANGED <<provider, producer, script, failed, drain, held, blocks, adapter, body, client>>
  BY DEF PumpSend, PumpAbort, PumpContinue, PumpBreak, PumpEnd, PumpReturns, drainVars, bodyVars
<1>3. /\ events \in Seq(ResponseEvent) /\ body_stream \in Seq(ResponseEvent)
      /\ frames \in Seq(OzResponseFrame)
      /\ synth => bedrock_stream = <<>>
      /\ pump # "flush" => frames = <<>> /\ events = <<>>
  BY DEF AnswerInv, FailureInv, ClientInv, ErrorComesLast, TypeOK
<1>4. Closed => Closed'
  BY <1>2 DEF Closed
<1>5. ASSUME body # "dropped" PROVE taken' = taken /\ frames' = frames
  BY <1>3, <1>5 DEF PumpSend, PumpAbort, PumpContinue, PumpBreak, PumpEnd, PumpReturns, drainVars, taken
<1>6. ASSUME body # "dropped" PROVE sent' = sent
  <2>1. CASE PumpSend
    <3>1. events # <<>> /\ body_stream' = Append(body_stream, Head(events)) /\ events' = Tail(events)
      BY <2>1 DEF PumpSend
    <3>2. Append(body_stream, Head(events)) \o Tail(events) = body_stream \o events
      BY <1>3, <3>1, MoveHead
    <3> QED BY <3>1, <3>2 DEF sent
  <2>2. CASE ~PumpSend
    BY <1>3, <1>6, <2>2 DEF PumpAbort, PumpContinue, PumpBreak, PumpEnd, PumpReturns, sent
  <2> QED BY <2>1, <2>2
<1>7. ASSUME body # "dropped" PROVE OneAtATime'
  <2>1. OneAtATime
    BY <1>7 DEF AnswerInv, Underway
  <2>2. CASE events' = events
    BY <2>1, <2>2, <1>5, <1>6, <1>7 DEF OneAtATime
  <2>3. CASE events # <<>> /\ events' = Tail(events)
    <3> DEFINE r == Tail(events)
               h == Head(events)
    <3>1. r \in Seq(ResponseEvent) /\ h \in ResponseEvent
      BY <1>3, <2>3, HeadTailProperties
    <3>2. EventsSay(events) = EventContent(h) \o EventsSay(r)
      BY <1>3, <2>3, EventsSayRules
    <3>3. EventContent(h) \in Seq(Content) /\ EventsSay(r) \in Seq(Content)
      BY <3>1, EventsSayRules, EventReadingType DEF EventReading, Reading
    <3>4. FramesSay(frames) \in Seq(Content)
      BY <1>3, FramesSayRules
    <3> HIDE DEF r, h
    <3>5. Len(EventsSay(r)) =< Len(EventsSay(events)) /\ Len(FramesSay(frames)) \in Nat
          /\ Len(EventsSay(r)) \in Nat /\ Len(EventsSay(events)) \in Nat
      BY <3>2, <3>3, <3>4, ConcatProperties, LenProperties
    <3>6. Len(EventsSay(r)) + Len(FramesSay(frames)) =< 1
      BY <2>1, <3>5 DEF OneAtATime
    <3>7. events' = r /\ frames' = frames /\ sent' = sent
      BY <2>3, <1>5, <1>6, <1>7 DEF r
    <3> QED BY <2>1, <3>6, <3>7 DEF OneAtATime
  <2> QED BY <2>2, <2>3, <1>3, <1>7
          DEF PumpSend, PumpAbort, PumpContinue, PumpBreak, PumpEnd, PumpReturns
<1> QED BY <1>1, <1>2, <1>4, <1>5, <1>6, <1>7, QuietStep

\* An error joins what is on its way, says nothing, and closes the answer.
LEMMA DrainErrStep == ASSUME AnswerInv, DrainErr PROVE AnswerInv'
<1>1. /\ FailureInv /\ TypeOK /\ Upstream /\ Numbered(client.messages)
      /\ IsPrefix(Shown, Answer) /\ Concluded /\ held = <<>>
  BY DEF AnswerInv, FailureInv, ClientInv, DrainErr
<1>2. /\ UNCHANGED <<provider, producer, script, bedrock_stream, blocks, adapter, frames,
                     events, body_stream, body, client>>
      /\ failed' = TRUE /\ held' = <<StreamErr>>
  BY DEF DrainErr, pumpVars, bodyVars
<1>3. FailureInv'
  BY <1>1, FailureStep DEF Next, Drain
<1>4. Upstream' /\ Numbered(client.messages)' /\ IsPrefix(Shown, Answer)' /\ sent' = sent
  BY <1>1, <1>2 DEF Upstream, OpenFits, InputEnds, StopsOnce, Shown, Answer, sent
<1>5. Shown' = Shown /\ Answer' = Answer /\ Closed'
  BY <1>2 DEF Shown, Answer, Closed
<1>6. \A reason : Honest(script, failed, reason) => Honest(script, failed', reason)
  BY <1>2 DEF Honest
<1>7. Concluded'
  BY <1>1, <1>2, <1>5, <1>6 DEF Concluded
<1>8. ASSUME body # "dropped" PROVE Underway'
  <2> DEFINE t == taken'
             n == Len(taken)
             z == <<StreamErr>>
  <2>1. Underway
    BY <1>8 DEF AnswerInv
  <2>2. taken \in Seq(Item) /\ taken \in Seq(AnyItem) /\ n \in Nat /\ script \in Seq(SdkEvent)
    BY <1>1, SayTypes DEF TypeOK
  <2>3. t = taken \o z
    <3>1. taken = bedrock_stream
      BY <1>1, ConcatEmptySeq DEF TypeOK, taken
    <3> QED BY <3>1, <1>2 DEF taken
  <2>4. StreamErr \in Item /\ StreamErr \in AnyItem /\ z \in Seq(AnyItem)
    BY DEF Item, AnyItem
  <2>5. /\ Len(t) = n + 1 /\ \A i \in 1..n : t[i] = taken[i]
        /\ t[n + 1] = StreamErr
    <3> DEFINE x == StreamErr
    <3> HIDE DEF x, t
    <3> QED BY <2>2, <2>3, <2>4 DEF x
  <2>6. /\ \A index : InputOf(z, index) = <<>>
        /\ Says(provider, script, z) = <<>>
    <3>1. \A index : InputOf(z, index) = InputIn(StreamErr, index)
      BY <2>4, InputOfOne
    <3>2. Says(provider, script, z) = Piece(provider, script, StreamErr)
      BY <2>2, <2>4, SaysOf
    <3> QED BY <3>1, <3>2 DEF InputIn, Piece, StreamErr
  <2> HIDE DEF z, t
  <2>7. \A index : InputOf(t, index) = InputOf(taken, index)
    <3> SUFFICES ASSUME NEW index PROVE InputOf(t, index) = InputOf(taken, index)
      OBVIOUS
    <3>1. InputOf(taken \o z, index) = InputOf(taken, index) \o InputOf(z, index)
      BY <2>2, <2>4, InputRules
    <3>2. InputOf(taken, index) \in Seq(Chunk)
      BY <2>2, InputRules
    <3> QED BY <2>3, <2>6, <3>1, <3>2, ConcatEmptySeq
  <2>8. Says(provider, script, t) = Says(provider, script, taken)
    <3>1. Says(provider, script, taken \o z) = Says(provider, script, taken) \o Says(provider, script, z)
      BY <2>2, <2>4, SaysRules
    <3>2. Says(provider, script, taken) \in Seq(Content)
      BY <2>2, SaysRules
    <3> QED BY <2>3, <2>6, <3>1, <3>2, ConcatEmptySeq
  <2>9. /\ ~OfBlock(StreamErr) /\ StreamErr.type = "err"
        /\ FinishReason(EventOf(StreamErr).reason) = "Other"
    BY DEF OfBlock, StreamErr, EventOf, SynthStop, FinishReason
  <2>10. \A i \in 1..Len(t) : i \in 1..n \/ (i = n + 1 /\ t[i].type = "err" /\ ~OfBlock(t[i]))
    BY <2>2, <2>5, <2>9
  <2>11. InOrder'
    <3>1. \A i \in 1..Len(t) : Behind(producer, t[i])
      BY <2>1, <2>5, <2>10 DEF Underway, InOrder, Behind, n
    <3>2. \A i, j \in 1..Len(t) : i < j /\ OfBlock(t[i]) /\ OfBlock(t[j]) =>
            /\ t[i].index =< t[j].index
            /\ t[i].type = "block_stop" \/ t[j].type = "block_start" => t[i].index < t[j].index
      BY <2>1, <2>5, <2>10 DEF Underway, InOrder, n
    <3> QED BY <3>1, <3>2, <1>2 DEF InOrder, t
  <2>12. Delivered'
    <3>1. \A i \in 1..n : StartFits(taken[i]) /\ DeltaFits(taken[i]) /\ StartedBefore(i)
      BY <2>1 DEF Underway, Delivered, n
    <3>2. \A i \in 1..Len(t) : t[i].type = "block_start" =>
            /\ t[i].id = t[i].index
            /\ KindFits(provider, script, t[i].index, t[i].kind)
            /\ InputOf(t, t[i].index) = InputOf(script, t[i].index)
      BY <2>5, <2>7, <2>10, <3>1 DEF StartFits
    <3>3. \A i \in 1..Len(t) : t[i].type = "delta" =>
            /\ t[i].delta = "text_delta" => KindFits(provider, script, t[i].index, "text")
            /\ t[i].delta = "thinking_delta" /\ provider = "mock" =>
                 KindFits(provider, script, t[i].index, "thinking")
            /\ t[i].delta = "input_json_delta" => KindFits(provider, script, t[i].index, "tool_use")
      BY <2>5, <2>10, <3>1 DEF DeltaFits
    <3>4. ASSUME NEW i \in 1..Len(t), t[i].type \in {"delta", "block_stop"}
          PROVE  \/ KindFits(provider, script, t[i].index, "text")
                 \/ t[i].index \in DOMAIN blocks
                 \/ \E j \in 1..(i - 1) : t[j].type = "block_start" /\ t[j].index = t[i].index
      <4>1. i \in 1..n /\ t[i] = taken[i] /\ \A j \in 1..(i - 1) : t[j] = taken[j]
        BY <2>2, <2>5, <2>10, <3>4
      <4> QED BY <4>1, <3>1, <3>4 DEF StartedBefore
    <3>5. \/ KindFits(provider, script, producer.index, "text")
          \/ producer.index \in DOMAIN blocks
          \/ \E j \in 1..Len(t) : t[j].type = "block_start" /\ t[j].index = producer.index
      BY <2>1, <2>2, <2>5 DEF Underway, Delivered, OpenStarted, n
    <3> QED BY <3>2, <3>3, <3>4, <3>5, <1>2
            DEF Delivered, StartFits, DeltaFits, StartedBefore, OpenStarted, t
  <2>13. Assembled'
    BY <2>1, <2>7, <1>2 DEF Underway, Assembled, t
  <2>14. AppendsLast(DOMAIN client.messages, sent, adapter.message_id)' /\ OneAtATime'
    BY <2>1, <1>2, <1>4 DEF Underway, OneAtATime
  <2>15. ItemsConclude'
    <3> SUFFICES ASSUME NEW i \in 1..Len(t), t[i].type \in {"message_stop", "err"}
                 PROVE  /\ Honest(script, failed', FinishReason(EventOf(t[i]).reason))
                        /\ \A j \in (i + 1)..Len(t) : t[j].type \in {"metadata", "err"}
      BY <1>2, <1>5 DEF ItemsConclude, t
    <3>1. CASE i \in 1..n
      <4>1. t[i] = taken[i]
        BY <2>5, <3>1
      <4>2. /\ Honest(script, failed, FinishReason(EventOf(t[i]).reason))
            /\ \A j \in (i + 1)..n : taken[j].type \in {"metadata", "err"}
        BY <2>1, <3>1, <4>1 DEF Underway, ItemsConclude, n
      <4>3. \A j \in (i + 1)..Len(t) : t[j].type \in {"metadata", "err"}
        BY <2>2, <2>5, <2>10, <3>1, <4>2
      <4> QED BY <4>2, <4>3, <1>6
    <3>2. CASE i \notin 1..n
      <4>1. i = n + 1 /\ t[i] = StreamErr /\ i = Len(t)
        BY <2>5, <2>10, <3>2
      <4>2. Honest(script, failed', "Other")
        BY <1>2 DEF Honest
      <4> QED BY <4>1, <4>2, <2>2, <2>9
    <3> QED BY <3>1, <3>2
  <2>16. FramesConclude' /\ EventsConclude'
    BY <2>1, <2>8, <1>2, <1>4, <1>5, <1>6 DEF Underway, FramesConclude, EventsConclude, t
  <2>17. Conserved'
    BY <2>1, <2>8, <1>2, <1>4, <1>5 DEF Underway, Conserved, t
  <2> QED BY <2>11, <2>12, <2>13, <2>14, <2>15, <2>16, <2>17 DEF Underway
<1> QED BY <1>2, <1>3, <1>4, <1>7, <1>8 DEF AnswerInv

-----------------------------------------------------------------------------
(* The accumulator                                                         *)

\* What the proxy parses of a tool's input is what the reference reading takes for it.
LEMMA ParsedInput ==
  ASSUME NEW json \in Seq(Chunk), \A k \in 1..Len(json) : json[k].closes => k = Len(json)
  PROVE  ParseJson(json) = ToolInput(json)
<1>1. Len(json) \in Nat /\ (json # <<>> <=> Len(json) # 0)
  BY LenProperties, EmptySeq
<1>2. CASE \E k \in 1..Len(json) : json[k].closes
  <2>1. json # <<>> /\ \A i \in 1..Len(json) : json[i].closes <=> i = Len(json)
    BY <1>1, <1>2
  <2> QED BY <1>2, <2>1 DEF ParseJson, ToolInput
<1>3. CASE ~\E k \in 1..Len(json) : json[k].closes
  <2>1. json # <<>> => ~json[Len(json)].closes /\ Len(json) \in 1..Len(json)
    BY <1>1, <1>3
  <2> QED BY <1>3, <2>1 DEF ParseJson, ToolInput
<1> QED BY <1>2, <1>3

\* One frame that shows at most one piece, alone or before the frame of a block's stop.
LEMMA FramesSayShort ==
  ASSUME NEW f \in OzResponseFrame, Len(FrameContent(f)) =< 1
  PROVE  /\ FramesSay(<<f>>) = FrameContent(f)
         /\ \A i \in 1..Len(<<f>>) : Len(FrameContent(<<f>>[i])) =< 1
         /\ \A g \in OzResponseFrame : FrameContent(g) = <<>> =>
              /\ FramesSay(<<f, g>>) = FrameContent(f)
              /\ \A i \in 1..Len(<<f, g>>) : Len(FrameContent(<<f, g>>[i])) =< 1
<1>1. FramesSay(<<f>>) = FrameContent(f)
  BY FramesSayOf
<1>2. ASSUME NEW g \in OzResponseFrame, FrameContent(g) = <<>>
      PROVE  FramesSay(<<f, g>>) = FrameContent(f)
  <2> DEFINE q == <<f, g>>
             r == <<g>>
  <2>1. q \in Seq(OzResponseFrame) /\ q # <<>> /\ Head(q) = f /\ Tail(q) = r
    OBVIOUS
  <2>2. FramesSay(r) = <<>>
    BY <1>2, FramesSayOf
  <2>3. FrameContent(f) \in Seq(Content)
    BY FrameReadingType DEF FrameReading, Reading
  <2> HIDE DEF q, r
  <2>4. FramesSay(q) = FrameContent(f) \o <<>>
    BY <2>1, <2>2, FramesSayRules
  <2> QED BY <2>3, <2>4, ConcatEmptySeq DEF q
<1>3. \A i \in 1..Len(<<f>>) : Len(FrameContent(<<f>>[i])) =< 1
  OBVIOUS
<1>4. ASSUME NEW g \in OzResponseFrame, FrameContent(g) = <<>>, NEW i \in 1..Len(<<f, g>>)
      PROVE  Len(FrameContent(<<f, g>>[i])) =< 1
  <2>1. CASE i = 1
    BY <2>1
  <2>2. CASE i = 2
    <3>1. Len(FrameContent(g)) = 0
      BY <1>4
    <3> DEFINE c == FrameContent(g)
    <3> HIDE DEF c
    <3>2. <<f, g>>[2] = g
      OBVIOUS
    <3> QED BY <2>2, <3>1, <3>2
  <2> QED BY <1>4, <2>1, <2>2
<1> QED BY <1>1, <1>2, <1>3, <1>4

\* A delta of a type that its block accepts yields a frame that shows what the delta says.
LEMMA DeltaSays ==
  ASSUME NEW block \in BlockState, NEW ev \in Item, ev.type = "delta", provider \in Providers,
         KindFits(provider, script, ev.index, block.kind), DeltaFits(ev)
  PROVE  /\ FramesSay(DeltaFrames(block, ev)) = Piece(provider, script, ev)
         /\ \A i \in 1..Len(DeltaFrames(block, ev)) :
              /\ Len(FrameContent(DeltaFrames(block, ev)[i])) =< 1
              /\ DeltaFrames(block, ev)[i].type # "Done"
<1> DEFINE text == [type |-> "TextDelta", text |-> <<ev.chunk>>]
           think == [type |-> "ThinkingDelta", text |-> <<ev.chunk>>]
           sign == [type |-> "ThinkingDelta", text |-> <<>>]
           input == [type |-> "ToolUseInputDelta", index |-> ev.index]
           ds == DeltaFrames(block, ev)
           say == Piece(provider, script, ev)
<1>1. /\ ev.chunk \in Chunk /\ ev.index \in Nat /\ ev.delta \in DeltaType
  BY DEF Item, BedrockEvent, StreamErr
<1>2. /\ text \in OzResponseFrame /\ think \in OzResponseFrame
      /\ sign \in OzResponseFrame /\ input \in OzResponseFrame
  BY <1>1 DEF OzResponseFrame
<1>3. /\ FrameContent(text) = << [kind |-> "agent_output", chunk |-> ev.chunk] >>
      /\ FrameContent(think) = << [kind |-> "agent_reasoning", chunk |-> ev.chunk] >>
      /\ FrameContent(sign) = <<>> /\ FrameContent(input) = <<>>
  BY DEF FrameContent, HasContent, ContentOf, KindOf
<1>4. block.kind \in BlockKind
  BY DEF BlockState
<1>5. /\ ev.delta = "text_delta" => block.kind = "text"
      /\ ev.delta = "thinking_delta" => (block.kind = "thinking" <=> provider = "mock")
      /\ ev.delta = "input_json_delta" => block.kind = "tool_use"
  BY <1>1, <1>4 DEF KindFits, DeltaFits, BlockKind, IsReasoning
<1>6. CASE ds = <<text>> /\ ev.delta = "text_delta"
  <2>1. say = FrameContent(text)
    BY <1>3, <1>6 DEF Piece
  <2>3. Len(FrameContent(text)) =< 1
    <3> DEFINE c == [kind |-> "agent_output", chunk |-> ev.chunk]
    <3>1. c \in Content
      BY <1>1 DEF Content
    <3>2. FrameContent(text) \in {<<c>>, <<>>}
      BY <1>3
    <3> HIDE DEF c, text
    <3> QED BY <3>1, <3>2, AtMostOne
  <2> HIDE DEF say
  <2>2. text.type # "Done"
    OBVIOUS
  <2> HIDE DEF text, ds
  <2> QED BY <1>2, <1>6, <2>1, <2>2, <2>3, FramesSayShort DEF ds, say
<1>7. CASE ds = <<think>> /\ ev.delta = "thinking_delta" /\ provider = "mock"
  <2>1. say = FrameContent(think)
    BY <1>3, <1>7 DEF Piece
  <2>3. Len(FrameContent(think)) =< 1
    <3> DEFINE c == [kind |-> "agent_reasoning", chunk |-> ev.chunk]
    <3>1. c \in Content
      BY <1>1 DEF Content
    <3>2. FrameContent(think) \in {<<c>>, <<>>}
      BY <1>3
    <3> HIDE DEF c, think
    <3> QED BY <3>1, <3>2, AtMostOne
  <2>2. think.type # "Done"
    OBVIOUS
  <2> HIDE DEF think, ds, say
  <2> QED BY <1>2, <1>7, <2>1, <2>2, <2>3, FramesSayShort DEF ds, say
<1>8. CASE ds = <<sign>> /\ ev.delta = "signature_delta"
  <2>1. say = FrameContent(sign) /\ Len(FrameContent(sign)) =< 1
    BY <1>3, <1>8 DEF Piece
  <2>2. sign.type # "Done"
    OBVIOUS
  <2> HIDE DEF sign, ds, say
  <2> QED BY <1>2, <1>8, <2>1, <2>2, FramesSayShort DEF ds, say
<1>9. CASE ds = <<input>> /\ ev.delta = "input_json_delta"
  <2>1. say = FrameContent(input) /\ Len(FrameContent(input)) =< 1
    BY <1>3, <1>9 DEF Piece
  <2>2. input.type # "Done"
    OBVIOUS
  <2> HIDE DEF input, ds, say
  <2> QED BY <1>2, <1>9, <2>1, <2>2, FramesSayShort DEF ds, say
<1>10. CASE ds = <<>> /\ say = <<>>
  BY <1>10, FramesSayOf
<1>11. \/ ds = <<text>> /\ ev.delta = "text_delta"
       \/ ds = <<think>> /\ ev.delta = "thinking_delta" /\ provider = "mock"
       \/ ds = <<sign>> /\ ev.delta = "signature_delta"
       \/ ds = <<input>> /\ ev.delta = "input_json_delta"
       \/ ds = <<>> /\ say = <<>>
  BY <1>1, <1>4, <1>5 DEF DeltaFrames, Piece, DeltaType, BlockKind
<1> QED BY <1>6, <1>7, <1>8, <1>9, <1>10, <1>11

\* What the accumulator finds when it takes the first item.
LEMMA FirstFits ==
  ASSUME TypeOK, Upstream, Underway, taken # <<>>
  PROVE  LET x == Head(taken)
         IN  /\ x = taken[1] /\ x \in Item /\ x \in AnyItem
             /\ OfBlock(x) =>
                  /\ x.index \in 0..producer.index
                  /\ InputOf(script, x.index) \in Seq(Chunk)
             /\ x.type = "delta" =>
                  /\ BlockAt(blocks, x.index) \in BlockState
                  /\ KindFits(provider, script, x.index, BlockAt(blocks, x.index).kind)
                  /\ DeltaFits(x)
             /\ x.type = "block_stop" =>
                  /\ x.index \in DOMAIN blocks \/ KindFits(provider, script, x.index, "text")
                  /\ InputOf(taken, x.index) = <<>>
<1> DEFINE x == Head(taken)
<1>1. /\ taken \in Seq(Item) /\ taken \in Seq(AnyItem) /\ Len(taken) \in Nat \ {0}
      /\ script \in Seq(SdkEvent) /\ script \in Seq(AnyItem)
      /\ IsBlocks(blocks) /\ producer.index \in Nat
  <2>1. bedrock_stream \in Seq(Item) /\ held \in Seq(Item)
    BY DEF TypeOK, Option
  <2>2. taken \in Seq(Item)
    BY <2>1, ConcatProperties DEF taken
  <2> QED BY <2>2, ItemsType, LenProperties, EmptySeq DEF TypeOK, Producer
<1>2. x = taken[1] /\ x \in Item /\ x \in AnyItem
  BY <1>1, ElementOfSeq DEF AnyItem
<1>3. /\ \A i \in 1..Len(taken) : taken[i] \in Item
      /\ \A i \in 1..Len(taken) : OfBlock(taken[i]) => taken[i].index \in Nat
  <2>1. \A i \in 1..Len(taken) : taken[i] \in Item
    BY <1>1, ElementOfSeq
  <2> QED BY <2>1 DEF Item, BedrockEvent, OfBlock, StreamErr
<1>4. ASSUME OfBlock(x)
      PROVE  x.index \in 0..producer.index /\ InputOf(script, x.index) \in Seq(Chunk)
  <2>1. x.index \in Nat /\ x.index =< producer.index
    BY <1>1, <1>2, <1>3, <1>4 DEF Underway, InOrder, Behind
  <2> QED BY <1>1, <2>1, InputRules
<1>5. ASSUME x.type \in {"delta", "block_stop"}
      PROVE  x.index \in DOMAIN blocks \/ KindFits(provider, script, x.index, "text")
  BY <1>1, <1>2, <1>5 DEF Underway, Delivered, StartedBefore
<1>6. ASSUME x.type = "delta"
      PROVE  /\ BlockAt(blocks, x.index) \in BlockState
             /\ KindFits(provider, script, x.index, BlockAt(blocks, x.index).kind)
             /\ DeltaFits(x)
  <2>1. AutoTextBlock \in BlockState /\ AutoTextBlock.kind = "text"
    <3>1. <<>> \in Seq(Chunk)
      BY EmptySeq
    <3> QED BY <3>1 DEF AutoTextBlock, BlockState, BlockKind
  <2>2. DeltaFits(x)
    BY <1>1, <1>2 DEF Underway, Delivered
  <2>3. CASE x.index \in DOMAIN blocks
    BY <1>1, <2>2, <2>3 DEF Underway, Assembled, BlockAt, IsBlocks
  <2>4. CASE x.index \notin DOMAIN blocks
    BY <1>5, <1>6, <2>1, <2>2, <2>4 DEF BlockAt
  <2> QED BY <2>3, <2>4
<1>7. ASSUME x.type = "block_stop" PROVE InputOf(taken, x.index) = <<>>
  <2>1. ASSUME NEW i \in 1..Len(taken) PROVE InputIn(taken[i], x.index) = <<>>
    <3>1. CASE taken[i].type = "delta"
      <4>1. i # 1 /\ 1 < i
        BY <1>1, <1>2, <1>7, <3>1
      <4>2. x.index < taken[i].index
        BY <1>1, <1>2, <1>7, <3>1, <4>1 DEF Underway, InOrder, OfBlock
      <4>3. taken[i].index \in Nat /\ x.index \in Nat
        BY <1>1, <1>2, <1>3, <1>7, <3>1 DEF OfBlock
      <4> QED BY <4>2, <4>3 DEF InputIn
    <3>2. CASE taken[i].type # "delta"
      BY <3>2 DEF InputIn
    <3> QED BY <3>1, <3>2
  <2> QED BY <1>1, <2>1, InputRules
<1> QED BY <1>2, <1>4, <1>5, <1>6, <1>7

\* The stop of a tool block yields its call, with the whole input; any other stop nothing.
LEMMA StopSays ==
  ASSUME TypeOK, Upstream, Underway, taken # <<>>, Head(taken).type = "block_stop"
  PROVE  LET x == Head(taken)
         IN  /\ FramesSay(StopFrames(blocks, x)) = Piece(provider, script, x)
             /\ \A i \in 1..Len(StopFrames(blocks, x)) :
                  /\ Len(FrameContent(StopFrames(blocks, x)[i])) =< 1
                  /\ StopFrames(blocks, x)[i].type # "Done"
<1> DEFINE x == Head(taken)
           n == x.index
           stop == [type |-> "BlockStop", index |-> n]
<1>1. /\ n \in 0..producer.index /\ n \in Nat
      /\ n \in DOMAIN blocks \/ KindFits(provider, script, n, "text")
      /\ InputOf(taken, n) = <<>> /\ InputOf(script, n) \in Seq(Chunk)
  BY FirstFits DEF OfBlock, TypeOK, Producer
<1>2. n \in DOMAIN blocks => KindFits(provider, script, n, blocks[n].kind)
  BY DEF Underway, Assembled
<1>3. stop \in OzResponseFrame /\ FrameContent(stop) = <<>> /\ stop.type # "Done"
  BY <1>1 DEF OzResponseFrame, FrameContent, HasContent
<1>4. CASE n \in DOMAIN blocks /\ blocks[n].kind = "tool_use"
  <2> DEFINE call == [type |-> "ToolUse", id |-> blocks[n].id, input |-> ParseJson(blocks[n].json)]
             c == [kind |-> "tool_call", id |-> n, input |-> ToolInput(InputOf(script, n))]
  <2>1. blocks[n].json \in Seq(Chunk)
    BY <1>4 DEF TypeOK, IsBlocks, BlockState
  <2>2. blocks[n].id = n /\ blocks[n].json = InputOf(script, n)
    <3>1. blocks[n].id = n /\ blocks[n].json \o InputOf(taken, n) = InputOf(script, n)
      BY <1>4 DEF Underway, Assembled
    <3> QED BY <1>1, <2>1, <3>1, ConcatEmptySeq
  <2>3. \A k \in 1..Len(InputOf(script, n)) : InputOf(script, n)[k].closes => k = Len(InputOf(script, n))
    BY <1>1 DEF Upstream, InputEnds
  <2>4. ParseJson(blocks[n].json) = ToolInput(InputOf(script, n))
    BY <1>1, <2>2, <2>3, ParsedInput
  <2>5. ToolInput(InputOf(script, n)) \in Seq(Chunk)
    BY <1>1, EmptySeq DEF ToolInput, EmptyObject
  <2>6. IsTool(script, n) /\ c \in Content
    BY <1>1, <1>2, <1>4, <2>5 DEF KindFits, Content
  <2>7. Piece(provider, script, x) = <<c>>
    BY <2>6 DEF Piece, IsTool
  <2>8. call \in OzResponseFrame /\ FrameContent(call) = <<c>> /\ call.type # "Done"
    BY <1>1, <2>2, <2>4, <2>5 DEF OzResponseFrame, FrameContent, HasContent, ContentOf
  <2>9. StopFrames(blocks, x) = <<call, stop>>
    BY <1>4 DEF StopFrames
  <2> HIDE DEF call, stop, c, x
  <2>10. Len(FrameContent(call)) =< 1
    BY <2>6, <2>8, AtMostOne
  <2>11. /\ FramesSay(<<call, stop>>) = FrameContent(call)
         /\ \A i \in 1..Len(<<call, stop>>) : Len(FrameContent(<<call, stop>>[i])) =< 1
    BY <1>3, <2>8, <2>10, FramesSayShort
  <2>12. \A i \in 1..Len(<<call, stop>>) : <<call, stop>>[i].type # "Done"
    <3>1. ASSUME NEW i \in 1..2 PROVE <<call, stop>>[i].type # "Done"
      <4>1. i = 1 \/ i = 2
        OBVIOUS
      <4> QED BY <4>1, <1>3, <2>8
    <3> QED BY <3>1
  <2> QED BY <2>7, <2>8, <2>9, <2>11, <2>12 DEF x
<1>5. CASE ~(n \in DOMAIN blocks /\ blocks[n].kind = "tool_use")
  <2>1. ~IsTool(script, n)
    BY <1>1, <1>2, <1>5 DEF KindFits
  <2>2. Piece(provider, script, x) = <<>>
    BY <2>1 DEF Piece, IsTool
  <2>3. StopFrames(blocks, x) = <<stop>>
    BY <1>5 DEF StopFrames
  <2>4. Len(FrameContent(stop)) =< 1
    BY <1>3
  <2> HIDE DEF stop, x
  <2>5. FramesSay(<<stop>>) = <<>> /\ \A i \in 1..Len(<<stop>>) : Len(FrameContent(<<stop>>[i])) =< 1
    BY <1>3, <2>4, FramesSayShort
  <2> QED BY <1>3, <2>2, <2>3, <2>5 DEF x
<1> QED BY <1>4, <1>5

\* The frames made of the first item show what it says, and only a stop, the model's or
\* an error's, makes a Done.
LEMMA HandleSays ==
  ASSUME TypeOK, Upstream, Underway, taken # <<>>
  PROVE  LET x  == Head(taken)
             fs == HandleFrames(blocks, EventOf(x))
         IN  /\ FramesSay(fs) = Piece(provider, script, x)
             /\ \A i \in 1..Len(fs) :
                  /\ Len(FrameContent(fs[i])) =< 1
                  /\ fs[i].type = "Done" =>
                       x.type \in {"message_stop", "err"} /\ fs[i].reason = EventOf(x).reason
<1> DEFINE x == Head(taken)
           ev == EventOf(x)
           fs == HandleFrames(blocks, ev)
<1>1. x \in Item
  BY FirstFits
<1>2. x # StreamErr => ev = x /\ x \in BedrockEvent
  BY <1>1 DEF EventOf, Item
<1>3. CASE x # StreamErr /\ x.type = "delta"
  <2> DEFINE block == BlockAt(blocks, x.index)
  <2>1. /\ block \in BlockState /\ KindFits(provider, script, x.index, block.kind) /\ DeltaFits(x)
        /\ provider \in Providers
    BY <1>3, FirstFits DEF TypeOK
  <2>2. fs = DeltaFrames(block, x)
    BY <1>2, <1>3 DEF HandleFrames
  <2> HIDE DEF block, x, fs
  <2>3. /\ FramesSay(DeltaFrames(block, x)) = Piece(provider, script, x)
        /\ \A i \in 1..Len(DeltaFrames(block, x)) :
             /\ Len(FrameContent(DeltaFrames(block, x)[i])) =< 1
             /\ DeltaFrames(block, x)[i].type # "Done"
    BY <1>1, <1>3, <2>1, DeltaSays
  <2> QED BY <2>2, <2>3 DEF x, fs
<1>4. CASE x # StreamErr /\ x.type = "block_stop"
  <2>1. fs = StopFrames(blocks, x)
    BY <1>2, <1>4 DEF HandleFrames
  <2>2. /\ FramesSay(StopFrames(blocks, x)) = Piece(provider, script, x)
        /\ \A i \in 1..Len(StopFrames(blocks, x)) :
             /\ Len(FrameContent(StopFrames(blocks, x)[i])) =< 1
             /\ StopFrames(blocks, x)[i].type # "Done"
    BY <1>4, StopSays
  <2> QED BY <2>1, <2>2
<1>5. CASE x = StreamErr \/ x.type = "message_stop"
  <2> DEFINE f == [type |-> "Done", reason |-> ev.reason]
  <2>1. /\ ev.type = "message_stop" /\ ev.reason \in StopReason
        /\ x.type \in {"message_stop", "err"}
    BY <1>1, <1>2, <1>5 DEF EventOf, SynthStop, StopReason, BedrockEvent, StreamErr
  <2>2. fs = <<f>>
    BY <2>1 DEF HandleFrames
  <2>3. f \in OzResponseFrame /\ FrameContent(f) = <<>> /\ f.reason = ev.reason
    BY <2>1 DEF OzResponseFrame, FrameContent, HasContent
  <2>4. Piece(provider, script, x) = <<>>
    BY <2>1 DEF Piece
  <2>5. Len(FrameContent(f)) =< 1
    BY <2>3
  <2> HIDE DEF f, x, fs, ev
  <2>6. FramesSay(<<f>>) = <<>> /\ \A i \in 1..Len(<<f>>) : Len(FrameContent(<<f>>[i])) =< 1
    BY <2>3, <2>5, FramesSayShort
  <2>7. \A i \in 1..Len(<<f>>) : <<f>>[i].reason = ev.reason
    BY <2>3
  <2> QED BY <2>1, <2>2, <2>4, <2>6, <2>7 DEF x, fs, ev
<1>6. CASE x # StreamErr /\ x.type = "metadata"
  <2> DEFINE f == [type |-> "UsageUpdate", usage |-> x.usage]
  <2>1. x.usage \in Nat
    BY <1>2, <1>6 DEF BedrockEvent
  <2>2. fs = <<f>>
    BY <1>2, <1>6 DEF HandleFrames
  <2>3. f \in OzResponseFrame /\ FrameContent(f) = <<>> /\ f.type # "Done"
    BY <2>1 DEF OzResponseFrame, FrameContent, HasContent
  <2>4. Piece(provider, script, x) = <<>>
    BY <1>6 DEF Piece
  <2>5. Len(FrameContent(f)) =< 1
    BY <2>3
  <2> HIDE DEF f, x, fs
  <2>6. FramesSay(<<f>>) = <<>> /\ \A i \in 1..Len(<<f>>) : Len(FrameContent(<<f>>[i])) =< 1
    BY <2>3, <2>5, FramesSayShort
  <2>7. \A i \in 1..Len(<<f>>) : <<f>>[i].type # "Done"
    BY <2>3
  <2> QED BY <2>2, <2>4, <2>6, <2>7 DEF x, fs
<1>7. CASE x # StreamErr /\ x.type \in {"message_start", "block_start"}
  <2>1. fs = <<>> /\ Piece(provider, script, x) = <<>>
    BY <1>2, <1>7 DEF HandleFrames, Piece
  <2> HIDE DEF fs, x
  <2>2. Len(fs) = 0 /\ FramesSay(fs) = <<>>
    BY <2>1, FramesSayOf
  <2> QED BY <2>1, <2>2 DEF fs, x
<1>8. x # StreamErr => x.type \in {"message_start", "block_start", "delta", "block_stop",
                                    "message_stop", "metadata"}
  BY <1>2 DEF BedrockEvent
<1> QED BY <1>3, <1>4, <1>5, <1>6, <1>7, <1>8

\* The pump takes the first item; the rest stays on its way.
LEMMA Taking ==
  ASSUME TypeOK, PumpRecv
  PROVE  /\ taken # <<>> /\ Head(taken) = Head(bedrock_stream) /\ taken' = Tail(taken)
         /\ taken \in Seq(Item) /\ taken' \in Seq(Item) /\ taken' \in Seq(AnyItem)
         /\ Len(taken) \in Nat /\ Len(taken') \in Nat /\ Len(taken') + 1 = Len(taken)
         /\ \A i \in 1..Len(taken') : i + 1 \in 1..Len(taken) /\ taken'[i] = taken[i + 1]
         /\ \A index : InputOf(taken, index) = InputIn(Head(taken), index) \o InputOf(taken', index)
         /\ Says(provider, script, taken)
              = Piece(provider, script, Head(taken)) \o Says(provider, script, taken')
<1> DEFINE s == bedrock_stream
           r == Tail(s)
           h == held
           t == Tail(taken)
<1>1. /\ s \in Seq(Item) /\ h \in Seq(Item) /\ s # <<>> /\ bedrock_stream' = r /\ held' = h
      /\ script \in Seq(SdkEvent)
  BY DEF TypeOK, Option, PumpRecv, drainVars
<1>2. r \in Seq(Item)
  BY <1>1, HeadTailProperties
<1>3. taken = s \o h /\ taken' = r \o h
  BY <1>1 DEF taken
<1>4. taken \in Seq(Item) /\ taken' \in Seq(Item)
  BY <1>1, <1>2, <1>3, ConcatProperties
<1>5. taken # <<>> /\ Head(taken) = Head(s) /\ Tail(taken) = r \o h
  <2> HIDE DEF s, h
  <2> QED BY <1>1, <1>3 DEF r
<1>6. taken' = t
  BY <1>3, <1>5
<1>7. t \in Seq(Item) /\ Len(taken) \in Nat /\ Len(t) \in Nat /\ Len(t) + 1 = Len(taken)
      /\ \A i \in 1..Len(t) : i + 1 \in 1..Len(taken) /\ t[i] = taken[i + 1]
  <2> HIDE DEF s, h, r
  <2> QED BY <1>4, <1>5, HeadTailProperties, LenProperties
<1>8. taken \in Seq(AnyItem) /\ t \in Seq(AnyItem)
  BY <1>4, <1>7, ItemsType
<1>9. \A index : InputOf(taken, index) = InputIn(Head(taken), index) \o InputOf(t, index)
  BY <1>5, <1>8, InputRules
<1>10. Says(provider, script, taken)
         = Piece(provider, script, Head(taken)) \o Says(provider, script, t)
  BY <1>1, <1>5, <1>8, SaysRules
<1> HIDE DEF s, r, h, t
<1> QED BY <1>4, <1>5, <1>6, <1>7, <1>8, <1>9, <1>10, SMTT(60) DEF s

\* The blocks after the first item.
LEMMA BlocksAfter ==
  ASSUME TypeOK, PumpRecv
  PROVE  LET x == Head(taken)
         IN  /\ ~OfBlock(x) => blocks' = blocks
             /\ OfBlock(x) =>
                  /\ DOMAIN blocks' = IF x.type = "block_stop" THEN DOMAIN blocks \ {x.index}
                                      ELSE DOMAIN blocks \cup {x.index}
                  /\ \A n \in DOMAIN blocks' : n # x.index => blocks'[n] = blocks[n]
             /\ x.type = "block_start" => blocks'[x.index] = ParseBlockStart(x)
             /\ x.type = "delta" => blocks'[x.index] = GrowBlock(BlockAt(blocks, x.index), x)
<1> DEFINE x == Head(taken)
<1>1. x = Head(bedrock_stream) /\ blocks' = HandleBlocks(blocks, EventOf(x))
  BY Taking DEF PumpRecv
<1>2. CASE x.type \in {"block_start", "delta", "block_stop"}
  <2>1. blocks' = HandleBlocks(blocks, x)
    BY <1>1, <1>2 DEF EventOf, StreamErr
  <2> DEFINE n == x.index
             bs == blocks'
  <2> HIDE DEF x
  <2>2. CASE x.type = "block_start"
    <3>1. bs = Insert(blocks, n, ParseBlockStart(x))
      BY <2>1, <2>2 DEF HandleBlocks
    <3> HIDE DEF bs
    <3>2. /\ DOMAIN bs = DOMAIN blocks \cup {n}
          /\ \A i \in DOMAIN bs : bs[i] = IF i = n THEN ParseBlockStart(x) ELSE blocks[i]
      BY <3>1 DEF Insert
    <3>3. /\ n \in DOMAIN bs /\ bs[n] = ParseBlockStart(x)
          /\ \A i \in DOMAIN bs : i # n => bs[i] = blocks[i]
      BY <3>2
    <3> QED BY <2>2, <3>2, <3>3 DEF OfBlock, bs, x
  <2>3. CASE x.type = "delta"
    <3>1. bs = Insert(blocks, n, GrowBlock(BlockAt(blocks, n), x))
      BY <2>1, <2>3 DEF HandleBlocks
    <3> HIDE DEF bs
    <3>2. /\ DOMAIN bs = DOMAIN blocks \cup {n}
          /\ \A i \in DOMAIN bs :
               bs[i] = IF i = n THEN GrowBlock(BlockAt(blocks, n), x) ELSE blocks[i]
      BY <3>1 DEF Insert
    <3>3. /\ n \in DOMAIN bs /\ bs[n] = GrowBlock(BlockAt(blocks, n), x)
          /\ \A i \in DOMAIN bs : i # n => bs[i] = blocks[i]
      BY <3>2
    <3> QED BY <2>3, <3>2, <3>3 DEF OfBlock, bs, x
  <2>4. CASE x.type = "block_stop"
    <3>1. bs = Restrict(blocks, DOMAIN blocks \ {n})
      BY <2>1, <2>4 DEF HandleBlocks
    <3> HIDE DEF bs
    <3>2. DOMAIN bs = DOMAIN blocks \ {n} /\ \A i \in DOMAIN bs : bs[i] = blocks[i]
      BY <3>1 DEF Restrict
    <3> QED BY <2>4, <3>2 DEF OfBlock, bs, x
  <2> QED BY <1>2, <2>2, <2>3, <2>4 DEF x
<1>3. CASE x.type \notin {"block_start", "delta", "block_stop"}
  <2>1. EventOf(x).type \notin {"block_start", "delta", "block_stop"}
    BY <1>3 DEF EventOf, SynthStop
  <2> QED BY <1>1, <1>3, <2>1 DEF HandleBlocks, OfBlock
<1> QED BY <1>2, <1>3

\* The accumulator assembles what the first item brings.
LEMMA RecvAssembled ==
  ASSUME TypeOK, Upstream, Underway, PumpRecv
  PROVE  Assembled'
<1> DEFINE x == Head(taken)
           m == x.index
           t == taken'
           bs == blocks'
<1>1. taken # <<>> /\ x \in Item /\ provider' = provider /\ script' = script /\ producer' = producer
  BY Taking, FirstFits DEF PumpRecv, drainVars
<1>2. /\ \A n : InputOf(taken, n) = InputIn(x, n) \o InputOf(t, n)
      /\ \A n : InputOf(t, n) \in Seq(Chunk)
      /\ x = taken[1] /\ 1 \in 1..Len(taken)
  <2>1. /\ t \in Seq(AnyItem) /\ \A n : InputOf(taken, n) = InputIn(x, n) \o InputOf(t, n)
        /\ Len(taken) = Len(t) + 1 /\ Len(t) \in Nat
    BY Taking
  <2>2. x = taken[1]
    BY <1>1, FirstFits
  <2> HIDE DEF t, x
  <2> QED BY <2>1, <2>2, InputRules
<1>3. \A n : InputIn(x, n) = <<>> => InputOf(t, n) = InputOf(taken, n)
  <2> HIDE DEF t, x
  <2> QED BY <1>2, ConcatEmptySeq
<1>4. /\ ~OfBlock(x) => bs = blocks
      /\ OfBlock(x) =>
           /\ DOMAIN bs = IF x.type = "block_stop" THEN DOMAIN blocks \ {m} ELSE DOMAIN blocks \cup {m}
           /\ \A n \in DOMAIN bs : n # m => bs[n] = blocks[n]
      /\ x.type = "block_start" => bs[m] = ParseBlockStart(x)
      /\ x.type = "delta" => bs[m] = GrowBlock(BlockAt(blocks, m), x)
  BY BlocksAfter
<1>5. Assembled /\ Behind(producer, x) /\ StartFits(x)
  BY <1>2 DEF Underway, InOrder, Delivered
<1> SUFFICES ASSUME NEW n \in DOMAIN bs
             PROVE  /\ n =< producer.index
                    /\ producer.block = "none" => n < producer.index
                    /\ KindFits(provider, script, n, bs[n].kind)
                    /\ bs[n].kind = "tool_use" =>
                         /\ bs[n].id = n
                         /\ bs[n].json \o InputOf(t, n) = InputOf(script, n)
  BY <1>1 DEF Assembled
<1>6. CASE n # m \/ ~OfBlock(x)
  <2>1. n \in DOMAIN blocks /\ bs[n] = blocks[n] /\ InputIn(x, n) = <<>>
    BY <1>4, <1>6 DEF OfBlock, InputIn
  <2> QED BY <2>1, <1>3, <1>5 DEF Assembled
<1>7. CASE n = m /\ x.type = "block_start"
  <2>1. bs[n] = [kind |-> x.kind, id |-> x.id, json |-> <<>>] /\ InputIn(x, n) = <<>>
    BY <1>4, <1>7 DEF ParseBlockStart, InputIn
  <2>2. /\ bs[n].id = n /\ KindFits(provider, script, n, bs[n].kind)
        /\ InputOf(t, n) = InputOf(script, n)
    BY <2>1, <1>3, <1>5, <1>7 DEF StartFits
  <2>3. n =< producer.index /\ (producer.block = "none" => n < producer.index)
    BY <1>5, <1>7 DEF Behind, OfBlock
  <2>4. bs[n].json \o InputOf(t, n) = InputOf(t, n)
    <3>1. bs[n].json = <<>>
      BY <2>1
    <3> HIDE DEF bs, t
    <3> QED BY <3>1, <1>2, ConcatEmptySeq
  <2> QED BY <2>2, <2>3, <2>4
<1>8. CASE n = m /\ x.type = "delta"
  <2> DEFINE b == BlockAt(blocks, n)
  <2>1. /\ b \in BlockState /\ KindFits(provider, script, n, b.kind)
        /\ bs[n] = GrowBlock(b, x)
    BY <1>1, <1>4, <1>8, FirstFits
  <2>2. bs[n].kind = b.kind /\ bs[n].id = b.id
    BY <2>1 DEF GrowBlock, BlockState
  <2>3. n =< producer.index /\ (producer.block = "none" => n < producer.index)
    BY <1>5, <1>8 DEF Behind, OfBlock
  <2>4. ASSUME b.kind = "tool_use"
        PROVE  b.id = n /\ bs[n].json \o InputOf(t, n) = InputOf(script, n)
    <3>1. n \in DOMAIN blocks /\ b = blocks[n]
      BY <2>4 DEF BlockAt, AutoTextBlock
    <3>2. b.id = n /\ b.json \o InputOf(taken, n) = InputOf(script, n) /\ b.json \in Seq(Chunk)
      BY <2>1, <2>4, <3>1, <1>5 DEF Assembled, BlockState
    <3>3. CASE x.delta = "input_json_delta"
      <4> DEFINE c == x.chunk
                 j == b.json
                 i == InputOf(t, n)
      <4>1. c \in Chunk /\ bs[n].json = Append(j, c) /\ InputIn(x, n) = <<c>>
        BY <1>1, <1>8, <2>1, <2>4, <3>3 DEF Item, BedrockEvent, StreamErr, GrowBlock, InputIn, BlockState
      <4>2. i \in Seq(Chunk) /\ j \in Seq(Chunk)
        BY <1>2, <3>2
      <4>3. j \o (<<c>> \o i) = InputOf(script, n)
        BY <4>1, <3>2, <1>2
      <4> HIDE DEF c, j, i
      <4>4. Append(j, c) \o i = j \o (<<c>> \o i)
        BY <4>1, <4>2, SMTT(60)
      <4> QED BY <3>2, <4>1, <4>3, <4>4 DEF i
    <3>4. CASE x.delta # "input_json_delta"
      <4>1. bs[n] = b /\ InputIn(x, n) = <<>>
        BY <2>1, <3>4 DEF GrowBlock, InputIn
      <4> QED BY <4>1, <3>2, <1>3
    <3> QED BY <3>3, <3>4
  <2> QED BY <2>1, <2>2, <2>3, <2>4
<1>9. CASE n = m /\ x.type = "block_stop"
  BY <1>4, <1>9 DEF OfBlock
<1> QED BY <1>6, <1>7, <1>8, <1>9 DEF OfBlock

\* The items left come in the same order, and still find their blocks.
LEMMA RecvDelivered ==
  ASSUME TypeOK, Upstream, Underway, PumpRecv
  PROVE  InOrder' /\ Delivered'
<1> DEFINE x == Head(taken)
           t == taken'
           bs == blocks'
<1>1. provider' = provider /\ script' = script /\ producer' = producer
  BY DEF PumpRecv, drainVars
<1>2. /\ x = taken[1] /\ x \in Item
      /\ OfBlock(x) => x.index \in Nat
  BY Taking, FirstFits DEF OfBlock, TypeOK
<1>3. /\ t \in Seq(Item) /\ Len(t) \in Nat /\ Len(taken) = Len(t) + 1
      /\ \A i \in 1..Len(t) : i + 1 \in 1..Len(taken) /\ t[i] = taken[i + 1]
      /\ \A n : InputOf(taken, n) = InputIn(x, n) \o InputOf(t, n)
      /\ \A n : InputOf(t, n) \in Seq(Chunk)
  <2>1. /\ t \in Seq(AnyItem) /\ t \in Seq(Item) /\ Len(t) \in Nat /\ Len(taken) = Len(t) + 1
        /\ \A i \in 1..Len(t) : i + 1 \in 1..Len(taken) /\ t[i] = taken[i + 1]
        /\ \A n : InputOf(taken, n) = InputIn(x, n) \o InputOf(t, n)
    BY Taking
  <2> HIDE DEF t, x
  <2> QED BY <2>1, InputRules
<1>4. \A n : InputIn(x, n) = <<>> => InputOf(t, n) = InputOf(taken, n)
  <2> HIDE DEF t, x
  <2> QED BY <1>3, ConcatEmptySeq
<1>5. \A i \in 1..Len(t) : OfBlock(t[i]) => t[i].index \in Nat
  <2>1. \A i \in 1..Len(t) : t[i] \in Item
    BY <1>3, ElementOfSeq
  <2> QED BY <2>1 DEF Item, BedrockEvent, OfBlock, StreamErr
<1>6. DOMAIN bs = IF OfBlock(x)
                  THEN IF x.type = "block_stop" THEN DOMAIN blocks \ {x.index}
                       ELSE DOMAIN blocks \cup {x.index}
                  ELSE DOMAIN blocks
  BY BlocksAfter
<1>7. \A i \in 1..Len(t) : OfBlock(x) /\ OfBlock(t[i]) =>
        /\ x.index =< t[i].index
        /\ x.type = "block_stop" \/ t[i].type = "block_start" => x.index < t[i].index
  BY <1>2, <1>3 DEF Underway, InOrder
<1> HIDE DEF t, x, bs
<1>8. InOrder'
  <2>1. \A i \in 1..Len(t) : Behind(producer, t[i])
    BY <1>3 DEF Underway, InOrder
  <2>2. \A i, j \in 1..Len(t) : i < j /\ OfBlock(t[i]) /\ OfBlock(t[j]) =>
          /\ t[i].index =< t[j].index
          /\ t[i].type = "block_stop" \/ t[j].type = "block_start" => t[i].index < t[j].index
    <3> SUFFICES ASSUME NEW i \in 1..Len(t), NEW j \in 1..Len(t), i < j, OfBlock(t[i]), OfBlock(t[j])
                 PROVE  /\ t[i].index =< t[j].index
                        /\ t[i].type = "block_stop" \/ t[j].type = "block_start" =>
                             t[i].index < t[j].index
      OBVIOUS
    <3>1. i + 1 \in 1..Len(taken) /\ j + 1 \in 1..Len(taken) /\ i + 1 < j + 1
      BY <1>3
    <3> QED BY <1>3, <3>1 DEF Underway, InOrder
  <2> QED BY <2>1, <2>2, <1>1 DEF InOrder, t
<1>9. Delivered'
  <2>1. ASSUME NEW i \in 1..Len(t)
        PROVE  /\ t[i].type = "block_start" =>
                    /\ t[i].id = t[i].index
                    /\ KindFits(provider, script, t[i].index, t[i].kind)
                    /\ InputOf(t, t[i].index) = InputOf(script, t[i].index)
               /\ DeltaFits(t[i])
               /\ t[i].type \in {"delta", "block_stop"} =>
                    \/ KindFits(provider, script, t[i].index, "text")
                    \/ t[i].index \in DOMAIN bs
                    \/ \E j \in 1..(i - 1) : t[j].type = "block_start" /\ t[j].index = t[i].index
    <3>1. /\ i + 1 \in 1..Len(taken) /\ t[i] = taken[i + 1]
          /\ StartFits(t[i]) /\ DeltaFits(t[i]) /\ StartedBefore(i + 1)
      BY <1>3 DEF Underway, Delivered
    <3>2. ASSUME t[i].type = "block_start"
          PROVE  InputOf(t, t[i].index) = InputOf(taken, t[i].index)
      <4>1. OfBlock(x) => x.index < t[i].index /\ x.index \in Nat /\ t[i].index \in Nat
        BY <1>2, <1>5, <1>7, <3>2 DEF OfBlock
      <4>2. InputIn(x, t[i].index) = <<>>
        BY <4>1 DEF InputIn, OfBlock
      <4> QED BY <4>2, <1>4
    <3>3. ASSUME t[i].type \in {"delta", "block_stop"}, ~KindFits(provider, script, t[i].index, "text")
          PROVE  \/ t[i].index \in DOMAIN bs
                 \/ \E j \in 1..(i - 1) : t[j].type = "block_start" /\ t[j].index = t[i].index
      <4>1. \/ t[i].index \in DOMAIN blocks
            \/ \E j \in 1..i : taken[j].type = "block_start" /\ taken[j].index = t[i].index
        BY <3>1, <3>3 DEF StartedBefore
      <4>2. CASE t[i].index \in DOMAIN blocks
        <5>1. x.type = "block_stop" => x.index # t[i].index
          BY <1>2, <1>5, <1>7, <3>3 DEF OfBlock
        <5> QED BY <5>1, <4>2, <1>6
      <4>3. ASSUME NEW j \in 1..i, taken[j].type = "block_start", taken[j].index = t[i].index
            PROVE  \/ t[i].index \in DOMAIN bs
                   \/ \E k \in 1..(i - 1) : t[k].type = "block_start" /\ t[k].index = t[i].index
        <5>1. CASE j = 1
          BY <1>2, <1>6, <4>3, <5>1 DEF OfBlock
        <5>2. CASE j # 1
          <6>1. j - 1 \in 1..(i - 1) /\ j - 1 \in 1..Len(t) /\ (j - 1) + 1 = j
            BY <1>3, <5>2
          <6>2. t[j - 1] = taken[j]
            BY <1>3, <6>1
          <6> QED BY <6>1, <6>2, <4>3
        <5> QED BY <5>1, <5>2
      <4> QED BY <4>1, <4>2, <4>3
    <3> QED BY <3>1, <3>2, <3>3 DEF StartFits
  <2>2. \/ KindFits(provider, script, producer.index, "text")
        \/ producer.index \in DOMAIN bs
        \/ \E j \in 1..Len(t) : t[j].type = "block_start" /\ t[j].index = producer.index
    <3>1. \/ KindFits(provider, script, producer.index, "text")
          \/ producer.index \in DOMAIN blocks
          \/ \E j \in 1..Len(taken) : taken[j].type = "block_start" /\ taken[j].index = producer.index
      BY DEF Underway, Delivered, OpenStarted
    <3>2. CASE producer.index \in DOMAIN blocks
      <4>1. x.type = "block_stop" => x.index < producer.index
        BY <1>2, <1>3 DEF Underway, InOrder, Behind, OfBlock
      <4>2. producer.index \in Nat
        BY DEF TypeOK, Producer
      <4>3. x.type = "block_stop" => x.index # producer.index
        BY <4>1, <4>2, <1>2 DEF OfBlock
      <4> QED BY <4>3, <3>2, <1>6
    <3>3. ASSUME NEW j \in 1..Len(taken), taken[j].type = "block_start", taken[j].index = producer.index
          PROVE  \/ producer.index \in DOMAIN bs
                 \/ \E k \in 1..Len(t) : t[k].type = "block_start" /\ t[k].index = producer.index
      <4>1. CASE j = 1
        BY <1>2, <1>6, <3>3, <4>1 DEF OfBlock
      <4>2. CASE j # 1
        <5>1. j - 1 \in 1..Len(t) /\ (j - 1) + 1 = j
          BY <1>3, <4>2
        <5>2. t[j - 1] = taken[j]
          BY <1>3, <5>1
        <5> QED BY <5>1, <5>2, <3>3
      <4> QED BY <4>1, <4>2
    <3> QED BY <3>1, <3>2, <3>3
  <2> QED BY <2>1, <2>2, <1>1 DEF Delivered, StartFits, DeltaFits, StartedBefore, OpenStarted, t, bs
<1> QED BY <1>8, <1>9

\* A concatenation is empty only if both parts are.
LEMMA EmptyConcat ==
  ASSUME NEW S, NEW a \in Seq(S), NEW b \in Seq(S), a \o b = <<>>
  PROVE  a = <<>> /\ b = <<>>
<1>1. Len(a) \in Nat /\ Len(b) \in Nat /\ Len(a) + Len(b) = 0
  <2>1. Len(a \o b) = Len(a) + Len(b)
    BY ConcatProperties
  <2>2. Len(<<>>) = 0
    OBVIOUS
  <2> QED BY <2>1, <2>2, LenProperties
<1>2. Len(a) = 0 /\ Len(b) = 0
  BY <1>1
<1> QED BY <1>2, EmptySeq

\* The pump takes an item: what the item says is now said by its frames.
LEMMA PumpRecvStep == ASSUME AnswerInv, PumpRecv PROVE AnswerInv'
<1>1. /\ FailureInv /\ TypeOK /\ Upstream /\ Numbered(client.messages)
      /\ IsPrefix(Shown, Answer) /\ Concluded /\ frames = <<>> /\ events = <<>>
  BY DEF AnswerInv, FailureInv, ClientInv, PumpRecv
<1>2. /\ UNCHANGED <<provider, producer, script, failed, drain, held, adapter, events,
                     body_stream, body, client>>
      /\ bedrock_stream # <<>>
      /\ frames' = HandleFrames(blocks, EventOf(Head(bedrock_stream)))
  BY DEF PumpRecv, drainVars, bodyVars
<1>3. FailureInv'
  BY <1>1, FailureStep DEF Next, PumpStream
<1>4. Upstream' /\ Numbered(client.messages)' /\ IsPrefix(Shown, Answer)' /\ sent' = sent
      /\ Shown' = Shown /\ Answer' = Answer /\ Closed' = Closed
  BY <1>1, <1>2 DEF Upstream, OpenFits, InputEnds, StopsOnce, Shown, Answer, sent, Closed
<1>5. Concluded'
  BY <1>1, <1>2, <1>4 DEF Concluded
<1>6. ASSUME body # "dropped" PROVE Underway'
  <2> DEFINE x == Head(taken)
             t == taken'
             fs == frames'
             say == Piece(provider, script, x)
             rest == Says(provider, script, t)
  <2>1. Underway
    BY <1>6 DEF AnswerInv
  <2>2. /\ taken # <<>> /\ x = Head(bedrock_stream) /\ x = taken[1]
        /\ t \in Seq(Item) /\ t \in Seq(AnyItem) /\ Len(t) \in Nat /\ Len(taken) = Len(t) + 1
        /\ \A i \in 1..Len(t) : i + 1 \in 1..Len(taken) /\ t[i] = taken[i + 1]
        /\ Says(provider, script, taken) = say \o rest
        /\ x \in AnyItem /\ script \in Seq(SdkEvent)
    BY <1>1, <2>1, Taking, FirstFits DEF TypeOK
  <2>3. /\ FramesSay(fs) = say
        /\ \A i \in 1..Len(fs) :
             /\ Len(FrameContent(fs[i])) =< 1
             /\ fs[i].type = "Done" =>
                  x.type \in {"message_stop", "err"} /\ fs[i].reason = EventOf(x).reason
    BY <1>1, <1>2, <2>1, <2>2, HandleSays
  <2>4. /\ say \in Seq(Content) /\ Len(say) =< 1 /\ rest \in Seq(Content)
        /\ Shown \in Seq(Content) /\ EventsSay(sent) \in Seq(Content)
    <3>1. say \in Seq(Content) /\ Len(say) =< 1
      BY <2>2, PieceType
    <3>2. rest \in Seq(Content)
      <4> HIDE DEF t
      <4> QED BY <2>2, SaysRules
    <3> QED BY <3>1, <3>2, <1>1, SayTypes
  <2>5. InOrder' /\ Delivered' /\ Assembled'
    BY <1>1, <2>1, RecvDelivered, RecvAssembled
  <2>6. AppendsLast(DOMAIN client.messages, sent, adapter.message_id)'
    BY <2>1, <1>2, <1>4 DEF Underway
  <2>7. OneAtATime'
    <3>1. Len(EventsSay(events)) = 0
      BY <1>1, EventsSayOf
    <3>2. Len(say) \in Nat
      BY <2>4, LenProperties
    <3> HIDE DEF fs, say
    <3>3. Len(EventsSay(events)) + Len(FramesSay(fs)) =< 1
      BY <2>3, <2>4, <3>1, <3>2
    <3>4. \A i \in 1..Len(sent) : Len(EventContent(sent[i])) =< 1
      BY <2>1 DEF Underway, OneAtATime
    <3> QED BY <2>3, <3>3, <3>4, <1>2, <1>4 DEF OneAtATime, fs
  <2>8. ItemsConclude'
    <3> HIDE DEF t
    <3>1. ASSUME NEW i \in 1..Len(t), t[i].type \in {"message_stop", "err"}
          PROVE  /\ Closed /\ Honest(script, failed, FinishReason(EventOf(t[i]).reason))
                 /\ \A j \in (i + 1)..Len(t) : t[j].type \in {"metadata", "err"}
      <4>1. i + 1 \in 1..Len(taken) /\ t[i] = taken[i + 1]
        BY <2>2
      <4>2. /\ Closed /\ Honest(script, failed, FinishReason(EventOf(t[i]).reason))
            /\ \A j \in (i + 2)..Len(taken) : taken[j].type \in {"metadata", "err"}
        BY <2>1, <3>1, <4>1 DEF Underway, ItemsConclude
      <4>3. \A j \in (i + 1)..Len(t) : j + 1 \in (i + 2)..Len(taken) /\ t[j] = taken[j + 1]
        BY <2>2
      <4> QED BY <4>2, <4>3
    <3> QED BY <3>1, <1>2, <1>4 DEF ItemsConclude, t
  <2>9. FramesConclude'
    <3> SUFFICES ASSUME NEW i \in 1..Len(fs), fs[i].type = "Done"
                 PROVE  /\ Closed
                        /\ Honest(script, failed, FinishReason(fs[i].reason))
                        /\ FramesSay(fs) = <<>> /\ rest = <<>>
      BY <1>2, <1>4 DEF FramesConclude
    <3>1. x.type \in {"message_stop", "err"} /\ fs[i].reason = EventOf(x).reason
      BY <2>3
    <3>2. /\ Closed /\ Honest(script, failed, FinishReason(fs[i].reason))
          /\ \A j \in 2..Len(taken) : taken[j].type \in {"metadata", "err"}
      BY <2>1, <2>2, <3>1 DEF Underway, ItemsConclude
    <3>3. say = <<>>
      BY <3>1 DEF Piece
    <3>4. rest = <<>>
      <4>1. \A j \in 1..Len(t) : Piece(provider, script, t[j]) = <<>>
        <5> SUFFICES ASSUME NEW j \in 1..Len(t) PROVE Piece(provider, script, t[j]) = <<>>
          OBVIOUS
        <5>1. j + 1 \in 2..Len(taken) /\ t[j] = taken[j + 1]
          BY <2>2
        <5>2. t[j].type \in {"metadata", "err"}
          BY <3>2, <5>1
        <5> QED BY <5>2 DEF Piece
      <4> HIDE DEF t
      <4> QED BY <4>1, <2>2, SaysRules
    <3> QED BY <3>2, <3>3, <3>4, <2>3
  <2>10. EventsConclude'
    <3> SUFFICES ASSUME NEW i \in 1..Len(sent), sent[i].type = "StreamFinished"
                 PROVE  /\ Closed
                        /\ Honest(script, failed, sent[i].reason)
                        /\ \A j \in (i + 1)..Len(sent) : EventContent(sent[j]) = <<>>
                        /\ FramesSay(fs) = <<>> /\ rest = <<>>
      BY <1>2, <1>4 DEF EventsConclude
    <3>1. /\ Closed
          /\ Honest(script, failed, sent[i].reason)
          /\ \A j \in (i + 1)..Len(sent) : EventContent(sent[j]) = <<>>
          /\ Says(provider, script, taken) = <<>>
      BY <2>1 DEF Underway, EventsConclude
    <3>2. say \o rest = <<>>
      BY <2>2, <3>1
    <3>3. say = <<>> /\ rest = <<>>
      BY <2>4, <3>2, EmptyConcat
    <3> QED BY <3>1, <3>3, <2>3
  <2>11. Conserved'
    <3>1. Answer = Shown \o (EventsSay(sent) \o (<<>> \o (say \o rest)))
      BY <1>1, <2>1, <2>2, FramesSayOf DEF Underway, Conserved
    <3>2. say \o rest \in Seq(Content)
      BY <2>4, ConcatProperties
    <3>3. <<>> \o (say \o rest) = say \o rest
      BY <3>2, ConcatEmptySeq
    <3>4. Answer = Shown \o (EventsSay(sent) \o (FramesSay(fs) \o rest))
      BY <3>1, <3>3, <2>3
    <3> QED BY <3>4, <1>2, <1>4 DEF Conserved
  <2> QED BY <2>5, <2>6, <2>7, <2>8, <2>9, <2>10, <2>11 DEF Underway
<1> QED BY <1>2, <1>3, <1>4, <1>5, <1>6 DEF AnswerInv

-----------------------------------------------------------------------------
(* The adapter                                                             *)

\* Where the elements of a concatenation come from.
LEMMA InConcat ==
  ASSUME NEW S, NEW a \in Seq(S), NEW b \in Seq(S)
  PROVE  /\ a \o b \in Seq(S) /\ Len(a) \in Nat /\ Len(b) \in Nat /\ Len(a \o b) = Len(a) + Len(b)
         /\ \A i \in 1..Len(a) : i \in 1..Len(a \o b) /\ (a \o b)[i] = a[i]
         /\ \A j \in 1..Len(b) : Len(a) + j \in 1..Len(a \o b) /\ (a \o b)[Len(a) + j] = b[j]
         /\ \A i \in 1..Len(a \o b) : i \in 1..Len(a) \/ \E j \in 1..Len(b) : i = Len(a) + j
<1> DEFINE c == a \o b
<1>1. /\ c \in Seq(S) /\ Len(a) \in Nat /\ Len(b) \in Nat /\ Len(c) = Len(a) + Len(b)
      /\ \A i \in 1..Len(c) : c[i] = IF i =< Len(a) THEN a[i] ELSE b[i - Len(a)]
  BY ConcatProperties, LenProperties
<1> HIDE DEF c
<1>2. \A j \in 1..Len(b) : Len(a) + j \in 1..Len(c) /\ c[Len(a) + j] = b[j]
  BY <1>1, SMTT(60)
<1>3. ASSUME NEW i \in 1..Len(c), i \notin 1..Len(a)
      PROVE  \E j \in 1..Len(b) : i = Len(a) + j
  <2>1. i - Len(a) \in 1..Len(b) /\ i = Len(a) + (i - Len(a))
    BY <1>1, <1>3
  <2> QED BY <2>1
<1> QED BY <1>1, <1>2, <1>3, SMTT(60) DEF c

\* The three parts of what translate() yields: the prelude, the registration of a new
\* message, and the event of the frame itself.
LEMMA TranslateShape ==
  ASSUME NEW a \in Adapter, NEW f \in OzResponseFrame
  PROVE  LET n == TranslateAdapter(a, f).message_id
         IN  \E pre, add, end \in Seq(ResponseEvent) :
               /\ TranslateEvents(a, f) = pre \o (add \o end)
               /\ \A i \in 1..Len(pre) : pre[i].type \in {"StreamInit", "CreateTask"}
               /\ \/ add = <<>> /\ n = a.message_id
                  \/ \E kind : add = <<AddMessages(n, kind)>> /\ n = a.message_id + 1
               /\ \/ HasContent(f) /\ \E kind : end = <<AppendContent(n, kind, ContentOf(f))>>
                  \/ /\ ~HasContent(f) /\ f.type = "Done" /\ n = a.message_id /\ add = <<>>
                     /\ end = <<StreamFinished(FinishReason(f.reason), a.pending_usage)>>
                  \/ ~HasContent(f) /\ end = <<>> /\ add = <<>> /\ n = a.message_id
<1> DEFINE n == TranslateAdapter(a, f).message_id
           pre == Prelude(a, f)
           k == KindOf(f)
           b == Opened(a, f)
<1>1. pre \in Seq(ResponseEvent) /\ \A i \in 1..Len(pre) : pre[i].type \in {"StreamInit", "CreateTask"}
  <2>1. StreamInit \in ResponseEvent /\ CreateTask \in ResponseEvent
    BY DEF StreamInit, CreateTask, ResponseEvent
  <2>2. CASE pre = <<>>
    BY <2>2
  <2>3. CASE pre = <<StreamInit, CreateTask>>
    <3> DEFINE z == <<StreamInit, CreateTask>>
    <3>1. z \in Seq(ResponseEvent) /\ Len(z) = 2
      BY <2>1
    <3>2. ASSUME NEW i \in 1..2 PROVE z[i].type \in {"StreamInit", "CreateTask"}
      <4>1. i = 1 \/ i = 2
        OBVIOUS
      <4> QED BY <4>1 DEF StreamInit, CreateTask
    <3> HIDE DEF z
    <3> QED BY <3>1, <3>2, <2>3 DEF z
  <2> QED BY <2>2, <2>3 DEF Prelude
<1>2. b \in Adapter /\ b.message_id = a.message_id /\ b.active_kind = a.active_kind
  <2>1. a.sent_init \/ NeedsPrelude(f) \in BOOLEAN
    BY DEF Adapter, NeedsPrelude
  <2> QED BY <2>1 DEF Adapter, Opened
<1>3. CASE HasContent(f)
  <2> DEFINE d == EnsureKind(b, k)
             e == AppendContent(d.message_id, k, ContentOf(f))
             s == EnsureKindEvents(b, k)
  <2>1. k \in ActiveKind /\ ContentOf(f) \in Seq(Content)
    BY <1>3, ContentType
  <2>2. n = d.message_id
    BY <1>3 DEF TranslateAdapter, HasContent
  <2>3. /\ \/ s = <<>> /\ n = a.message_id
           \/ s = <<AddMessages(n, k)>> /\ n = a.message_id + 1
        /\ n \in Nat
    BY <1>2, <2>2 DEF EnsureKind, EnsureKindEvents, Adapter
  <2>4. s \in Seq(ResponseEvent)
    <3> DEFINE add == AddMessages(n, k)
    <3>1. add \in ResponseEvent
      BY <2>1, <2>3 DEF AddMessages, ResponseEvent
    <3>2. s = <<>> \/ s = <<add>>
      BY <2>3
    <3> HIDE DEF add, s
    <3>3. <<add>> \in Seq(ResponseEvent) /\ <<>> \in Seq(ResponseEvent)
      BY <3>1
    <3> QED BY <3>2, <3>3
  <2>5. e \in ResponseEvent /\ e = AppendContent(n, k, ContentOf(f))
    BY <2>1, <2>2, <2>3 DEF AppendContent, ResponseEvent
  <2>6. TranslateEvents(a, f) = pre \o (s \o <<e>>)
    <3>1. /\ EnsureKindEvents(a, k) = s
          /\ EnsureKind(a, k).message_id = d.message_id
      BY <1>2 DEF EnsureKindEvents, EnsureKind, Rotates, Adapter
    <3>2. ContentEvents(a, f) = s \o <<e>>
      BY <3>1 DEF ContentEvents
    <3> QED BY <1>3, <3>2 DEF TranslateEvents, HasContent
  <2> HIDE DEF s, e, n, pre
  <2>7. <<e>> \in Seq(ResponseEvent) /\ <<e>> = <<AppendContent(n, k, ContentOf(f))>>
    BY <2>5
  <2> QED BY <1>1, <1>3, <2>3, <2>4, <2>6, <2>7 DEF n
<1>4. CASE ~HasContent(f) /\ f.type = "Done"
  <2> DEFINE e == StreamFinished(FinishReason(f.reason), a.pending_usage)
             z == <<e>>
             o == <<>>
  <2>1. n = a.message_id
    BY <1>2, <1>4 DEF TranslateAdapter
  <2>2. e \in ResponseEvent
    <3>1. FinishReason(f.reason) \in Reason /\ a.pending_usage \in Option(0..U32Max)
      BY DEF FinishReason, Reason, Adapter
    <3> QED BY <3>1 DEF StreamFinished, ResponseEvent
  <2>3. z \in Seq(ResponseEvent) /\ o \in Seq(ResponseEvent) /\ o \o z = z
    BY <2>2
  <2>4. TranslateEvents(a, f) = pre \o z
    BY <1>4 DEF TranslateEvents, HasContent
  <2> HIDE DEF n, pre, e
  <2> QED BY <1>1, <1>4, <2>1, <2>3, <2>4 DEF n, e
<1>5. CASE ~HasContent(f) /\ f.type # "Done"
  <2> DEFINE o == <<>>
  <2>1. n = a.message_id
    BY <1>2, <1>5 DEF TranslateAdapter, WithUsage, Adapter
  <2>2. o \in Seq(ResponseEvent) /\ o \o o = o /\ pre \o o = pre
    BY <1>1
  <2>3. TranslateEvents(a, f) = pre
    BY <1>1, <1>5 DEF TranslateEvents
  <2> HIDE DEF n, pre
  <2> QED BY <1>1, <1>5, <2>1, <2>2, <2>3 DEF n
<1> QED BY <1>3, <1>4, <1>5

\* Each event that translate() yields shows the frame's content or nothing; only a Done
\* yields a StreamFinished; at most one message is registered, under the id minted last,
\* and an append goes to it.
LEMMA TranslateYields ==
  ASSUME NEW a \in Adapter, NEW f \in OzResponseFrame
  PROVE  LET es == TranslateEvents(a, f)
             m  == a.message_id
             n  == TranslateAdapter(a, f).message_id
         IN  /\ es \in Seq(ResponseEvent)
             /\ EventsSay(es) = FrameContent(f)
             /\ m \in Nat /\ n \in {m, m + 1}
             /\ n = m + 1 => \E i \in 1..Len(es) : IsAdd(es[i]) /\ es[i].id = n
             /\ \A i \in 1..Len(es) :
                  /\ EventContent(es[i]) \in {<<>>, FrameContent(f)}
                  /\ es[i].type = "StreamFinished" =>
                       f.type = "Done" /\ es[i].reason = FinishReason(f.reason)
                  /\ IsAdd(es[i]) => es[i].id = n /\ n = m + 1
                  /\ IsAppend(es[i]) => es[i].id = n
                  /\ \A j \in 1..Len(es) : IsAdd(es[i]) /\ IsAdd(es[j]) => i = j
<1> DEFINE es == TranslateEvents(a, f)
           m == a.message_id
           n == TranslateAdapter(a, f).message_id
           c == FrameContent(f)
           fin == StreamFinished(FinishReason(f.reason), a.pending_usage)
<1>1. PICK pre, add, end \in Seq(ResponseEvent) :
        /\ es = pre \o (add \o end)
        /\ \A i \in 1..Len(pre) : pre[i].type \in {"StreamInit", "CreateTask"}
        /\ \/ add = <<>> /\ n = m
           \/ \E kind : add = <<AddMessages(n, kind)>> /\ n = m + 1
        /\ \/ HasContent(f) /\ \E kind : end = <<AppendContent(n, kind, ContentOf(f))>>
           \/ ~HasContent(f) /\ f.type = "Done" /\ n = m /\ add = <<>> /\ end = <<fin>>
           \/ ~HasContent(f) /\ end = <<>> /\ add = <<>> /\ n = m
  BY TranslateShape
<1>2. m \in Nat
  BY DEF Adapter
<1>3. c \in Seq(Content)
  BY FrameReadingType DEF FrameReading, Reading
<1>4. \A i \in 1..Len(pre) : EventContent(pre[i]) = <<>> /\ ~IsAdd(pre[i]) /\ ~IsAppend(pre[i])
                             /\ pre[i].type # "StreamFinished"
  BY <1>1 DEF EventContent, IsAdd, IsAppend
<1>5. /\ Len(add) \in Nat
      /\ \A i \in 1..Len(add) : /\ i = 1 /\ n = m + 1
                                /\ EventContent(add[i]) = <<>> /\ IsAdd(add[i]) /\ add[i].id = n
                                /\ ~IsAppend(add[i]) /\ add[i].type # "StreamFinished"
      /\ n = m + 1 => 1 \in 1..Len(add)
      /\ n \in {m, m + 1}
  <2>1. CASE add = <<>> /\ n = m
    BY <1>2, <2>1
  <2>2. ASSUME NEW kind, add = <<AddMessages(n, kind)>>, n = m + 1 PROVE <1>5!:
    <3> DEFINE e == AddMessages(n, kind)
    <3>1. EventContent(e) = <<>> /\ IsAdd(e) /\ e.id = n /\ ~IsAppend(e) /\ e.type # "StreamFinished"
      BY DEF AddMessages, EventContent, IsAdd, IsAppend
    <3> HIDE DEF e
    <3>2. Len(add) = 1 /\ add[1] = e
      BY <2>2 DEF e
    <3> HIDE DEF n
    <3> QED BY <2>2, <3>1, <3>2
  <2> QED BY <1>1, <2>1, <2>2
<1>6. /\ Len(end) \in Nat
      /\ EventsSay(end) = c
      /\ \A i \in 1..Len(end) : /\ EventContent(end[i]) = c
                                /\ ~IsAdd(end[i]) /\ (IsAppend(end[i]) => end[i].id = n)
                                /\ end[i].type = "StreamFinished" =>
                                     f.type = "Done" /\ end[i].reason = FinishReason(f.reason)
  <2>1. ASSUME HasContent(f), NEW kind, end = <<AppendContent(n, kind, ContentOf(f))>> PROVE <1>6!:
    <3> DEFINE e == AppendContent(n, kind, ContentOf(f))
    <3>1. /\ EventContent(e) = c /\ ~IsAdd(e) /\ e.id = n /\ e.type # "StreamFinished"
      BY <2>1 DEF AppendContent, EventContent, IsAdd, FrameContent
    <3> HIDE DEF e
    <3>2. Len(end) = 1 /\ end[1] = e /\ end = <<e>>
      BY <2>1 DEF e
    <3>3. e \in ResponseEvent
      BY <1>1, <3>2, ElementOfSeq
    <3> HIDE DEF n, c
    <3>4. EventsSay(end) = EventContent(e)
      BY <3>2, <3>3, EventsSayOf
    <3> QED BY <3>1, <3>2, <3>4
  <2>2. ASSUME ~HasContent(f), f.type = "Done", end = <<fin>> PROVE <1>6!:
    <3>1. EventContent(fin) = <<>> /\ ~IsAdd(fin) /\ ~IsAppend(fin) /\ fin.reason = FinishReason(f.reason)
      BY DEF StreamFinished, EventContent, IsAdd, IsAppend
    <3>2. c = <<>>
      BY <2>2 DEF FrameContent
    <3> HIDE DEF fin
    <3>3. Len(end) = 1 /\ end[1] = fin
      BY <2>2
    <3>4. fin \in ResponseEvent
      BY <1>1, <3>3, ElementOfSeq
    <3> HIDE DEF n, c
    <3>5. EventsSay(end) = EventContent(fin)
      BY <2>2, <3>4, EventsSayOf
    <3> QED BY <2>2, <3>1, <3>2, <3>3, <3>5
  <2>3. ASSUME ~HasContent(f), end = <<>> PROVE <1>6!:
    <3>1. c = <<>> /\ Len(end) = 0
      BY <2>3 DEF FrameContent
    <3> QED BY <2>3, <3>1, EventsSayOf
  <2> QED BY <1>1, <2>1, <2>2, <2>3
<1> DEFINE r == add \o end
           k == Len(pre)
           l == Len(add)
<1>7. /\ r \in Seq(ResponseEvent) /\ k \in Nat /\ l \in Nat
      /\ \A i \in 1..l : i \in 1..Len(r) /\ r[i] = add[i]
      /\ \A j \in 1..Len(end) : l + j \in 1..Len(r) /\ r[l + j] = end[j]
      /\ \A i \in 1..Len(r) : i \in 1..l \/ \E j \in 1..Len(end) : i = l + j
  BY <1>1, InConcat, LenProperties
<1> HIDE DEF r
<1>8. /\ es \in Seq(ResponseEvent)
      /\ \A i \in 1..k : i \in 1..Len(es) /\ es[i] = pre[i]
      /\ \A j \in 1..Len(r) : k + j \in 1..Len(es) /\ es[k + j] = r[j]
      /\ \A i \in 1..Len(es) : i \in 1..k \/ \E j \in 1..Len(r) : i = k + j
  <2>1. es = pre \o r
    BY <1>1 DEF r
  <2> HIDE DEF es
  <2> QED BY <1>1, <1>7, <2>1, InConcat
<1>9. EventsSay(es) = c
  <2>1. es = pre \o r
    BY <1>1 DEF r
  <2> HIDE DEF es, c, n
  <2>2. EventsSay(pre) = <<>> /\ EventsSay(add) = <<>>
    BY <1>1, <1>4, <1>5, EventsSayRules
  <2>3. EventsSay(r) = EventsSay(add) \o EventsSay(end)
    BY <1>1, EventsSayRules DEF r
  <2>4. EventsSay(es) = EventsSay(pre) \o EventsSay(r)
    BY <1>1, <1>7, <2>1, EventsSayRules
  <2> QED BY <1>3, <1>6, <2>2, <2>3, <2>4, ConcatEmptySeq
<1> HIDE DEF es, m, n, c
<1>10. ASSUME NEW i \in 1..Len(es)
       PROVE  \/ i \in 1..k /\ es[i] = pre[i]
              \/ i = k + 1 /\ 1 \in 1..l /\ es[i] = add[1]
              \/ \E j \in 1..Len(end) : es[i] = end[j]
  <2>1. CASE i \in 1..k
    BY <1>8, <2>1
  <2>2. ASSUME NEW j \in 1..Len(r), i = k + j
        PROVE  \/ i = k + 1 /\ 1 \in 1..l /\ es[i] = add[1]
               \/ \E h \in 1..Len(end) : es[i] = end[h]
    <3>1. es[i] = r[j]
      BY <1>8, <2>2
    <3>2. ASSUME j \in 1..l PROVE j = 1 /\ r[j] = add[1]
      BY <1>5, <1>7, <3>2
    <3>3. ASSUME NEW h \in 1..Len(end), j = l + h PROVE r[j] = end[h]
      BY <1>7, <3>3
    <3> QED BY <1>7, <2>2, <3>1, <3>2, <3>3
  <2> QED BY <1>8, <2>1, <2>2
<1>11. n = m + 1 => \E i \in 1..Len(es) : IsAdd(es[i]) /\ es[i].id = n
  <2> SUFFICES ASSUME n = m + 1 PROVE \E i \in 1..Len(es) : IsAdd(es[i]) /\ es[i].id = n
    OBVIOUS
  <2>1. k + 1 \in 1..Len(es) /\ es[k + 1] = add[1]
    BY <1>5, <1>7, <1>8
  <2> QED BY <2>1, <1>5
<1>12. ASSUME NEW i \in 1..Len(es)
       PROVE  /\ EventContent(es[i]) \in {<<>>, c}
              /\ es[i].type = "StreamFinished" =>
                   f.type = "Done" /\ es[i].reason = FinishReason(f.reason)
              /\ IsAdd(es[i]) => es[i].id = n /\ n = m + 1 /\ i = k + 1
              /\ IsAppend(es[i]) => es[i].id = n
  <2>1. CASE i \in 1..k /\ es[i] = pre[i]
    BY <1>4, <2>1
  <2>2. CASE i = k + 1 /\ 1 \in 1..l /\ es[i] = add[1]
    BY <1>5, <2>2 DEF IsAdd
  <2>3. CASE \E j \in 1..Len(end) : es[i] = end[j]
    BY <1>6, <2>3
  <2> QED BY <1>10, <2>1, <2>2, <2>3
<1>13. \A i, j \in 1..Len(es) : IsAdd(es[i]) /\ IsAdd(es[j]) => i = j
  BY <1>12
<1> QED BY <1>2, <1>5, <1>8, <1>9, <1>11, <1>12, <1>13 DEF es, m, n, c

\* New events keep the appends last when they register at most one message, the next
\* one, and append to it.
LEMMA AppendsGrow ==
  ASSUME NEW ids, NEW q \in Seq(ResponseEvent), NEW r \in Seq(ResponseEvent),
         NEW m \in Nat, NEW n \in {m, m + 1},
         AppendsLast(ids, q, m), \A id \in ids : id \in Nat /\ id =< m,
         n = m + 1 => \E i \in 1..Len(r) : IsAdd(r[i]) /\ r[i].id = n,
         \A i \in 1..Len(r) :
           /\ IsAdd(r[i]) => r[i].id = n /\ n = m + 1
           /\ IsAppend(r[i]) => r[i].id = n
           /\ \A j \in 1..Len(r) : IsAdd(r[i]) /\ IsAdd(r[j]) => i = j
  PROVE  AppendsLast(ids, q \o r, n)
<1> DEFINE s == q \o r
           k == Len(q)
<1>1. /\ k \in Nat /\ Len(r) \in Nat /\ n \in Nat /\ m =< n /\ Len(s) = k + Len(r)
      /\ \A i \in 1..k : i \in 1..Len(s) /\ s[i] = q[i]
      /\ \A j \in 1..Len(r) : k + j \in 1..Len(s) /\ s[k + j] = r[j]
      /\ \A i \in 1..Len(s) : i \in 1..k \/ \E j \in 1..Len(r) : i = k + j
  BY InConcat
<1> HIDE DEF s
<1>2. ASSUME NEW i \in 1..k PROVE IsAdd(s[i]) => s[i].id \in 1..m
  BY <1>1 DEF AppendsLast
<1>3. ASSUME NEW id \in 1..n
      PROVE  id \in ids \/ \E i \in 1..Len(s) : IsAdd(s[i]) /\ s[i].id = id
  <2>1. CASE id \in 1..m
    <3>1. id \in ids \/ \E i \in 1..k : IsAdd(q[i]) /\ q[i].id = id
      BY <2>1 DEF AppendsLast
    <3> QED BY <3>1, <1>1
  <2>2. CASE id \notin 1..m
    <3>1. id = n /\ n = m + 1
      BY <2>2
    <3>2. PICK j \in 1..Len(r) : IsAdd(r[j]) /\ r[j].id = id
      BY <3>1
    <3> QED BY <3>2, <1>1
  <2> QED BY <2>1, <2>2
<1>4. \A i \in 1..Len(s) : IsAdd(s[i]) => s[i].id \in 1..n
  <2> SUFFICES ASSUME NEW i \in 1..Len(s), IsAdd(s[i]) PROVE s[i].id \in 1..n
    OBVIOUS
  <2>1. CASE i \in 1..k
    BY <1>1, <1>2, <2>1
  <2>2. ASSUME NEW j \in 1..Len(r), i = k + j PROVE s[i].id \in 1..n
    <3>1. s[i] = r[j]
      BY <1>1, <2>2
    <3>2. IsAdd(r[j])
      BY <3>1
    <3>3. r[j].id = n /\ n = m + 1
      BY <3>2
    <3>4. m + 1 \in 1..(m + 1)
      OBVIOUS
    <3> QED BY <3>1, <3>3, <3>4
  <2> QED BY <1>1, <2>1, <2>2
<1>5. ASSUME NEW i \in 1..Len(s), NEW j \in 1..Len(s), i < j, IsAdd(s[i])
      PROVE  /\ IsAdd(s[j]) => s[i].id < s[j].id
             /\ IsAppend(s[j]) => s[i].id =< s[j].id
  <2>1. CASE j \in 1..k
    <3>1. i \in 1..k /\ s[i] = q[i] /\ s[j] = q[j]
      BY <1>1, <1>5, <2>1
    <3> QED BY <3>1, <2>1, <1>5 DEF AppendsLast
  <2>2. ASSUME NEW h \in 1..Len(r), j = k + h
        PROVE  /\ IsAdd(s[j]) => s[i].id < s[j].id
               /\ IsAppend(s[j]) => s[i].id =< s[j].id
    <3>1. s[j] = r[h]
      BY <1>1, <2>2
    <3>2. CASE i \in 1..k
      <4>1. s[i].id \in 1..m
        BY <1>2, <1>5, <3>2
      <4> QED BY <4>1, <3>1, <1>1, SMTT(60)
    <3>3. ASSUME NEW g \in 1..Len(r), i = k + g
          PROVE  ~IsAdd(s[j]) /\ (IsAppend(s[j]) => s[i].id =< s[j].id)
      <4>1. s[i] = r[g] /\ g # h
        BY <1>1, <1>5, <2>2, <3>3
      <4>2. IsAdd(r[g])
        BY <4>1, <1>5
      <4>3. ~IsAdd(r[h])
        BY <4>1, <4>2
      <4>4. r[g].id = n /\ (IsAppend(r[h]) => r[h].id = n)
        BY <4>2
      <4> QED BY <4>1, <4>3, <4>4, <3>1, <1>1, SMTT(60)
    <3> QED BY <3>2, <3>3, <1>1
  <2> QED BY <1>1, <2>1, <2>2
<1>6. ASSUME NEW i \in 1..Len(s), IsAppend(s[i]), NEW id \in ids PROVE id =< s[i].id
  <2>1. CASE i \in 1..k
    BY <1>1, <1>6, <2>1 DEF AppendsLast
  <2>2. ASSUME NEW h \in 1..Len(r), i = k + h PROVE id =< s[i].id
    <3>1. s[i] = r[h]
      BY <1>1, <2>2
    <3>2. s[i].id = n /\ id \in Nat /\ id =< m
      BY <3>1, <1>6
    <3> QED BY <3>2, <1>1
  <2> QED BY <1>1, <2>1, <2>2
<1> QED BY <1>3, <1>4, <1>5, <1>6 DEF AppendsLast, s

\* The pump translates a frame: what the frame says is now said by its events.
LEMMA PumpTranslateStep == ASSUME AnswerInv, PumpTranslate PROVE AnswerInv'
<1> DEFINE f == Head(frames)
           es == TranslateEvents(adapter, f)
           m == adapter.message_id
           n == TranslateAdapter(adapter, f).message_id
           c == FrameContent(f)
           r == Tail(frames)
<1>1. /\ FailureInv /\ TypeOK /\ Upstream /\ Numbered(client.messages)
      /\ IsPrefix(Shown, Answer) /\ Concluded /\ events = <<>> /\ frames # <<>> /\ pump = "flush"
      /\ body_stream \in Seq(ResponseEvent) /\ frames \in Seq(OzResponseFrame) /\ adapter \in Adapter
  BY DEF AnswerInv, FailureInv, ClientInv, PumpTranslate, TypeOK
<1>2. /\ UNCHANGED <<provider, producer, script, failed, drain, held, bedrock_stream, blocks,
                     body_stream, body, client>>
      /\ adapter' = TranslateAdapter(adapter, f) /\ events' = es /\ frames' = r
  BY DEF PumpTranslate, drainVars, bodyVars
<1>3. FailureInv'
  BY <1>1, FailureStep DEF Next, PumpStream
<1>4. Upstream' /\ Numbered(client.messages)' /\ IsPrefix(Shown, Answer)' /\ taken' = taken
      /\ Shown' = Shown /\ Answer' = Answer /\ Closed' = Closed
  BY <1>1, <1>2 DEF Upstream, OpenFits, InputEnds, StopsOnce, Shown, Answer, taken, Closed
<1>5. Concluded'
  BY <1>1, <1>2, <1>4 DEF Concluded
<1>6. ASSUME body # "dropped" PROVE Underway'
  <2>1. Underway
    BY <1>6 DEF AnswerInv
  <2>2. /\ f \in OzResponseFrame /\ r \in Seq(OzResponseFrame) /\ f = frames[1]
        /\ Len(frames) \in Nat /\ 1 \in 1..Len(frames) /\ Len(r) = Len(frames) - 1
        /\ \A i \in 1..Len(r) : i + 1 \in 1..Len(frames) /\ r[i] = frames[i + 1]
    <3> DEFINE q == frames
    <3>1. q \in Seq(OzResponseFrame) /\ q # <<>>
      BY <1>1
    <3> HIDE DEF q
    <3>2. /\ Head(q) \in OzResponseFrame /\ Tail(q) \in Seq(OzResponseFrame) /\ Head(q) = q[1]
          /\ Len(q) \in Nat /\ 1 \in 1..Len(q) /\ Len(Tail(q)) = Len(q) - 1
          /\ \A i \in 1..Len(Tail(q)) : i + 1 \in 1..Len(q) /\ Tail(q)[i] = q[i + 1]
      BY <3>1, HeadTailProperties, LenProperties, EmptySeq
    <3> QED BY <3>2 DEF q
  <2>3. /\ es \in Seq(ResponseEvent) /\ EventsSay(es) = c /\ m \in Nat /\ n \in {m, m + 1}
        /\ n = m + 1 => \E i \in 1..Len(es) : IsAdd(es[i]) /\ es[i].id = n
        /\ \A i \in 1..Len(es) :
             /\ EventContent(es[i]) \in {<<>>, c}
             /\ es[i].type = "StreamFinished" => f.type = "Done" /\ es[i].reason = FinishReason(f.reason)
             /\ IsAdd(es[i]) => es[i].id = n /\ n = m + 1
             /\ IsAppend(es[i]) => es[i].id = n
             /\ \A j \in 1..Len(es) : IsAdd(es[i]) /\ IsAdd(es[j]) => i = j
    <3>1. adapter \in Adapter /\ f \in OzResponseFrame
      BY <1>1, <2>2 DEF TypeOK
    <3> QED BY <3>1, TranslateYields, Zenon
  <2> DEFINE F == FramesSay(frames)
             R == FramesSay(r)
             E == EventsSay(sent)
             T == Says(provider, script, taken)
  <2>4. /\ F = c \o R /\ c \in Seq(Content) /\ R \in Seq(Content) /\ F \in Seq(Content)
        /\ E \in Seq(Content) /\ T \in Seq(Content) /\ Shown \in Seq(Content)
        /\ sent \in Seq(ResponseEvent) /\ Len(sent) \in Nat
    <3>1. F = c \o R
      BY <1>1, FramesSayRules
    <3>2. c \in Seq(Content)
      BY <2>2, FrameReadingType DEF FrameReading, Reading
    <3>3. R \in Seq(Content)
      <4> HIDE DEF r
      <4> QED BY <2>2, FramesSayRules
    <3> QED BY <3>1, <3>2, <3>3, <1>1, SayTypes
  <2>5. sent' = sent \o es
    <3>1. sent = body_stream
      BY <1>1, ConcatEmptySeq DEF sent
    <3> QED BY <3>1, <1>2 DEF sent
  <2> DEFINE u == sent'
             k == Len(sent)
  <2>6. /\ k \in Nat /\ Len(es) \in Nat /\ Len(u) = k + Len(es)
        /\ \A i \in 1..k : i \in 1..Len(u) /\ u[i] = sent[i]
        /\ \A j \in 1..Len(es) : k + j \in 1..Len(u) /\ u[k + j] = es[j]
        /\ \A i \in 1..Len(u) : i \in 1..k \/ \E j \in 1..Len(es) : i = k + j
    <3> HIDE DEF es, u
    <3> QED BY <2>3, <2>4, <2>5, InConcat DEF u
  <2>7. EventsSay(u) = E \o c
    <3>1. EventsSay(sent \o es) = EventsSay(sent) \o EventsSay(es)
      <4> HIDE DEF es
      <4> QED BY <2>3, <2>4, EventsSayRules
    <3> QED BY <3>1, <2>3, <2>5
  <2>8. InOrder' /\ Delivered' /\ Assembled' /\ ItemsConclude'
    BY <2>1, <1>2, <1>4, SMTT(60) DEF Underway, InOrder, Delivered, StartFits, DeltaFits, StartedBefore,
                             OpenStarted, Assembled, ItemsConclude
  <2>9. AppendsLast(DOMAIN client.messages, sent, adapter.message_id)'
    <3>1. body \in {"none", "open"}
      BY <1>1, <1>6 DEF TypeOK, FailureInv, EndsInOrder
    <3>2. \A id \in DOMAIN client.messages : id \in Nat /\ id =< m
      BY <1>1, <3>1 DEF FailureInv, ClientInv, InFlight, FreshIds, TypeOK, IsClient
    <3>3. AppendsLast(DOMAIN client.messages, sent, m)
      BY <2>1 DEF Underway
    <3> HIDE DEF es, m, n
    <3>4. AppendsLast(DOMAIN client.messages, sent \o es, n)
      BY <2>3, <2>4, <3>2, <3>3, AppendsGrow
    <3> QED BY <3>4, <2>5, <1>2 DEF n
  <2>10. OneAtATime'
    <3>1. /\ \A i \in 1..k : Len(EventContent(sent[i])) =< 1
          /\ \A i \in 1..Len(frames) : Len(FrameContent(frames[i])) =< 1
          /\ Len(EventsSay(events)) + Len(F) =< 1
      BY <2>1 DEF Underway, OneAtATime
    <3>2. Len(c) =< 1
      BY <2>2, <3>1
    <3>3. ASSUME NEW i \in 1..Len(u) PROVE Len(EventContent(u[i])) =< 1
      <4>1. CASE i \in 1..k
        BY <2>6, <3>1, <4>1
      <4>2. ASSUME NEW j \in 1..Len(es), i = k + j PROVE Len(EventContent(u[i])) =< 1
        <5>1. u[i] = es[j] /\ EventContent(es[j]) \in {<<>>, c}
          BY <2>3, <2>6, <4>2
        <5> HIDE DEF u, es, c
        <5>2. Len(<<>>) =< 1
          OBVIOUS
        <5> QED BY <3>2, <5>1, <5>2
      <4> QED BY <2>6, <4>1, <4>2
    <3>4. Len(c) + Len(R) =< 1
      <4>1. Len(EventsSay(events)) = 0
        BY <1>1, EventsSayOf
      <4> HIDE DEF c, R, F
      <4>2. Len(F) = Len(c) + Len(R) /\ Len(F) \in Nat
        BY <2>4, ConcatProperties, LenProperties
      <4> QED BY <3>1, <4>1, <4>2
    <3>5. \A i \in 1..Len(r) : Len(FrameContent(r[i])) =< 1
      BY <2>2, <3>1
    <3> QED BY <3>3, <3>4, <3>5, <2>3, <1>2 DEF OneAtATime
  <2>11. F = <<>> => c = <<>> /\ R = <<>>
    <3> HIDE DEF c, R, F
    <3> QED BY <2>4, EmptyConcat
  <2>12. FramesConclude'
    <3>1. ASSUME NEW i \in 1..Len(r), r[i].type = "Done"
          PROVE  /\ Closed /\ Honest(script, failed, FinishReason(r[i].reason))
                 /\ R = <<>> /\ T = <<>>
      <4>1. i + 1 \in 1..Len(frames) /\ r[i] = frames[i + 1]
        BY <2>2
      <4> QED BY <3>1, <4>1, <2>1, <2>11 DEF Underway, FramesConclude
    <3> QED BY <3>1, <1>2, <1>4 DEF FramesConclude
  <2>13. EventsConclude'
    <3> SUFFICES ASSUME NEW i \in 1..Len(u), u[i].type = "StreamFinished"
                 PROVE  /\ Closed /\ Honest(script, failed, u[i].reason)
                        /\ \A j \in (i + 1)..Len(u) : EventContent(u[j]) = <<>>
                        /\ R = <<>> /\ T = <<>>
      BY <1>2, <1>4 DEF EventsConclude
    <3>1. CASE i \in 1..k
      <4>1. u[i] = sent[i]
        BY <2>6, <3>1
      <4>2. /\ Closed /\ Honest(script, failed, u[i].reason)
            /\ \A j \in (i + 1)..k : EventContent(sent[j]) = <<>>
            /\ F = <<>> /\ T = <<>>
        BY <2>1, <3>1, <4>1 DEF Underway, EventsConclude
      <4>3. ASSUME NEW j \in (i + 1)..Len(u) PROVE EventContent(u[j]) = <<>>
        <5>1. CASE j \in 1..k
          BY <2>6, <4>2, <5>1
        <5>2. ASSUME NEW h \in 1..Len(es), j = k + h PROVE EventContent(u[j]) = <<>>
          BY <2>3, <2>6, <2>11, <4>2, <5>2
        <5>3. j \in 1..Len(u)
          BY <2>6, <3>1
        <5> QED BY <2>6, <5>1, <5>2, <5>3
      <4> QED BY <4>2, <4>3, <2>11
    <3>2. ASSUME NEW g \in 1..Len(es), i = k + g
          PROVE  /\ Closed /\ Honest(script, failed, u[i].reason)
                 /\ \A j \in (i + 1)..Len(u) : EventContent(u[j]) = <<>>
                 /\ R = <<>> /\ T = <<>>
      <4>1. f.type = "Done" /\ u[i].reason = FinishReason(f.reason)
        BY <2>3, <2>6, <3>2
      <4>2. /\ Closed /\ Honest(script, failed, FinishReason(f.reason))
            /\ F = <<>> /\ T = <<>>
        BY <2>1, <2>2, <4>1 DEF Underway, FramesConclude
      <4>3. ASSUME NEW j \in (i + 1)..Len(u) PROVE EventContent(u[j]) = <<>>
        <5>1. j \in 1..Len(u) /\ j \notin 1..k
          BY <2>6, <3>2
        <5>2. PICK h \in 1..Len(es) : j = k + h
          BY <2>6, <5>1
        <5> QED BY <2>3, <2>6, <2>11, <4>2, <5>2
      <4> QED BY <4>1, <4>2, <4>3, <2>11
    <3> QED BY <2>6, <3>1, <3>2
  <2>14. Conserved'
    <3>1. Answer = Shown \o (E \o ((c \o R) \o T))
      BY <2>1, <2>4 DEF Underway, Conserved
    <3>2. E \o ((c \o R) \o T) = (E \o c) \o (R \o T)
      <4> HIDE DEF E, c, R, T
      <4>1. Cat(E, Cat(Cat(c, R), T)) = Cat(Cat(E, c), Cat(R, T))
        BY <2>4, CatRegroup
      <4> QED BY <4>1 DEF Cat
    <3>3. Answer = Shown \o ((E \o c) \o (R \o T))
      BY <3>1, <3>2
    <3> QED BY <3>3, <2>7, <1>2, <1>4 DEF Conserved
  <2> QED BY <2>8, <2>9, <2>10, <2>12, <2>13, <2>14 DEF Underway
<1> QED BY <1>2, <1>3, <1>4, <1>5, <1>6 DEF AnswerInv

-----------------------------------------------------------------------------
(* The client                                                              *)

\* Taking the first of the events in flight, whose appends go last.
LEMMA AppendsTake ==
  ASSUME NEW ids, NEW q \in Seq(ResponseEvent), q # <<>>, NEW m \in Nat, AppendsLast(ids, q, m),
         NEW more, more = IF IsAdd(Head(q)) THEN ids \cup {Head(q).id} ELSE ids
  PROVE  AppendsLast(more, Tail(q), m)
<1> DEFINE e == Head(q)
           r == Tail(q)
<1>1. /\ e = q[1] /\ 1 \in 1..Len(q) /\ Len(q) \in Nat /\ Len(r) \in Nat /\ Len(q) = Len(r) + 1
      /\ \A i \in 1..Len(r) : i + 1 \in 1..Len(q) /\ r[i] = q[i + 1]
      /\ r \in Seq(ResponseEvent)
  BY HeadTailProperties, LenProperties, EmptySeq
<1> HIDE DEF e, r
<1>2. more = IF IsAdd(e) THEN ids \cup {e.id} ELSE ids
  BY DEF e
<1>3. ASSUME NEW id \in 1..m
      PROVE  id \in more \/ \E i \in 1..Len(r) : IsAdd(r[i]) /\ r[i].id = id
  <2>1. CASE id \in ids
    BY <1>2, <2>1
  <2>2. ASSUME NEW i \in 1..Len(q), IsAdd(q[i]), q[i].id = id
        PROVE  id \in more \/ \E h \in 1..Len(r) : IsAdd(r[h]) /\ r[h].id = id
    <3>1. CASE i = 1
      BY <1>1, <1>2, <2>2, <3>1
    <3>2. CASE i # 1
      <4>1. i - 1 \in 1..Len(r) /\ (i - 1) + 1 = i
        BY <1>1, <3>2
      <4>2. r[i - 1] = q[i]
        BY <1>1, <4>1
      <4> QED BY <2>2, <4>1, <4>2
    <3> QED BY <3>1, <3>2
  <2> QED BY <2>1, <2>2 DEF AppendsLast
<1>4. \A i \in 1..Len(r) : IsAdd(r[i]) => r[i].id \in 1..m
  BY <1>1 DEF AppendsLast
<1>5. ASSUME NEW i \in 1..Len(r), NEW j \in 1..Len(r), i < j, IsAdd(r[i])
      PROVE  /\ IsAdd(r[j]) => r[i].id < r[j].id
             /\ IsAppend(r[j]) => r[i].id =< r[j].id
  <2>1. /\ i + 1 \in 1..Len(q) /\ j + 1 \in 1..Len(q) /\ i + 1 < j + 1
        /\ r[i] = q[i + 1] /\ r[j] = q[j + 1]
    BY <1>1, <1>5
  <2> QED BY <2>1, <1>5 DEF AppendsLast
<1>6. ASSUME NEW i \in 1..Len(r), IsAppend(r[i]), NEW id \in more
      PROVE  id =< r[i].id
  <2>1. i + 1 \in 1..Len(q) /\ r[i] = q[i + 1] /\ 1 < i + 1
    BY <1>1
  <2>2. CASE id \in ids
    BY <2>1, <2>2, <1>6 DEF AppendsLast
  <2>3. CASE IsAdd(e) /\ id = e.id
    BY <1>1, <2>1, <2>3, <1>6 DEF AppendsLast
  <2> QED BY <1>2, <1>6, <2>2, <2>3
<1> QED BY <1>3, <1>4, <1>5, <1>6 DEF AppendsLast, r

\* The next message registered is the next in number, and an append goes to the last one.
LEMMA NextInNumber ==
  ASSUME NEW n \in Nat, NEW q \in Seq(ResponseEvent), q # <<>>, NEW m \in Nat,
         AppendsLast(1..n, q, m)
  PROVE  /\ IsAdd(Head(q)) /\ Head(q).id \notin 1..n => Head(q).id = n + 1
         /\ IsAppend(Head(q)) /\ Head(q).id \in 1..n => Head(q).id = n /\ n # 0
<1> DEFINE e == Head(q)
<1>1. e = q[1] /\ 1 \in 1..Len(q) /\ Len(q) \in Nat
  BY HeadTailProperties, LenProperties, EmptySeq
<1> HIDE DEF e
<1>2. ASSUME IsAdd(e), e.id \notin 1..n PROVE e.id = n + 1
  <2>1. e.id \in 1..m /\ e.id > n
    BY <1>1, <1>2 DEF AppendsLast
  <2>2. SUFFICES ASSUME e.id > n + 1 PROVE FALSE
    BY <2>1
  <2>3. n + 1 \in 1..m /\ n + 1 \notin 1..n
    BY <2>1, <2>2
  <2>4. PICK i \in 1..Len(q) : IsAdd(q[i]) /\ q[i].id = n + 1
    BY <2>3 DEF AppendsLast
  <2>5. i = 1 \/ 1 < i
    BY <1>1
  <2>6. CASE i = 1
    BY <1>1, <2>2, <2>4, <2>6
  <2>7. CASE 1 < i
    <3>1. q[1].id < q[i].id
      BY <1>1, <1>2, <2>4, <2>7 DEF AppendsLast
    <3> QED BY <3>1, <1>1, <2>1, <2>2, <2>4
  <2> QED BY <2>5, <2>6, <2>7
<1>3. ASSUME IsAppend(e), e.id \in 1..n PROVE e.id = n /\ n # 0
  <2>1. n \in 1..n
    BY <1>3
  <2>2. n =< e.id
    BY <1>1, <1>3, <2>1 DEF AppendsLast
  <2> QED BY <2>1, <2>2, <1>3
<1> QED BY <1>2, <1>3 DEF e

\* The client adds what the event says to the end of what it displays.
LEMMA ClientShows ==
  ASSUME TypeOK, Numbered(client.messages), sent \in Seq(ResponseEvent), sent # <<>>,
         AppendsLast(DOMAIN client.messages, sent, adapter.message_id),
         Lands(client, Head(sent))
  PROVE  LET e == Head(sent)
             d == Applied(client, e)
         IN  /\ Numbered(d.messages)
             /\ Display(d.messages) = Display(client.messages) \o EventContent(e)
             /\ AppendsLast(DOMAIN d.messages, Tail(sent), adapter.message_id)
             /\ d.finished = IF e.type = "StreamFinished" THEN Append(client.finished, e)
                             ELSE client.finished
<1> DEFINE e == Head(sent)
           d == Applied(client, e)
           ms == client.messages
           ns == d.messages
           m == adapter.message_id
<1>1. m \in Nat /\ e \in ResponseEvent /\ IsClient(client)
  BY HeadTailProperties DEF TypeOK, Adapter
<1>2. PICK n \in Nat : DOMAIN ms = 1..n
  BY NumberedHas
<1>3. /\ IsAdd(e) /\ e.id \notin 1..n => e.id = n + 1
      /\ IsAppend(e) /\ e.id \in 1..n => e.id = n /\ n # 0
  BY <1>1, <1>2, NextInNumber
<1>4. \A id \in 1..n : ms[id] \in Message
  BY <1>1, <1>2 DEF IsClient
<1>5. e.type \in {"StreamInit", "CreateTask", "AddMessagesToTask", "AppendToMessageContent",
                  "StreamFinished"}
  BY <1>1 DEF ResponseEvent
<1>6. Display(ms) \in Seq(Content)
  <2>1. Display(ms) = FlattenSeq(Bodies(ms, n)) /\ Bodies(ms, n) \in Seq(Seq(Content))
    BY <1>2, <1>4, NumberedIs, BodiesType
  <2> QED BY <2>1, FlattenType
<1>7. d.finished = IF e.type = "StreamFinished" THEN Append(client.finished, e) ELSE client.finished
  BY <1>1, <1>5 DEF IsClient, Applied
<1>8. CASE IsAdd(e)
  <2>1. e.id = n + 1 /\ e.kind \in ActiveKind
    BY <1>1, <1>2, <1>3, <1>8 DEF Lands, IsAdd, ResponseEvent
  <2>2. ns = Register(ms, n + 1, e.kind)
    BY <1>1, <1>8, <2>1 DEF IsClient, Applied, IsAdd
  <2>3. EventContent(e) = <<>>
    BY <1>8 DEF EventContent, IsAdd
  <2> HIDE DEF d, ms, e, m
  <2>4. DOMAIN ns = 1..(n + 1) /\ Display(ns) = Display(ms)
    BY <1>2, <1>4, <2>1, <2>2, RegisterShows
  <2>5. Numbered(ns)
    <3> DEFINE l == n + 1
    <3>1. l \in Nat /\ DOMAIN ns = 1..l
      BY <2>4
    <3> HIDE DEF l, ns
    <3> QED BY <3>1, NumberedIs
  <2>6. AppendsLast(DOMAIN ns, Tail(sent), m)
    <3>1. DOMAIN ns = DOMAIN ms \cup {e.id}
      BY <1>2, <2>1, <2>4
    <3> DEFINE ids == DOMAIN ms
               more == DOMAIN ns
    <3>2. AppendsLast(ids, sent, m) /\ more = ids \cup {e.id}
      BY <3>1 DEF ms, m
    <3> HIDE DEF ids, more
    <3> QED BY <1>1, <1>8, <3>2, AppendsTake DEF e, more
  <2>7. Display(ms) \o <<>> = Display(ms)
    BY <1>6, ConcatEmptySeq
  <2> QED BY <1>7, <2>3, <2>4, <2>5, <2>6, <2>7 DEF d, ms, e, m
<1>9. CASE IsAppend(e)
  <2>1. e.id = n /\ n \in Nat \ {0} /\ e.content \in Seq(Content)
    BY <1>1, <1>2, <1>3, <1>9 DEF Lands, IsAppend, ResponseEvent
  <2>2. ns = Extend(ms, n, e.content)
    BY <1>1, <1>9, <2>1 DEF IsClient, Applied, IsAppend
  <2>3. EventContent(e) = e.content /\ ~IsAdd(e)
    BY <1>9 DEF EventContent, IsAppend, IsAdd
  <2> HIDE DEF d, ms, e, m
  <2>4. DOMAIN ns = 1..n /\ Display(ns) = Display(ms) \o e.content
    <3> DEFINE c == e.content
    <3>1. c \in Seq(Content) /\ n \in Nat \ {0} /\ ns = Extend(ms, n, c)
      BY <2>1, <2>2
    <3> HIDE DEF c, ns
    <3>2. DOMAIN Extend(ms, n, c) = 1..n /\ Display(Extend(ms, n, c)) = Display(ms) \o c
      BY <1>2, <1>4, <3>1, ExtendShows
    <3> QED BY <3>1, <3>2 DEF c
  <2>5. Numbered(ns)
    <3>1. n \in Nat /\ DOMAIN ns = 1..n
      BY <2>1, <2>4
    <3> HIDE DEF ns
    <3> QED BY <3>1, NumberedIs
  <2>6. AppendsLast(DOMAIN ns, Tail(sent), m)
    <3> DEFINE ids == DOMAIN ms
               more == DOMAIN ns
    <3>1. AppendsLast(ids, sent, m) /\ more = ids
      BY <1>2, <2>4 DEF ms, m
    <3> HIDE DEF ids, more
    <3> QED BY <1>1, <2>3, <3>1, AppendsTake DEF e, more
  <2> QED BY <1>7, <2>3, <2>4, <2>5, <2>6 DEF d, ms, e, m
<1>10. CASE ~IsAdd(e) /\ ~IsAppend(e)
  <2>1. ns = ms
    BY <1>1, <1>5, <1>10 DEF IsClient, Applied, IsAdd, IsAppend
  <2>2. EventContent(e) = <<>>
    BY <1>10 DEF EventContent, IsAppend
  <2> HIDE DEF d, ms, e, m
  <2>3. AppendsLast(DOMAIN ns, Tail(sent), m)
    <3> DEFINE ids == DOMAIN ms
               more == DOMAIN ns
    <3>1. AppendsLast(ids, sent, m) /\ more = ids
      BY <2>1 DEF ms, m
    <3> HIDE DEF ids, more
    <3> QED BY <1>1, <1>10, <3>1, AppendsTake DEF e, more
  <2>4. Display(ms) \o <<>> = Display(ms)
    BY <1>6, ConcatEmptySeq
  <2>5. Numbered(ms)
    BY DEF ms
  <2> QED BY <1>7, <2>1, <2>2, <2>3, <2>4, <2>5 DEF d, ms, e, m
<1> QED BY <1>8, <1>9, <1>10

\* The client receives the next event, which it can apply.
LEMMA Receives ==
  ASSUME TypeOK, ClientInv, BodyPoll
  PROVE  /\ sent \in Seq(ResponseEvent) /\ sent # <<>> /\ sent' = Tail(sent)
         /\ Lands(client, Head(sent)) /\ client' = Applied(client, Head(sent))
<1> DEFINE e == Head(sent)
<1>1. /\ body_stream \in Seq(ResponseEvent) /\ events \in Seq(ResponseEvent) /\ adapter \in Adapter
      /\ IsClient(client) /\ body_stream # <<>>
      /\ client' = Receive(client, Head(body_stream)) /\ body_stream' = Tail(body_stream)
      /\ events' = events
  BY DEF TypeOK, BodyPoll, pumpVars
<1>2. sent \in Seq(ResponseEvent) /\ sent # <<>> /\ e = Head(body_stream) /\ sent' = Tail(sent)
  <2> DEFINE q == body_stream
             t == events
             s == q \o t
  <2>1. q \in Seq(ResponseEvent) /\ t \in Seq(ResponseEvent) /\ q # <<>>
    BY <1>1
  <2> HIDE DEF q, t
  <2>2. /\ s \in Seq(ResponseEvent) /\ Len(s) >= 1 /\ s[1] = Head(q) /\ Tail(s) = Tail(q) \o t
    BY <2>1, TakeHead
  <2>3. s # <<>> /\ Head(s) = s[1]
    <3> HIDE DEF s
    <3> QED BY <2>2, LenProperties
  <2>4. sent = s /\ sent' = Tail(q) \o t
    BY <1>1 DEF sent, q, t
  <2> HIDE DEF s
  <2> QED BY <2>2, <2>3, <2>4 DEF q
<1>3. InFlight(client, sent, adapter) /\ client.fault = FALSE
  BY DEF ClientInv, BodyPoll, sent
<1>4. Receive(client, e).fault = FALSE
  <2> DEFINE q == sent
  <2> HIDE DEF q
  <2>1. Receive(client, Head(q)).fault = client.fault
    BY <1>1, <1>2, <1>3, FirstLands DEF q
  <2> QED BY <2>1, <1>3 DEF q
<1>5. Lands(client, e)
  <2> SUFFICES ASSUME ~Lands(client, e) PROVE FALSE
    OBVIOUS
  <2>1. Receive(client, e) = [client EXCEPT !.fault = TRUE]
    BY DEF Receive
  <2>2. [client EXCEPT !.fault = TRUE].fault = TRUE
    BY <1>1 DEF IsClient
  <2> QED BY <2>1, <2>2, <1>4
<1> QED BY <1>1, <1>2, <1>5 DEF Receive

\* hyper polls the body: what the event says is shown.
LEMMA BodyPollStep == ASSUME AnswerInv, BodyPoll PROVE AnswerInv'
<1> DEFINE e == Head(sent)
           u == Tail(sent)
           c == EventContent(e)
           E == EventsSay(u)
           F == FramesSay(frames)
           T == Says(provider, script, taken)
           d == client'
<1>1. /\ FailureInv /\ ClientInv /\ TypeOK /\ Upstream /\ Numbered(client.messages)
      /\ IsPrefix(Shown, Answer) /\ Concluded /\ Underway
  BY DEF AnswerInv, FailureInv, ClientInv, BodyPoll
<1>2. /\ UNCHANGED <<provider, producer, script, failed, drain, held, bedrock_stream, blocks,
                     adapter, frames, events, body>>
  BY DEF BodyPoll, drainVars, pumpVars
<1>3. FailureInv'
  BY <1>1, FailureStep DEF Next, Body
<1>4. /\ sent \in Seq(ResponseEvent) /\ sent # <<>> /\ sent' = u
      /\ Lands(client, e) /\ d = Applied(client, e)
  BY <1>1, Receives
<1>5. /\ Numbered(d.messages)
      /\ Display(d.messages) = Shown \o c
      /\ AppendsLast(DOMAIN d.messages, u, adapter.message_id)
      /\ d.finished = IF e.type = "StreamFinished" THEN Append(client.finished, e)
                      ELSE client.finished
  <2>1. AppendsLast(DOMAIN client.messages, sent, adapter.message_id)
    BY <1>1 DEF Underway
  <2> QED BY <1>1, <1>4, <2>1, ClientShows DEF Shown
<1>6. Shown' = Shown \o c
  BY <1>5 DEF Shown
<1>7. /\ Upstream' /\ taken' = taken /\ Answer' = Answer /\ Closed' = Closed
  BY <1>1, <1>2 DEF Upstream, OpenFits, InputEnds, StopsOnce, Answer, taken, Closed
<1>8. /\ e \in ResponseEvent /\ u \in Seq(ResponseEvent) /\ e = sent[1]
      /\ Len(sent) \in Nat /\ Len(u) \in Nat /\ Len(sent) = Len(u) + 1 /\ 1 \in 1..Len(sent)
      /\ \A i \in 1..Len(u) : i + 1 \in 1..Len(sent) /\ u[i] = sent[i + 1]
  <2> DEFINE q == sent
  <2> HIDE DEF q
  <2>1. q \in Seq(ResponseEvent) /\ q # <<>>
    BY <1>4 DEF q
  <2>2. /\ Head(q) \in ResponseEvent /\ Tail(q) \in Seq(ResponseEvent) /\ Head(q) = q[1]
        /\ Len(q) \in Nat /\ Len(Tail(q)) \in Nat /\ Len(q) = Len(Tail(q)) + 1 /\ 1 \in 1..Len(q)
        /\ \A i \in 1..Len(Tail(q)) : i + 1 \in 1..Len(q) /\ Tail(q)[i] = q[i + 1]
    BY <2>1, HeadTailProperties, LenProperties, EmptySeq
  <2> QED BY <2>2 DEF q
<1>9. /\ EventsSay(sent) = c \o E /\ c \in Seq(Content) /\ E \in Seq(Content)
      /\ F \in Seq(Content) /\ T \in Seq(Content) /\ Shown \in Seq(Content) /\ Answer \in Seq(Content)
  <2>1. EventsSay(sent) = c \o E
    BY <1>4, EventsSayRules
  <2>2. c \in Seq(Content)
    BY <1>8, EventReadingType DEF EventReading, Reading
  <2>3. E \in Seq(Content)
    <3> HIDE DEF u
    <3> QED BY <1>8, EventsSayRules
  <2> QED BY <2>1, <2>2, <2>3, <1>1, SayTypes
<1>10. Answer = (Shown \o c) \o (E \o (F \o T)) /\ Conserved'
  <2>1. Answer = Shown \o ((c \o E) \o (F \o T))
    BY <1>1, <1>9 DEF Underway, Conserved
  <2> DEFINE a == Shown
  <2>2. a \o ((c \o E) \o (F \o T)) = (a \o c) \o (E \o (F \o T))
    <3>1. a \in Seq(Content)
      BY <1>9
    <3> HIDE DEF a, c, E, F, T
    <3>2. Cat(F, T) \in Seq(Content)
      BY <1>9, CatType
    <3>3. Cat(a, Cat(Cat(c, E), Cat(F, T))) = Cat(Cat(a, c), Cat(E, Cat(F, T)))
      BY <1>9, <3>1, <3>2, CatRegroup
    <3> QED BY <3>3 DEF Cat
  <2> QED BY <2>1, <2>2, <1>2, <1>4, <1>6, <1>7 DEF Conserved
<1>11. IsPrefix(Shown, Answer)'
  <2> DEFINE a == Shown \o c
             b == E \o (F \o T)
  <2>1. a \in Seq(Content) /\ b \in Seq(Content)
    BY <1>9, ConcatProperties
  <2> HIDE DEF a, b
  <2>2. IsPrefix(a, a \o b)
    BY <2>1, PrefixGrows
  <2> QED BY <2>2, <1>6, <1>7, <1>10 DEF a, b
<1>12. Shown = Answer => c = <<>> /\ E = <<>>
  <2> DEFINE a == Shown
             b == c \o (E \o (F \o T))
  <2>1. Answer = a \o b
    <3> HIDE DEF c, E, F, T
    <3>1. a \in Seq(Content)
      BY <1>9
    <3> HIDE DEF a
    <3>2. Cat(F, T) \in Seq(Content)
      BY <1>9, CatType
    <3>3. Cat(E, Cat(F, T)) \in Seq(Content)
      BY <1>9, <3>2, CatType
    <3>4. Cat(Cat(a, c), Cat(E, Cat(F, T))) = Cat(a, Cat(c, Cat(E, Cat(F, T))))
      BY <1>9, <3>1, <3>3, CatAssociative
    <3>5. (a \o c) \o (E \o (F \o T)) = a \o (c \o (E \o (F \o T)))
      BY <3>4 DEF Cat
    <3> QED BY <3>5, <1>10 DEF a
  <2>2. a \in Seq(Content) /\ b \in Seq(Content) /\ E \o (F \o T) \in Seq(Content)
    BY <1>9, ConcatProperties
  <2>3. a = a \o b => b = <<>>
    <3> HIDE DEF a, b
    <3>1. Len(a \o b) = Len(a) + Len(b) /\ Len(a) \in Nat /\ Len(b) \in Nat
      BY <2>2, ConcatProperties, LenProperties
    <3>2. a = a \o b => Len(b) = 0
      BY <3>1
    <3> QED BY <3>2, <2>2, EmptySeq
  <2>4. b = <<>> => c = <<>> /\ E \o (F \o T) = <<>>
    <3> DEFINE x == E \o (F \o T)
    <3> HIDE DEF c, x
    <3> QED BY <1>9, <2>2, EmptyConcat DEF x
  <2>5. E \o (F \o T) = <<>> => E = <<>>
    <3> DEFINE y == F \o T
    <3>1. y \in Seq(Content)
      BY <1>9, ConcatProperties
    <3> HIDE DEF E, y
    <3> QED BY <1>9, <3>1, EmptyConcat DEF y
  <2> QED BY <2>1, <2>3, <2>4, <2>5
<1>13. Shown \o <<>> = Shown /\ Shown \o (<<>> \o (<<>> \o <<>>)) = Shown
  BY <1>9, ConcatEmptySeq
<1>14. Concluded'
  <2> SUFFICES ASSUME NEW i \in 1..Len(d.finished)
               PROVE  Closed /\ Shown' = Answer /\ Honest(script, failed, d.finished[i].reason)
    BY <1>2, <1>7 DEF Concluded
  <2>1. client.finished \in Seq(ResponseEvent)
    BY <1>1 DEF TypeOK, IsClient
  <2>2. CASE i \in 1..Len(client.finished)
    <3>1. d.finished[i] = client.finished[i]
      <4> HIDE DEF d, e
      <4> QED BY <1>5, <1>8, <2>1, <2>2
    <3>2. Closed /\ Shown = Answer /\ Honest(script, failed, client.finished[i].reason)
      BY <1>1, <2>2 DEF Concluded
    <3> QED BY <3>1, <3>2, <1>6, <1>12, <1>13
  <2>3. CASE i \notin 1..Len(client.finished)
    <3>1. e.type = "StreamFinished" /\ d.finished[i] = e
      <4> DEFINE q == client.finished
      <4>1. q \in Seq(ResponseEvent) /\ i \notin 1..Len(q)
        BY <2>1, <2>3
      <4>2. d.finished = IF e.type = "StreamFinished" THEN Append(q, e) ELSE q
        BY <1>5
      <4>3. i \in 1..Len(d.finished)
        OBVIOUS
      <4> HIDE DEF d, e, q
      <4>4. e.type = "StreamFinished" /\ d.finished = Append(q, e)
        BY <4>1, <4>2, <4>3
      <4>5. Len(q) \in Nat /\ Len(Append(q, e)) = Len(q) + 1 /\ Append(q, e)[Len(q) + 1] = e
        BY <4>1, <1>8, AppendProperties, LenProperties
      <4>6. i = Len(q) + 1
        BY <4>1, <4>3, <4>4, <4>5
      <4> QED BY <4>4, <4>5, <4>6
    <3>2. /\ Closed /\ Honest(script, failed, e.reason)
          /\ \A j \in 2..Len(sent) : EventContent(sent[j]) = <<>>
          /\ F = <<>> /\ T = <<>>
      BY <1>1, <1>8, <3>1 DEF Underway, EventsConclude
    <3>3. E = <<>>
      <4>1. \A i_1 \in 1..Len(u) : EventContent(u[i_1]) = <<>>
        <5> SUFFICES ASSUME NEW j \in 1..Len(u) PROVE EventContent(u[j]) = <<>>
          OBVIOUS
        <5>1. j + 1 \in 2..Len(sent) /\ u[j] = sent[j + 1]
          BY <1>8
        <5> QED BY <5>1, <3>2
      <4> HIDE DEF u
      <4> QED BY <4>1, <1>8, EventsSayRules
    <3>4. c = <<>>
      BY <3>1 DEF EventContent
    <3>5. Answer = (Shown \o <<>>) \o (<<>> \o (<<>> \o <<>>))
      BY <1>10, <3>2, <3>3, <3>4
    <3>6. Answer = Shown
      BY <3>5, <1>13
    <3> QED BY <3>1, <3>2, <3>4, <3>6, <1>6, <1>13
  <2> QED BY <2>2, <2>3
<1>15. Underway'
  <2>1. InOrder' /\ Delivered' /\ Assembled' /\ ItemsConclude' /\ FramesConclude'
    BY <1>1, <1>2, <1>7 DEF Underway, InOrder, Delivered, StartFits, DeltaFits, StartedBefore,
                             OpenStarted, Assembled, ItemsConclude, FramesConclude
  <2>2. AppendsLast(DOMAIN client.messages, sent, adapter.message_id)'
    BY <1>2, <1>4, <1>5
  <2>3. OneAtATime'
    <3>1. \A i \in 1..Len(u) : Len(EventContent(u[i])) =< 1
      BY <1>1, <1>8 DEF Underway, OneAtATime
    <3> QED BY <3>1, <1>1, <1>2, <1>4 DEF Underway, OneAtATime
  <2>4. EventsConclude'
    <3> SUFFICES ASSUME NEW i \in 1..Len(u), u[i].type = "StreamFinished"
                 PROVE  /\ Closed /\ Honest(script, failed, u[i].reason)
                        /\ \A j \in (i + 1)..Len(u) : EventContent(u[j]) = <<>>
                        /\ F = <<>> /\ T = <<>>
      BY <1>2, <1>4, <1>7 DEF EventsConclude
    <3>1. i + 1 \in 1..Len(sent) /\ u[i] = sent[i + 1]
      BY <1>8
    <3>2. /\ Closed /\ Honest(script, failed, u[i].reason)
          /\ \A j \in (i + 2)..Len(sent) : EventContent(sent[j]) = <<>>
          /\ F = <<>> /\ T = <<>>
      BY <1>1, <1>8, <3>1 DEF Underway, EventsConclude
    <3>3. \A j \in (i + 1)..Len(u) : j + 1 \in (i + 2)..Len(sent) /\ u[j] = sent[j + 1]
      BY <1>8
    <3> QED BY <3>2, <3>3
  <2> QED BY <2>1, <2>2, <2>3, <2>4, <1>10 DEF Underway
<1> QED BY <1>3, <1>5, <1>7, <1>11, <1>14, <1>15 DEF AnswerInv

-----------------------------------------------------------------------------
(* The inductive invariant                                                 *)

\* AnswerInv holds before the first step,
LEMMA AnswerInit == Init => AnswerInv
<1> SUFFICES ASSUME Init PROVE AnswerInv
  OBVIOUS
<1>1. FailureInv /\ TypeOK
  BY FailureInit DEF FailureInv, ClientInv
<1>2. /\ script = <<>> /\ held = <<>> /\ bedrock_stream = <<>> /\ frames = <<>> /\ events = <<>>
      /\ body_stream = <<>> /\ blocks = <<>> /\ body = "none"
      /\ producer.phase # "open" /\ producer.block = "none" /\ producer.index = 0
      /\ adapter.message_id = 0 /\ client.messages = <<>> /\ client.finished = <<>>
  BY DEF Init, NewProducer, NewAdapter, NewClient
<1>3. sent = <<>> /\ taken = <<>>
  BY <1>2, EmptySeq, ConcatEmptySeq DEF sent, taken
<1>4. /\ InputOf(script, 0) = <<>>
      /\ \A index, kind : ~Starts(script, index, kind)
  BY <1>2, InputOfOne DEF Starts
<1>5. Upstream
  BY <1>2, <1>4 DEF Upstream, OpenFits, InputEnds, StopsOnce, IsTool, IsReasoning
<1>6. DOMAIN client.messages = 1..0
  BY <1>2
<1>7. Numbered(client.messages) /\ Shown = <<>>
  <2>1. /\ Numbered(client.messages) /\ Display(client.messages) = FlattenSeq(Bodies(client.messages, 0))
    BY <1>6, NumberedIs
  <2>2. Bodies(client.messages, 0) = <<>>
    BY DEF Bodies
  <2> QED BY <2>1, <2>2, FlattenEmpty DEF Shown
<1>8. /\ Answer = <<>> /\ EventsSay(sent) = <<>> /\ EventsSay(events) = <<>>
      /\ FramesSay(frames) = <<>> /\ Says(provider, script, taken) = <<>>
  BY <1>1, <1>2, <1>3, EventsSayOf, FramesSayOf, SaysOf DEF Answer, TypeOK
<1>9. IsPrefix(Shown, Answer)
  <2> DEFINE z == <<>>
  <2>1. z \in Seq(Content) /\ z \o z = z /\ Shown = z /\ Answer = z
    BY <1>7, <1>8, EmptySeq, ConcatEmptySeq
  <2> HIDE DEF z
  <2>2. IsPrefix(z, z \o z)
    BY <2>1, PrefixGrows
  <2> QED BY <2>1, <2>2
<1>10. Concluded
  BY <1>2 DEF Concluded
<1>11. InOrder /\ Delivered /\ Assembled
  <2>1. KindFits(provider, script, producer.index, "text")
    BY <1>4 DEF KindFits, IsTool, IsReasoning
  <2> QED BY <1>2, <1>3, <2>1 DEF InOrder, Delivered, OpenStarted, Assembled
<1>12. AppendsLast(DOMAIN client.messages, sent, adapter.message_id)
  BY <1>2, <1>3 DEF AppendsLast
<1>13. OneAtATime
  BY <1>2, <1>3, <1>8 DEF OneAtATime
<1>14. ItemsConclude /\ FramesConclude /\ EventsConclude
  BY <1>2, <1>3 DEF ItemsConclude, FramesConclude, EventsConclude
<1>15. Conserved
  BY <1>7, <1>8, EmptySeq, ConcatEmptySeq DEF Conserved
<1> QED BY <1>1, <1>5, <1>7, <1>9, <1>10, <1>11, <1>12, <1>13, <1>14, <1>15
        DEF AnswerInv, Underway

\* and every step preserves it.
LEMMA AnswerStep == AnswerInv /\ [Next]_vars => AnswerInv'
<1> SUFFICES ASSUME AnswerInv, [Next]_vars PROVE AnswerInv'
  OBVIOUS
<1>1. CASE Handle
  BY <1>1, HandleStep
<1>2. CASE Drain
  BY <1>2, DrainRecvStep, DrainErrStep, DrainEofStep, DrainSendStep DEF Drain
<1>3. CASE PumpStream
  BY <1>3, PumpRecvStep, PumpTranslateStep, PumpQuietStep DEF PumpStream
<1>4. CASE Body
  BY <1>4, BodyPollStep, BodyGoneStep DEF Body
<1>5. CASE UNCHANGED vars
  <2>1. FailureInv'
    BY FailureStep DEF AnswerInv
  <2>2. /\ UNCHANGED <<provider, producer, script, failed, drain, held, bedrock_stream, blocks,
                       adapter, frames, events, body_stream, body, client>>
    BY <1>5 DEF vars, drainVars, pumpVars, bodyVars
  <2>3. (Closed => Closed') /\ taken' = taken /\ sent' = sent
    BY <2>2 DEF Closed, taken, sent
  <2>4. body # "dropped" => OneAtATime'
    BY <2>2, <2>3 DEF AnswerInv, Underway, OneAtATime
  <2> QED BY <2>1, <2>2, <2>3, <2>4, QuietStep
<1> QED BY <1>1, <1>2, <1>3, <1>4, <1>5 DEF Next

\* Nothing is lost, repeated or invented between Bedrock and the client: what the
\* client shows and what is on its way to it make up the answer (route_multi_agent.rs:108-187).
THEOREM NothingIsLost == Spec => []AnswerInv
  BY AnswerInit, AnswerStep, PTL DEF Spec

\* The client shows a prefix of the answer at every moment (route_multi_agent.rs:108-187).
THEOREM AnswerShownInOrder == Spec => []ShownInOrder
<1>1. AnswerInv => ShownInOrder
  BY DEF AnswerInv, ShownInOrder
<1> QED BY NothingIsLost, <1>1, PTL

\* Once the body has ended nothing is on its way.
LEMMA NothingLeft ==
  ASSUME AnswerInv, pump = "done", drain = "done", body # "dropped", body_stream = <<>>
  PROVE  Shown = Answer
<1>1. /\ bedrock_stream = <<>> /\ held = <<>> /\ frames = <<>> /\ events = <<>>
      /\ TypeOK /\ Numbered(client.messages) /\ Conserved
  BY DEF AnswerInv, FailureInv, ClientInv, EndsInOrder, ErrorComesLast, Underway
<1>2. sent = <<>> /\ taken = <<>>
  BY <1>1, EmptySeq, ConcatEmptySeq DEF sent, taken
<1>3. /\ EventsSay(sent) = <<>> /\ FramesSay(frames) = <<>>
      /\ Says(provider, script, taken) = <<>> /\ Shown \in Seq(Content)
  BY <1>1, <1>2, EventsSayOf, FramesSayOf, SaysOf, SayTypes DEF TypeOK
<1> QED BY <1>1, <1>3, ConcatEmptySeq, EmptySeq DEF Conserved

\* A body that ends by itself has delivered the whole answer, also when the stream
\* failed (route_multi_agent.rs:125-187).
THEOREM EndedBodiesAreComplete == Spec => []EndedComplete
<1>1. AnswerInv => EndedComplete
  <2> SUFFICES ASSUME AnswerInv, body = "ended" PROVE Shown = Answer
    BY DEF EndedComplete
  <2> QED BY NothingLeft DEF AnswerInv, FailureInv, EndsInOrder
<1> QED BY NothingIsLost, <1>1, PTL

\* A StreamFinished is the last word of the answer and gives the reason for which the
\* model stopped, or Other for a stream that failed (route_multi_agent.rs:132-138).
THEOREM VerdictsAreHonest == Spec => []HonestFinish
<1>1. AnswerInv => HonestFinish
  BY DEF AnswerInv, HonestFinish, Concluded, Honest
<1> QED BY NothingIsLost, <1>1, PTL

\* A client that stops reading stops the proxy reading: at most the capacity of the
\* two channels and two items are ahead of it (route_multi_agent.rs:64, 108-187).
THEOREM ReadAheadIsBounded == Spec => []BoundedReadAhead
<1>1. AnswerInv => BoundedReadAhead
  <2> SUFFICES ASSUME AnswerInv, body # "dropped"
               PROVE  Len(Answer) - Len(Shown) =< StreamCap + BodyCap + 2
    BY DEF BoundedReadAhead
  <2>1. /\ TypeOK /\ Numbered(client.messages) /\ OneAtATime /\ Conserved
    BY DEF AnswerInv, FailureInv, ClientInv, Underway
  <2>2. /\ StreamCap \in Nat /\ BodyCap \in Nat /\ script \in Seq(SdkEvent)
        /\ bedrock_stream \in Seq(Item) /\ Len(bedrock_stream) =< StreamCap
        /\ body_stream \in Seq(ResponseEvent) /\ Len(body_stream) =< BodyCap
        /\ events \in Seq(ResponseEvent) /\ held \in Seq(Item) /\ Len(held) =< 1
    <3>1. held \in Seq(Item) /\ Len(held) =< 1
      BY <2>1, AtMostOne, EmptySeq DEF TypeOK, Option
    <3> QED BY <2>1, <3>1, TurnAssumption DEF TypeOK
  <2> DEFINE E == EventsSay(sent)
             F == FramesSay(frames)
             T == Says(provider, script, taken)
             B == EventsSay(body_stream)
             V == EventsSay(events)
  <2>3. /\ E \in Seq(Content) /\ F \in Seq(Content) /\ T \in Seq(Content) /\ Shown \in Seq(Content)
        /\ B \in Seq(Content) /\ V \in Seq(Content) /\ E = B \o V
    BY <2>1, <2>2, SayTypes, EventsSayRules DEF sent
  <2>4. Len(T) =< StreamCap + 1
    <3>1. taken \in Seq(AnyItem) /\ Len(taken) = Len(bedrock_stream) + Len(held)
      BY <2>1, <2>2, SayTypes, ConcatProperties DEF taken
    <3>2. Len(T) =< Len(taken)
      BY <2>2, <3>1, SaysRules
    <3> HIDE DEF T
    <3> QED BY <2>2, <2>3, <3>1, <3>2, LenProperties
  <2>5. Len(B) =< BodyCap
    <3>1. \A i \in 1..Len(body_stream) : Len(EventContent(body_stream[i])) =< 1
      <4> SUFFICES ASSUME NEW i \in 1..Len(body_stream)
                   PROVE  Len(EventContent(body_stream[i])) =< 1
        OBVIOUS
      <4>1. i \in 1..Len(sent) /\ sent[i] = body_stream[i]
        BY <2>2, InConcat DEF sent
      <4> QED BY <2>1, <4>1 DEF OneAtATime
    <3>2. Len(B) =< Len(body_stream)
      BY <2>2, <3>1, EventsSayRules
    <3> HIDE DEF B
    <3> QED BY <2>2, <2>3, <3>2, LenProperties
  <2>6. Len(V) + Len(F) =< 1
    BY <2>1 DEF OneAtATime
  <2>7. Answer = Shown \o (E \o (F \o T))
    BY <2>1 DEF Conserved
  <2> DEFINE A == Answer
             S == Shown
  <2>8. A = S \o (E \o (F \o T)) /\ S \in Seq(Content)
    BY <2>3, <2>7
  <2> HIDE DEF A, S, E, F, T, B, V
  <2>9. /\ Len(E) = Len(B) + Len(V)
        /\ F \o T \in Seq(Content) /\ Len(F \o T) = Len(F) + Len(T)
    BY <2>3, ConcatProperties
  <2>10. /\ E \o (F \o T) \in Seq(Content) /\ Len(E \o (F \o T)) = Len(E) + Len(F \o T)
    BY <2>3, <2>9, ConcatProperties
  <2>11. Len(A) = Len(S) + Len(E \o (F \o T))
    BY <2>8, <2>10, ConcatProperties
  <2>12. /\ Len(S) \in Nat /\ Len(B) \in Nat /\ Len(V) \in Nat /\ Len(F) \in Nat /\ Len(T) \in Nat
    BY <2>3, <2>8, LenProperties
  <2>13. Len(A) - Len(S) =< StreamCap + BodyCap + 2
    BY <2>2, <2>4, <2>5, <2>6, <2>9, <2>10, <2>11, <2>12, SMTT(60)
  <2> QED BY <2>13 DEF A, S
<1> QED BY NothingIsLost, <1>1, PTL

-----------------------------------------------------------------------------
(* The refinement: one step of the contract for each step of the tasks.    *)

\* The state of the contract that the turn's state implements.
ContractStatus ==
  CASE body = "none" /\ Refused  -> "refused"
    [] body = "none" /\ ~Refused -> "pending"
    [] body = "dropped"          -> "left"
    [] OTHER                     -> body

\* The tasks start where the contract starts.
LEMMA ContractInit == Init => Contract!Init
<1> SUFFICES ASSUME Init PROVE Contract!Init
  OBVIOUS
<1>1. AnswerInv
  BY AnswerInit
<1>2. /\ handler = "body" /\ body = "none" /\ client = NewClient /\ script = <<>>
      /\ bedrock_stream = <<>> /\ held = <<>> /\ frames = <<>> /\ events = <<>> /\ body_stream = <<>>
  BY DEF Init
<1>3. Answer = <<>>
  BY <1>2, EmptySeq, SaysOf DEF Answer
<1>4. Shown = <<>>
  <2>1. /\ Numbered(client.messages) /\ TypeOK /\ IsPrefix(Shown, Answer)
    BY <1>1 DEF AnswerInv, FailureInv, ClientInv
  <2>2. Shown \in Seq(Content) /\ Len(Shown) =< 0
    BY <1>3, <2>1, SayTypes, EmptySeq DEF IsPrefix
  <2> DEFINE q == Shown
  <2>3. q \in Seq(Content) /\ Len(q) =< 0
    BY <2>2
  <2> HIDE DEF q
  <2>4. q = <<>>
    BY <2>3, EmptySeq, LenProperties
  <2> QED BY <2>4 DEF q
<1>5. Len(client.finished) = 0
  BY <1>2 DEF NewClient
<1> QED BY <1>2, <1>3, <1>4, <1>5 DEF Contract!Init, Refused

\* A prefix is what the longer sequence begins with.
LEMMA PrefixIs ==
  ASSUME NEW S, NEW a \in Seq(S), NEW b \in Seq(S), IsPrefix(a, b)
  PROVE  a = SubSeq(b, 1, Len(a)) /\ Len(a) =< Len(b)
<1>1. SubSeq(a, 1, Len(a)) = a
  OBVIOUS
<1> QED BY <1>1 DEF IsPrefix

\* A step that the contract does not see.
LEMMA StutterKeeps ==
  ASSUME UNCHANGED <<provider, script, client>>, ContractStatus' = ContractStatus
  PROVE  UNCHANGED Contract!vars
<1>1. Answer' = Answer /\ Shown' = Shown
  BY DEF Answer, Shown
<1> QED BY <1>1 DEF Contract!vars, ContractStatus

\* The handler refuses or opens the response.
LEMMA HandleKeeps == ASSUME AnswerInv, Handle PROVE [Contract!Next]_(Contract!vars)
<1>1. handler # "responded" => body = "none"
  BY DEF AnswerInv, FailureInv, ClientInv
<1>2. UNCHANGED <<provider, script, client>>
  BY DEF Handle, ReadRequest, RejectRequest, CancelRequest, Dispatch, Respond, drainVars, bodyVars
<1>3. Answer' = Answer /\ Shown' = Shown
  BY <1>2 DEF Answer, Shown
<1>4. CASE ReadRequest \/ Dispatch
  <2>1. ContractStatus' = ContractStatus
    BY <1>4, <1>1 DEF ReadRequest, Dispatch, ContractStatus, Refused, bodyVars
  <2> QED BY <1>2, <2>1, StutterKeeps
<1>5. CASE RejectRequest \/ CancelRequest
  <2>1. /\ handler \in {"body", "dispatch"} /\ handler' \in {"rejected", "cancelled"}
        /\ body = "none" /\ body' = "none"
    BY <1>5, <1>1 DEF RejectRequest, CancelRequest, bodyVars
  <2>2. ContractStatus = "pending" /\ ContractStatus' = "refused"
    <3>1. ~Refused /\ Refused'
      BY <2>1 DEF Refused
    <3>2. ContractStatus = "pending"
      BY <2>1, <3>1 DEF ContractStatus
    <3>3. ContractStatus' = "refused"
      BY <2>1, <3>1 DEF ContractStatus
    <3> QED BY <3>2, <3>3
  <2>3. Contract!Refuse
    BY <1>2, <1>3, <2>2 DEF Contract!Refuse, ContractStatus
  <2> QED BY <2>3 DEF Contract!Next
<1>6. CASE Respond
  <2>1. ContractStatus = "pending" /\ ContractStatus' = "open"
    BY <1>6, <1>1 DEF Respond, ContractStatus, Refused
  <2>2. Contract!Open
    BY <1>2, <1>3, <2>1 DEF Contract!Open, ContractStatus
  <2> QED BY <2>2 DEF Contract!Next
<1> QED BY <1>4, <1>5, <1>6 DEF Handle

\* What Bedrock sends says a piece of the answer or none, and none after a verdict.
LEMMA DrainRecvKeeps == ASSUME AnswerInv, DrainRecv PROVE [Contract!Next]_(Contract!vars)
<1>1. /\ TypeOK /\ Upstream /\ Concluded /\ Numbered(client.messages)
      /\ drain = "run" /\ held = <<>>
  BY DEF AnswerInv, FailureInv, ClientInv, DrainRecv
<1>2. PICK ev \in Offers(provider, producer) : script' = Append(script, ev)
  BY DEF DrainRecv
<1>3. UNCHANGED <<handler, provider, body, client>>
  BY DEF DrainRecv, bodyVars
<1> DEFINE c == Piece(provider, script', ev)
<1>4. /\ ev \in SdkEvent /\ ev \in AnyItem /\ script' \in Seq(SdkEvent)
      /\ provider \in Providers /\ producer \in Producer
      /\ producer.phase # "open" => producer.block = "none"
      /\ c \in Seq(Content) /\ Len(c) =< 1
  BY <1>1, <1>2, OffersType, AppendProperties, PieceType DEF TypeOK, AnyItem, Upstream, OpenFits
<1>5. Answer' = Answer \o c
  BY <1>1, <1>2, <1>3, AnswerGrows
<1>6. Answer \in Seq(Content) /\ Shown' = Shown /\ ContractStatus' = ContractStatus
  BY <1>1, <1>3, SayTypes DEF Shown, ContractStatus, Refused
<1>7. CASE c = <<>>
  <2>1. Answer' = Answer
    BY <1>5, <1>6, <1>7, ConcatEmptySeq
  <2> QED BY <1>3, <1>6, <2>1 DEF Contract!vars, ContractStatus
<1>8. CASE c # <<>>
  <2>1. Len(client.finished) = 0
    <3> SUFFICES ASSUME Len(client.finished) # 0 PROVE FALSE
      OBVIOUS
    <3>1. 1 \in 1..Len(client.finished)
      <4>1. client.finished \in Seq(ResponseEvent)
        BY <1>1 DEF TypeOK, IsClient
      <4> DEFINE n == Len(client.finished)
      <4>2. n \in Nat /\ n # 0
        BY <4>1, LenProperties
      <4> HIDE DEF n
      <4>3. 1 \in 1..n
        BY <4>2
      <4> QED BY <4>3 DEF n
    <3>2. producer.phase = "stopped"
      BY <1>1, <3>1 DEF Concluded, Closed
    <3>3. ev.type \in {"metadata", "unknown"}
      BY <1>4, <3>2, OffersFit DEF OfBlock
    <3> QED BY <1>8, <3>3 DEF Piece
  <2> DEFINE a == Answer
             b == Answer'
  <2>2. /\ a \in Seq(Content) /\ b = a \o c
        /\ c \in Seq(Content) /\ Len(c) =< 1 /\ c # <<>>
    BY <1>4, <1>5, <1>6, <1>8
  <2> HIDE DEF a, b, c
  <2>3. Len(c) = 1
    <3> DEFINE n == Len(c)
    <3>1. n \in Nat \ {0} /\ n =< 1
      BY <2>2, EmptySeq
    <3> HIDE DEF n
    <3>2. n = 1
      BY <3>1
    <3> QED BY <3>2 DEF n
  <2>4. Len(b) = Len(a) + 1 /\ b \in Seq(Content) /\ IsPrefix(a, b)
    <3>1. Len(a \o c) = Len(a) + Len(c) /\ a \o c \in Seq(Content)
      BY <2>2, ConcatProperties
    <3>2. IsPrefix(a, a \o c)
      BY <2>2, PrefixGrows
    <3> QED BY <2>2, <2>3, <3>1, <3>2
  <2>5. SubSeq(b, 1, Len(a)) = a
    BY <2>2, <2>4, PrefixIs
  <2>6. Contract!Say
    BY <1>3, <1>6, <2>1, <2>4, <2>5 DEF Contract!Say, ContractStatus, a, b
  <2> QED BY <2>6 DEF Contract!Next
<1> QED BY <1>7, <1>8

\* What hyper polls shows the next piece, or concludes the turn.
LEMMA BodyPollKeeps == ASSUME AnswerInv, BodyPoll PROVE [Contract!Next]_(Contract!vars)
<1> DEFINE e == Head(sent)
           c == EventContent(e)
           d == client'
<1>1. /\ TypeOK /\ ClientInv /\ Numbered(client.messages) /\ Underway
      /\ body = "open" /\ handler = "responded"
  BY DEF AnswerInv, FailureInv, ClientInv, BodyPoll
<1>2. UNCHANGED <<handler, provider, script, body>>
  BY DEF BodyPoll, drainVars
<1>3. /\ AnswerInv' /\ Numbered(client.messages)' /\ IsPrefix(Shown, Answer)' /\ Concluded' /\ TypeOK'
  BY BodyPollStep DEF AnswerInv, FailureInv, ClientInv
<1>4. sent \in Seq(ResponseEvent) /\ sent # <<>> /\ Lands(client, e) /\ d = Applied(client, e)
  BY <1>1, Receives
<1>5. /\ Display(d.messages) = Shown \o c
      /\ d.finished = IF e.type = "StreamFinished" THEN Append(client.finished, e)
                      ELSE client.finished
  <2>1. AppendsLast(DOMAIN client.messages, sent, adapter.message_id)
    BY <1>1 DEF Underway
  <2> QED BY <1>1, <1>4, <2>1, ClientShows DEF Shown
<1>6. Shown' = Shown \o c /\ Answer' = Answer
  BY <1>2, <1>5 DEF Shown, Answer
<1>7. e \in ResponseEvent /\ c \in Seq(Content) /\ Len(c) =< 1
  <2> DEFINE q == sent
  <2>1. q \in Seq(ResponseEvent) /\ q # <<>>
    BY <1>4
  <2> HIDE DEF q
  <2>2. Head(q) \in ResponseEvent /\ Head(q) = q[1] /\ 1 \in 1..Len(q)
    BY <2>1, HeadTailProperties, LenProperties, EmptySeq
  <2>3. e \in ResponseEvent /\ e = sent[1] /\ 1 \in 1..Len(sent)
    BY <2>2 DEF q
  <2> QED BY <1>1, <2>3, EventReadingType DEF EventReading, Reading, Underway, OneAtATime
<1>8. /\ ContractStatus = "open" /\ ContractStatus' = "open"
      /\ Shown \in Seq(Content) /\ Shown' \in Seq(Content) /\ Answer \in Seq(Content)
  <2>1. ContractStatus = "open"
    BY <1>1 DEF ContractStatus
  <2>2. ContractStatus' = ContractStatus
    BY <1>2 DEF ContractStatus, Refused
  <2>3. Shown \in Seq(Content) /\ Answer \in Seq(Content)
    BY <1>1, SayTypes
  <2>4. Shown' \in Seq(Content)
    BY <1>6, <1>7, <2>3, ConcatProperties
  <2> QED BY <2>1, <2>2, <2>3, <2>4
<1>9. CASE e.type = "StreamFinished"
  <2>1. c = <<>> /\ Shown' = Shown
    BY <1>6, <1>8, <1>9, ConcatEmptySeq DEF EventContent
  <2>2. Len(d.finished) = Len(client.finished) + 1 /\ Len(d.finished) \in 1..Len(d.finished)
    <3> DEFINE q == client.finished
    <3>1. q \in Seq(ResponseEvent) /\ d.finished = Append(q, e)
      BY <1>1, <1>5, <1>9 DEF TypeOK, IsClient
    <3> HIDE DEF q, e
    <3>2. Len(q) \in Nat /\ Len(Append(q, e)) = Len(q) + 1
      BY <3>1, <1>7, AppendProperties, LenProperties
    <3>3. Len(d.finished) = Len(q) + 1 /\ Len(d.finished) \in 1..Len(d.finished)
      BY <3>1, <3>2
    <3> QED BY <3>3 DEF q
  <2>3. Shown = Answer
    BY <1>3, <1>6, <2>1, <2>2 DEF Concluded
  <2>4. Contract!Conclude
    BY <1>6, <1>8, <2>1, <2>2, <2>3 DEF Contract!Conclude, ContractStatus
  <2> QED BY <2>4 DEF Contract!Next
<1>10. CASE e.type # "StreamFinished" /\ c = <<>>
  <2>1. Shown' = Shown /\ d.finished = client.finished
    BY <1>5, <1>6, <1>8, <1>10, ConcatEmptySeq
  <2> QED BY <1>6, <1>8, <2>1 DEF Contract!vars, ContractStatus
<1>11. CASE e.type # "StreamFinished" /\ c # <<>>
  <2>1. d.finished = client.finished
    BY <1>5, <1>11
  <2> DEFINE a == Shown
             b == Shown'
             t == Answer
  <2>2. /\ a \in Seq(Content) /\ b \in Seq(Content) /\ t \in Seq(Content)
        /\ c \in Seq(Content) /\ Len(c) =< 1 /\ c # <<>>
        /\ b = a \o c /\ IsPrefix(b, t)
    BY <1>3, <1>6, <1>7, <1>8, <1>11
  <2> HIDE DEF a, b, c, t
  <2>3. Len(c) = 1
    <3> DEFINE n == Len(c)
    <3>1. n \in Nat \ {0} /\ n =< 1
      BY <2>2, EmptySeq
    <3> HIDE DEF n
    <3>2. n = 1
      BY <3>1
    <3> QED BY <3>2 DEF n
  <2>4. Len(b) = Len(a) + 1 /\ Len(a) \in Nat /\ Len(t) \in Nat
    <3>1. Len(a \o c) = Len(a) + Len(c)
      BY <2>2, ConcatProperties
    <3> QED BY <2>2, <2>3, <3>1, LenProperties
  <2>5. b = SubSeq(t, 1, Len(b)) /\ Len(b) =< Len(t)
    BY <2>2, PrefixIs
  <2>6. b = SubSeq(t, 1, Len(a) + 1) /\ Len(a) < Len(t)
    BY <2>4, <2>5
  <2>7. Contract!Show
    BY <1>6, <1>8, <2>1, <2>6 DEF Contract!Show, ContractStatus, a, b, t
  <2> QED BY <2>7 DEF Contract!Next
<1> QED BY <1>9, <1>10, <1>11

\* The body ends with nothing withheld, or the client leaves.
LEMMA BodyGoneKeeps ==
  ASSUME AnswerInv, BodyEnd \/ ClientDrop
  PROVE  [Contract!Next]_(Contract!vars)
<1>1. /\ UNCHANGED <<handler, provider, script, client>> /\ handler = "responded" /\ body = "open"
  BY DEF BodyEnd, ClientDrop, drainVars, AnswerInv, FailureInv, ClientInv
<1>2. Answer' = Answer /\ Shown' = Shown
  BY <1>1 DEF Answer, Shown
<1>3. CASE BodyEnd
  <2>1. pump = "done" /\ drain = "done" /\ body # "dropped" /\ body_stream = <<>> /\ body' = "ended"
    BY <1>3 DEF BodyEnd, AnswerInv, FailureInv, EndsInOrder
  <2>2. Shown = Answer
    BY <2>1, NothingLeft
  <2>3. ContractStatus = "open" /\ ContractStatus' = "ended"
    BY <1>1, <2>1 DEF ContractStatus
  <2>4. Contract!End
    BY <1>1, <1>2, <2>2, <2>3 DEF Contract!End, ContractStatus
  <2> QED BY <2>4 DEF Contract!Next
<1>4. CASE ClientDrop
  <2>1. ContractStatus = "open" /\ ContractStatus' = "left"
    BY <1>1, <1>4 DEF ClientDrop, ContractStatus
  <2>2. Contract!Leave
    BY <1>1, <1>2, <2>1 DEF Contract!Leave, ContractStatus
  <2> QED BY <2>2 DEF Contract!Next
<1> QED BY <1>3, <1>4

\* Every step of the tasks is a step of the contract or none of it.
LEMMA ContractStep == AnswerInv /\ [Next]_vars => [Contract!Next]_(Contract!vars)
<1> SUFFICES ASSUME AnswerInv, [Next]_vars PROVE [Contract!Next]_(Contract!vars)
  OBVIOUS
<1>1. CASE Handle
  BY <1>1, HandleKeeps
<1>2. CASE DrainRecv
  BY <1>2, DrainRecvKeeps
<1>3. CASE DrainErr \/ DrainEof \/ DrainSend
  <2>1. UNCHANGED <<handler, provider, script, body, client>>
    BY <1>3 DEF DrainErr, DrainEof, DrainSend, bodyVars
  <2> QED BY <2>1, StutterKeeps DEF ContractStatus, Refused
<1>4. CASE PumpStream
  <2>1. UNCHANGED <<handler, provider, script, body, client>>
    BY <1>4 DEF PumpStream, PumpRecv, PumpTranslate, PumpSend, PumpAbort, PumpContinue,
                PumpBreak, PumpEnd, PumpReturns, drainVars, bodyVars
  <2> QED BY <2>1, StutterKeeps DEF ContractStatus, Refused
<1>5. CASE BodyPoll
  BY <1>5, BodyPollKeeps
<1>6. CASE BodyEnd \/ ClientDrop
  BY <1>6, BodyGoneKeeps
<1>7. CASE UNCHANGED vars
  <2>1. UNCHANGED <<handler, provider, script, body, client>>
    BY <1>7 DEF vars, drainVars, bodyVars
  <2> QED BY <2>1, StutterKeeps DEF ContractStatus, Refused
<1> QED BY <1>1, <1>2, <1>3, <1>4, <1>5, <1>6, <1>7 DEF Next, Drain, Body

\* The handler, the drain task, the pump and the body implement the contract: each of
\* their steps is one step of it, or invisible to the client (route_multi_agent.rs:38-220).
THEOREM TurnKeepsContract == Spec => KeepsContract
<1>1. AnswerInv /\ [Next]_vars => [Contract!Next]_(Contract!vars)
  BY ContractStep
<1>2. Init => Contract!Init
  BY ContractInit
<1> QED BY <1>1, <1>2, NothingIsLost, PTL DEF Spec, KeepsContract, Contract!Spec

-----------------------------------------------------------------------------
(* The usage reported                                                      *)

Saturated(n) == << IF n > U32Max THEN U32Max ELSE n >>

\* One event more: it sets the usage, or leaves what the first n have made of it.
LEMMA UsageNext ==
  ASSUME NEW q, NEW n \in Nat, NEW before, NEW u
  PROVE  UsageAfter(q, n + 1, before, u) <=>
           IF q[n + 1].type = "metadata" THEN u = Saturated(q[n + 1].usage)
           ELSE UsageAfter(q, n, before, u)
<1>1. CASE q[n + 1].type = "metadata"
  <2>1. \A i \in 1..(n + 1) : (\A j \in (i + 1)..(n + 1) : q[j].type # "metadata") => i = n + 1
    BY <1>1
  <2>2. n + 1 \in 1..(n + 1) /\ \A j \in (n + 1 + 1)..(n + 1) : FALSE
    OBVIOUS
  <2> QED BY <1>1, <2>1, <2>2 DEF UsageAfter, Saturated
<1>2. CASE q[n + 1].type # "metadata"
  <2>1. (\A i \in 1..(n + 1) : q[i].type # "metadata") <=> (\A i \in 1..n : q[i].type # "metadata")
    BY <1>2
  <2>2. \A i \in 1..n : (\A j \in (i + 1)..(n + 1) : q[j].type # "metadata")
                          <=> (\A j \in (i + 1)..n : q[j].type # "metadata")
    BY <1>2
  <2>3. \A i \in 1..(n + 1) : q[i].type = "metadata" => i \in 1..n
    BY <1>2
  <2>4. \A i \in 1..n : i \in 1..(n + 1)
    OBVIOUS
  <2> QED BY <1>2, <2>1, <2>2, <2>3, <2>4 DEF UsageAfter
<1> QED BY <1>1, <1>2

\* The usage after n events depends on these events only.
LEMMA UsageSame ==
  ASSUME NEW q, NEW r, NEW n \in Nat, NEW before, NEW u, \A i \in 1..n : q[i] = r[i]
  PROVE  UsageAfter(q, n, before, u) <=> UsageAfter(r, n, before, u)
<1>1. \A i \in 1..n : \A j \in (i + 1)..n : j \in 1..n
  OBVIOUS
<1> QED BY <1>1 DEF UsageAfter

\* The first event sets what was before the others, or leaves it.
LEMMA UsageFirst ==
  ASSUME NEW q, NEW r, NEW n \in Nat, NEW before, NEW after, NEW u,
         \A i \in 1..n : r[i] = q[i + 1],
         after = IF q[1].type = "metadata" THEN Saturated(q[1].usage) ELSE before,
         UsageAfter(r, n, after, u)
  PROVE  UsageAfter(q, n + 1, before, u)
<1>1. \A i \in 1..(n + 1) : i # 1 => i - 1 \in 1..n /\ q[i] = r[i - 1]
  <2> SUFFICES ASSUME NEW i \in 1..(n + 1), i # 1 PROVE i - 1 \in 1..n /\ q[i] = r[i - 1]
    OBVIOUS
  <2>1. i - 1 \in 1..n /\ (i - 1) + 1 = i
    OBVIOUS
  <2> QED BY <2>1
<1>2. CASE u = after /\ \A i \in 1..n : r[i].type # "metadata"
  <2>1. \A i \in 1..(n + 1) : i # 1 => q[i].type # "metadata"
    BY <1>1, <1>2
  <2>2. CASE q[1].type = "metadata"
    <3>1. 1 \in 1..(n + 1) /\ \A j \in (1 + 1)..(n + 1) : j \in 1..(n + 1) /\ j # 1
      OBVIOUS
    <3> QED BY <1>2, <2>1, <2>2, <3>1 DEF UsageAfter, Saturated
  <2>3. CASE q[1].type # "metadata"
    <3>1. \A i \in 1..(n + 1) : q[i].type # "metadata"
      BY <2>1, <2>3
    <3> QED BY <1>2, <2>3, <3>1 DEF UsageAfter
  <2> QED BY <2>2, <2>3
<1>3. ASSUME NEW i \in 1..n, r[i].type = "metadata", u = Saturated(r[i].usage),
             \A j \in (i + 1)..n : r[j].type # "metadata"
      PROVE  UsageAfter(q, n + 1, before, u)
  <2>1. i + 1 \in 1..(n + 1) /\ q[i + 1] = r[i]
    OBVIOUS
  <2>2. \A j \in (i + 1 + 1)..(n + 1) : j \in 1..(n + 1) /\ j # 1 /\ j - 1 \in (i + 1)..n
    OBVIOUS
  <2>3. \A j \in (i + 1 + 1)..(n + 1) : q[j].type # "metadata"
    BY <1>1, <1>3, <2>2
  <2> QED BY <1>3, <2>1, <2>3 DEF UsageAfter, Saturated
<1> QED BY <1>2, <1>3 DEF UsageAfter, Saturated

\* What the usage was at the stop does not change, whatever follows; and a first stop
\* has the usage of the script it ends.
LEMMA UsageStays ==
  ASSUME NEW s \in Seq(SdkEvent), NEW ev \in SdkEvent
  PROVE  /\ \A u : UsageAtStop(s, u) => UsageAtStop(Append(s, ev), u)
         /\ \A u : /\ ev.type = "message_stop"
                   /\ \A i \in 1..Len(s) : s[i].type # "message_stop"
                   /\ UsageAfter(s, Len(s), <<>>, u)
                   => UsageAtStop(Append(s, ev), u)
         /\ \A u : UsageAfter(Append(s, ev), Len(s) + 1, <<>>, u) <=>
              IF ev.type = "metadata" THEN u = Saturated(ev.usage)
              ELSE UsageAfter(s, Len(s), <<>>, u)
<1> DEFINE t == Append(s, ev)
           m == Len(s)
<1>1. /\ Len(t) = m + 1 /\ m \in Nat
      /\ \A i \in 1..m : t[i] = s[i]
      /\ t[m + 1] = ev
  BY AppendProperties, LenProperties
<1>2. \A i \in 1..m : s[i] = t[i]
  BY <1>1
<1> HIDE DEF t, m
<1>3. ASSUME NEW u, NEW n \in 1..m, s[n].type = "message_stop",
             \A i \in 1..(n - 1) : s[i].type # "message_stop", UsageAfter(s, n, <<>>, u)
      PROVE  UsageAtStop(t, u)
  <2>1. n \in Nat /\ n \in 1..Len(t) /\ t[n] = s[n] /\ \A i \in 1..n : s[i] = t[i]
    BY <1>1
  <2>2. UsageAfter(t, n, <<>>, u)
    BY <1>3, <2>1, UsageSame
  <2>3. \A i \in 1..(n - 1) : t[i].type # "message_stop"
    BY <1>3, <2>1
  <2> QED BY <1>3, <2>1, <2>2, <2>3 DEF UsageAtStop
<1>4. \A u : UsageAfter(t, m + 1, <<>>, u) <=>
        IF ev.type = "metadata" THEN u = Saturated(ev.usage) ELSE UsageAfter(s, m, <<>>, u)
  <2> SUFFICES ASSUME NEW u
               PROVE  UsageAfter(t, m + 1, <<>>, u) <=>
                        IF ev.type = "metadata" THEN u = Saturated(ev.usage)
                        ELSE UsageAfter(s, m, <<>>, u)
    OBVIOUS
  <2>1. UsageAfter(s, m, <<>>, u) <=> UsageAfter(t, m, <<>>, u)
    BY <1>1, <1>2, UsageSame
  <2> QED BY <1>1, <2>1, UsageNext
<1>5. ASSUME NEW u, ev.type = "message_stop", \A i \in 1..m : s[i].type # "message_stop",
             UsageAfter(s, m, <<>>, u)
      PROVE  UsageAtStop(t, u)
  <2>1. UsageAfter(t, m + 1, <<>>, u)
    BY <1>4, <1>5
  <2>2. m + 1 \in 1..Len(t) /\ \A i \in 1..(m + 1 - 1) : t[i].type # "message_stop"
    BY <1>1, <1>5
  <2> QED BY <1>1, <1>5, <2>1, <2>2 DEF UsageAtStop
<1>6. \A u : UsageAtStop(s, u) => UsageAtStop(t, u)
  BY <1>3 DEF UsageAtStop, m
<1> QED BY <1>4, <1>5, <1>6 DEF t, m

-----------------------------------------------------------------------------

\* A step that moves nothing of what bears on the usage.
LEMMA UsageQuiet ==
  ASSUME UsageInv, AnswerInv', UNCHANGED <<script, adapter, client>>,
         body' # "dropped" =>
           body # "dropped" /\ taken' = taken /\ sent' = sent /\ frames' = frames
  PROVE  UsageInv'
<1>1. script' = script /\ adapter' = adapter /\ client' = client
  OBVIOUS
<1>2. VerdictsAccount'
  BY <1>1 DEF UsageInv, VerdictsAccount, Accounts
<1>3. ASSUME body' # "dropped" PROVE ItemsAccount' /\ FramesAccount' /\ EventsAccount'
  <2>1. ItemsAccount /\ FramesAccount /\ EventsAccount
        /\ taken' = taken /\ sent' = sent /\ frames' = frames
    BY <1>3 DEF UsageInv
  <2>2. Pending' = Pending
    BY <1>1, <2>1 DEF Pending
  <2>3. ItemsAccount'
    BY <1>1, <2>1, <2>2 DEF ItemsAccount
  <2>4. FramesAccount'
    BY <1>1, <2>1 DEF FramesAccount, Accounts
  <2>5. EventsAccount'
    BY <1>1, <2>1 DEF EventsAccount, Accounts
  <2> QED BY <2>3, <2>4, <2>5
<1> QED BY <1>2, <1>3 DEF UsageInv

\* What the frames in the pump's hands make of the usage after the item is handled is
\* what the item adds to it.
LEMMA PendingHandled ==
  ASSUME TypeOK, PumpRecv, frames = <<>>
  PROVE  LET x == Head(bedrock_stream)
         IN  /\ Pending' = IF x.type = "metadata" THEN Saturated(x.usage) ELSE Pending
             /\ \A i \in 1..Len(frames') : frames'[i].type \in {"UsageUpdate", "Done"} => Len(frames') = 1
             /\ \A i \in 1..Len(frames') : frames'[i].type = "Done" =>
                  \/ frames'[i].reason = "error"
                  \/ x.type = "message_stop" /\ frames'[i].reason = x.reason
<1> DEFINE x == Head(bedrock_stream)
           fs == HandleFrames(blocks, EventOf(x))
<1>1. /\ frames' = fs /\ adapter' = adapter
      /\ x \in Item /\ pump = "recv"
  <2>1. frames' = fs /\ adapter' = adapter /\ pump = "recv"
    BY DEF PumpRecv
  <2>2. bedrock_stream \in Seq(Item) /\ bedrock_stream # <<>>
    BY DEF TypeOK, PumpRecv
  <2> QED BY <2>1, <2>2, HeadTailProperties
<1>2. /\ x = StreamErr \/ EventOf(x) = x
      /\ x.type \in {"err", "message_start", "block_start", "delta", "block_stop", "message_stop",
                     "metadata"}
      /\ x.type = "err" <=> x = StreamErr
  BY <1>1 DEF Item, EventOf, BedrockEvent, StreamErr
<1>3. CASE x.type = "err" \/ x.type = "message_stop"
  <2>1. /\ fs = << [type |-> "Done", reason |-> EventOf(x).reason] >>
        /\ x.type = "err" => EventOf(x).reason = "error"
        /\ x.type = "message_stop" => EventOf(x).reason = x.reason
    BY <1>2, <1>3 DEF HandleFrames, EventOf, SynthStop, StreamErr
  <2>2. Pending' = adapter.pending_usage
    BY <1>1, <2>1 DEF Pending, TranslateAdapter, Opened, HasContent
  <2> QED BY <1>1, <1>3, <2>1, <2>2 DEF Pending
<1>4. CASE x.type = "metadata"
  <2>1. fs = << [type |-> "UsageUpdate", usage |-> x.usage] >>
    BY <1>2, <1>4 DEF HandleFrames, StreamErr
  <2>2. adapter \in Adapter /\ x.usage \in Nat
    BY <1>1, <1>4 DEF TypeOK, Item, BedrockEvent, StreamErr
  <2>3. Pending' = Saturated(x.usage)
    BY <1>1, <2>1, <2>2 DEF Pending, TranslateAdapter, WithUsage, SaturateU32, HasContent, Saturated,
       Adapter
  <2> QED BY <1>1, <1>4, <2>1, <2>3
<1>5. ASSUME x.type # "metadata",
             \A i \in 1..Len(fs) : fs[i].type \notin {"UsageUpdate", "Done"}, fs \in Seq(OzResponseFrame)
      PROVE  Pending' = Pending
  <2>1. CASE fs = <<>>
    BY <1>1, <2>1 DEF Pending
  <2>2. CASE fs # <<>>
    <3> DEFINE y == fs[1]
    <3>1. y \in OzResponseFrame /\ 1 \in 1..Len(fs)
      <4> HIDE DEF fs
      <4> QED BY <1>5, <2>2, EmptySeq, LenProperties, ElementOfSeq
    <3>2. y.type # "UsageUpdate" /\ adapter \in Adapter
      BY <1>5, <3>1 DEF TypeOK
    <3> HIDE DEF y
    <3>3. TranslateAdapter(adapter, y).pending_usage = adapter.pending_usage
      BY <3>1, <3>2 DEF TranslateAdapter, Opened, EnsureKind, Rotates, HasContent, Adapter
    <3> QED BY <1>1, <2>2, <3>3 DEF Pending, y
  <2> QED BY <2>1, <2>2
<1>6. CASE x.type \notin {"err", "message_stop", "metadata"}
  <2>1. fs \in Seq(OzResponseFrame)
    <3>1. EventOf(x) \in BedrockEvent
      BY <1>1, <1>2, <1>6 DEF Item, EventOf, StreamErr
    <3>2. IsBlocks(blocks)
      BY DEF TypeOK
    <3> QED BY <3>1, <3>2, HandleFramesType
  <2>2. \A i \in 1..Len(fs) : fs[i].type \notin {"UsageUpdate", "Done"}
    <3>1. CASE x.type = "delta"
      <4>1. fs = DeltaFrames(BlockAt(blocks, x.index), x)
        BY <1>2, <3>1 DEF HandleFrames
      <4> QED BY <4>1 DEF DeltaFrames
    <3>2. CASE x.type = "block_stop"
      <4>1. fs = StopFrames(blocks, x)
        BY <1>2, <3>2 DEF HandleFrames
      <4> QED BY <4>1 DEF StopFrames
    <3>3. CASE x.type \notin {"delta", "block_stop"}
      <4>1. fs = <<>>
        BY <1>2, <1>6, <3>3 DEF HandleFrames
      <4> QED BY <4>1
    <3> QED BY <3>1, <3>2, <3>3
  <2> QED BY <1>1, <1>5, <1>6, <2>1, <2>2
<1> QED BY <1>3, <1>4, <1>6

\* An element of a concatenation comes from one of its parts.
LEMMA EachConcat ==
  ASSUME NEW S, NEW a \in Seq(S), NEW b \in Seq(S), NEW k \in 1..Len(a \o b)
  PROVE  \/ \E i \in 1..Len(a) : (a \o b)[k] = a[i]
         \/ \E j \in 1..Len(b) : (a \o b)[k] = b[j]
<1> DEFINE c == a \o b
<1>1. /\ Len(a) \in Nat /\ Len(b) \in Nat /\ Len(c) = Len(a) + Len(b)
      /\ \A i \in 1..Len(c) : c[i] = IF i =< Len(a) THEN a[i] ELSE b[i - Len(a)]
  BY ConcatProperties, LenProperties
<1>2. k \in 1..Len(c)
  OBVIOUS
<1> HIDE DEF c
<1>3. k \in 1..Len(a) \/ k - Len(a) \in 1..Len(b)
  BY <1>1, <1>2
<1>4. (k \in 1..Len(a) /\ c[k] = a[k]) \/ (k - Len(a) \in 1..Len(b) /\ c[k] = b[k - Len(a)])
  BY <1>1, <1>2, <1>3
<1> QED BY <1>4 DEF c

\* A pending usage is none or one saturated count.
LEMMA PendingType == ASSUME NEW a \in Adapter PROVE a.pending_usage \in Usages
<1> DEFINE u == a.pending_usage
           S == 0..U32Max
<1>1. u \in Seq(S) /\ Len(u) =< 1
  BY DEF Adapter, Option
<1>2. Usages = {<<>>} \cup { <<n>> : n \in S }
  BY DEF Usages
<1> HIDE DEF u, S
<1>3. u = <<>> \/ (Len(u) = 1 /\ u[1] \in S)
  <2> DEFINE n == Len(u)
  <2>1. n =< 1 /\ (u # <<>> => n \in Nat \ {0})
    BY <1>1, EmptySeq
  <2>2. n = 1 => u[1] \in S
    BY <1>1, ElementOfSeq
  <2> HIDE DEF n
  <2>3. u = <<>> \/ n = 1
    BY <2>1
  <2> QED BY <2>2, <2>3 DEF n
<1>4. Len(u) = 1 => u = <<u[1]>>
  BY <1>1
<1>5. u \in Usages
  BY <1>2, <1>3, <1>4
<1> QED BY <1>5 DEF u

\* translate() keeps the usage of every frame but an update, and reports it with Done.
LEMMA TranslateAccounts ==
  ASSUME NEW a \in Adapter, NEW f \in OzResponseFrame
  PROVE  /\ TranslateAdapter(a, f).pending_usage
              = IF f.type = "UsageUpdate" THEN Saturated(f.usage) ELSE a.pending_usage
         /\ \A i \in 1..Len(TranslateEvents(a, f)) :
              TranslateEvents(a, f)[i].type = "StreamFinished" =>
                /\ f.type = "Done"
                /\ TranslateEvents(a, f)[i] = StreamFinished(FinishReason(f.reason), a.pending_usage)
<1>1. TranslateAdapter(a, f).pending_usage
        = IF f.type = "UsageUpdate" THEN Saturated(f.usage) ELSE a.pending_usage
  BY DEF TranslateAdapter, WithUsage, SaturateU32, Opened, EnsureKind, Rotates, HasContent,
         Adapter, Saturated
<1> DEFINE fin == StreamFinished(FinishReason(f.reason), a.pending_usage)
<1>2. ASSUME NEW i \in 1..Len(TranslateEvents(a, f)),
             TranslateEvents(a, f)[i].type = "StreamFinished"
      PROVE  f.type = "Done" /\ TranslateEvents(a, f)[i] = fin
  <2> DEFINE n == TranslateAdapter(a, f).message_id
             es == TranslateEvents(a, f)
  <2>1. PICK pre, add, end \in Seq(ResponseEvent) :
          /\ es = pre \o (add \o end)
          /\ \A k \in 1..Len(pre) : pre[k].type \in {"StreamInit", "CreateTask"}
          /\ \/ add = <<>> /\ n = a.message_id
             \/ \E kind : add = <<AddMessages(n, kind)>> /\ n = a.message_id + 1
          /\ \/ HasContent(f) /\ \E kind : end = <<AppendContent(n, kind, ContentOf(f))>>
             \/ /\ ~HasContent(f) /\ f.type = "Done" /\ n = a.message_id /\ add = <<>>
                /\ end = <<fin>>
             \/ ~HasContent(f) /\ end = <<>> /\ add = <<>> /\ n = a.message_id
    BY TranslateShape
  <2> HIDE DEF fin, n
  <2>2. \A k \in 1..Len(pre) : pre[k].type # "StreamFinished"
    BY <2>1
  <2>3. \A k \in 1..Len(add) : add[k].type # "StreamFinished"
    BY <2>1 DEF AddMessages
  <2>4. \A k \in 1..Len(end) : end[k].type = "StreamFinished" => f.type = "Done" /\ end[k] = fin
    BY <2>1 DEF AppendContent
  <2> DEFINE rest == add \o end
  <2>5. rest \in Seq(ResponseEvent)
    BY ConcatProperties
  <2>6. ASSUME NEW k \in 1..Len(rest), rest[k].type = "StreamFinished"
        PROVE  f.type = "Done" /\ rest[k] = fin
    <3>1. \/ \E m \in 1..Len(add) : rest[k] = add[m]
          \/ \E m \in 1..Len(end) : rest[k] = end[m]
      BY EachConcat
    <3> HIDE DEF rest
    <3> QED BY <2>3, <2>4, <2>6, <3>1
  <2>7. es = pre \o rest /\ i \in 1..Len(es) /\ es[i].type = "StreamFinished"
    BY <2>1, <1>2
  <2> HIDE DEF rest, es
  <2>8. \/ \E m \in 1..Len(pre) : es[i] = pre[m]
        \/ \E m \in 1..Len(rest) : es[i] = rest[m]
    BY <2>5, <2>7, EachConcat
  <2>9. f.type = "Done" /\ es[i] = fin
    BY <2>2, <2>6, <2>7, <2>8
  <2> QED BY <2>9 DEF es
<1> QED BY <1>1, <1>2

\* A new event changes the usage of the script and of the items on their way alike.
LEMMA DrainRecvAccounts == ASSUME UsageInv, AnswerInv', DrainRecv PROVE UsageInv'
<1>1. /\ AnswerInv /\ TypeOK /\ Upstream /\ held = <<>>
      /\ producer.phase # "open" => producer.block = "none"
      /\ script \in Seq(SdkEvent) /\ provider \in Providers /\ producer \in Producer
  BY DEF UsageInv, AnswerInv, FailureInv, ClientInv, DrainRecv, Upstream, OpenFits, TypeOK
<1>2. PICK ev \in Offers(provider, producer) :
        /\ script' = Append(script, ev)
        /\ held' = IF Skipped(ev) THEN <<>> ELSE <<TranslateOutputEvent(ev)>>
  BY DEF DrainRecv
<1>3. /\ UNCHANGED <<provider, adapter, frames, events, bedrock_stream, body_stream, body, client>>
  BY DEF DrainRecv, pumpVars, bodyVars
<1> DEFINE s == script'
           m == Len(script)
<1>4. /\ ev \in SdkEvent /\ s \in Seq(SdkEvent) /\ Len(s) = m + 1 /\ m \in Nat
      /\ ev.type = "message_stop" => \A i \in 1..m : script[i].type # "message_stop"
  <2>1. ev \in SdkEvent
    BY <1>1, OffersType
  <2>2. s \in Seq(SdkEvent) /\ Len(s) = m + 1 /\ m \in Nat
    BY <1>1, <1>2, <2>1, AppendProperties, LenProperties
  <2>3. ev.type = "message_stop" => producer.phase = "open"
    BY <1>1, OffersFit
  <2> QED BY <1>1, <2>1, <2>2, <2>3 DEF Upstream, StopsOnce
<1>5. /\ \A u : UsageAtStop(script, u) => UsageAtStop(s, u)
      /\ \A u : /\ ev.type = "message_stop"
                /\ UsageAfter(script, m, <<>>, u)
                => UsageAtStop(s, u)
      /\ \A u : UsageAfter(s, Len(s), <<>>, u) <=>
           IF ev.type = "metadata" THEN u = Saturated(ev.usage) ELSE UsageAfter(script, m, <<>>, u)
  BY <1>1, <1>2, <1>4, UsageStays
<1>6. VerdictsAccount'
  BY <1>3, <1>5 DEF UsageInv, VerdictsAccount, Accounts
<1>7. ASSUME body # "dropped" PROVE ItemsAccount' /\ FramesAccount' /\ EventsAccount'
  <2> DEFINE x == TranslateOutputEvent(ev)
             t == taken'
             n == Len(taken)
  <2>1. ItemsAccount /\ FramesAccount /\ EventsAccount /\ \A i \in 1..n : Behind(producer, taken[i])
    BY <1>7 DEF UsageInv, AnswerInv, Underway, InOrder
  <2>2. /\ n \in Nat /\ Len(t) \in Nat /\ n =< Len(t)
        /\ \A i \in 1..n : t[i] = taken[i]
        /\ \A i \in 1..Len(t) : i > n => i = n + 1 /\ t[i] = x /\ ~Skipped(ev)
        /\ ~Skipped(ev) => Len(t) = n + 1
    BY <1>1, <1>2, <1>3, <2>1, Received
  <2>3. x.type = ev.type /\ (ev.type = "metadata" => x = ev /\ ~Skipped(ev))
    BY DEF TranslateOutputEvent, Skipped
  <2>4. Pending' = Pending /\ sent' = sent
    BY <1>3 DEF Pending, sent
  <2> DEFINE P == Pending
  <2> HIDE DEF t, n, s, m, x, P
  <2>5. \A i \in 1..n : \A u : UsageAfter(t, i, P, u) => UsageAfter(taken, i, P, u)
    <3> SUFFICES ASSUME NEW i \in 1..n, NEW u, UsageAfter(t, i, P, u)
                 PROVE  UsageAfter(taken, i, P, u)
      OBVIOUS
    <3>1. i \in Nat /\ \A k \in 1..i : t[k] = taken[k]
      BY <2>2
    <3> QED BY <3>1, UsageSame
  <2>6. \A u : UsageAfter(t, n, P, u) => UsageAfter(taken, n, P, u)
    BY <2>2, UsageSame
  <2>7. \A u \in Usages : UsageAfter(taken, n, P, u) => UsageAfter(script, m, <<>>, u)
    BY <2>1 DEF ItemsAccount, n, m, P
  <2>8. Len(t) = n \/ (Len(t) = n + 1 /\ t[n + 1] = x /\ ~Skipped(ev))
    BY <2>2
  <2>9. \A u : UsageAfter(t, n + 1, P, u) <=>
          IF t[n + 1].type = "metadata" THEN u = Saturated(t[n + 1].usage) ELSE UsageAfter(t, n, P, u)
    BY <2>2, UsageNext
  <2>10. \A u \in Usages : UsageAfter(t, Len(t), P, u) => UsageAfter(s, Len(s), <<>>, u)
    <3> SUFFICES ASSUME NEW u \in Usages, UsageAfter(t, Len(t), P, u)
                 PROVE  UsageAfter(s, Len(s), <<>>, u)
      OBVIOUS
    <3>1. CASE Len(t) = n
      <4>1. ev.type # "metadata"
        BY <2>2, <2>3, <3>1
      <4> QED BY <3>1, <4>1, <1>5, <2>6, <2>7
    <3>2. CASE Len(t) = n + 1 /\ t[n + 1] = x
      BY <3>2, <1>5, <2>3, <2>6, <2>7, <2>9
    <3> QED BY <3>1, <3>2, <2>8
  <2>11. ASSUME NEW i \in 1..Len(t), t[i].type = "message_stop", NEW u \in Usages, UsageAfter(t, i, P, u)
         PROVE  UsageAtStop(s, u)
    <3>1. CASE i \in 1..n
      <4>1. taken[i].type = "message_stop" /\ UsageAfter(taken, i, P, u)
        BY <2>2, <2>5, <2>11, <3>1
      <4>2. UsageAtStop(script, u)
        BY <2>1, <3>1, <4>1 DEF ItemsAccount, n, P
      <4> QED BY <1>5, <4>2
    <3>2. CASE i \notin 1..n
      <4>1. i = n + 1 /\ t[n + 1] = x /\ ev.type = "message_stop"
        BY <2>2, <2>3, <2>11, <3>2
      <4> QED BY <1>5, <2>6, <2>7, <2>9, <2>11, <4>1
    <3> QED BY <3>1, <3>2
  <2>12. ItemsAccount'
    BY <2>4, <2>10, <2>11 DEF ItemsAccount, t, s, P
  <2>13. FramesAccount' /\ EventsAccount'
    BY <1>3, <1>5, <2>1, <2>4 DEF FramesAccount, EventsAccount, Accounts, StreamFinished, s
  <2> QED BY <2>12, <2>13
<1> QED BY <1>3, <1>6, <1>7 DEF UsageInv

\* An error changes no usage.
LEMMA DrainErrAccounts == ASSUME UsageInv, AnswerInv', DrainErr PROVE UsageInv'
<1>1. /\ AnswerInv /\ TypeOK /\ held = <<>>
  BY DEF UsageInv, AnswerInv, FailureInv, ClientInv, DrainErr
<1>2. /\ UNCHANGED <<script, bedrock_stream, adapter, frames, events, body_stream, body, client>>
      /\ held' = <<StreamErr>>
  BY DEF DrainErr, pumpVars, bodyVars
<1>3. VerdictsAccount'
  BY <1>2 DEF UsageInv, VerdictsAccount, Accounts
<1>4. ASSUME body # "dropped" PROVE ItemsAccount' /\ FramesAccount' /\ EventsAccount'
  <2> DEFINE t == taken'
             n == Len(taken)
             P == Pending
             b == bedrock_stream
             e == StreamErr
  <2>1. ItemsAccount /\ FramesAccount /\ EventsAccount
    BY <1>4 DEF UsageInv
  <2>2. b \in Seq(Item) /\ e \in Item /\ e.type = "err"
    BY <1>1 DEF TypeOK, Item, StreamErr
  <2>3. taken = b /\ t = b \o <<e>>
    BY <1>1, <1>2, <2>2, ConcatEmptySeq DEF taken
  <2>4. Pending' = Pending /\ sent' = sent
    BY <1>2 DEF Pending, sent
  <2> HIDE DEF b, e, t, P
  <2>5. n \in Nat /\ Len(t) = n + 1 /\ t[n + 1] = e /\ \A i \in 1..n : t[i] = taken[i]
    BY <2>2, <2>3, LenProperties
  <2> HIDE DEF n
  <2>6. \A i \in 1..n : \A u : UsageAfter(t, i, P, u) => UsageAfter(taken, i, P, u)
    <3> SUFFICES ASSUME NEW i \in 1..n, NEW u, UsageAfter(t, i, P, u)
                 PROVE  UsageAfter(taken, i, P, u)
      OBVIOUS
    <3>1. i \in Nat /\ \A k \in 1..i : t[k] = taken[k]
      BY <2>5
    <3> QED BY <3>1, UsageSame
  <2>7. \A u : UsageAfter(t, n, P, u) => UsageAfter(taken, n, P, u)
    BY <2>5, UsageSame
  <2>8. \A u \in Usages : UsageAfter(t, n + 1, P, u) => UsageAfter(script, Len(script), <<>>, u)
    <3>1. \A u : UsageAfter(t, n + 1, P, u) => UsageAfter(t, n, P, u)
      BY <2>2, <2>5, UsageNext
    <3>2. \A u \in Usages : UsageAfter(taken, n, P, u) => UsageAfter(script, Len(script), <<>>, u)
      BY <2>1 DEF ItemsAccount, n, P
    <3> QED BY <2>7, <3>1, <3>2
  <2>9. ASSUME NEW i \in 1..Len(t), t[i].type = "message_stop", NEW u \in Usages, UsageAfter(t, i, P, u)
        PROVE  UsageAtStop(script, u)
    <3>1. i \in 1..n /\ taken[i].type = "message_stop"
      BY <2>2, <2>5, <2>9
    <3> QED BY <2>1, <2>6, <2>9, <3>1 DEF ItemsAccount, n, P
  <2>10. ItemsAccount'
    BY <1>2, <2>4, <2>5, <2>8, <2>9 DEF ItemsAccount, t, P
  <2>11. FramesAccount' /\ EventsAccount'
    BY <1>2, <2>1, <2>4 DEF FramesAccount, EventsAccount, Accounts
  <2> QED BY <2>10, <2>11
<1> QED BY <1>2, <1>3, <1>4 DEF UsageInv

\* What the item adds to the usage is pending now; a stop is reported with the usage
\* pending when its turn comes.
LEMMA PumpRecvAccounts == ASSUME UsageInv, AnswerInv', PumpRecv PROVE UsageInv'
<1>1. AnswerInv /\ TypeOK /\ TypeOK' /\ frames = <<>>
  BY DEF UsageInv, AnswerInv, FailureInv, ClientInv, PumpRecv
<1>2. UNCHANGED <<script, adapter, events, body_stream, body, client>>
  BY DEF PumpRecv, drainVars, bodyVars
<1>3. VerdictsAccount'
  BY <1>2 DEF UsageInv, VerdictsAccount, Accounts
<1>4. ASSUME body # "dropped" PROVE ItemsAccount' /\ FramesAccount' /\ EventsAccount'
  <2> DEFINE t == taken'
             n == Len(t)
             x == Head(bedrock_stream)
             P == Pending
             R == Pending'
  <2>1. ItemsAccount /\ FramesAccount /\ EventsAccount
    BY <1>4 DEF UsageInv
  <2>2. /\ n \in Nat /\ Len(taken) = n + 1 /\ taken[1] = x
        /\ \A i \in 1..n : t[i] = taken[i + 1]
    <3>1. /\ taken \in Seq(Item) /\ taken # <<>> /\ Head(taken) = x
          /\ n \in Nat /\ n + 1 = Len(taken)
          /\ \A i \in 1..n : t[i] = taken[i + 1]
      BY <1>1, Taking
    <3>2. taken[1] = Head(taken)
      BY <3>1, HeadTailProperties
    <3> QED BY <3>1, <3>2
  <2>3. /\ R = IF x.type = "metadata" THEN Saturated(x.usage) ELSE P
        /\ \A i \in 1..Len(frames') : frames'[i].type \in {"UsageUpdate", "Done"} => Len(frames') = 1
        /\ \A i \in 1..Len(frames') : frames'[i].type = "Done" =>
             \/ frames'[i].reason = "error"
             \/ x.type = "message_stop" /\ frames'[i].reason = x.reason
    BY <1>1, PendingHandled
  <2>4. sent' = sent
    BY <1>2 DEF sent
  <2>5. P = adapter.pending_usage /\ P \in Usages
    BY <1>1, PendingType DEF Pending, TypeOK
  <2> HIDE DEF t, x, P, R
  <2>6. \A i \in 0..n : \A u : UsageAfter(t, i, R, u) => UsageAfter(taken, i + 1, P, u)
    <3> SUFFICES ASSUME NEW i \in 0..n, NEW u, UsageAfter(t, i, R, u)
                 PROVE  UsageAfter(taken, i + 1, P, u)
      OBVIOUS
    <3>1. i \in Nat /\ \A k \in 1..i : t[k] = taken[k + 1]
      BY <2>2
    <3>2. R = IF taken[1].type = "metadata" THEN Saturated(taken[1].usage) ELSE P
      BY <2>2, <2>3
    <3> QED BY <3>1, <3>2, UsageFirst
  <2> HIDE DEF n
  <2>7. \A u \in Usages : UsageAfter(t, n, R, u) => UsageAfter(script, Len(script), <<>>, u)
    <3>1. n \in 0..n
      BY <2>2
    <3> QED BY <2>1, <2>2, <2>6, <3>1 DEF ItemsAccount, P
  <2>8. ASSUME NEW i \in 1..n, t[i].type = "message_stop", NEW u \in Usages, UsageAfter(t, i, R, u)
        PROVE  UsageAtStop(script, u)
    <3>1. i \in 0..n /\ i + 1 \in 1..Len(taken) /\ taken[i + 1].type = "message_stop"
      BY <2>2, <2>8
    <3>2. UsageAfter(taken, i + 1, P, u)
      BY <2>6, <2>8, <3>1
    <3> QED BY <2>1, <2>8, <3>1, <3>2 DEF ItemsAccount, P
  <2>9. ItemsAccount'
    BY <1>2, <2>7, <2>8 DEF ItemsAccount, t, n, R
  <2>10. x.type = "message_stop" => UsageAtStop(script, P)
    <3> SUFFICES ASSUME x.type = "message_stop" PROVE UsageAtStop(script, P)
      OBVIOUS
    <3>1. 1 \in 1..Len(taken) /\ taken[1].type = "message_stop"
      BY <2>2
    <3>2. UsageAfter(taken, 1, P, P)
      BY <3>1 DEF UsageAfter
    <3> QED BY <2>1, <2>5, <3>1, <3>2 DEF ItemsAccount, P
  <2>11. FinishReason("error") = "Other"
    BY DEF FinishReason
  <2>12. ASSUME NEW i \in 1..Len(frames'), frames'[i].type = "Done",
                FinishReason(frames'[i].reason) # "Other"
         PROVE  UsageAtStop(script, adapter.pending_usage)
    BY <2>3, <2>5, <2>10, <2>11, <2>12
  <2>13. FramesAccount'
    BY <1>2, <2>3, <2>12 DEF FramesAccount, Accounts, StreamFinished
  <2>14. EventsAccount'
    BY <1>2, <2>1, <2>4 DEF EventsAccount, Accounts
  <2> QED BY <2>9, <2>13, <2>14
<1> QED BY <1>2, <1>3, <1>4 DEF UsageInv

\* The usage of an update is kept, that of a Done reported.
LEMMA PumpTranslateAccounts == ASSUME UsageInv, AnswerInv', PumpTranslate PROVE UsageInv'
<1> DEFINE f == Head(frames)
           es == TranslateEvents(adapter, f)
           r == Tail(frames)
<1>1. /\ events = <<>> /\ frames # <<>> /\ TypeOK
      /\ body_stream \in Seq(ResponseEvent) /\ frames \in Seq(OzResponseFrame) /\ adapter \in Adapter
  BY DEF UsageInv, AnswerInv, FailureInv, ClientInv, PumpTranslate, TypeOK
<1>2. /\ UNCHANGED <<script, held, bedrock_stream, body_stream, body, client>>
      /\ adapter' = TranslateAdapter(adapter, f) /\ events' = es /\ frames' = r
  BY DEF PumpTranslate, drainVars, bodyVars
<1>3. VerdictsAccount'
  BY <1>2 DEF UsageInv, VerdictsAccount, Accounts
<1>4. ASSUME body # "dropped" PROVE ItemsAccount' /\ FramesAccount' /\ EventsAccount'
  <2>1. ItemsAccount /\ FramesAccount /\ EventsAccount
    BY <1>4 DEF UsageInv
  <2>2. /\ f \in OzResponseFrame /\ f = frames[1] /\ 1 \in 1..Len(frames)
        /\ r \in Seq(OzResponseFrame) /\ Len(r) = Len(frames) - 1 /\ Len(frames) \in Nat
        /\ \A i \in 1..Len(r) : i + 1 \in 1..Len(frames) /\ r[i] = frames[i + 1]
    <3> DEFINE q == frames
    <3>1. q \in Seq(OzResponseFrame) /\ q # <<>>
      BY <1>1
    <3> HIDE DEF q
    <3>2. /\ Head(q) \in OzResponseFrame /\ Tail(q) \in Seq(OzResponseFrame) /\ Head(q) = q[1]
          /\ Len(q) \in Nat /\ 1 \in 1..Len(q) /\ Len(Tail(q)) = Len(q) - 1
          /\ \A i \in 1..Len(Tail(q)) : i + 1 \in 1..Len(q) /\ Tail(q)[i] = q[i + 1]
      BY <3>1, HeadTailProperties, LenProperties, EmptySeq
    <3> QED BY <3>2 DEF q
  <2>3. \A i \in 1..Len(r) : r[i].type \notin {"UsageUpdate", "Done"}
    <3> HIDE DEF r
    <3> QED BY <2>1, <2>2 DEF FramesAccount
  <2>4. Pending = adapter'.pending_usage
    BY <1>1, <1>2, <2>2 DEF Pending
  <2>5. Pending' = adapter'.pending_usage
    <3>1. CASE r = <<>>
      BY <1>2, <3>1 DEF Pending
    <3>2. CASE r # <<>>
      <4> DEFINE y == r[1]
                 d == adapter'
      <4> HIDE DEF r
      <4>1. 1 \in 1..Len(r) /\ y \in OzResponseFrame
        BY <2>2, <3>2, EmptySeq, LenProperties, ElementOfSeq
      <4>2. y.type # "UsageUpdate"
        BY <2>3, <4>1
      <4>3. d \in Adapter
        BY <1>1, <1>2, <2>2, TranslateAdapterType
      <4> HIDE DEF y, d
      <4>4. TranslateAdapter(d, y).pending_usage = d.pending_usage
        BY <4>1, <4>2, <4>3, TranslateAccounts
      <4>5. Pending' = TranslateAdapter(d, y).pending_usage
        BY <1>2, <3>2 DEF Pending, y, d
      <4> QED BY <4>4, <4>5 DEF d
    <3> QED BY <3>1, <3>2
  <2>6. taken' = taken
    BY <1>2 DEF taken
  <2>7. ItemsAccount'
    BY <1>2, <2>1, <2>4, <2>5, <2>6 DEF ItemsAccount
  <2>8. FramesAccount'
    BY <1>2, <2>3 DEF FramesAccount
  <2>9. ASSUME NEW i \in 1..Len(es), es[i].type = "StreamFinished", es[i].reason # "Other"
        PROVE  UsageAtStop(script, es[i].usage)
    <3>1. f.type = "Done" /\ es[i] = StreamFinished(FinishReason(f.reason), adapter.pending_usage)
      BY <1>1, <2>2, <2>9, TranslateAccounts
    <3>2. Accounts(es[i])
      BY <2>1, <2>2, <3>1 DEF FramesAccount
    <3> QED BY <2>9, <3>2 DEF Accounts
  <2>10. es \in Seq(ResponseEvent)
    BY <1>1, <2>2, TranslateEventsType
  <2>11. sent = body_stream /\ sent' = body_stream \o es
    BY <1>1, <1>2, ConcatEmptySeq DEF sent
  <2>12. EventsAccount'
    <3> DEFINE b == body_stream
               c == b \o es
    <3>1. \A i \in 1..Len(b) : b[i].type = "StreamFinished" => Accounts(b[i])
      BY <2>1, <2>11 DEF EventsAccount
    <3> HIDE DEF b, es
    <3> SUFFICES ASSUME NEW i \in 1..Len(c), c[i].type = "StreamFinished", c[i].reason # "Other"
                 PROVE  UsageAtStop(script, c[i].usage)
      BY <1>2, <2>11 DEF EventsAccount, Accounts, b
    <3>2. \/ \E k \in 1..Len(b) : c[i] = b[k]
          \/ \E k \in 1..Len(es) : c[i] = es[k]
      BY <1>1, <2>10, EachConcat DEF b
    <3> HIDE DEF c
    <3> QED BY <2>9, <3>1, <3>2 DEF Accounts
  <2> QED BY <2>7, <2>8, <2>12
<1> QED BY <1>2, <1>3, <1>4 DEF UsageInv

\* The client is told what the event says.
LEMMA BodyPollAccounts == ASSUME UsageInv, AnswerInv', BodyPoll PROVE UsageInv'
<1> DEFINE e == Head(sent)
           q == Tail(sent)
<1>1. /\ TypeOK /\ ClientInv /\ ItemsAccount /\ FramesAccount /\ EventsAccount /\ VerdictsAccount
      /\ IsClient(client)
  BY DEF UsageInv, AnswerInv, FailureInv, ClientInv, BodyPoll, TypeOK
<1>2. UNCHANGED <<script, held, bedrock_stream, adapter, frames, events, body>>
  BY DEF BodyPoll, drainVars, pumpVars
<1>3. /\ sent \in Seq(ResponseEvent) /\ sent # <<>> /\ sent' = q
      /\ client' = Applied(client, e)
  BY <1>1, Receives
<1>4. /\ e = sent[1] /\ e \in ResponseEvent /\ 1 \in 1..Len(sent)
      /\ \A i \in 1..Len(q) : i + 1 \in 1..Len(sent) /\ q[i] = sent[i + 1]
  <2> DEFINE s == sent
  <2> HIDE DEF s
  <2>1. s \in Seq(ResponseEvent) /\ s # <<>>
    BY <1>3 DEF s
  <2>2. /\ Head(s) = s[1] /\ Head(s) \in ResponseEvent /\ Len(s) \in Nat /\ 1 \in 1..Len(s)
        /\ Len(Tail(s)) = Len(s) - 1
        /\ \A i \in 1..Len(Tail(s)) : i + 1 \in 1..Len(s) /\ Tail(s)[i] = s[i + 1]
    BY <2>1, HeadTailProperties, LenProperties, EmptySeq
  <2> QED BY <2>2 DEF s
<1>5. /\ taken' = taken /\ Pending' = Pending
  BY <1>2 DEF taken, Pending
<1>6. ItemsAccount' /\ FramesAccount'
  BY <1>1, <1>2, <1>5 DEF ItemsAccount, FramesAccount, Accounts
<1>7. EventsAccount'
  <2> HIDE DEF q
  <2> QED BY <1>1, <1>2, <1>3, <1>4 DEF EventsAccount, Accounts
<1>8. VerdictsAccount'
  <2> DEFINE v == client.finished
  <2>1. v \in Seq(ResponseEvent) /\ Len(v) \in Nat
    BY <1>1, LenProperties DEF IsClient
  <2>2. client'.finished = IF e.type = "StreamFinished" THEN Append(v, e) ELSE v
    BY <1>1, <1>3, <1>4 DEF Applied, IsClient, ResponseEvent
  <2>3. \A i \in 1..Len(v) : Accounts(v[i])
    BY <1>1 DEF VerdictsAccount
  <2>4. e.type = "StreamFinished" => Accounts(e)
    BY <1>1, <1>4 DEF EventsAccount
  <2> HIDE DEF v, e
  <2>5. \A i \in 1..Len(client'.finished) : client'.finished[i].reason # "Other" =>
          UsageAtStop(script, client'.finished[i].usage)
    <3>1. CASE e.type = "StreamFinished"
      <4> DEFINE w == Append(v, e)
      <4>1. Len(w) = Len(v) + 1 /\ w[Len(v) + 1] = e /\ \A i \in 1..Len(v) : w[i] = v[i]
        BY <2>1, <1>4, AppendProperties DEF e
      <4> HIDE DEF w
      <4>2. \A i \in 1..Len(w) : i \in 1..Len(v) \/ i = Len(v) + 1
        BY <2>1, <4>1
      <4>3. client'.finished = w
        BY <2>2, <3>1 DEF w
      <4> QED BY <2>3, <2>4, <3>1, <4>1, <4>2, <4>3 DEF Accounts
    <3>2. CASE e.type # "StreamFinished"
      BY <2>2, <2>3, <3>2 DEF Accounts
    <3> QED BY <3>1, <3>2
  <2> QED BY <1>2, <2>5 DEF VerdictsAccount, Accounts
<1> QED BY <1>6, <1>7, <1>8 DEF UsageInv

\* An item held moves to the end of the channel.
LEMMA HeldQueued ==
  ASSUME NEW S, NEW b \in Seq(S), NEW h \in Seq(S), h # <<>>, Len(h) =< 1
  PROVE  Append(b, h[1]) \o <<>> = b \o h
<1> DEFINE n == Len(h)
<1>1. n =< 1 /\ n \in Nat \ {0}
  BY EmptySeq
<1>2. n = 1 => h = <<h[1]>> /\ h[1] \in S
  BY ElementOfSeq
<1> HIDE DEF n
<1>3. h = <<h[1]>> /\ h[1] \in S
  BY <1>1, <1>2
<1> DEFINE x == h[1]
<1> HIDE DEF x
<1>4. Append(b, x) \o <<>> = b \o <<x>>
  BY <1>3 DEF x
<1> QED BY <1>3, <1>4 DEF x

\* What moves nothing of what bears on the usage: the handler, the end of the stream,
\* the channels, the end of a batch, of the pump, and of the body.
LEMMA OthersAccount ==
  ASSUME UsageInv, AnswerInv',
         \/ Handle \/ DrainEof \/ DrainSend
         \/ PumpSend \/ PumpAbort \/ PumpContinue \/ PumpBreak \/ PumpEnd
         \/ BodyEnd \/ ClientDrop \/ UNCHANGED vars
  PROVE  UsageInv'
<1>1. /\ TypeOK /\ AnswerInv
      /\ held # <<>> => drain = "run"
      /\ pump = "done" /\ body # "dropped" => drain = "done"
      /\ synth => bedrock_stream = <<>>
      /\ pump # "flush" => frames = <<>> /\ events = <<>>
      /\ handler # "responded" => body = "none"
  BY DEF UsageInv, AnswerInv, FailureInv, ClientInv, ErrorComesLast, EndsInOrder
<1>2. UNCHANGED <<script, adapter, client>>
  BY DEF Handle, ReadRequest, RejectRequest, CancelRequest, Dispatch, Respond, DrainEof, DrainSend,
         PumpSend, PumpAbort, PumpContinue, PumpBreak, PumpEnd, PumpReturns, BodyEnd, ClientDrop,
         vars, drainVars, pumpVars, bodyVars
<1>3. CASE Handle \/ DrainEof \/ BodyEnd \/ ClientDrop \/ UNCHANGED vars
  <2>1. /\ UNCHANGED <<held, bedrock_stream, frames, events>>
        /\ body' # "dropped" => body # "dropped" /\ body_stream' = body_stream
    BY <1>1, <1>3 DEF Handle, ReadRequest, RejectRequest, CancelRequest, Dispatch, Respond, DrainEof,
       BodyEnd, ClientDrop, vars, drainVars, pumpVars, bodyVars
  <2>2. taken' = taken /\ (body' # "dropped" => sent' = sent)
    BY <2>1 DEF taken, sent
  <2> QED BY <1>2, <2>1, <2>2, UsageQuiet
<1>4. CASE DrainSend
  <2>1. UNCHANGED <<frames, events, body_stream, body>> /\ held # <<>> /\ held' = <<>>
    BY <1>4 DEF DrainSend, pumpVars, bodyVars
  <2>2. sent' = sent
    BY <2>1 DEF sent
  <2>3. ASSUME body # "dropped" PROVE taken' = taken
    <3>1. bedrock_stream' = Append(bedrock_stream, held[1])
      BY <1>1, <1>4, <2>3 DEF DrainSend
    <3>2. held \in Seq(Item) /\ Len(held) =< 1 /\ bedrock_stream \in Seq(Item)
      BY <1>1 DEF TypeOK, Option
    <3> QED BY <2>1, <3>1, <3>2, HeldQueued DEF taken
  <2> QED BY <1>2, <2>1, <2>2, <2>3, UsageQuiet
<1>5. CASE PumpSend \/ PumpAbort \/ PumpContinue \/ PumpBreak \/ PumpEnd
  <2>1. held' = held /\ body' = body
    BY <1>5 DEF PumpSend, PumpAbort, PumpContinue, PumpBreak, PumpEnd, PumpReturns, drainVars, bodyVars
  <2>2. ASSUME body # "dropped" PROVE bedrock_stream' = bedrock_stream /\ frames' = frames
    BY <1>1, <1>5, <2>2 DEF PumpSend, PumpAbort, PumpContinue, PumpBreak, PumpEnd, PumpReturns
  <2>3. ASSUME body # "dropped" PROVE sent' = sent
    <3>1. CASE PumpSend
      <4>1. events # <<>> /\ body_stream' = Append(body_stream, Head(events)) /\ events' = Tail(events)
        BY <3>1 DEF PumpSend
      <4>2. events \in Seq(ResponseEvent) /\ body_stream \in Seq(ResponseEvent)
        BY <1>1 DEF TypeOK
      <4>3. Append(body_stream, Head(events)) \o Tail(events) = body_stream \o events
        BY <4>1, <4>2, MoveHead
      <4> QED BY <4>1, <4>3 DEF sent
    <3>2. CASE ~PumpSend
      BY <1>1, <1>5, <2>3, <3>2 DEF PumpAbort, PumpContinue, PumpBreak, PumpEnd, PumpReturns, sent
    <3> QED BY <3>1, <3>2
  <2>4. body # "dropped" => taken' = taken
    BY <2>1, <2>2 DEF taken
  <2> QED BY <1>2, <2>1, <2>2, <2>3, <2>4, UsageQuiet
<1> QED BY <1>3, <1>4, <1>5

\* UsageInv holds before the first step,
LEMMA UsageInit == Init => UsageInv
<1> SUFFICES ASSUME Init PROVE UsageInv
  OBVIOUS
<1>1. AnswerInv
  BY AnswerInit
<1>2. /\ script = <<>> /\ held = <<>> /\ bedrock_stream = <<>> /\ frames = <<>> /\ events = <<>>
      /\ body_stream = <<>> /\ adapter.pending_usage = <<>> /\ client.finished = <<>>
  BY DEF Init, NewAdapter, NewClient
<1>3. sent = <<>> /\ taken = <<>>
  BY <1>2, EmptySeq, ConcatEmptySeq DEF sent, taken
<1>4. Len(<<>>) = 0 /\ 1..0 = {}
  OBVIOUS
<1>5. ItemsAccount
  BY <1>2, <1>3, <1>4 DEF ItemsAccount, Pending
<1>6. FramesAccount /\ EventsAccount /\ VerdictsAccount
  BY <1>2, <1>3, <1>4 DEF FramesAccount, EventsAccount, VerdictsAccount
<1> QED BY <1>1, <1>5, <1>6 DEF UsageInv

\* and every step preserves it.
LEMMA UsageStep == UsageInv /\ [Next]_vars => UsageInv'
<1> SUFFICES ASSUME UsageInv, [Next]_vars PROVE UsageInv'
  OBVIOUS
<1>1. AnswerInv'
  BY AnswerStep DEF UsageInv
<1>2. CASE Drain
  BY <1>1, <1>2, DrainRecvAccounts, DrainErrAccounts, OthersAccount DEF Drain
<1>3. CASE PumpStream
  BY <1>1, <1>3, PumpRecvAccounts, PumpTranslateAccounts, OthersAccount DEF PumpStream
<1>4. CASE Body
  BY <1>1, <1>4, BodyPollAccounts, OthersAccount DEF Body
<1>5. CASE Handle \/ UNCHANGED vars
  BY <1>1, <1>5, OthersAccount
<1> QED BY <1>2, <1>3, <1>4, <1>5 DEF Next

\* A StreamFinished carries the usage that the model reported last before it stopped,
\* saturated to u32, or none if it reported none (ui_adapter.rs:153-169, 393-397).
THEOREM UsageIsReportedAtStop == Spec => []UsageBeforeStop
<1>1. UsageInv => UsageBeforeStop
  <2> SUFFICES ASSUME UsageInv, client.finished # <<>>, client.finished[1].reason # "Other"
               PROVE  UsageAtStop(script, client.finished[1].usage)
    BY DEF UsageBeforeStop
  <2>1. client.finished \in Seq(ResponseEvent)
    BY DEF UsageInv, AnswerInv, FailureInv, ClientInv, TypeOK, IsClient
  <2> DEFINE v == client.finished
  <2> HIDE DEF v
  <2>2. 1 \in 1..Len(v)
    BY <2>1, EmptySeq, LenProperties DEF v
  <2> QED BY <2>2 DEF UsageInv, VerdictsAccount, Accounts, v
<1>2. Spec => []UsageInv
  BY UsageInit, UsageStep, PTL DEF Spec
<1> QED BY <1>1, <1>2, PTL
=============================================================================
