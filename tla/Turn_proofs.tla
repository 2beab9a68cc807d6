------------------------------ MODULE Turn_proofs ------------------------------
(***************************************************************************)
(* Theorems about Turn for every value of its constants.                   *)
(***************************************************************************)
EXTENDS TurnProperties, TLAPS, SequenceTheorems

-----------------------------------------------------------------------------
(* The accumulator                                                         *)

\* handle() keeps a map of blocks a map of blocks.
LEMMA HandleBlocksType ==
  ASSUME NEW bs, IsBlocks(bs), NEW ev \in BedrockEvent
  PROVE  IsBlocks(HandleBlocks(bs, ev))
<1>1. CASE ev.type = "block_start"
  <2>1. ParseBlockStart(ev) \in BlockState /\ ev.index \in Nat
    BY <1>1 DEF BedrockEvent, ParseBlockStart, BlockState
  <2>2. IsBlocks(Insert(bs, ev.index, ParseBlockStart(ev)))
    BY <2>1 DEF IsBlocks, Insert
  <2> QED BY <1>1, <2>2 DEF HandleBlocks
<1>2. CASE ev.type = "delta"
  <2>1. ev.index \in Nat /\ ev.chunk \in Chunk
    BY <1>2 DEF BedrockEvent
  <2>2. BlockAt(bs, ev.index) \in BlockState
    BY DEF BlockAt, AutoTextBlock, BlockState, BlockKind, IsBlocks
  <2>3. GrowBlock(BlockAt(bs, ev.index), ev) \in BlockState
    BY <2>1, <2>2 DEF GrowBlock, BlockState
  <2>4. IsBlocks(Insert(bs, ev.index, GrowBlock(BlockAt(bs, ev.index), ev)))
    BY <2>1, <2>3 DEF IsBlocks, Insert
  <2> QED BY <1>2, <2>4 DEF HandleBlocks
<1>3. CASE ev.type = "block_stop"
  BY <1>3 DEF HandleBlocks, IsBlocks, Restrict
<1>4. CASE ev.type \notin {"block_start", "delta", "block_stop"}
  BY <1>4 DEF HandleBlocks
<1> QED BY <1>1, <1>2, <1>3, <1>4

\* handle() yields frames.
LEMMA HandleFramesType ==
  ASSUME NEW bs, IsBlocks(bs), NEW ev \in BedrockEvent
  PROVE  HandleFrames(bs, ev) \in Seq(OzResponseFrame)
<1>1. CASE ev.type = "delta"
  <2>1. ev.index \in Nat /\ ev.chunk \in Chunk
    BY <1>1 DEF BedrockEvent
  <2>2. <<ev.chunk>> \in Seq(Chunk)
    BY <2>1
  <2>3. /\ [type |-> "TextDelta", text |-> <<ev.chunk>>] \in OzResponseFrame
        /\ [type |-> "ThinkingDelta", text |-> <<ev.chunk>>] \in OzResponseFrame
        /\ [type |-> "ThinkingDelta", text |-> <<>>] \in OzResponseFrame
        /\ [type |-> "ToolUseInputDelta", index |-> ev.index] \in OzResponseFrame
    BY <2>1, <2>2 DEF OzResponseFrame
  <2>4. DeltaFrames(BlockAt(bs, ev.index), ev) \in Seq(OzResponseFrame)
    BY <2>3 DEF DeltaFrames
  <2> QED BY <1>1, <2>4 DEF HandleFrames
<1>2. CASE ev.type = "block_stop"
  <2>1. ev.index \in Nat
    BY <1>2 DEF BedrockEvent
  <2>2. CASE ev.index \in DOMAIN bs
    <3>1. bs[ev.index].json \in Seq(Chunk) /\ bs[ev.index].id \in Nat
      BY <2>2 DEF IsBlocks, BlockState
    <3>2. ParseJson(bs[ev.index].json) \in Seq(Chunk)
      BY <3>1 DEF ParseJson, EmptyObject
    <3>3. /\ [type |-> "BlockStop", index |-> ev.index] \in OzResponseFrame
          /\ [type  |-> "ToolUse", id |-> bs[ev.index].id,
              input |-> ParseJson(bs[ev.index].json)] \in OzResponseFrame
      BY <2>1, <3>1, <3>2 DEF OzResponseFrame
    <3>4. StopFrames(bs, ev) \in Seq(OzResponseFrame)
      BY <3>3 DEF StopFrames
    <3> QED BY <1>2, <3>4 DEF HandleFrames
  <2>3. CASE ev.index \notin DOMAIN bs
    BY <1>2, <2>1, <2>3 DEF HandleFrames, StopFrames, OzResponseFrame
  <2> QED BY <2>2, <2>3
<1>3. CASE ev.type = "message_stop"
  <2>1. ev.reason \in StopReason
    BY <1>3 DEF BedrockEvent
  <2> QED BY <1>3, <2>1 DEF HandleFrames, OzResponseFrame
<1>4. CASE ev.type = "metadata"
  <2>1. ev.usage \in Nat
    BY <1>4 DEF BedrockEvent
  <2> QED BY <1>4, <2>1 DEF HandleFrames, OzResponseFrame
<1>5. CASE ev.type \notin {"delta", "block_stop", "message_stop", "metadata"}
  BY <1>5 DEF HandleFrames
<1> QED BY <1>1, <1>2, <1>3, <1>4, <1>5

-----------------------------------------------------------------------------
(* The adapter                                                             *)

\* translate() keeps the adapter well formed.
LEMMA TranslateAdapterType ==
  ASSUME NEW a \in Adapter, NEW f \in OzResponseFrame
  PROVE  TranslateAdapter(a, f) \in Adapter
<1>1. Opened(a, f) \in Adapter
  <2>1. NeedsPrelude(f) \in BOOLEAN
    BY DEF NeedsPrelude
  <2>2. a.sent_init \/ NeedsPrelude(f) \in BOOLEAN
    BY <2>1 DEF Adapter
  <2> QED BY <2>2 DEF Adapter, Opened
<1>2. CASE HasContent(f)
  <2>1. KindOf(f) \in ActiveKind
    BY DEF KindOf, ActiveKind
  <2>2. <<KindOf(f)>> \in Option(ActiveKind)
    BY <2>1 DEF Option
  <2>3. EnsureKind(Opened(a, f), KindOf(f)) \in Adapter
    <3>1. CASE Rotates(Opened(a, f), KindOf(f))
      <4>1. Opened(a, f).message_id + 1 \in Nat
        BY <1>1 DEF Adapter
      <4> QED BY <1>1, <2>2, <3>1, <4>1 DEF Adapter, EnsureKind
    <3>2. CASE ~Rotates(Opened(a, f), KindOf(f))
      BY <1>1, <3>2 DEF EnsureKind
    <3> QED BY <3>1, <3>2
  <2> QED BY <1>2, <2>3 DEF TranslateAdapter, HasContent
<1>3. CASE ~HasContent(f) /\ f.type = "UsageUpdate"
  <2>1. SaturateU32(f.usage) \in 0..U32Max
    BY <1>3, U32MaxAssumption DEF SaturateU32, OzResponseFrame
  <2>2. <<SaturateU32(f.usage)>> \in Option(0..U32Max)
    BY <2>1 DEF Option
  <2>3. WithUsage(a, f) \in Adapter
    BY <2>2 DEF Adapter, WithUsage
  <2> QED BY <1>3, <2>3 DEF TranslateAdapter
<1>4. CASE ~HasContent(f) /\ f.type # "UsageUpdate"
  BY <1>1, <1>4 DEF TranslateAdapter
<1> QED BY <1>2, <1>3, <1>4

\* The content of a delta or tool frame.
LEMMA ContentType ==
  ASSUME NEW f \in OzResponseFrame, HasContent(f)
  PROVE  ContentOf(f) \in Seq(Content) /\ KindOf(f) \in ActiveKind
<1>1. KindOf(f) \in ActiveKind
  BY DEF KindOf, ActiveKind
<1>2. CASE f.type = "ToolUse"
  <2>1. f.id \in Nat /\ f.input \in Seq(Chunk)
    BY <1>2 DEF OzResponseFrame
  <2>2. [kind |-> "tool_call", id |-> f.id, input |-> f.input] \in Content
    BY <2>1 DEF Content
  <2> QED BY <1>1, <1>2, <2>2 DEF ContentOf
<1>3. CASE f.type # "ToolUse"
  <2>1. f.text \in Seq(Chunk)
    BY <1>3 DEF OzResponseFrame, HasContent
  <2>2. KindOf(f) \in {"agent_output", "agent_reasoning"}
    BY <1>3 DEF KindOf, HasContent
  <2>3. Len(f.text) \in Nat
    BY <2>1
  <2>4. \A i \in 1..Len(f.text) : [kind |-> KindOf(f), chunk |-> f.text[i]] \in Content
    BY <2>1, <2>2 DEF Content
  <2> QED BY <1>1, <1>3, <2>3, <2>4 DEF ContentOf
<1> QED BY <1>2, <1>3

\* translate() yields response events.
LEMMA TranslateEventsType ==
  ASSUME NEW a \in Adapter, NEW f \in OzResponseFrame
  PROVE  TranslateEvents(a, f) \in Seq(ResponseEvent)
<1>1. Prelude(a, f) \in Seq(ResponseEvent)
  <2>1. StreamInit \in ResponseEvent /\ CreateTask \in ResponseEvent
    BY DEF StreamInit, CreateTask, ResponseEvent
  <2> QED BY <2>1 DEF Prelude
<1>2. CASE HasContent(f)
  <2>1. ContentOf(f) \in Seq(Content) /\ KindOf(f) \in ActiveKind
    BY <1>2, ContentType
  <2>2. EnsureKindEvents(a, KindOf(f)) \in Seq(ResponseEvent)
    <3>1. AddMessages(a.message_id + 1, KindOf(f)) \in ResponseEvent
      BY <2>1 DEF AddMessages, Adapter, ResponseEvent
    <3> QED BY <3>1 DEF EnsureKindEvents
  <2>3. EnsureKind(a, KindOf(f)).message_id \in Nat
    BY DEF EnsureKind, Adapter
  <2>4. AppendContent(EnsureKind(a, KindOf(f)).message_id, KindOf(f), ContentOf(f))
          \in ResponseEvent
    BY <2>1, <2>3 DEF AppendContent, ResponseEvent
  <2>5. ContentEvents(a, f) \in Seq(ResponseEvent)
    BY <2>2, <2>4 DEF ContentEvents
  <2>6. TranslateEvents(a, f) = Prelude(a, f) \o ContentEvents(a, f)
    BY <1>2 DEF TranslateEvents, HasContent
  <2> QED BY <1>1, <2>5, <2>6
<1>3. CASE ~HasContent(f) /\ f.type = "Done"
  <2>1. FinishReason(f.reason) \in Reason /\ a.pending_usage \in Option(0..U32Max)
    BY DEF FinishReason, Reason, Adapter
  <2>2. StreamFinished(FinishReason(f.reason), a.pending_usage) \in ResponseEvent
    BY <2>1 DEF StreamFinished, ResponseEvent
  <2> QED BY <1>1, <1>3, <2>2 DEF TranslateEvents
<1>4. CASE ~HasContent(f) /\ f.type # "Done"
  BY <1>1, <1>4 DEF TranslateEvents
<1> QED BY <1>2, <1>3, <1>4

-----------------------------------------------------------------------------
(* The client                                                              *)

\* Receiving an event keeps the client well formed.
LEMMA ReceiveType ==
  ASSUME NEW c, IsClient(c), NEW e \in ResponseEvent
  PROVE  IsClient(Receive(c, e))
<1>1. CASE ~Lands(c, e)
  BY <1>1 DEF Receive, IsClient
<1>2. CASE Lands(c, e) /\ e.type \in {"StreamInit", "CreateTask"}
  BY <1>2 DEF Receive, Applied, IsClient
<1>3. CASE Lands(c, e) /\ e.type = "AddMessagesToTask"
  <2>1. e.id \in Nat /\ e.kind \in ActiveKind
    BY <1>3 DEF ResponseEvent
  <2>2. [kind |-> e.kind, body |-> <<>>] \in Message
    BY <2>1 DEF Message
  <2> QED BY <1>3, <2>1, <2>2 DEF Receive, Applied, IsClient, Register
<1>4. CASE Lands(c, e) /\ e.type = "AppendToMessageContent"
  <2>1. e.content \in Seq(Content)
    BY <1>4 DEF ResponseEvent
  <2>2. e.id \in DOMAIN c.messages /\ c.messages[e.id] \in Message
    BY <1>4 DEF Lands, IsClient
  <2>3. c.messages[e.id].body \o e.content \in Seq(Content)
    BY <2>1, <2>2 DEF Message
  <2>4. [kind |-> c.messages[e.id].kind, body |-> c.messages[e.id].body \o e.content]
          \in Message
    BY <2>2, <2>3 DEF Message
  <2>5. /\ DOMAIN Extend(c.messages, e.id, e.content) = DOMAIN c.messages
        /\ \A i \in DOMAIN c.messages : Extend(c.messages, e.id, e.content)[i] \in Message
    BY <2>2, <2>4 DEF IsClient, Extend
  <2>6. Receive(c, e) = [c EXCEPT !.messages = Extend(@, e.id, e.content)]
    BY <1>4 DEF Receive, Applied
  <2> QED BY <2>5, <2>6 DEF IsClient
<1>5. CASE Lands(c, e) /\ e.type = "StreamFinished"
  <2>1. Append(c.finished, e) \in Seq(ResponseEvent)
    BY DEF IsClient
  <2> QED BY <1>5, <2>1 DEF Receive, Applied, IsClient
<1>6. e.type \in {"StreamInit", "CreateTask", "AddMessagesToTask",
                  "AppendToMessageContent", "StreamFinished"}
  BY DEF ResponseEvent
<1> QED BY <1>1, <1>2, <1>3, <1>4, <1>5, <1>6

-----------------------------------------------------------------------------
(* The producer                                                            *)

\* What the producer may send is an SDK event, and it goes on from there.
LEMMA OffersType ==
  ASSUME NEW pr \in Providers, NEW p \in Producer, NEW ev \in Offers(pr, p)
  PROVE  /\ ev \in SdkEvent
         /\ After(p, ev) \in Producer
         /\ pr = "mock" /\ ev.type = "block_start" => ev.start \in BlockKind
<1>1. /\ ev \in SdkEvent
      /\ pr = "mock" /\ ev.type = "block_start" => ev.start \in BlockKind
  <2>1. p.index \in Nat /\ p.deltas + 1 \in Nat
    BY DEF Producer
  <2>2. CASE ev \in MessageStarts(p)
    BY <2>2 DEF MessageStarts, SdkEvent
  <2>3. CASE ev \in BlockStarts(pr, p)
    <3>1. PICK s \in StartsOf(pr) : ev = [type |-> "block_start", index |-> p.index,
                                         start |-> s, id |-> p.index]
      BY <2>3 DEF BlockStarts
    <3>2. s \in BlockKind \cup {"none"} /\ (pr = "mock" => s \in BlockKind)
      BY DEF StartsOf, BlockKind
    <3> QED BY <2>1, <3>1, <3>2 DEF SdkEvent
  <2>4. CASE ev \in Deltas(pr, p)
    <3> PICK d \in DeltasOf(pr, p.block), c \in MayClose(p.block) :
            ev = [type |-> "delta", index |-> p.index, delta |-> d,
                  chunk |-> [n |-> p.deltas + 1, closes |-> c]]
      BY <2>4 DEF Deltas
    <3>1. c \in BOOLEAN
      BY DEF MayClose
    <3>2. d \in DeltaType \cup {"other"}
      BY DEF DeltasOf, DeltaType
    <3>3. [n |-> p.deltas + 1, closes |-> c] \in Chunk
      BY <2>1, <3>1 DEF Chunk
    <3> QED BY <2>1, <3>2, <3>3 DEF SdkEvent
  <2>5. CASE ev \in BlockStops(p)
    BY <2>1, <2>5 DEF BlockStops, SdkEvent
  <2>6. CASE ev \in MessageStops(p)
    BY <2>6, ConverseStreamAssumption DEF MessageStops, SdkEvent
  <2>7. CASE ev \in Extras(pr, p)
    BY <2>7, ConverseStreamAssumption DEF Extras, CountsOf, SdkEvent
  <2> QED BY <2>2, <2>3, <2>4, <2>5, <2>6, <2>7 DEF Offers
<1>2. After(p, ev) \in Producer
  <2>1. CASE ev.type = "message_start"
    BY <2>1 DEF After, Producer
  <2>2. CASE ev.type = "block_start"
    <3>1. ev.start \in BlockKind \cup {"none"}
      BY <1>1, <2>2 DEF SdkEvent
    <3>2. (IF ev.start = "none" THEN "untyped" ELSE ev.start) \in OpenBlock
      BY <3>1 DEF OpenBlock, BlockKind
    <3> QED BY <2>2, <3>2 DEF After, Producer
  <2>3. CASE ev.type = "delta"
    <3>1. BlockOfDelta(ev) \in OpenBlock
      BY DEF BlockOfDelta, OpenBlock, BlockKind
    <3>2. p.deltas + 1 \in Nat
      BY DEF Producer
    <3> QED BY <2>3, <3>1, <3>2 DEF After, Producer
  <2>4. CASE ev.type = "block_stop"
    <3>1. p.index + 1 \in Nat /\ "none" \in OpenBlock
      BY DEF Producer, OpenBlock
    <3> QED BY <2>4, <3>1 DEF After, Producer
  <2>5. CASE ev.type = "message_stop"
    BY <2>5 DEF After, Producer
  <2>6. CASE ev.type \notin {"message_start", "block_start", "delta", "block_stop",
                             "message_stop"}
    <3>1. p.extras + 1 \in Nat
      BY DEF Producer
    <3> QED BY <2>6, <3>1 DEF After, Producer
  <2> QED BY <2>1, <2>2, <2>3, <2>4, <2>5, <2>6
<1> QED BY <1>1, <1>2

-----------------------------------------------------------------------------
(* Type correctness                                                        *)

\* Every variable stays in its type; both channels stay within their capacity.
LEMMA TypeStep == TypeOK /\ [Next]_vars => TypeOK'
<1> SUFFICES ASSUME TypeOK, [Next]_vars PROVE TypeOK'
  OBVIOUS
<1> USE DEF TypeOK
<1>1. CASE Handle
  <2>1. CASE ReadRequest \/ RejectRequest \/ CancelRequest
    BY <2>1 DEF ReadRequest, RejectRequest, CancelRequest, drainVars, pumpVars, bodyVars
  <2>2. CASE Dispatch
    BY <2>2 DEF Dispatch, pumpVars, bodyVars
  <2>3. CASE Respond
    BY <2>3 DEF Respond, drainVars
  <2> QED BY <1>1, <2>1, <2>2, <2>3 DEF Handle
<1>2. CASE DrainRecv
  <2> PICK ev \in Offers(provider, producer) :
         /\ producer' = After(producer, ev)
         /\ script' = Append(script, ev)
         /\ held' = IF Skipped(ev) THEN <<>> ELSE <<TranslateOutputEvent(ev)>>
    BY <1>2 DEF DrainRecv
  <2>1. /\ ev \in SdkEvent
        /\ After(producer, ev) \in Producer
        /\ provider = "mock" /\ ev.type = "block_start" => ev.start \in BlockKind
    BY OffersType
  <2>2. ~Skipped(ev) => TranslateOutputEvent(ev) \in Item
    <3>1. CASE ev.type = "block_start"
      <4>1. ev.index \in Nat /\ ev.id \in Nat /\ ev.start \in BlockKind \cup {"none"}
        BY <2>1, <3>1 DEF SdkEvent
      <4>2. StartKind(ev) \in BlockKind
        BY <2>1, <3>1, <4>1 DEF StartKind, Providers, BlockKind
      <4> QED BY <3>1, <4>1, <4>2 DEF TranslateOutputEvent, Item, BedrockEvent
    <3>2. CASE ev.type # "block_start"
      BY <2>1, <3>2 DEF TranslateOutputEvent, Item, BedrockEvent, SdkEvent, Skipped
    <3> QED BY <3>1, <3>2
  <2>3. held' \in Option(Item)
    BY <2>2 DEF Option
  <2>4. script' \in Seq(SdkEvent)
    BY <2>1
  <2> QED BY <1>2, <2>1, <2>3, <2>4 DEF DrainRecv, pumpVars, bodyVars
<1>3. CASE DrainErr
  <2>1. <<StreamErr>> \in Option(Item)
    BY DEF Option, Item
  <2> QED BY <1>3, <2>1 DEF DrainErr, pumpVars, bodyVars
<1>4. CASE DrainEof
  BY <1>4 DEF DrainEof, pumpVars, bodyVars
<1>5. CASE DrainSend
  <2>1. <<>> \in Option(Item) /\ held[1] \in Item
    BY <1>5 DEF Option, DrainSend
  <2>2. bedrock_stream' \in Seq(Item) /\ Len(bedrock_stream') =< StreamCap
    <3>1. CASE UNCHANGED bedrock_stream
      BY <3>1
    <3>2. CASE /\ Len(bedrock_stream) < StreamCap
               /\ bedrock_stream' = Append(bedrock_stream, held[1])
      BY <2>1, <3>2, TurnAssumption
    <3> QED BY <1>5, <3>1, <3>2 DEF DrainSend
  <2> QED BY <1>5, <2>1, <2>2 DEF DrainSend, pumpVars, bodyVars
<1>6. CASE PumpRecv
  <2>1. Head(bedrock_stream) \in Item /\ Tail(bedrock_stream) \in Seq(Item)
    BY <1>6 DEF PumpRecv
  <2>2. EventOf(Head(bedrock_stream)) \in BedrockEvent
    <3>1. "error" \in StopReason
      BY DEF StopReason
    <3>2. SynthStop \in BedrockEvent
      BY <3>1 DEF SynthStop, BedrockEvent
    <3> QED BY <2>1, <3>2 DEF EventOf, Item
  <2>3. IsBlocks(blocks') /\ frames' \in Seq(OzResponseFrame)
    BY <1>6, <2>2, HandleBlocksType, HandleFramesType DEF PumpRecv
  <2>4. Len(bedrock_stream') =< StreamCap
    BY <1>6, TurnAssumption DEF PumpRecv
  <2> QED BY <1>6, <2>1, <2>3, <2>4 DEF PumpRecv, drainVars, bodyVars
<1>7. CASE PumpTranslate
  <2>1. Head(frames) \in OzResponseFrame /\ Tail(frames) \in Seq(OzResponseFrame)
    BY <1>7 DEF PumpTranslate
  <2>2. adapter' \in Adapter /\ events' \in Seq(ResponseEvent)
    BY <1>7, <2>1, TranslateAdapterType, TranslateEventsType DEF PumpTranslate
  <2> QED BY <1>7, <2>1, <2>2 DEF PumpTranslate, drainVars, bodyVars
<1>8. CASE PumpSend
  <2>1. Head(events) \in ResponseEvent /\ Tail(events) \in Seq(ResponseEvent)
    BY <1>8 DEF PumpSend
  <2>2. body_stream' \in Seq(ResponseEvent) /\ Len(body_stream') =< BodyCap
    BY <1>8, <2>1, TurnAssumption DEF PumpSend
  <2> QED BY <1>8, <2>1, <2>2 DEF PumpSend, drainVars, bodyVars
<1>9. CASE PumpContinue
  BY <1>9 DEF PumpContinue, drainVars, bodyVars
<1>10. CASE PumpReturns
  BY <1>10, TurnAssumption DEF PumpReturns, drainVars, bodyVars
<1>11. CASE BodyPoll
  <2>1. Head(body_stream) \in ResponseEvent /\ Tail(body_stream) \in Seq(ResponseEvent)
    BY <1>11 DEF BodyPoll
  <2>2. IsClient(client')
    BY <1>11, <2>1, ReceiveType DEF BodyPoll
  <2>3. Len(body_stream') =< BodyCap
    BY <1>11, TurnAssumption DEF BodyPoll
  <2> QED BY <1>11, <2>1, <2>2, <2>3 DEF BodyPoll, drainVars, pumpVars
<1>12. CASE BodyEnd
  BY <1>12 DEF BodyEnd, drainVars, pumpVars
<1>13. CASE ClientDrop
  BY <1>13, TurnAssumption DEF ClientDrop, drainVars, pumpVars
<1>14. CASE UNCHANGED vars
  BY <1>14 DEF vars, drainVars, pumpVars, bodyVars
<1> QED BY <1>1, <1>2, <1>3, <1>4, <1>5, <1>6, <1>7, <1>8, <1>9, <1>10, <1>11, <1>12,
           <1>13, <1>14
        DEF Next, Drain, PumpStream, Body, PumpAbort, PumpBreak, PumpEnd

\* A turn starts in a state of the right type.
LEMMA InitType == Init => TypeOK
<1> SUFFICES ASSUME Init PROVE TypeOK
  OBVIOUS
<1>1. NewProducer \in Producer
  BY DEF NewProducer, Producer, OpenBlock
<1>2. NewAdapter \in Adapter
  BY DEF NewAdapter, Adapter, Option
<1>3. IsClient(NewClient) /\ IsBlocks(<<>>)
  BY DEF IsClient, NewClient, IsBlocks
<1>4. <<>> \in Option(Item)
  BY DEF Option
<1>5. /\ script \in Seq(SdkEvent) /\ bedrock_stream \in Seq(Item)
      /\ frames \in Seq(OzResponseFrame) /\ events \in Seq(ResponseEvent)
      /\ body_stream \in Seq(ResponseEvent)
  BY DEF Init
<1>6. Len(bedrock_stream) =< StreamCap /\ Len(body_stream) =< BodyCap
  BY TurnAssumption DEF Init
<1> QED BY <1>1, <1>2, <1>3, <1>4, <1>5, <1>6 DEF Init, TypeOK

\* Every variable keeps its type, and neither channel ever holds more items than
\* its capacity (route_multi_agent.rs:84, bedrock_client.rs:196).
THEOREM TypeCorrect == Spec => []TypeOK
<1> QED BY InitType, TypeStep, PTL DEF Spec

=============================================================================
