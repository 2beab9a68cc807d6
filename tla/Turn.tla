--------------------------------- MODULE Turn ---------------------------------
(***************************************************************************)
(* One turn: a POST /ai/multi-agent request from its arrival to the end of *)
(* its response body (src/src/route_multi_agent.rs, with the drain task of *)
(* src/src/bedrock_client.rs).  Three concurrent tasks share two bounded   *)
(* channels:                                                               *)
(*                                                                         *)
(*   drain task --bedrock_stream--> pump_stream --body_stream--> hyper     *)
(*                                                                         *)
(* The handler starts the drain, then the pump, and returns the response   *)
(* whose body hyper polls for the Warp client.  Either end of a channel    *)
(* may go away while the other one is waiting.                             *)
(***************************************************************************)
EXTENDS ConverseStream, UiAdapter, WarpClient, SequencesExt

CONSTANTS StreamCap,  \* capacity of the channel drain -> pump, 32 in the code
          BodyCap     \* capacity of the channel pump -> body, 32 in the code

ASSUME TurnAssumption == StreamCap \in Nat \ {0} /\ BodyCap \in Nat \ {0}

VARIABLES
  handler,        \* where handle() stands
  provider,       \* which implementation of BedrockLike serves the turn
  producer,       \* the upstream end of the stream
  script,         \* history: the SDK events received so far
  failed,         \* history: recv() returned an error
  drain,          \* the drain task: "idle", "run", "done"
  held,           \* the item the drain task is sending, if any
  bedrock_stream, \* the channel drain -> pump
  pump,           \* pump_stream: "idle", "recv", "flush", "done"
  synth,          \* pump_stream took an Err: it breaks after this flush
  blocks,         \* the accumulator
  adapter,        \* the UI adapter
  frames,         \* flush_frames: the frames left of the batch
  events,         \* flush_frames: the events left of the current frame
  body_stream,    \* the channel pump -> body
  body,           \* the response body: "none", "open", "ended", "dropped"
  client          \* the Warp client

drainVars  == <<producer, script, failed, drain, held>>
pumpVars   == <<pump, synth, blocks, adapter, frames, events>>
bodyVars   == <<body, client>>
vars == <<handler, provider, drainVars, bedrock_stream, pumpVars, body_stream, bodyVars>>

\* An item of bedrock_stream: Ok(BedrockEvent) or Err.
StreamErr == [type |-> "err"]
Item == BedrockEvent \cup {StreamErr}

Init ==
  /\ handler = "body"
  /\ provider \in Providers
  /\ producer = NewProducer /\ script = <<>> /\ failed = FALSE
  /\ drain = "idle" /\ held = <<>>
  /\ bedrock_stream = <<>>
  /\ pump = "idle" /\ synth = FALSE
  /\ blocks = <<>> /\ adapter = NewAdapter /\ frames = <<>> /\ events = <<>>
  /\ body_stream = <<>>
  /\ body = "none" /\ client = NewClient

-----------------------------------------------------------------------------
(* handle()                                                                *)

\* The body is read, decoded and translated; converse_stream is awaited next.
ReadRequest ==
  /\ handler = "body"
  /\ handler' = "dispatch"
  /\ UNCHANGED <<provider, drainVars, bedrock_stream, pumpVars, body_stream, bodyVars>>

\* Reading, decoding, translating or dispatching fails: the server answers 500.
RejectRequest ==
  /\ handler \in {"body", "dispatch"}
  /\ handler' = "rejected"
  /\ UNCHANGED <<provider, drainVars, bedrock_stream, pumpVars, body_stream, bodyVars>>

\* The connection closes while the handler awaits: hyper drops its future.
CancelRequest ==
  /\ handler \in {"body", "dispatch"}
  /\ handler' = "cancelled"
  /\ UNCHANGED <<provider, drainVars, bedrock_stream, pumpVars, body_stream, bodyVars>>

\* converse_stream returns Ok, having spawned the drain task.
Dispatch ==
  /\ handler = "dispatch"
  /\ handler' = "spawn"
  /\ drain' = "run"
  /\ UNCHANGED <<provider, producer, script, failed, held,
                 bedrock_stream, pumpVars, body_stream, bodyVars>>

\* The pump is spawned and the streaming response returned.
Respond ==
  /\ handler = "spawn"
  /\ handler' = "responded"
  /\ pump' = "recv"
  /\ body' = "open"
  /\ UNCHANGED <<provider, drainVars, bedrock_stream, synth, blocks, adapter,
                 frames, events, body_stream, client>>

-----------------------------------------------------------------------------
(* The drain task                                                          *)

\* translate_output_event: the events without a mapping are skipped, and a
\* start payload other than a tool's is taken for text.  A mock script is sent
\* as it stands.
Skipped(ev) == ev.type = "unknown" \/ (ev.type = "delta" /\ ev.delta = "other")

StartKind(ev) ==
  IF provider = "mock" \/ ev.start = "tool_use" THEN ev.start ELSE "text"

TranslateOutputEvent(ev) ==
  IF ev.type = "block_start"
  THEN [type |-> "block_start", index |-> ev.index, kind |-> StartKind(ev), id |-> ev.id]
  ELSE ev

\* recv() returns an event.
DrainRecv ==
  /\ drain = "run" /\ held = <<>>
  /\ \E ev \in Offers(provider, producer) :
       /\ producer' = After(producer, ev)
       /\ script' = Append(script, ev)
       /\ held' = IF Skipped(ev) THEN <<>> ELSE <<TranslateOutputEvent(ev)>>
  /\ UNCHANGED <<handler, provider, failed, drain, bedrock_stream, pumpVars,
                 body_stream, bodyVars>>

\* Mutation: the error is logged and the task ends without sending it.
DrainErrSwallowed ==
  /\ drain = "run" /\ held = <<>> /\ provider = "real"
  /\ failed' = TRUE
  /\ drain' = "done"
  /\ UNCHANGED <<handler, provider, producer, script, held, bedrock_stream,
                 pumpVars, body_stream, bodyVars>>

\* recv() returns an error: a throttle, a reset connection, a bad frame.
DrainErr ==
  /\ drain = "run" /\ held = <<>> /\ provider = "real"
  /\ failed' = TRUE
  /\ held' = <<StreamErr>>
  /\ UNCHANGED <<handler, provider, producer, script, drain, bedrock_stream,
                 pumpVars, body_stream, bodyVars>>

\* Mutation: `continue` where the code says `break`.
DrainEofContinue ==
  /\ drain = "run" /\ held = <<>>
  /\ UNCHANGED vars

\* recv() returns Ok(None): the stream ended, whether or not the message did.
DrainEof ==
  /\ drain = "run" /\ held = <<>>
  /\ drain' = "done"
  /\ UNCHANGED <<handler, provider, producer, script, failed, held, bedrock_stream,
                 pumpVars, body_stream, bodyVars>>

\* Mutation: an unbounded channel.
DrainSendUnbounded ==
  /\ held # <<>>
  /\ bedrock_stream' = IF pump = "done" THEN <<>> ELSE Append(bedrock_stream, held[1])
  /\ drain' = IF pump = "done" \/ held[1] = StreamErr THEN "done" ELSE "run"
  /\ held' = <<>>
  /\ UNCHANGED <<handler, provider, producer, script, failed, pumpVars,
                 body_stream, bodyVars>>

\* Mutation: the send does not notice that the receiver is gone.
DrainSendDeaf ==
  /\ held # <<>> /\ pump # "done" /\ Len(bedrock_stream) < StreamCap
  /\ bedrock_stream' = Append(bedrock_stream, held[1])
  /\ drain' = IF held[1] = StreamErr THEN "done" ELSE "run"
  /\ held' = <<>>
  /\ UNCHANGED <<handler, provider, producer, script, failed, pumpVars,
                 body_stream, bodyVars>>

\* Mutation: try_send instead of send: what finds the channel full is lost.
DrainSendTry ==
  /\ held # <<>>
  /\ bedrock_stream' = IF pump # "done" /\ Len(bedrock_stream) < StreamCap
                       THEN Append(bedrock_stream, held[1]) ELSE bedrock_stream
  /\ drain' = IF pump = "done" \/ held[1] = StreamErr THEN "done" ELSE "run"
  /\ held' = <<>>
  /\ UNCHANGED <<handler, provider, producer, script, failed, pumpVars,
                 body_stream, bodyVars>>

\* tx.send(..).await: it waits for room, and fails once the pump is gone.  The
\* task returns after an error, whether it could be sent or not.
DrainSend ==
  /\ held # <<>>
  /\ \/ /\ pump # "done" /\ Len(bedrock_stream) < StreamCap
        /\ bedrock_stream' = Append(bedrock_stream, held[1])
        /\ drain' = IF held[1] = StreamErr THEN "done" ELSE "run"
     \/ /\ pump = "done"
        /\ drain' = "done"
        /\ UNCHANGED bedrock_stream
  /\ held' = <<>>
  /\ UNCHANGED <<handler, provider, producer, script, failed, pumpVars,
                 body_stream, bodyVars>>

-----------------------------------------------------------------------------
(* pump_stream and flush_frames                                            *)

\* Mutation: the stop synthesized for an error looks like the model's own.
SynthEndTurn == [type |-> "message_stop", reason |-> "end_turn"]
\* An Err is replaced by a synthesized MessageStop.
SynthStop == [type |-> "message_stop", reason |-> "error"]
EventOf(item) == IF item = StreamErr THEN SynthStop ELSE item

\* Mutation: an Err breaks the loop without a synthesized stop.
PumpRecvSilent ==
  /\ pump = "recv" /\ bedrock_stream # <<>>
  /\ LET item == Head(bedrock_stream)
     IN  /\ frames' = IF item = StreamErr THEN <<>> ELSE HandleFrames(blocks, item)
         /\ blocks' = IF item = StreamErr THEN blocks ELSE HandleBlocks(blocks, item)
         /\ synth' = (item = StreamErr)
  /\ bedrock_stream' = Tail(bedrock_stream)
  /\ pump' = "flush"
  /\ UNCHANGED <<handler, provider, drainVars, adapter, events, body_stream, bodyVars>>

\* The next item is taken and accumulated; its frames are to be flushed.
PumpRecv ==
  /\ pump = "recv" /\ bedrock_stream # <<>>
  /\ LET ev == EventOf(Head(bedrock_stream))
     IN  /\ frames' = HandleFrames(blocks, ev)
         /\ blocks' = HandleBlocks(blocks, ev)
  /\ synth' = (Head(bedrock_stream) = StreamErr)
  /\ bedrock_stream' = Tail(bedrock_stream)
  /\ pump' = "flush"
  /\ UNCHANGED <<handler, provider, drainVars, adapter, events, body_stream, bodyVars>>

\* adapter.translate(f) for the next frame of the batch.
PumpTranslate ==
  /\ pump = "flush" /\ events = <<>> /\ frames # <<>>
  /\ adapter' = TranslateAdapter(adapter, Head(frames))
  /\ events' = TranslateEvents(adapter, Head(frames))
  /\ frames' = Tail(frames)
  /\ UNCHANGED <<handler, provider, drainVars, bedrock_stream, pump, synth, blocks,
                 body_stream, bodyVars>>

\* Mutation: the body channel has no limit.
PumpSendUnbounded ==
  /\ pump = "flush" /\ events # <<>> /\ body # "dropped"
  /\ body_stream' = Append(body_stream, Head(events))
  /\ events' = Tail(events)
  /\ UNCHANGED <<handler, provider, drainVars, bedrock_stream, pump, synth, blocks,
                 adapter, frames, bodyVars>>

\* Mutation: try_send instead of send: what finds the body channel full is lost.
PumpSendTry ==
  /\ pump = "flush" /\ events # <<>> /\ body # "dropped"
  /\ body_stream' = IF Len(body_stream) < BodyCap
                    THEN Append(body_stream, Head(events)) ELSE body_stream
  /\ events' = Tail(events)
  /\ UNCHANGED <<handler, provider, drainVars, bedrock_stream, pump, synth, blocks,
                 adapter, frames, bodyVars>>

\* tx.send(..).await of the next event: it waits for room in the body channel.
PumpSend ==
  /\ pump = "flush" /\ events # <<>>
  /\ body # "dropped" /\ Len(body_stream) < BodyCap
  /\ body_stream' = Append(body_stream, Head(events))
  /\ events' = Tail(events)
  /\ UNCHANGED <<handler, provider, drainVars, bedrock_stream, pump, synth, blocks,
                 adapter, frames, bodyVars>>

\* The end of pump_stream drops the receiver of bedrock_stream and what it holds.
PumpReturns ==
  /\ pump' = "done"
  /\ frames' = <<>> /\ events' = <<>>
  /\ bedrock_stream' = <<>>
  /\ UNCHANGED <<handler, provider, drainVars, synth, blocks, adapter,
                 body_stream, bodyVars>>

\* The send fails because the client is gone.
PumpAbort ==
  /\ pump = "flush" /\ events # <<>> /\ body = "dropped"
  /\ PumpReturns

\* The batch is flushed: back to the loop.
PumpContinue ==
  /\ pump = "flush" /\ events = <<>> /\ frames = <<>> /\ ~synth
  /\ pump' = "recv"
  /\ UNCHANGED <<handler, provider, drainVars, bedrock_stream, synth, blocks, adapter,
                 frames, events, body_stream, bodyVars>>

\* The batch of a synthesized stop is flushed: break.
PumpBreak ==
  /\ pump = "flush" /\ events = <<>> /\ frames = <<>> /\ synth
  /\ PumpReturns

\* Mutation: the loop stops when the drain task does, whatever is in the channel.
PumpEndEarly ==
  /\ pump = "recv" /\ drain = "done"
  /\ PumpReturns

\* bedrock_stream.next() returns None: the drain task is gone, the channel empty.
PumpEnd ==
  /\ pump = "recv" /\ bedrock_stream = <<>> /\ drain = "done"
  /\ PumpReturns

-----------------------------------------------------------------------------
(* hyper polling the body, and the client                                  *)

BodyPoll ==
  /\ body = "open" /\ body_stream # <<>>
  /\ client' = Receive(client, Head(body_stream))
  /\ body_stream' = Tail(body_stream)
  /\ UNCHANGED <<handler, provider, drainVars, bedrock_stream, pumpVars, body>>

\* The pump dropped its sender and everything sent was polled: end of body.
BodyEnd ==
  /\ body = "open" /\ body_stream = <<>> /\ pump = "done"
  /\ body' = "ended"
  /\ UNCHANGED <<handler, provider, drainVars, bedrock_stream, pumpVars, body_stream, client>>

\* The client closes the connection: hyper drops the body with its receiver.
ClientDrop ==
  /\ body = "open"
  /\ body' = "dropped"
  /\ body_stream' = <<>>
  /\ UNCHANGED <<handler, provider, drainVars, bedrock_stream, pumpVars, client>>

-----------------------------------------------------------------------------

Handle == ReadRequest \/ RejectRequest \/ CancelRequest \/ Dispatch \/ Respond
Drain  == DrainRecv \/ DrainErr \/ DrainEof \/ DrainSend
PumpStream == \/ PumpRecv \/ PumpTranslate \/ PumpSend \/ PumpAbort
              \/ PumpContinue \/ PumpBreak \/ PumpEnd
Body   == BodyPoll \/ BodyEnd \/ ClientDrop

\* Every task has returned and the body is gone, or the turn never streamed.
Settled == \/ handler \in {"rejected", "cancelled"}
           \/ drain = "done" /\ pump = "done" /\ body \in {"ended", "dropped"}

Next == Handle \/ Drain \/ PumpStream \/ Body \/ (Settled /\ UNCHANGED vars)

Spec == Init /\ [][Next]_vars

\* Every ready task is polled (tokio), Bedrock answers recv() sooner or later,
\* and a client that does not close the connection reads it.
FairSpec == /\ Spec
            /\ WF_vars(ReadRequest \/ Dispatch \/ Respond)
            /\ WF_vars(Drain)
            /\ WF_vars(PumpStream)
            /\ WF_vars(BodyPoll \/ BodyEnd)

=============================================================================
