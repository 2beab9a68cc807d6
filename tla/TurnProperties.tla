---------------------------- MODULE TurnProperties ----------------------------
(***************************************************************************)
(* What one turn owes the client, stated against a reference reading of    *)
(* the events Bedrock sent (script), independent of the accumulator, the   *)
(* adapter and the channels.                                               *)
(***************************************************************************)
EXTENDS Turn, Pipeline

TypeOK ==
  /\ handler \in {"body", "dispatch", "spawn", "responded", "rejected", "cancelled"}
  /\ provider \in Providers
  /\ producer \in Producer
  /\ script \in Seq(SdkEvent)
  /\ failed \in BOOLEAN
  /\ drain \in {"idle", "run", "done"}
  /\ held \in Option(Item)
  /\ bedrock_stream \in Seq(Item) /\ Len(bedrock_stream) =< StreamCap
  /\ pump \in {"idle", "recv", "flush", "done"}
  /\ synth \in BOOLEAN
  /\ adapter \in Adapter
  /\ frames \in Seq(OzResponseFrame)
  /\ IsBlocks(blocks)
  /\ events \in Seq(ResponseEvent)
  /\ body_stream \in Seq(ResponseEvent) /\ Len(body_stream) =< BodyCap
  /\ body \in {"none", "open", "ended", "dropped"}
  /\ IsClient(client)

-----------------------------------------------------------------------------
(* The reference reading of a script, the SDK events of a turn             *)

\* The pieces of tool input among the events s for the block with this index.
InputIn(ev, index) ==
  IF ev.type = "delta" /\ ev.index = index /\ ev.delta = "input_json_delta"
  THEN <<ev.chunk>> ELSE <<>>
InputOf(s, index) == FlattenSeq([i \in 1..Len(s) |-> InputIn(s[i], index)])

Starts(s, index, kind) ==
  \E i \in 1..Len(s) :
    s[i].type = "block_start" /\ s[i].index = index /\ s[i].start = kind

\* What an event adds to the answer: a piece of text or, from a typed reasoning
\* block, of reasoning; a tool call when its block stops, with the empty object
\* for an input that was cut short.
ToolInput(input) ==
  IF \E k \in 1..Len(input) : input[k].closes THEN input ELSE EmptyObject
Piece(p, s, ev) ==
  CASE ev.type = "delta" /\ ev.delta = "text_delta" ->
         << [kind |-> "agent_output", chunk |-> ev.chunk] >>
    [] ev.type = "delta" /\ ev.delta = "thinking_delta" /\ p = "mock" ->
         << [kind |-> "agent_reasoning", chunk |-> ev.chunk] >>
    [] ev.type = "block_stop" /\ Starts(s, ev.index, "tool_use") ->
         << [kind |-> "tool_call", id |-> ev.index,
             input |-> ToolInput(InputOf(s, ev.index))] >>
    [] OTHER -> <<>>

\* What the events q of a turn with script s, served by p, add to the answer.
Says(p, s, q) == FlattenSeq([i \in 1..Len(q) |-> Piece(p, s, q[i])])
Answer == Says(provider, script, script)

\* What the client displays: its messages' bodies in the order of their ids,
\* which are minted one by one.
Display(messages) ==
  FlattenSeq([id \in 1..Cardinality(DOMAIN messages) |-> messages[id].body])
Shown == Display(client.messages)

\* In script s the model stops, for the first time, for this reason.
Stopped(s, reason) ==
  \E i \in 1..Len(s) :
    /\ s[i].type = "message_stop" /\ s[i].reason = reason
    /\ \A j \in 1..(i - 1) : s[j].type # "message_stop"

\* Once the first n events of q are read the usage to report is u: that of the last
\* metadata among them, saturated to u32, or what it was before.
UsageAfter(q, n, before, u) ==
  \/ u = before /\ \A i \in 1..n : q[i].type # "metadata"
  \/ \E i \in 1..n :
       /\ q[i].type = "metadata"
       /\ u = << IF q[i].usage > U32Max THEN U32Max ELSE q[i].usage >>
       /\ \A j \in (i + 1)..n : q[j].type # "metadata"

\* Such is the usage when script s comes to its first stop.
UsageAtStop(s, u) ==
  \E n \in 1..Len(s) :
    /\ s[n].type = "message_stop"
    /\ \A i \in 1..(n - 1) : s[i].type # "message_stop"
    /\ UsageAfter(s, n, <<>>, u)

\* The items of the whole script, in the order in which the drain task sends them.
RelayedOf(ev) == IF Skipped(ev) THEN <<>> ELSE <<TranslateOutputEvent(ev)>>
Relayed ==
  FlattenSeq([i \in 1..Len(script) |-> RelayedOf(script[i])])
    \o IF failed THEN <<StreamErr>> ELSE <<>>
EventsOf(items) == [i \in 1..Len(items) |-> EventOf(items[i])]

-----------------------------------------------------------------------------

\* Every event finds what it refers to: StreamInit and CreateTask come once and
\* first, every append names a registered message of its own oneof kind, no
\* message is registered twice (ui_adapter.rs:93-113, 177-196).  Needs the order
\* of events across two channels and three tasks.
NoClientFault == ~client.fault

\* The client shows the pieces of the answer in the order Bedrock sent them,
\* nothing lost, repeated or invented, while the pipeline is still running.  The
\* answer is that of Piece: of a real turn it leaves out the reasoning, which comes
\* without a block start and is dropped (ReasoningForwarded).
ShownInOrder == IsPrefix(Shown, Answer)

\* A body that ends by itself has delivered the whole answer, also when the
\* stream failed: what precedes an error is flushed before it.  The answer is
\* again that of Piece, without the reasoning of a real turn.
EndedComplete == body = "ended" => Shown = Answer

\* A StreamFinished tells the truth: it is the last word of the answer, it says
\* Done or a limit only if the model stopped for that reason, and anything
\* synthesized for a failed stream says Other (route_multi_agent.rs:132-138).
HonestFinish ==
  \A i \in 1..Len(client.finished) :
    /\ Shown = Answer
    /\ \/ \E reason \in StopReason :
            Stopped(script, reason) /\ client.finished[i].reason = FinishReason(reason)
       \/ failed /\ client.finished[i].reason = "Other"

\* After a mid-stream error a body never ends silently: there is a verdict, and the
\* last one the client got is Other (tests/e2e_midstream_error.rs).
FailureReported ==
  body = "ended" /\ failed =>
    client.finished # <<>> /\ Last(client.finished).reason = "Other"

\* The usage on a StreamFinished is the last one reported before the message
\* stopped, saturated to u32 (ui_adapter.rs:153-169, 393-397).  A real stream reports
\* its usage after the stop, and so none (UsageReported): before it, or above u32,
\* are cases of the mock provider's script.
UsageBeforeStop ==
  client.finished # <<>> /\ client.finished[1].reason # "Other" =>
    UsageAtStop(script, client.finished[1].usage)

\* A client that stops reading stops the proxy reading: at most the two channels'
\* capacity, one item in the drain task's hands and one in the pump's are ahead
\* of the client.
BoundedReadAhead ==
  body # "dropped" => Len(Answer) - Len(Shown) =< StreamCap + BodyCap + 2

\* The schedule makes no difference: when the body ends, the client has what a program
\* without tasks and channels makes of the same events, pumping one after the other
\* (route_multi_agent.rs:108-187), with every message and verdict.
AsIfSequential ==
  body = "ended" => client = FoldLeft(Pump, NewTurn, EventsOf(Relayed)).client

-----------------------------------------------------------------------------
(* Why NoClientFault holds: the events in flight, seen from the client.    *)

\* Message id is, or is about to be, registered with this kind: by the client
\* already or by one of the first n events of q.
Registered(c, q, n, id, kind) ==
  \/ id \in DOMAIN c.messages /\ c.messages[id].kind = kind
  \/ \E j \in 1..n : q[j] = AddMessages(id, kind)

NoPreludeFrom(q, k) ==
  \A i \in k..Len(q) : q[i].type \notin {"StreamInit", "CreateTask"}

\* The prelude is yet to be sent, or the part of it the client lacks leads q.
PreludeInFlight(c, q, a) ==
  \/ ~a.sent_init /\ q = <<>> /\ ~c.init /\ ~c.task
  \/ a.sent_init /\ c.init /\ c.task /\ NoPreludeFrom(q, 1)
  \/ /\ a.sent_init /\ c.init /\ ~c.task
     /\ Len(q) >= 1 /\ q[1] = CreateTask /\ NoPreludeFrom(q, 2)
  \/ /\ a.sent_init /\ ~c.init /\ ~c.task
     /\ Len(q) >= 2 /\ q[1] = StreamInit /\ q[2] = CreateTask /\ NoPreludeFrom(q, 3)

\* No id is registered twice, and none is ahead of the adapter's.
FreshIds(c, q, a) ==
  /\ \A id \in DOMAIN c.messages : id =< a.message_id
  /\ \A i \in 1..Len(q) : q[i].type = "AddMessagesToTask" =>
       /\ q[i].id =< a.message_id
       /\ q[i].id \notin DOMAIN c.messages
       /\ \A j \in 1..(i - 1) : q[j].type = "AddMessagesToTask" => q[j].id # q[i].id

\* Every append finds its message, of its kind, when its turn comes.
AppendsLand(c, q) ==
  \A i \in 1..Len(q) : q[i].type = "AppendToMessageContent" =>
    Registered(c, q, i - 1, q[i].id, q[i].kind)

\* The adapter's open message is registered, or is about to be.
OpenMessage(c, q, a) ==
  \A kind \in ActiveKind :
    a.active_kind = <<kind>> => Registered(c, q, Len(q), a.message_id, kind)

InFlight(c, q, a) ==
  /\ PreludeInFlight(c, q, a)
  /\ c.task \/ DOMAIN c.messages = {}
  /\ FreshIds(c, q, a)
  /\ AppendsLand(c, q)
  /\ OpenMessage(c, q, a)

\* The inductive invariant behind NoClientFault: the pump and the body exist once
\* the handler has responded, between the batches nothing is left to send, and
\* what is in flight will land while the body is polled.
ClientInv ==
  /\ TypeOK
  /\ handler # "responded" => pump = "idle" /\ body = "none"
  /\ pump # "flush" => frames = <<>> /\ events = <<>>
  /\ body \in {"none", "open"} => InFlight(client, body_stream \o events, adapter)
  /\ ~client.fault

-----------------------------------------------------------------------------
(* Why FailureReported holds: the error on its way to the client.          *)

Verdict(event) == event.type = "StreamFinished" /\ event.reason = "Other"

\* An error is the last thing the drain task sends and the last thing the pump takes.
ErrorComesLast ==
  /\ drain # "idle" => handler \in {"spawn", "responded"}
  /\ held # <<>> => drain = "run"
  /\ \A i \in 1..Len(bedrock_stream) :
       bedrock_stream[i] = StreamErr => drain = "done" /\ i = Len(bedrock_stream)
  /\ synth => drain = "done" /\ bedrock_stream = <<>> /\ pump \in {"flush", "done"}

\* Unless the client leaves, the pump outlives the drain task and the body the pump.
EndsInOrder ==
  /\ pump = "done" => bedrock_stream = <<>>
  /\ pump = "done" /\ body # "dropped" => drain = "done"
  /\ body = "ended" => pump = "done" /\ body_stream = <<>>

\* The error is held by the drain task, in the channel, in the pump as the frame of
\* the synthesized stop, or its verdict is the last event left to send, in the body
\* channel, or received.
ErrorOnItsWay ==
  \/ held = <<StreamErr>>
  \/ bedrock_stream # <<>> /\ Last(bedrock_stream) = StreamErr
  \/ synth /\ events = <<>> /\ frames = <<[type |-> "Done", reason |-> "error"]>>
  \/ /\ synth /\ frames = <<>>
     /\ \/ events # <<>> /\ Verdict(Last(events))
        \/ events = <<>> /\ body_stream # <<>> /\ Verdict(Last(body_stream))
        \/ /\ events = <<>> /\ body_stream = <<>>
           /\ client.finished # <<>> /\ Verdict(Last(client.finished))

FailureInv ==
  /\ ClientInv
  /\ ErrorComesLast
  /\ EndsInOrder
  /\ failed /\ body # "dropped" => ErrorOnItsWay

-----------------------------------------------------------------------------
(* Why AsIfSequential holds: what is on its way adds up.                   *)

\* The turn, were the events on their way to the client received, the frames in the
\* pump's hands flushed and the items on their way to it pumped, one after the other.
Arrived == [blocks |-> blocks, adapter |-> adapter,
            client |-> FoldLeft(Receive, client, body_stream \o events)]
Flushed == FoldLeft(Flush, Arrived, frames)
Drained == FoldLeft(Pump, Flushed, EventsOf(bedrock_stream \o held))

SequentialInv ==
  /\ FailureInv
  /\ body # "dropped" => Drained = FoldLeft(Pump, NewTurn, EventsOf(Relayed))

-----------------------------------------------------------------------------

Refused == handler \in {"rejected", "cancelled"}

Contract == INSTANCE TurnContract WITH
  status   <- CASE body = "none" /\ Refused  -> "refused"
                [] body = "none" /\ ~Refused -> "pending"
                [] body = "dropped"          -> "left"
                [] OTHER                     -> body,
  said     <- Answer,
  shown    <- Shown,
  verdicts <- Len(client.finished)

\* The three tasks and two channels implement the contract: each step of theirs
\* is one step of it or invisible to the client.
KeepsContract == Contract!Spec

\* A streaming response ends: hyper gets the end of the body unless the client
\* leaves first.
BodyEnds == body = "open" ~> body \in {"ended", "dropped"}

\* A client that leaves releases the upstream stream: both tasks return, even
\* when both channels are full at that moment.
DropReleasesUpstream == body = "dropped" ~> (pump = "done" /\ drain = "done")

\* A failure of the stream reaches a client that stays.
FailureReachesClient ==
  failed ~> \/ \E i \in 1..Len(client.finished) : client.finished[i].reason = "Other"
            \/ body = "dropped"

-----------------------------------------------------------------------------
(* What the documentation says and the code does not do                    *)

\* src/src/ui_adapter.rs:10-12: usage is "flushed onto StreamFinished.token_usage
\* when Done arrives": a real turn that reported its usage and ended delivers it.
UsageReported ==
  body = "ended" /\ provider = "real" /\ (\E i \in 1..Len(script) : script[i].type = "metadata") =>
    \E i \in 1..Len(client.finished) : client.finished[i].usage # <<>>

\* src/src/ui_adapter.rs:7-8: "text and thinking deltas are forwarded": the
\* reasoning of a real turn is displayed by the time the body has ended.
ReasoningForwarded ==
  body = "ended" /\ provider = "real" =>
    \A i \in 1..Len(script) :
      script[i].type = "delta" /\ script[i].delta = "thinking_delta" =>
        Contains(Shown, [kind |-> "agent_reasoning", chunk |-> script[i].chunk])

\* src/docs/upstream-warp-audit-2026-05.md:79: "StreamFinished { reason,
\* token_usage } - terminal": the client gets no second one.
FinishedIsTerminal == Len(client.finished) =< 1

\* src/src/route_multi_agent.rs:135-138: the pump prevents the "silent EOF looks
\* like clean end-of-turn" failure: no body ends without a StreamFinished.
NoSilentEnd == body = "ended" => client.finished # <<>>

=============================================================================
