------------------------------ MODULE TurnAnswer ------------------------------
(***************************************************************************)
(* Why the client is shown the answer, whole and in order: the answer is,  *)
(* at every moment, what the client shows, followed by what the events,    *)
(* the frames and the items on their way to it will show.                  *)
(***************************************************************************)
EXTENDS TurnProperties

-----------------------------------------------------------------------------
(* What is on its way                                                      *)

sent  == body_stream \o events     \* events the client has not received
taken == bedrock_stream \o held    \* items the accumulator has not handled

EventContent(event) ==
  IF event.type = "AppendToMessageContent" THEN event.content ELSE <<>>
FrameContent(frame) == IF HasContent(frame) THEN ContentOf(frame) ELSE <<>>

EventsSay(q) == FlattenSeq([i \in 1..Len(q) |-> EventContent(q[i])])
FramesSay(q) == FlattenSeq([i \in 1..Len(q) |-> FrameContent(q[i])])

OfBlock(ev) == ev.type \in {"block_start", "delta", "block_stop"}

\* The kind that the script s of a turn served by p gave the block with this index.
IsTool(s, index) == Starts(s, index, "tool_use")
IsReasoning(p, s, index) == p = "mock" /\ Starts(s, index, "thinking")
KindFits(p, s, index, kind) ==
  /\ kind = "tool_use" <=> IsTool(s, index)
  /\ kind = "thinking" <=> IsReasoning(p, s, index)

\* No later event will add to the answer.
Closed == producer.phase = "stopped" \/ drain = "done" \/ held = <<StreamErr>>

-----------------------------------------------------------------------------

\* An event belongs to the block that producer p has open or to an earlier one, which
\* it may have closed.
Behind(p, ev) ==
  OfBlock(ev) =>
    /\ ev.index =< p.index
    /\ ev.type = "block_stop" \/ p.block = "none" => ev.index < p.index

\* What the script tells about the block that is open.
OpenFits ==
  /\ producer.phase # "open" => producer.block = "none"
  /\ producer.block \in {"tool_use", "tool_done"} <=> IsTool(script, producer.index)
  /\ provider = "mock" =>
       /\ producer.block # "untyped"
       /\ producer.block = "thinking" <=> IsReasoning(provider, script, producer.index)

\* Only the last piece of a tool's input completes it, and ends the block's input.
InputEnds ==
  \A index \in 0..producer.index : \A k \in 1..Len(InputOf(script, index)) :
    InputOf(script, index)[k].closes =>
      /\ k = Len(InputOf(script, index))
      /\ index = producer.index => producer.block # "tool_use"

\* The model stops once.
StopsOnce ==
  \A i, j \in 1..Len(script) : script[i].type = "message_stop" =>
    /\ producer.phase = "stopped"
    /\ script[j].type = "message_stop" => j = i

Upstream ==
  /\ \A i \in 1..Len(script) : Behind(producer, script[i])
  /\ OpenFits
  /\ InputEnds
  /\ StopsOnce

\* The items come in the order of their blocks, one block after the other.
InOrder ==
  /\ \A i \in 1..Len(taken) : Behind(producer, taken[i])
  /\ \A i, j \in 1..Len(taken) : i < j /\ OfBlock(taken[i]) /\ OfBlock(taken[j]) =>
       /\ taken[i].index =< taken[j].index
       /\ taken[i].type = "block_stop" \/ taken[j].type = "block_start" =>
            taken[i].index < taken[j].index

\* A start carries what the script says of its block, whose input is yet to come.
StartFits(item) ==
  item.type = "block_start" =>
    /\ item.id = item.index
    /\ KindFits(provider, script, item.index, item.kind)
    /\ InputOf(taken, item.index) = InputOf(script, item.index)

\* A delta has a type that its block accepts.
DeltaFits(item) ==
  item.type = "delta" =>
    /\ item.delta = "text_delta" => KindFits(provider, script, item.index, "text")
    /\ item.delta = "thinking_delta" /\ provider = "mock" =>
         KindFits(provider, script, item.index, "thinking")
    /\ item.delta = "input_json_delta" => KindFits(provider, script, item.index, "tool_use")

\* The block of the i-th item is assembled, or started by an earlier item, unless it is
\* a text block, which needs no start.
StartedBefore(i) ==
  taken[i].type \in {"delta", "block_stop"} =>
    \/ KindFits(provider, script, taken[i].index, "text")
    \/ taken[i].index \in DOMAIN blocks
    \/ \E j \in 1..(i - 1) :
         taken[j].type = "block_start" /\ taken[j].index = taken[i].index

\* So is the open block, unless it is a text block.
OpenStarted ==
  \/ KindFits(provider, script, producer.index, "text")
  \/ producer.index \in DOMAIN blocks
  \/ \E j \in 1..Len(taken) :
       taken[j].type = "block_start" /\ taken[j].index = producer.index

Delivered ==
  /\ \A i \in 1..Len(taken) :
       StartFits(taken[i]) /\ DeltaFits(taken[i]) /\ StartedBefore(i)
  /\ OpenStarted

\* The accumulator's blocks lack the pieces that are on their way, and no others.
Assembled ==
  \A index \in DOMAIN blocks :
    /\ index =< producer.index
    /\ producer.block = "none" => index < producer.index
    /\ KindFits(provider, script, index, blocks[index].kind)
    /\ blocks[index].kind = "tool_use" =>
         /\ blocks[index].id = index
         /\ blocks[index].json \o InputOf(taken, index) = InputOf(script, index)

-----------------------------------------------------------------------------

IsAdd(event) == event.type = "AddMessagesToTask"
IsAppend(event) == event.type = "AppendToMessageContent"

\* The ids of the client's messages are 1, 2, ... in the order of registration.
Numbered(messages) ==
  /\ IsFiniteSet(DOMAIN messages)
  /\ DOMAIN messages = 1..Cardinality(DOMAIN messages)

\* Every id minted is registered or about to be, in order, and an append goes to the
\* message registered last.
AppendsLast(ids, q, minted) ==
  /\ \A id \in 1..minted : id \in ids \/ \E i \in 1..Len(q) : IsAdd(q[i]) /\ q[i].id = id
  /\ \A i \in 1..Len(q) : IsAdd(q[i]) => q[i].id \in 1..minted
  /\ \A i, j \in 1..Len(q) : i < j /\ IsAdd(q[i]) =>
       /\ IsAdd(q[j]) => q[i].id < q[j].id
       /\ IsAppend(q[j]) => q[i].id =< q[j].id
  /\ \A i \in 1..Len(q) : IsAppend(q[i]) => \A id \in ids : id =< q[i].id

\* Each event and each frame shows one piece at most, and the pump has one at most
\* in its hands.
OneAtATime ==
  /\ \A i \in 1..Len(sent) : Len(EventContent(sent[i])) =< 1
  /\ \A i \in 1..Len(frames) : Len(FrameContent(frames[i])) =< 1
  /\ Len(EventsSay(events)) + Len(FramesSay(frames)) =< 1

-----------------------------------------------------------------------------

\* A verdict that the client may be given after script s, failed or not.
Honest(s, f, reason) ==
  \/ \E stop \in StopReason : Stopped(s, stop) /\ reason = FinishReason(stop)
  \/ f /\ reason = "Other"

\* Nothing is shown after a verdict, wherever it is: a stop or an error among the
\* items, a Done among the frames, a StreamFinished among the events.
ItemsConclude ==
  \A i \in 1..Len(taken) : taken[i].type \in {"message_stop", "err"} =>
    /\ Closed
    /\ Honest(script, failed, FinishReason(EventOf(taken[i]).reason))
    /\ \A j \in (i + 1)..Len(taken) : taken[j].type \in {"metadata", "err"}

FramesConclude ==
  \A i \in 1..Len(frames) : frames[i].type = "Done" =>
    /\ Closed
    /\ Honest(script, failed, FinishReason(frames[i].reason))
    /\ FramesSay(frames) = <<>> /\ Says(provider, script, taken) = <<>>

EventsConclude ==
  \A i \in 1..Len(sent) : sent[i].type = "StreamFinished" =>
    /\ Closed
    /\ Honest(script, failed, sent[i].reason)
    /\ \A j \in (i + 1)..Len(sent) : EventContent(sent[j]) = <<>>
    /\ FramesSay(frames) = <<>> /\ Says(provider, script, taken) = <<>>

Concluded ==
  \A i \in 1..Len(client.finished) :
    Closed /\ Shown = Answer /\ Honest(script, failed, client.finished[i].reason)

Conserved ==
  Answer = Shown \o (EventsSay(sent) \o (FramesSay(frames) \o Says(provider, script, taken)))

\* The inductive invariant: while the client listens nothing is lost on the way, and
\* once it has left it shows a prefix of the answer.
Underway ==
  /\ InOrder
  /\ Delivered
  /\ Assembled
  /\ AppendsLast(DOMAIN client.messages, sent, adapter.message_id)
  /\ OneAtATime
  /\ ItemsConclude
  /\ FramesConclude
  /\ EventsConclude
  /\ Conserved

AnswerInv ==
  /\ FailureInv
  /\ Upstream
  /\ Numbered(client.messages)
  /\ IsPrefix(Shown, Answer)
  /\ Concluded
  /\ body # "dropped" => Underway

-----------------------------------------------------------------------------
(* Why the usage reported is the last one before the stop                  *)

\* The values of pending_usage.
Usages == {<<>>} \cup { <<n>> : n \in 0..U32Max }

\* The usage the adapter will report once the frames in the pump's hands are translated.
Pending ==
  IF frames = <<>> THEN adapter.pending_usage
  ELSE TranslateAdapter(adapter, frames[1]).pending_usage

\* What StreamFinished says of the usage is true of the script, if the model stopped.
Accounts(verdict) == verdict.reason # "Other" => UsageAtStop(script, verdict.usage)

\* What the items will add to the pending usage makes it that of the script; up to a
\* stop, that of the script at its stop.
ItemsAccount ==
  /\ \A u \in Usages :
       UsageAfter(taken, Len(taken), Pending, u) => UsageAfter(script, Len(script), <<>>, u)
  /\ \A i \in 1..Len(taken) : taken[i].type = "message_stop" =>
       \A u \in Usages : UsageAfter(taken, i, Pending, u) => UsageAtStop(script, u)

\* A frame that sets or reads the usage comes alone.
FramesAccount ==
  \A i \in 1..Len(frames) :
    /\ frames[i].type \in {"UsageUpdate", "Done"} => Len(frames) = 1
    /\ frames[i].type = "Done" =>
         Accounts(StreamFinished(FinishReason(frames[i].reason), adapter.pending_usage))

EventsAccount ==
  \A i \in 1..Len(sent) : sent[i].type = "StreamFinished" => Accounts(sent[i])

VerdictsAccount ==
  \A i \in 1..Len(client.finished) : Accounts(client.finished[i])

UsageInv ==
  /\ AnswerInv
  /\ VerdictsAccount
  /\ body # "dropped" => ItemsAccount /\ FramesAccount /\ EventsAccount

=============================================================================
