------------------------------ MODULE UiAdapter ------------------------------
(***************************************************************************)
(* The UI adapter of src/src/ui_adapter.rs: it turns each frame of the     *)
(* accumulator into the Warp ResponseEvents that render it.                *)
(*                                                                         *)
(* A fresh uuid is the next number of a counter: message_id is the uuid    *)
(* minted last, 0 the one minted by `new`.  The task id and the session    *)
(* ids never change within a turn and are left out.                        *)
(***************************************************************************)
EXTENDS Integers, Sequences, StreamAccumulator

CONSTANT U32Max   \* u32::MAX, the ceiling of a token count

ASSUME U32MaxAssumption == U32Max \in Nat

ActiveKind == {"agent_output", "agent_reasoning", "tool_call"}
Reason == {"MaxTokenLimit", "QuotaLimit", "ContextWindowExceeded", "Done", "Other"}

\* Option<T>: a sequence of at most one element.
Option(S) == { s \in Seq(S) : Len(s) =< 1 }

Adapter == [sent_init     : BOOLEAN,
            message_id    : Nat,
            active_kind   : Option(ActiveKind),
            pending_usage : Option(0..U32Max)]

NewAdapter == [sent_init |-> FALSE, message_id |-> 0,
               active_kind |-> <<>>, pending_usage |-> <<>>]

-----------------------------------------------------------------------------
(* The events: content is what an append adds to the masked field, pieces  *)
(* of text or of reasoning, or one tool call as an opaque payload.         *)

Content == [kind : {"agent_output", "agent_reasoning"}, chunk : Chunk]
             \cup [kind : {"tool_call"}, id : Nat, input : Seq(Chunk)]

ResponseEvent ==
       [type : {"StreamInit", "CreateTask"}]
  \cup [type : {"AddMessagesToTask"}, id : Nat, kind : ActiveKind]
  \cup [type : {"AppendToMessageContent"}, id : Nat, kind : ActiveKind, content : Seq(Content)]
  \cup [type : {"StreamFinished"}, reason : Reason, usage : Option(0..U32Max)]

StreamInit == [type |-> "StreamInit"]
CreateTask == [type |-> "CreateTask"]
AddMessages(id, kind) == [type |-> "AddMessagesToTask", id |-> id, kind |-> kind]
AppendContent(id, kind, content) ==
  [type |-> "AppendToMessageContent", id |-> id, kind |-> kind, content |-> content]
StreamFinished(reason, usage) ==
  [type |-> "StreamFinished", reason |-> reason, usage |-> usage]

-----------------------------------------------------------------------------

NeedsPrelude(frame) ==
  frame.type \in {"TextDelta", "ThinkingDelta", "ToolUse", "Done"}

Prelude(adapter, frame) ==
  IF ~adapter.sent_init /\ NeedsPrelude(frame) THEN <<StreamInit, CreateTask>> ELSE <<>>

\* The oneof variant of Message that a frame's content belongs to.
HasContent(frame) == frame.type \in {"TextDelta", "ThinkingDelta", "ToolUse"}
KindOf(frame) ==
  CASE frame.type = "TextDelta"     -> "agent_output"
    [] frame.type = "ThinkingDelta" -> "agent_reasoning"
    [] OTHER                        -> "tool_call"

ContentOf(frame) ==
  IF frame.type = "ToolUse"
  THEN << [kind |-> "tool_call", id |-> frame.id, input |-> frame.input] >>
  ELSE [i \in 1..Len(frame.text) |-> [kind |-> KindOf(frame), chunk |-> frame.text[i]]]

\* ensure_kind_message: a change of kind, the first frame's included, mints a
\* new message id and registers an empty message of the new kind.
Rotates(adapter, kind) == adapter.active_kind # <<kind>>

\* Mutation: the new kind keeps the message id of the previous one.
EnsureKindSameId(adapter, kind) == [adapter EXCEPT !.active_kind = <<kind>>]
EnsureKind(adapter, kind) ==
  IF Rotates(adapter, kind)
  THEN [adapter EXCEPT !.message_id = @ + 1, !.active_kind = <<kind>>]
  ELSE adapter

EnsureKindEvents(adapter, kind) ==
  IF Rotates(adapter, kind) THEN << AddMessages(adapter.message_id + 1, kind) >> ELSE <<>>

ContentEvents(adapter, frame) ==
  LET kind == KindOf(frame)
  IN  EnsureKindEvents(adapter, kind)
        \o << AppendContent(EnsureKind(adapter, kind).message_id, kind, ContentOf(frame)) >>

\* Mutation: `as u32`, which wraps.
WrapU32(n) == n % (U32Max + 1)
\* u32::try_from(..).unwrap_or(u32::MAX)
SaturateU32(n) == IF n > U32Max THEN U32Max ELSE n

FinishReason(stop_reason) ==
  CASE stop_reason = "max_tokens"              -> "MaxTokenLimit"
    [] stop_reason = "quota_limit"             -> "QuotaLimit"
    [] stop_reason = "context_window_exceeded" -> "ContextWindowExceeded"
    [] stop_reason \in {"end_turn", "stop_sequence", "tool_use", "done"} -> "Done"
    [] OTHER                                   -> "Other"

\* translate(): the adapter after a frame, and the events the frame yields.
Opened(adapter, frame) == [adapter EXCEPT !.sent_init = @ \/ NeedsPrelude(frame)]
WithUsage(adapter, frame) ==
  [adapter EXCEPT !.pending_usage = <<SaturateU32(frame.usage)>>]

TranslateAdapter(adapter, frame) ==
  CASE HasContent(frame)          -> EnsureKind(Opened(adapter, frame), KindOf(frame))
    [] frame.type = "UsageUpdate" -> WithUsage(adapter, frame)
    [] OTHER                      -> Opened(adapter, frame)

TranslateEvents(adapter, frame) ==
  Prelude(adapter, frame) \o
  CASE HasContent(frame)     -> ContentEvents(adapter, frame)
    [] frame.type = "Done"   ->
         << StreamFinished(FinishReason(frame.reason), adapter.pending_usage) >>
    [] OTHER                 -> <<>>

=============================================================================
