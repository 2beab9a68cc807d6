-------------------------- MODULE StreamAccumulator --------------------------
(***************************************************************************)
(* The block accumulator of src/src/stream_accumulator.rs: a map from      *)
(* content-block index to the block being assembled, and the one operation *)
(* `handle`, which consumes a BedrockEvent and yields the frames           *)
(* (src/src/frame.rs) the UI adapter translates next.                      *)
(*                                                                         *)
(* A piece of text, of reasoning or of tool-input JSON is a chunk          *)
(* [n, closes]: n tells chunks apart, closes marks the piece of a tool     *)
(* input after which the JSON text is complete.                            *)
(***************************************************************************)
EXTENDS Integers, Sequences, Functions

BlockKind == {"text", "thinking", "tool_use"}

Chunk == [n : Nat, closes : BOOLEAN]

\* BlockState with its ToolUseAcc: id and json are meaningful for a tool_use
\* block only.
BlockState == [kind : BlockKind, id : Nat, json : Seq(Chunk)]

\* The accumulator's map, from content-block index to block.
IsBlocks(blocks) ==
  DOMAIN blocks \subseteq Nat /\ \A i \in DOMAIN blocks : blocks[i] \in BlockState

\* The stop reasons the adapter or the SDK knows by name, and the "error" of a
\* synthesized stop.
StopReason == {"end_turn", "tool_use", "max_tokens", "stop_sequence", "done", "quota_limit",
               "context_window_exceeded", "guardrail_intervened", "content_filtered", "error"}

DeltaType == {"text_delta", "thinking_delta", "signature_delta", "input_json_delta"}

\* The six variants of BedrockEvent.  usage stands for each of the four token
\* counts, which are converted alike.
BedrockEvent ==
       [type : {"message_start"}]
  \cup [type : {"block_start"}, index : Nat, kind : BlockKind, id : Nat]
  \cup [type : {"delta"}, index : Nat, delta : DeltaType, chunk : Chunk]
  \cup [type : {"block_stop"}, index : Nat]
  \cup [type : {"message_stop"}, reason : StopReason]
  \cup [type : {"metadata"}, usage : Nat]

OzResponseFrame ==
       [type : {"TextDelta"}, text : Seq(Chunk)]
  \cup [type : {"ThinkingDelta"}, text : Seq(Chunk)]
  \cup [type : {"ToolUse"}, id : Nat, input : Seq(Chunk)]
  \cup [type : {"ToolUseInputDelta", "BlockStop"}, index : Nat]
  \cup [type : {"UsageUpdate"}, usage : Nat]
  \cup [type : {"Done"}, reason : StopReason]

\* serde_json::from_str on the accumulated pieces: they parse when the last
\* piece, and no earlier one, completes the JSON text; otherwise the input is
\* the empty object.
EmptyObject == <<>>
\* Mutation: a partial input is passed on as it stands.
ParseJsonRaw(json) == json
ParseJson(json) ==
  IF /\ json # <<>>
     /\ \A i \in 1..Len(json) : json[i].closes <=> i = Len(json)
  THEN json
  ELSE EmptyObject

ParseBlockStart(ev) == [kind |-> ev.kind, id |-> ev.id, json |-> <<>>]

\* entry(..).or_insert_with(..): a delta for an unknown index opens a text block.
AutoTextBlock == [kind |-> "text", id |-> 0, json |-> <<>>]
BlockAt(blocks, index) ==
  IF index \in DOMAIN blocks THEN blocks[index] ELSE AutoTextBlock

Insert(blocks, index, block) ==
  [i \in DOMAIN blocks \cup {index} |-> IF i = index THEN block ELSE blocks[i]]

\* The (kind, delta type) pairs that handle_delta accepts; any other pair is
\* logged and dropped.
DeltaFrames(block, ev) ==
  CASE block.kind = "text" /\ ev.delta = "text_delta" ->
         << [type |-> "TextDelta", text |-> <<ev.chunk>>] >>
    [] block.kind = "thinking" /\ ev.delta = "thinking_delta" ->
         << [type |-> "ThinkingDelta", text |-> <<ev.chunk>>] >>
    [] block.kind = "thinking" /\ ev.delta = "signature_delta" ->
         << [type |-> "ThinkingDelta", text |-> <<>>] >>
    [] block.kind = "tool_use" /\ ev.delta = "input_json_delta" ->
         << [type |-> "ToolUseInputDelta", index |-> ev.index] >>
    [] OTHER -> <<>>

\* Mutation: each piece replaces the previous one.
GrowBlockReplace(block, ev) ==
  IF block.kind = "tool_use" /\ ev.delta = "input_json_delta"
  THEN [block EXCEPT !.json = <<ev.chunk>>]
  ELSE block
GrowBlock(block, ev) ==
  IF block.kind = "tool_use" /\ ev.delta = "input_json_delta"
  THEN [block EXCEPT !.json = Append(@, ev.chunk)]
  ELSE block

StopFrames(blocks, ev) ==
  LET stop == [type |-> "BlockStop", index |-> ev.index]
  IN  IF ev.index \in DOMAIN blocks /\ blocks[ev.index].kind = "tool_use"
      THEN << [type  |-> "ToolUse",
               id    |-> blocks[ev.index].id,
               input |-> ParseJson(blocks[ev.index].json)], stop >>
      ELSE << stop >>

\* handle(): the blocks after an event, and the frames it yields.
HandleBlocks(blocks, ev) ==
  CASE ev.type = "block_start" -> Insert(blocks, ev.index, ParseBlockStart(ev))
    [] ev.type = "delta"       ->
         Insert(blocks, ev.index, GrowBlock(BlockAt(blocks, ev.index), ev))
    [] ev.type = "block_stop"  -> Restrict(blocks, DOMAIN blocks \ {ev.index})
    [] OTHER                   -> blocks

HandleFrames(blocks, ev) ==
  CASE ev.type = "delta"        -> DeltaFrames(BlockAt(blocks, ev.index), ev)
    [] ev.type = "block_stop"   -> StopFrames(blocks, ev)
    [] ev.type = "message_stop" -> << [type |-> "Done", reason |-> ev.reason] >>
    [] ev.type = "metadata"     -> << [type |-> "UsageUpdate", usage |-> ev.usage] >>
    [] OTHER                    -> <<>>

=============================================================================
