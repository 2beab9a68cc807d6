---------------------------- MODULE ConverseStream ----------------------------
(***************************************************************************)
(* The producers of a turn's event stream.                                 *)
(*                                                                         *)
(* "real": Amazon Bedrock's ConverseStream as src/src/bedrock_client.rs    *)
(* drains it.  A message is a series of content blocks, one after the      *)
(* other; only a tool block has a start payload, and the start event of a  *)
(* text or reasoning block may be missing; the metadata event follows      *)
(* messageStop.  "mock": MockBedrock replaying a script of BedrockEvents,  *)
(* written the way the tests write them, with typed block starts.          *)
(*                                                                         *)
(* The state of a producer is what decides the events it may send next.    *)
(***************************************************************************)
EXTENDS Integers, Sequences, StreamAccumulator

CONSTANTS MaxBlocks,   \* bound on the content blocks of a message
          MaxDeltas,   \* bound on the deltas of a message
          MaxExtras,   \* bound on the metadata and unknown events of a message
          StopReasons, \* the stop reasons the producer may report
          TokenCounts, \* the token counts a metadata event may carry
          I32Max       \* i32::MAX, the largest count of the SDK's type

ASSUME ConverseStreamAssumption ==
  /\ MaxBlocks \in Nat
  /\ MaxDeltas \in Nat
  /\ MaxExtras \in Nat
  /\ StopReasons \subseteq StopReason
  /\ TokenCounts \subseteq Nat
  /\ I32Max \in Nat

Providers == {"real", "mock"}

\* The open block: "untyped" after a start without payload, "tool_done" once
\* the input of a tool block is complete.
OpenBlock == BlockKind \cup {"none", "untyped", "tool_done"}

Producer == [phase  : {"new", "open", "stopped"},
             block  : OpenBlock,
             index  : Nat,       \* of the open block, or of the next one
             deltas : Nat,       \* deltas sent so far
             extras : Nat]       \* metadata and unknown events sent so far

NewProducer ==
  [phase |-> "new", block |-> "none", index |-> 0, deltas |-> 0, extras |-> 0]

SdkEvent ==
       [type : {"message_start", "unknown"}]
  \cup [type : {"block_start"}, index : Nat, start : BlockKind \cup {"none"}, id : Nat]
  \cup [type : {"delta"}, index : Nat, delta : DeltaType \cup {"other"}, chunk : Chunk]
  \cup [type : {"block_stop"}, index : Nat]
  \cup [type : {"message_stop"}, reason : StopReason]
  \cup [type : {"metadata"}, usage : Nat]

-----------------------------------------------------------------------------

\* The start payloads: typed in a mock script, a tool's only in the real stream.
StartsOf(provider) == IF provider = "real" THEN {"tool_use", "none"} ELSE BlockKind

\* The delta types a block may carry; "other" is a delta the proxy has no
\* mapping for (a citation, an image, redacted reasoning).
DeltasOf(provider, block) ==
  CASE block = "text"      -> {"text_delta"} \cup (IF provider = "real" THEN {"other"} ELSE {})
    [] block = "thinking"  -> {"thinking_delta", "signature_delta"}
    [] block = "tool_use"  -> {"input_json_delta"}
    [] block = "tool_done" -> {}
    [] OTHER               -> {"text_delta", "thinking_delta"}

\* Only a piece of tool input may complete a JSON text.
MayClose(block) == IF block = "tool_use" THEN BOOLEAN ELSE {FALSE}

MessageStarts(p) == { [type |-> "message_start"] : x \in {p.phase} \cap {"new"} }

BlockStarts(provider, p) ==
  IF p.phase = "open" /\ p.block = "none" /\ p.index < MaxBlocks
  THEN { [type |-> "block_start", index |-> p.index, start |-> s, id |-> p.index] :
           s \in StartsOf(provider) }
  ELSE {}

\* A block of the real stream may begin with its first delta.
Deltas(provider, p) ==
  IF /\ p.phase = "open" /\ p.deltas < MaxDeltas
     /\ p.block # "none" \/ (provider = "real" /\ p.index < MaxBlocks)
  THEN { [type |-> "delta", index |-> p.index, delta |-> d,
          chunk |-> [n |-> p.deltas + 1, closes |-> c]] :
           d \in DeltasOf(provider, p.block),
           c \in MayClose(p.block) }
  ELSE {}

BlockStops(p) ==
  { [type |-> "block_stop", index |-> p.index] : x \in {p.block} \ {"none"} }

MessageStops(p) ==
  IF p.phase = "open" /\ p.block = "none"
  THEN { [type |-> "message_stop", reason |-> r] : r \in StopReasons }
  ELSE {}

\* The SDK's counts are i32, those of a script u64.
CountsOf(provider) == { n \in TokenCounts : provider = "real" => n =< I32Max }

\* Metadata, and variants newer than the SDK the proxy was built with.
Extras(provider, p) ==
  IF /\ p.extras < MaxExtras
     /\ p.phase = "stopped" \/ (provider = "mock" /\ p.phase = "open" /\ p.block = "none")
  THEN { [type |-> "metadata", usage |-> n] : n \in CountsOf(provider) }
         \cup { [type |-> "unknown"] : x \in {provider} \cap {"real"} }
  ELSE {}

\* The events the producer may send next.
Offers(provider, p) ==
  MessageStarts(p) \cup BlockStarts(provider, p) \cup Deltas(provider, p)
    \cup BlockStops(p) \cup MessageStops(p) \cup Extras(provider, p)

\* The block a delta shows to be open.
BlockOfDelta(ev) ==
  CASE ev.delta = "input_json_delta" -> IF ev.chunk.closes THEN "tool_done" ELSE "tool_use"
    [] ev.delta \in {"thinking_delta", "signature_delta"} -> "thinking"
    [] OTHER -> "text"

After(p, ev) ==
  CASE ev.type = "message_start" -> [p EXCEPT !.phase = "open"]
    [] ev.type = "block_start"   ->
         [p EXCEPT !.block = IF ev.start = "none" THEN "untyped" ELSE ev.start]
    [] ev.type = "delta"         -> [p EXCEPT !.deltas = @ + 1, !.block = BlockOfDelta(ev)]
    [] ev.type = "block_stop"    -> [p EXCEPT !.block = "none", !.index = @ + 1]
    [] ev.type = "message_stop"  -> [p EXCEPT !.phase = "stopped"]
    [] OTHER                     -> [p EXCEPT !.extras = @ + 1]

=============================================================================
