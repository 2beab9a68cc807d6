-------------------------- MODULE RequestTranslator --------------------------
(***************************************************************************)
(* From a Warp Request to the messages of a ConverseStream call:           *)
(* src/src/translator.rs walks the history and the new input,              *)
(* src/src/cache.rs marks where Bedrock may cache the prompt, and          *)
(* src/src/sdk_translator.rs builds the SDK's blocks.                      *)
(*                                                                         *)
(* A text is a sequence of chunks; chunk 0 is white space, so that a text  *)
(* whose trim() is empty has nothing else.  An id is a number, NoId the    *)
(* empty string, and the result of a tool a chunk.                         *)
(***************************************************************************)
EXTENDS Integers, Sequences, SequencesExt, StreamAccumulator

NoId == 0

\* text.trim().is_empty()
Blank(text) == \A i \in 1..Len(text) : text[i].n = 0

-----------------------------------------------------------------------------
(* The Request                                                             *)

\* The variants of ToolCall.tool the model tells apart, by their JSON names:
\* the opaque one the proxy writes, and one of the 33 typed ones.
ToolVariant == {"server", "runShellCommand"}

\* A message of task_context.tasks[*].messages[*]; "other" stands for every
\* variant that is no part of the conversation.  The payload of a tool call is
\* the JSON text of a call, or of several appended to one another.
PriorMessage ==
       [type : {"user_query", "agent_output", "agent_reasoning"}, text : Seq(Chunk)]
  \cup [type : {"tool_call"}, tool_call_id : Nat, tool : ToolVariant,
        payload : Seq([id : Nat, input : Seq(Chunk)])]
  \cup [type : {"tool_call_result"}, tool_call_id : Nat, result : Chunk]
  \cup [type : {"other"}]

UserInput ==
       [type : {"UserQuery", "CliAgentUserQuery"}, text : Seq(Chunk)]
  \cup [type : {"ToolCallResult"}, tool_call_id : Nat, result : Chunk]
  \cup [type : {"other"}]

\* Request.input.type; "other" stands for the variants without a text, and for
\* an absent input.
QueryType == {"UserQuery", "AutoCodeDiffQuery", "QueryWithCannedResponse", "CreateNewProject"}
Input == [type : {"UserInputs"}, inputs : Seq(UserInput)]
           \cup [type : QueryType, text : Seq(Chunk)]
           \cup [type : {"other"}]

-----------------------------------------------------------------------------
(* translator.rs: messages with Claude-shaped content blocks               *)

UserText(text) ==
  [role |-> "user", content |-> << [type |-> "text", text |-> text] >>]
AssistantText(text) ==
  [role |-> "assistant", content |-> << [type |-> "text", text |-> text] >>]
UserToolResult(id, result) ==
  [role |-> "user",
   content |-> << [type |-> "tool_result", tool_use_id |-> id, json |-> result] >>]

\* The fields of a ToolCall in proto3 canonical JSON: an empty id is left out,
\* and a oneof appears under the name of its variant.
ToolCallFields(msg) ==
  {msg.tool} \cup IF msg.tool_call_id = NoId THEN {} ELSE {"toolCallId"}

ToolName(msg) == IF "tool" \in ToolCallFields(msg) THEN msg.tool ELSE "unknown"

\* prior_message_to_json: no message for a blank text or another variant.
\* Mutation: the tool_result of a continuation turn speaks for the assistant.
PriorResultAsAssistant(msg) ==
  CASE msg.type = "user_query" /\ ~Blank(msg.text) -> << UserText(msg.text) >>
    [] msg.type = "tool_call_result" ->
         << [UserToolResult(msg.tool_call_id, msg.result) EXCEPT !.role = "assistant"] >>
    [] OTHER -> <<>>
PriorMessageToJson(msg) ==
  CASE msg.type = "user_query" /\ ~Blank(msg.text) -> << UserText(msg.text) >>
    [] msg.type \in {"agent_output", "agent_reasoning"} /\ ~Blank(msg.text) ->
         << AssistantText(msg.text) >>
    [] msg.type = "tool_call" ->
         << [role |-> "assistant",
             content |-> << [type |-> "tool_use", id |-> msg.tool_call_id,
                             name |-> ToolName(msg), input |-> msg.payload] >>] >>
    [] msg.type = "tool_call_result" -> << UserToolResult(msg.tool_call_id, msg.result) >>
    [] OTHER -> <<>>

\* walk_prior_messages: task_context is a sequence of tasks, each a sequence of
\* messages; an absent one is an empty one.
WalkPriorMessages(task_context) ==
  FlattenSeq([i \in 1..Len(task_context) |->
    FlattenSeq([j \in 1..Len(task_context[i]) |-> PriorMessageToJson(task_context[i][j])])])

PushUserText(text) == IF Blank(text) THEN <<>> ELSE << UserText(text) >>

UserInputToJson(ui) ==
  CASE ui.type \in {"UserQuery", "CliAgentUserQuery"} -> PushUserText(ui.text)
    [] ui.type = "ToolCallResult" -> << UserToolResult(ui.tool_call_id, ui.result) >>
    [] OTHER -> <<>>

ExtractUserMessages(input) ==
  CASE input.type = "UserInputs" ->
         FlattenSeq([i \in 1..Len(input.inputs) |-> UserInputToJson(input.inputs[i])])
    [] input.type \in QueryType -> PushUserText(input.text)
    [] OTHER -> <<>>

\* The diagnostic text of a request without anything to say: no chunk of another
\* text has its number.
Stub == << [n |-> 1, closes |-> FALSE] >>

\* Mutation: each walk has a stub of its own.
BuildMessagesStubbed(task_context, input) ==
  WalkPriorMessages(task_context) \o
    (IF ExtractUserMessages(input) = <<>> THEN << UserText(Stub) >>
     ELSE ExtractUserMessages(input))
BuildMessages(task_context, input) ==
  LET out == WalkPriorMessages(task_context) \o ExtractUserMessages(input)
  IN  IF out = <<>> THEN << UserText(Stub) >> ELSE out

-----------------------------------------------------------------------------
(* cache.rs                                                                *)

CachePoint == [type |-> "cachePoint"]

\* Mutation: only the last user message is marked.
LastOne(messages) ==
  { i \in 1..Len(messages) :
      /\ messages[i].role = "user"
      /\ \A j \in (i + 1)..Len(messages) : messages[j].role # "user" }
\* Mutation: every user message is marked, without take(2).
EveryUser(messages) == { i \in 1..Len(messages) : messages[i].role = "user" }
\* The positions of the last two user messages.
LastTwo(messages) ==
  { i \in 1..Len(messages) :
      /\ messages[i].role = "user"
      /\ \A j, k \in (i + 1)..Len(messages) :
           messages[j].role = "user" /\ messages[k].role = "user" => j = k }

ApplyCachePoints(enabled, messages) ==
  [i \in 1..Len(messages) |->
    IF enabled /\ i \in LastTwo(messages)
    THEN [messages[i] EXCEPT !.content = Append(@, CachePoint)]
    ELSE messages[i]]

-----------------------------------------------------------------------------
(* sdk_translator.rs: the SDK's typed blocks                               *)

BuildToolUseBlock(block) ==
  [sdk |-> "ToolUse", id |-> block.id, name |-> block.name, input |-> block.input]

\* is_error is never set by the translator: every result is a success.
BuildToolResultBlock(block) ==
  [sdk |-> "ToolResult", id |-> block.tool_use_id, content |-> block.json,
   status |-> IF "is_error" \in DOMAIN block THEN "error" ELSE "success"]

\* Mutation: tool blocks are unsupported and skipped, as in Phase 0.
BlockToContentPhase0(block) ==
  CASE block.type = "text"       -> << [sdk |-> "Text", text |-> block.text] >>
    [] block.type = "cachePoint" -> << [sdk |-> "CachePoint"] >>
    [] OTHER                     -> <<>>
BlockToContent(block) ==
  CASE block.type = "text"        -> << [sdk |-> "Text", text |-> block.text] >>
    [] block.type = "cachePoint"  -> << [sdk |-> "CachePoint"] >>
    [] block.type = "tool_use"    -> << BuildToolUseBlock(block) >>
    [] block.type = "tool_result" -> << BuildToolResultBlock(block) >>
    [] OTHER                      -> <<>>

MessagesToSdk(messages) ==
  [i \in 1..Len(messages) |->
    [role    |-> messages[i].role,
     content |-> FlattenSeq([j \in 1..Len(messages[i].content) |->
                               BlockToContent(messages[i].content[j])])]]

\* The messages of the ConverseStream call that serves a request.
TranslateWarpRequest(use_prompt_cache, task_context, input) ==
  MessagesToSdk(ApplyCachePoints(use_prompt_cache, BuildMessages(task_context, input)))

=============================================================================
