----------------------------- MODULE Conversation -----------------------------
(***************************************************************************)
(* A conversation of several turns.  The proxy keeps nothing between two   *)
(* requests: each one carries the client's record of the conversation,     *)
(* from which the messages for Bedrock are rebuilt (RequestTranslator),    *)
(* and each answer goes through the accumulator and the adapter into that  *)
(* record (Pipeline).  Here the loop is closed; the tasks and channels a   *)
(* turn consists of are in Turn.                                           *)
(***************************************************************************)
EXTENDS RequestTranslator, Pipeline

CONSTANTS Asks,      \* the inputs a client may send, without their chunks
          Parts,     \* the content blocks an answer may have
          Histories, \* records a conversation may start from, with what they say
          MaxTurns,  \* bound on the turns
          MaxParts   \* bound on the content blocks of the answers

VARIABLES
  use_prompt_cache, \* cfg.bedrock.use_prompt_cache
  task_context,     \* the client's record: a task, a sequence of messages, per turn
  input,            \* the input of the turn being served, if any
  turn,             \* what serves it: accumulator, adapter, client
  sent,             \* the messages of the last ConverseStream call
  calls,            \* the tool calls of the last answer, without a result yet
  transcript,       \* history: what was said, in order
  turns, parts      \* turns begun, content blocks answered

vars == <<use_prompt_cache, task_context, input, turn, sent, calls, transcript, turns, parts>>

-----------------------------------------------------------------------------
(* What is said: by whom, as what, the call it belongs to, and the chunk    *)
(* of a text, the input of a call or the result it is.  The call's id is   *)
(* the one inside its payload: the id of the block around it is another    *)
(* matter (ConversationProperties!ToolLoopResumes).                        *)

Saying == [role : {"user", "assistant"}, kind : {"text", "call", "result"}, id : Nat,
           says : Seq(Chunk)]

FlatMap(Op(_), s) == FlattenSeq([i \in 1..Len(s) |-> Op(s[i])])

\* By a text, chunk by chunk, unless it is blank.
SaidText(role, text) ==
  FlatMap(LAMBDA c : IF c.n = 0 THEN <<>>
                     ELSE << [role |-> role, kind |-> "text", id |-> NoId, says |-> <<c>>] >>, text)

\* By an input.
SaidInput(ui) ==
  CASE ui.type = "ToolCallResult" ->
         << [role |-> "user", kind |-> "result", id |-> ui.tool_call_id,
            says |-> <<ui.result>>] >>
    [] ui.type = "other" -> <<>>
    [] OTHER             -> SaidText("user", ui.text)
InputsOf(in) == IF in.type = "UserInputs" THEN in.inputs ELSE <<in>>

\* By a record.
SaidPrior(m) ==
  CASE m.type = "tool_call" ->
         [i \in 1..Len(m.payload) |->
            [role |-> "assistant", kind |-> "call", id |-> m.payload[i].id,
             says |-> m.payload[i].input]]
    [] m.type = "tool_call_result" ->
         << [role |-> "user", kind |-> "result", id |-> m.tool_call_id,
            says |-> <<m.result>>] >>
    [] m.type = "other"      -> <<>>
    [] m.type = "user_query" -> SaidText("user", m.text)
    [] OTHER                 -> SaidText("assistant", m.text)
SaidTask(task) == FlatMap(SaidPrior, task)
SaidRecord(tasks) == FlatMap(SaidTask, tasks)

-----------------------------------------------------------------------------
(* The constants                                                           *)

TextType == {"user_query", "agent_output", "agent_reasoning"}

\* No message of a record is the diagnostic stub.
Unstubbed(tasks) ==
  \A i \in 1..Len(tasks) : \A j \in 1..Len(tasks[i]) :
    tasks[i][j].type \in TextType => tasks[i][j].text # Stub

ASSUME AskAssumption ==
  /\ Asks \subseteq
       [type : {"UserInputs"},
        kinds : Seq({"UserQuery", "CliAgentUserQuery", "ToolCallResult", "blank", "other"})]
         \cup [type : QueryType \cup {"other"}]
  /\ Parts \subseteq {"text", "blank", "tool", "cut", "reasoning"}
  /\ MaxTurns \in Nat /\ MaxParts \in Nat

\* A conversation begins with a record, and a transcript of what it says.
ASSUME HistoriesAssumption ==
  \A h \in Histories :
    /\ h.tasks \in Seq(Seq(PriorMessage)) /\ Unstubbed(h.tasks)
    /\ h.transcript \in Seq(Saying)
    /\ h.transcript = SaidRecord(h.tasks)

-----------------------------------------------------------------------------

Init ==
  /\ use_prompt_cache \in BOOLEAN
  /\ \E h \in Histories : task_context = h.tasks /\ transcript = h.transcript
  /\ input = <<>> /\ turn = NewTurn /\ sent = <<>> /\ calls = <<>>
  /\ turns = 0 /\ parts = 0

-----------------------------------------------------------------------------
(* A request                                                               *)

\* Chunk i of a turn's input, and the two chunks of a content block, of which the
\* second one closes a tool's input: numbers of their own.
InputChunk(i) == [n |-> 100 + 10 * turns + i, closes |-> FALSE]
FirstChunk == [n |-> 200 + 2 * parts, closes |-> FALSE]
LastChunk == [n |-> 201 + 2 * parts, closes |-> TRUE]
Space == [n |-> 0, closes |-> FALSE]

\* The j-th result of a user input answers the j-th open call.
ResultsUpTo(kinds, i) == Cardinality({ j \in 1..i : kinds[j] = "ToolCallResult" })

UserInputOf(kinds, i) ==
  CASE kinds[i] = "ToolCallResult" ->
         [type |-> "ToolCallResult", tool_call_id |-> calls[ResultsUpTo(kinds, i)],
          result |-> InputChunk(i)]
    [] kinds[i] = "blank" -> [type |-> "UserQuery", text |-> <<Space>>]
    [] kinds[i] = "other" -> [type |-> "other"]
    [] OTHER              -> [type |-> kinds[i], text |-> <<InputChunk(i)>>]

InputOf(ask) ==
  CASE ask.type = "UserInputs" ->
         [type |-> "UserInputs",
          inputs |-> [i \in 1..Len(ask.kinds) |-> UserInputOf(ask.kinds, i)]]
    [] ask.type = "other" -> [type |-> "other"]
    [] OTHER              -> [type |-> ask.type, text |-> <<Space, InputChunk(1)>>]

Answerable(ask) ==
  ask.type = "UserInputs" => ResultsUpTo(ask.kinds, Len(ask.kinds)) =< Len(calls)

\* POST /ai/multi-agent: the request is translated and sent to Bedrock.
Ask ==
  /\ input = <<>> /\ turns < MaxTurns
  /\ \E ask \in Asks :
       /\ Answerable(ask)
       /\ input' = <<InputOf(ask)>>
       /\ sent' = TranslateWarpRequest(use_prompt_cache, task_context, InputOf(ask))
       /\ transcript' = transcript \o FlatMap(SaidInput, InputsOf(InputOf(ask)))
  /\ turn' = NewTurn
  /\ calls' = <<>>
  /\ turns' = turns + 1
  /\ UNCHANGED <<use_prompt_cache, task_context, parts>>

-----------------------------------------------------------------------------
(* The answer                                                              *)

BlockStart(kind) ==
  [type |-> "block_start", index |-> parts, id |-> 1 + parts, kind |-> kind]
Delta(delta, chunk) ==
  [type |-> "delta", index |-> parts, chunk |-> chunk, delta |-> delta]
BlockStop == [type |-> "block_stop", index |-> parts]

\* The events of a content block: a text, perhaps a blank one; a tool's input in two
\* pieces, or "cut" short after the first; reasoning, whose start Bedrock does not send.
BlockEvents(part) ==
  CASE part = "text" ->
         << BlockStart("text"), Delta("text_delta", FirstChunk), BlockStop >>
    [] part = "blank" ->
         << BlockStart("text"), Delta("text_delta", Space), BlockStop >>
    [] part = "tool" ->
         << BlockStart("tool_use"), Delta("input_json_delta", FirstChunk),
            Delta("input_json_delta", LastChunk), BlockStop >>
    [] part = "cut" ->
         << BlockStart("tool_use"), Delta("input_json_delta", FirstChunk), BlockStop >>
    [] part = "reasoning" ->
         << Delta("thinking_delta", FirstChunk), BlockStop >>

\* A call whose input is cut short is one with the empty object.  The client is shown
\* no reasoning of this kind (TurnProperties!ReasoningForwarded), so that it is not
\* part of the conversation either.
SaidPart(part) ==
  CASE part \in {"tool", "cut"} ->
         << [role |-> "assistant", kind |-> "call", id |-> 1 + parts,
             says |-> IF part = "tool" THEN <<FirstChunk, LastChunk>> ELSE EmptyObject] >>
    [] part = "text" -> SaidText("assistant", <<FirstChunk>>)
    [] OTHER         -> <<>>

\* Bedrock sends a content block, which reaches the client.
AnswerBlock ==
  /\ input # <<>> /\ parts < MaxParts
  /\ \E part \in Parts :
       /\ turn' = FoldLeft(Pump, turn, BlockEvents(part))
       /\ transcript' = transcript \o SaidPart(part)
       /\ calls' = IF part \in {"tool", "cut"} THEN Append(calls, 1 + parts) ELSE calls
  /\ parts' = parts + 1
  /\ UNCHANGED <<use_prompt_cache, task_context, input, sent, turns>>

-----------------------------------------------------------------------------
(* The client's record                                                     *)

RecordInput(ui) ==
  CASE ui.type = "ToolCallResult" ->
         [type |-> "tool_call_result", tool_call_id |-> ui.tool_call_id, result |-> ui.result]
    [] ui.type = "other" -> [type |-> "other"]
    [] OTHER             -> [type |-> "user_query", text |-> ui.text]

\* The append of a tool call is masked to tool_call.server.payload: the id of the
\* ToolCall stays the empty one the message was registered with.
RecordMessage(m) ==
  IF m.kind = "tool_call"
  THEN [type |-> "tool_call", tool_call_id |-> NoId, tool |-> "server",
        payload |-> [i \in 1..Len(m.body) |-> [id |-> m.body[i].id, input |-> m.body[i].input]]]
  ELSE [type |-> m.kind, text |-> [i \in 1..Len(m.body) |-> m.body[i].chunk]]

Record(in, client) ==
  [i \in 1..Len(InputsOf(in)) |-> RecordInput(InputsOf(in)[i])]
    \o [id \in 1..Cardinality(DOMAIN client.messages) |-> RecordMessage(client.messages[id])]

\* The body has ended, or the request failed, and the client keeps the turn.
EndTurn ==
  /\ input # <<>>
  /\ task_context' =
       Append(task_context,
              Record(input[1], Pump(turn, [type |-> "message_stop", reason |-> "end_turn"]).client))
  /\ input' = <<>>
  /\ turn' = NewTurn
  /\ UNCHANGED <<use_prompt_cache, sent, calls, transcript, turns, parts>>

-----------------------------------------------------------------------------

Next == Ask \/ AnswerBlock \/ EndTurn

Spec == Init /\ [][Next]_vars

=============================================================================
