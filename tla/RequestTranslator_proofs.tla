----------------------- MODULE RequestTranslator_proofs -----------------------
(***************************************************************************)
(* What the request translator makes of every history and of every input: *)
(* what it marks, what type it has, and what it says.                      *)
(*                                                                         *)
(* Each step of the translation reads a sequence element by element, so    *)
(* each is a Gather (Flatten_proofs), and Gathers compose: to know what is *)
(* sent it is enough to know what becomes of one message.                  *)
(***************************************************************************)
EXTENDS ConversationProperties, Flatten_proofs

-----------------------------------------------------------------------------
(* The cache points                                                        *)

\* No request has more than two cache points, however many user messages there are
\* and whatever is between them (cache.rs:43-51).
THEOREM AtMostTwoCachePoints ==
  ASSUME NEW S, NEW messages \in Seq(S),
         NEW i \in LastTwo(messages), NEW j \in LastTwo(messages), NEW k \in LastTwo(messages)
  PROVE  i = j \/ j = k \/ i = k
<1>1. Len(messages) \in Nat
  OBVIOUS
<1>2. ASSUME NEW p \in LastTwo(messages), NEW q \in LastTwo(messages),
             NEW r \in LastTwo(messages), p < q, p < r
      PROVE  q = r
  <2>1. q \in (p + 1)..Len(messages) /\ r \in (p + 1)..Len(messages)
    BY <1>1, <1>2 DEF LastTwo
  <2>2. messages[q].role = "user" /\ messages[r].role = "user"
    BY DEF LastTwo
  <2> QED BY <2>1, <2>2 DEF LastTwo
<1>3. i \in Int /\ j \in Int /\ k \in Int
  BY <1>1 DEF LastTwo
<1> QED BY <1>2, <1>3

\* The reason for two: whatever follows the messages of one request in the next, as
\* long as at most one of them is the user's, the last user message of the first
\* request, where its cached prefix ends, is marked again (cache.rs:3-4).
THEOREM LastMarkSurvives ==
  ASSUME NEW S, NEW old \in Seq(S), NEW next \in Seq(S), Len(old) =< Len(next),
         \A p \in 1..Len(old) : next[p].role = old[p].role,
         \A p, q \in (Len(old) + 1)..Len(next) :
           next[p].role = "user" /\ next[q].role = "user" => p = q,
         NEW i \in 1..Len(old), old[i].role = "user",
         \A p \in (i + 1)..Len(old) : old[p].role # "user"
  PROVE  i \in LastTwo(next)
<1>1. Len(old) \in Nat /\ Len(next) \in Nat
  OBVIOUS
<1>2. i \in 1..Len(next) /\ next[i].role = "user"
  BY <1>1
<1>3. ASSUME NEW p \in (i + 1)..Len(next), next[p].role = "user"
      PROVE  p \in (Len(old) + 1)..Len(next)
  <2>1. CASE p =< Len(old)
    <3>1. p \in (i + 1)..Len(old) /\ p \in 1..Len(old)
      BY <1>1, <2>1
    <3> QED BY <1>3, <3>1
  <2>2. CASE p > Len(old)
    BY <1>1, <2>2
  <2> QED BY <1>1, <2>1, <2>2
<1> QED BY <1>2, <1>3 DEF LastTwo

-----------------------------------------------------------------------------
(* The messages of the two walks                                           *)

\* Each has one content block, none of them a cache point.
Role == {"user", "assistant"}
Payload == Seq([id : Nat, input : Seq(Chunk)])
ToolNames == {"unknown"} \cup ToolVariant
PlainBlock ==
       [type : {"text"}, text : Seq(Chunk)]
  \cup [type : {"tool_use"}, id : Nat, name : ToolNames, input : Payload]
  \cup [type : {"tool_result"}, tool_use_id : Nat, json : Chunk]
PlainMessage == { [role |-> r, content |-> <<b>>] : r \in Role, b \in PlainBlock }

\* Reading a message of the walks: one content block, under one of two roles.
LEMMA PlainIs ==
  ASSUME NEW m \in PlainMessage
  PROVE  /\ m.role \in Role /\ m.content[1] \in PlainBlock
         /\ m = [role |-> m.role, content |-> <<m.content[1]>>]
  BY DEF PlainMessage

\* Making one.
LEMMA PlainMade ==
  ASSUME NEW r \in Role, NEW b \in PlainBlock
  PROVE  [role |-> r, content |-> <<b>>] \in PlainMessage
  BY DEF PlainMessage

\* The text helpers of the walk make one (translator.rs).
LEMMA TextPlain ==
  ASSUME NEW text \in Seq(Chunk)
  PROVE  UserText(text) \in PlainMessage /\ AssistantText(text) \in PlainMessage
<1> DEFINE b == [type |-> "text", text |-> text]
<1>1. b \in PlainBlock
  BY DEF PlainBlock
<1>2. UserText(text) = [role |-> "user", content |-> <<b>>]
  BY DEF UserText
<1>3. AssistantText(text) = [role |-> "assistant", content |-> <<b>>]
  BY DEF AssistantText
<1> HIDE DEF b
<1> QED BY <1>1, <1>2, <1>3, PlainMade DEF Role

\* So does the tool result helper.
LEMMA ResultPlain ==
  ASSUME NEW id \in Nat, NEW result \in Chunk
  PROVE  UserToolResult(id, result) \in PlainMessage
<1> DEFINE b == [type |-> "tool_result", tool_use_id |-> id, json |-> result]
<1>1. b \in PlainBlock
  BY DEF PlainBlock
<1>2. UserToolResult(id, result) = [role |-> "user", content |-> <<b>>]
  BY DEF UserToolResult
<1> HIDE DEF b
<1> QED BY <1>1, <1>2, PlainMade DEF Role

PriorTypes == TextType \cup {"tool_call", "tool_call_result", "other"}

\* A message of the history has the fields of its variant.
LEMMA PriorIs ==
  ASSUME NEW m \in PriorMessage
  PROVE  /\ m.type \in PriorTypes
         /\ m.type \in TextType => m.text \in Seq(Chunk)
         /\ m.type = "tool_call" =>
              m.tool_call_id \in Nat /\ m.tool \in ToolVariant /\ m.payload \in Payload
         /\ m.type = "tool_call_result" => m.tool_call_id \in Nat /\ m.result \in Chunk
  BY DEF PriorMessage, PriorTypes, TextType, Payload

PriorReading == [m \in PriorMessage |-> PriorMessageToJson(m)]

\* Each message of the history becomes a sequence of messages, of one at most.
LEMMA PriorReadingType == PriorReading \in Reading(PriorMessage, PlainMessage)
<1> SUFFICES ASSUME NEW m \in PriorMessage
             PROVE  PriorMessageToJson(m) \in Seq(PlainMessage)
  BY DEF PriorReading, Reading
<1> DEFINE P == PriorMessageToJson(m)
<1>1. CASE m.type = "user_query" /\ ~Blank(m.text)
  <2>1. P = << UserText(m.text) >> /\ UserText(m.text) \in PlainMessage
    BY <1>1, PriorIs, TextPlain DEF PriorMessageToJson, TextType
  <2> QED BY <2>1
<1>2. CASE m.type \in {"agent_output", "agent_reasoning"} /\ ~Blank(m.text)
  <2>1. P = << AssistantText(m.text) >> /\ AssistantText(m.text) \in PlainMessage
    BY <1>2, PriorIs, TextPlain DEF PriorMessageToJson, TextType
  <2> QED BY <2>1
<1>3. CASE m.type = "tool_call"
  <2> DEFINE b == [type |-> "tool_use", id |-> m.tool_call_id,
                   name |-> ToolName(m), input |-> m.payload]
  <2>1. b \in PlainBlock
    BY <1>3, PriorIs DEF PlainBlock, ToolName, ToolNames
  <2>2. P = << [role |-> "assistant", content |-> <<b>>] >>
    BY <1>3 DEF PriorMessageToJson
  <2> HIDE DEF b
  <2>3. [role |-> "assistant", content |-> <<b>>] \in PlainMessage
    BY <2>1, PlainMade DEF Role
  <2> QED BY <2>2, <2>3
<1>4. CASE m.type = "tool_call_result"
  <2>1. /\ P = << UserToolResult(m.tool_call_id, m.result) >>
        /\ UserToolResult(m.tool_call_id, m.result) \in PlainMessage
    BY <1>4, PriorIs, ResultPlain DEF PriorMessageToJson
  <2> QED BY <2>1
<1>5. CASE /\ m.type # "tool_call" /\ m.type # "tool_call_result"
           /\ m.type \in TextType => Blank(m.text)
  <2>1. P = <<>>
    BY <1>5 DEF PriorMessageToJson, TextType
  <2> QED BY <2>1
<1> QED BY <1>1, <1>2, <1>3, <1>4, <1>5 DEF TextType

TaskReading == [task \in Seq(PriorMessage) |-> Gather(PriorReading, task)]

\* So does a task, of as many as it has messages.
LEMMA TaskReadingType == TaskReading \in Reading(Seq(PriorMessage), PlainMessage)
  BY PriorReadingType, GatherType DEF TaskReading, Reading

\* walk_prior_messages reads the history task by task, message by message.
LEMMA WalkGathers ==
  ASSUME NEW tasks \in Seq(Seq(PriorMessage))
  PROVE  WalkPriorMessages(tasks) = Gather(TaskReading, tasks)
<1>1. Len(tasks) \in Nat /\ \A i \in 1..Len(tasks) : tasks[i] \in Seq(PriorMessage)
  BY PartsOf
<1>2. ASSUME NEW i \in 1..Len(tasks)
      PROVE  FlattenSeq([j \in 1..Len(tasks[i]) |-> PriorMessageToJson(tasks[i][j])])
               = TaskReading[tasks[i]]
  <2> DEFINE task == tasks[i]
  <2>1. task \in Seq(PriorMessage)
    BY <1>1
  <2> HIDE DEF task
  <2>2. \A j \in 1..Len(task) : task[j] \in PriorMessage
    BY <2>1, ElementOfSeq
  <2>3. [j \in 1..Len(task) |-> PriorMessageToJson(task[j])]
          = [j \in 1..Len(task) |-> PriorReading[task[j]]]
    BY <2>2 DEF PriorReading
  <2> QED BY <2>1, <2>3 DEF Gather, TaskReading, task
<1>3. [i \in 1..Len(tasks) |->
        FlattenSeq([j \in 1..Len(tasks[i]) |-> PriorMessageToJson(tasks[i][j])])]
        = [i \in 1..Len(tasks) |-> TaskReading[tasks[i]]]
  BY <1>2
<1> QED BY <1>3 DEF WalkPriorMessages, Gather

\* The walk of the history is one of its tasks.
LEMMA WalkRules ==
  ASSUME NEW tasks \in Seq(Seq(PriorMessage)), NEW task \in Seq(PriorMessage)
  PROVE  /\ WalkPriorMessages(tasks) \in Seq(PlainMessage)
         /\ WalkPriorMessages(Append(tasks, task))
              = WalkPriorMessages(tasks) \o Gather(PriorReading, task)
<1>1. Append(tasks, task) \in Seq(Seq(PriorMessage))
  BY AppendProperties
<1>2. Gather(TaskReading, Append(tasks, task)) = Gather(TaskReading, tasks) \o TaskReading[task]
  BY TaskReadingType, GatherAppend
<1> QED BY <1>1, <1>2, WalkGathers, TaskReadingType, GatherType DEF TaskReading

-----------------------------------------------------------------------------
(* The new input                                                           *)

\* The record of a turn's input, which the next turn's walk reads as this turn's walk
\* reads the input.
InputPiece == UserInput \cup [type : QueryType, text : Seq(Chunk)]
RecordedInputs(in) == [i \in 1..Len(InputsOf(in)) |-> RecordInput(InputsOf(in)[i])]

\* A piece of the new input has the fields of its variant.
LEMMA PieceIs ==
  ASSUME NEW ui \in InputPiece
  PROVE  /\ ui.type \in {"UserQuery", "CliAgentUserQuery", "AutoCodeDiffQuery",
                         "QueryWithCannedResponse", "CreateNewProject", "ToolCallResult", "other"}
         /\ ui.type \notin {"ToolCallResult", "other"} => ui.text \in Seq(Chunk)
         /\ ui.type = "ToolCallResult" => ui.tool_call_id \in Nat /\ ui.result \in Chunk
  BY DEF InputPiece, UserInput, QueryType

\* An input is a list of pieces, a query of its own, or nothing the walk knows.
LEMMA InputIs ==
  ASSUME NEW in \in Input
  PROVE  /\ in.type = "UserInputs" => in.inputs \in Seq(UserInput)
         /\ in.type \in QueryType => in \in InputPiece /\ in.text \in Seq(Chunk)
         /\ in.type = "other" => in = [type |-> "other"]
         /\ in.type \in {"UserInputs", "other"} \cup QueryType
  BY DEF Input, QueryType, InputPiece

\* The pieces of an input.
LEMMA InputsOfType ==
  ASSUME NEW in \in Input
  PROVE  InputsOf(in) \in Seq(InputPiece)
<1>1. CASE in.type = "UserInputs"
  <2>1. in.inputs \in Seq(UserInput) /\ UserInput \subseteq InputPiece
    BY <1>1, InputIs DEF InputPiece
  <2> QED BY <1>1, <2>1 DEF InputsOf
<1>2. CASE in.type # "UserInputs"
  <2>1. in \in InputPiece
    BY <1>2, InputIs DEF InputPiece, UserInput
  <2> QED BY <1>2, <2>1 DEF InputsOf
<1> QED BY <1>1, <1>2

\* The client's record of a piece is a message of the history.
LEMMA RecordInputType ==
  ASSUME NEW ui \in InputPiece
  PROVE  RecordInput(ui) \in PriorMessage
<1>1. CASE ui.type = "ToolCallResult"
  BY <1>1, PieceIs DEF RecordInput, PriorMessage
<1>2. CASE ui.type = "other"
  BY <1>2 DEF RecordInput, PriorMessage
<1>3. CASE ui.type \notin {"ToolCallResult", "other"}
  BY <1>3, PieceIs DEF RecordInput, PriorMessage
<1> QED BY <1>1, <1>2, <1>3

\* The client's record of an input, piece by piece.
LEMMA RecordedType ==
  ASSUME NEW in \in Input
  PROVE  /\ RecordedInputs(in) \in Seq(PriorMessage)
         /\ Len(RecordedInputs(in)) = Len(InputsOf(in)) /\ Len(InputsOf(in)) \in Nat
         /\ \A i \in 1..Len(InputsOf(in)) : /\ InputsOf(in)[i] \in InputPiece
                                           /\ RecordedInputs(in)[i] = RecordInput(InputsOf(in)[i])
<1> DEFINE s == InputsOf(in)
           n == Len(s)
           r == [i \in 1..n |-> RecordInput(s[i])]
<1>1. n \in Nat /\ \A i \in 1..n : s[i] \in InputPiece
  BY InputsOfType, ElementOfSeq, LenProperties
<1> HIDE DEF s, n
<1>2. r \in [1..n -> PriorMessage]
  BY <1>1, RecordInputType
<1>3. r \in Seq(PriorMessage) /\ Len(r) = n
  <2>1. r \in Seq(PriorMessage)
    <3> HIDE DEF r
    <3> QED BY <1>1, <1>2, SeqDef
  <2> QED BY <1>1, <2>1
<1>4. \A i \in 1..n : r[i] = RecordInput(s[i])
  OBVIOUS
<1>5. RecordedInputs(in) = r
  BY DEF RecordedInputs, r, s, n
<1> HIDE DEF r
<1> QED BY <1>1, <1>3, <1>4, <1>5 DEF s, n

\* The two walks agree: what extract_user_messages makes of a piece of input is what
\* walk_prior_messages makes of the record of it.
LEMMA WalksAgree ==
  /\ \A ui \in UserInput : UserInputToJson(ui) = PriorMessageToJson(RecordInput(ui))
  /\ \A in \in Input : in.type \in QueryType =>
       PushUserText(in.text) = PriorMessageToJson(RecordInput(in))
<1>1. ASSUME NEW text
      PROVE  PriorMessageToJson([type |-> "user_query", text |-> text]) = PushUserText(text)
  BY DEF PriorMessageToJson, PushUserText
<1>2. ASSUME NEW ui \in UserInput
      PROVE  UserInputToJson(ui) = PriorMessageToJson(RecordInput(ui))
  <2>1. ui \in InputPiece
    BY DEF InputPiece
  <2>2. CASE ui.type \in {"UserQuery", "CliAgentUserQuery"}
    BY <1>1, <2>2 DEF UserInputToJson, RecordInput
  <2>3. CASE ui.type = "ToolCallResult"
    BY <2>3 DEF UserInputToJson, RecordInput, PriorMessageToJson
  <2>4. CASE ui.type = "other"
    BY <2>4 DEF UserInputToJson, RecordInput, PriorMessageToJson
  <2> QED BY <2>2, <2>3, <2>4 DEF UserInput
<1>3. ASSUME NEW in \in Input, in.type \in QueryType
      PROVE  PushUserText(in.text) = PriorMessageToJson(RecordInput(in))
  <2>1. in.type \notin {"ToolCallResult", "other"}
    BY <1>3 DEF QueryType
  <2>2. RecordInput(in) = [type |-> "user_query", text |-> in.text]
    BY <2>1 DEF RecordInput
  <2> QED BY <1>1, <2>2
<1> QED BY <1>2, <1>3

\* So the new input is translated as the history it is about to become.
LEMMA ExtractIs ==
  ASSUME NEW in \in Input
  PROVE  ExtractUserMessages(in) = Gather(PriorReading, RecordedInputs(in))
<1>1. CASE in.type = "UserInputs"
  <2> DEFINE s == in.inputs
             r == RecordedInputs(in)
  <2>1. s \in Seq(UserInput) /\ InputsOf(in) = s
    BY <1>1, InputIs DEF InputsOf
  <2>2. \A i \in 1..Len(s) : s[i] \in UserInput
    BY <2>1, ElementOfSeq
  <2>3. /\ Len(r) = Len(s)
        /\ \A i \in 1..Len(s) : r[i] = RecordInput(s[i]) /\ r[i] \in PriorMessage
    <3> HIDE DEF s, r
    <3>1. \A i \in 1..Len(s) : s[i] \in InputPiece
      BY <2>2 DEF InputPiece
    <3> QED BY <2>1, <3>1, RecordedType, RecordInputType DEF r
  <2>4. ExtractUserMessages(in)
          = FlattenSeq([i \in 1..Len(in.inputs) |-> UserInputToJson(in.inputs[i])])
    BY <1>1 DEF ExtractUserMessages, QueryType
  <2>5. ExtractUserMessages(in) = FlattenSeq([i \in 1..Len(s) |-> UserInputToJson(s[i])])
    BY <2>4
  <2> HIDE DEF s, r
  <2>6. \A i \in 1..Len(s) : UserInputToJson(s[i]) = PriorReading[r[i]]
    BY <2>2, <2>3, WalksAgree DEF PriorReading
  <2>7. [i \in 1..Len(s) |-> UserInputToJson(s[i])] = [i \in 1..Len(r) |-> PriorReading[r[i]]]
    BY <2>3, <2>6
  <2>8. Gather(PriorReading, r) = FlattenSeq([i \in 1..Len(r) |-> PriorReading[r[i]]])
    BY DEF Gather
  <2> QED BY <2>5, <2>7, <2>8 DEF r
<1>2. CASE in.type # "UserInputs"
  <2>1. InputsOf(in) = <<in>> /\ in \in InputPiece
    BY <1>2, InputIs DEF InputsOf, InputPiece, UserInput
  <2> DEFINE p == RecordInput(in)
  <2>2. RecordedInputs(in) = <<p>> /\ p \in PriorMessage
    <3>1. p \in PriorMessage
      BY <2>1, RecordInputType
    <3>2. Len(<<in>>) = 1 /\ <<in>>[1] = in
      OBVIOUS
    <3> HIDE DEF p
    <3>3. [i \in 1..1 |-> p] = <<p>>
      OBVIOUS
    <3>4. RecordedInputs(in) = [i \in 1..1 |-> p]
      BY <2>1, <3>2 DEF RecordedInputs, p
    <3> QED BY <3>1, <3>3, <3>4
  <2> HIDE DEF p
  <2>3. Gather(PriorReading, <<p>>) = PriorMessageToJson(p)
    BY <2>2, PriorReadingType, GatherOne DEF PriorReading
  <2>4. ExtractUserMessages(in) = PriorMessageToJson(p)
    <3>1. CASE in.type \in QueryType
      <4>1. ExtractUserMessages(in) = PushUserText(in.text)
        BY <1>2, <3>1 DEF ExtractUserMessages
      <4> QED BY <3>1, <4>1, WalksAgree DEF p
    <3>2. CASE in.type = "other"
      BY <3>2 DEF ExtractUserMessages, QueryType, RecordInput, PriorMessageToJson, p
    <3> QED BY <1>2, <3>1, <3>2, InputIs
  <2> QED BY <2>2, <2>3, <2>4
<1> QED BY <1>1, <1>2

\* What the new input is translated to.
LEMMA ExtractType ==
  ASSUME NEW in \in Input
  PROVE  ExtractUserMessages(in) \in Seq(PlainMessage)
  BY ExtractIs, RecordedType, PriorReadingType, GatherType

\* A request is translated to one message or more, each with one content block.
LEMMA BuiltType ==
  ASSUME NEW tasks \in Seq(Seq(PriorMessage)), NEW in \in Input
  PROVE  /\ BuildMessages(tasks, in) \in Seq(PlainMessage)
         /\ BuildMessages(tasks, in) # <<>>
<1> DEFINE out == WalkPriorMessages(tasks) \o ExtractUserMessages(in)
<1>1. WalkPriorMessages(tasks) \in Seq(PlainMessage)
  BY WalkGathers, TaskReadingType, GatherType
<1>2. out \in Seq(PlainMessage)
  BY <1>1, ExtractType, ConcatProperties
<1>3. Stub \in Seq(Chunk)
  BY DEF Stub, Chunk
<1>4. UserText(Stub) \in PlainMessage
  BY <1>3, TextPlain
<1> HIDE DEF out
<1>5. BuildMessages(tasks, in) = IF out = <<>> THEN << UserText(Stub) >> ELSE out
  BY DEF BuildMessages, out
<1> QED BY <1>2, <1>4, <1>5

-----------------------------------------------------------------------------
(* The SDK's messages                                                      *)

Point == [sdk |-> "CachePoint"]

SdkOf(m) == [role |-> m.role, content |-> BlockToContent(m.content[1])]
MarkedOf(m) == [role |-> m.role, content |-> BlockToContent(m.content[1]) \o <<Point>>]

\* block_to_content makes one SDK block of a content block, never a cache point.
LEMMA ContentSdk ==
  ASSUME NEW b \in PlainBlock
  PROVE  \E x \in SdkBlock : BlockToContent(b) = <<x>> /\ x.sdk # "CachePoint"
<1>1. CASE b.type = "text"
  <2>1. b.text \in Seq(Chunk)
    BY <1>1 DEF PlainBlock
  <2>2. [sdk |-> "Text", text |-> b.text] \in SdkBlock
    BY <2>1 DEF SdkBlock
  <2> QED BY <1>1, <2>2 DEF BlockToContent
<1>2. CASE b.type = "tool_use"
  <2>1. b.id \in Nat /\ b.name \in ToolNames /\ b.input \in Payload
    BY <1>2 DEF PlainBlock
  <2>2. BuildToolUseBlock(b) \in SdkBlock /\ BuildToolUseBlock(b).sdk = "ToolUse"
    BY <2>1 DEF SdkBlock, BuildToolUseBlock, ToolNames, Payload
  <2> QED BY <1>2, <2>2 DEF BlockToContent
<1>3. CASE b.type = "tool_result"
  <2>1. b.tool_use_id \in Nat /\ b.json \in Chunk
    BY <1>3 DEF PlainBlock
  <2>2. BuildToolResultBlock(b) \in SdkBlock /\ BuildToolResultBlock(b).sdk = "ToolResult"
    BY <2>1 DEF SdkBlock, BuildToolResultBlock
  <2> QED BY <1>3, <2>2 DEF BlockToContent
<1> QED BY <1>1, <1>2, <1>3 DEF PlainBlock

\* A single sequence, flattened.
LEMMA FlattenOne ==
  ASSUME NEW S, NEW s \in Seq(S)
  PROVE  FlattenSeq(<<s>>) = s
<1> DEFINE R == Seq(S)
           e == <<>>
<1>1. e \in Seq(R) /\ Append(e, s) = <<s>>
  OBVIOUS
<1>2. FlattenSeq(Append(e, s)) = FlattenSeq(e) \o s
  <2> HIDE DEF e
  <2> QED BY <1>1, FlattenAppend DEF R
<1>3. FlattenSeq(e) = <<>>
  BY FlattenEmpty
<1>4. <<>> \o s = s
  BY ConcatEmptySeq
<1> HIDE DEF e
<1> QED BY <1>1, <1>2, <1>3, <1>4

\* A sequence of one element, extended.
LEMMA Two ==
  ASSUME NEW S, NEW a \in S, NEW b \in S
  PROVE  Append(<<a>>, b) = <<a, b>>
<1> DEFINE s == <<a>>
           t == <<a, b>>
<1>1. s \in Seq(S) /\ Len(s) = 1 /\ s[1] = a
  OBVIOUS
<1>2. t \in Seq(S) /\ Len(t) = 2 /\ t[1] = a /\ t[2] = b
  OBVIOUS
<1> HIDE DEF s, t
<1>3. Append(s, b) = t
  <2> DEFINE u == Append(s, b)
  <2>1. u \in Seq(S) /\ Len(u) = 2 /\ u[1] = a /\ u[2] = b
    <3>1. u \in Seq(S) /\ Len(u) = Len(s) + 1 /\ u[Len(s) + 1] = b
      BY <1>1, AppendProperties, SMTT(60)
    <3>2. \A i \in 1..Len(s) : u[i] = s[i]
      BY <1>1, AppendProperties
    <3> HIDE DEF u
    <3> QED BY <1>1, <3>1, <3>2
  <2> HIDE DEF u
  <2>2. \A i \in 1..2 : u[i] = t[i]
    BY <1>2, <2>1
  <2>3. u = t
    BY <1>2, <2>1, <2>2, SeqEqual
  <2> QED BY <2>3 DEF u
<1> QED BY <1>3 DEF s, t

\* Two sequences, flattened.
LEMMA FlattenTwo ==
  ASSUME NEW S, NEW s \in Seq(S), NEW t \in Seq(S)
  PROVE  FlattenSeq(<<s, t>>) = s \o t
<1> DEFINE R == Seq(S)
           e == <<s>>
<1>1. e \in Seq(R) /\ Append(e, t) = <<s, t>>
  <2>1. s \in R /\ t \in R
    OBVIOUS
  <2>2. Append(<<s>>, t) = <<s, t>>
    BY <2>1, Two
  <2> HIDE DEF R
  <2>3. <<s>> \in Seq(R)
    BY <2>1
  <2> QED BY <2>2, <2>3
<1>2. FlattenSeq(e) = s
  BY FlattenOne
<1> HIDE DEF e
<1>3. FlattenSeq(Append(e, t)) = FlattenSeq(e) \o t
  BY <1>1, FlattenAppend DEF R
<1> QED BY <1>1, <1>2, <1>3

\* What the builder makes of a message, with and without a cache point.
LEMMA BuilderMakes ==
  ASSUME NEW m \in PlainMessage
  PROVE  /\ FlattenSeq([j \in 1..Len(m.content) |-> BlockToContent(m.content[j])])
              = SdkOf(m).content
         /\ LET c == Append(m.content, CachePoint)
            IN  FlattenSeq([j \in 1..Len(c) |-> BlockToContent(c[j])]) = MarkedOf(m).content
<1> DEFINE b == m.content[1]
           c == Append(m.content, CachePoint)
<1>1. b \in PlainBlock /\ m.content = <<b>>
  BY PlainIs
<1>2. PICK x \in SdkBlock : BlockToContent(b) = <<x>>
  BY <1>1, ContentSdk
<1>3. BlockToContent(b) \in Seq(SdkBlock)
  BY <1>2
<1>4. Point \in SdkBlock /\ BlockToContent(CachePoint) = <<Point>>
  BY DEF SdkBlock, Point, CachePoint, BlockToContent
<1>5. <<Point>> \in Seq(SdkBlock)
  BY <1>4
<1>6. [j \in 1..Len(m.content) |-> BlockToContent(m.content[j])] = << BlockToContent(b) >>
  <2> HIDE DEF b
  <2> QED BY <1>1
<1>7. c = <<b, CachePoint>>
  <2> HIDE DEF b
  <2>1. c = Append(<<b>>, CachePoint)
    BY <1>1
  <2>2. Append(<<b>>, CachePoint) = <<b, CachePoint>>
    <3>1. b \in {b, CachePoint} /\ CachePoint \in {b, CachePoint}
      OBVIOUS
    <3> QED BY <3>1, Two
  <2> QED BY <2>1, <2>2
<1>8. [j \in 1..Len(c) |-> BlockToContent(c[j])] = << BlockToContent(b), <<Point>> >>
  <2> HIDE DEF b, c
  <2> QED BY <1>4, <1>7
<1> HIDE DEF b, c
<1>9. FlattenSeq(<< BlockToContent(b) >>) = BlockToContent(b)
  BY <1>3, FlattenOne
<1>10. FlattenSeq(<< BlockToContent(b), <<Point>> >>) = BlockToContent(b) \o <<Point>>
  BY <1>3, <1>5, FlattenTwo
<1> QED BY <1>6, <1>8, <1>9, <1>10 DEF SdkOf, MarkedOf, b, c

\* Messages without cache points, in the SDK's types.
LEMMA SdkIs ==
  ASSUME NEW ms \in Seq(PlainMessage)
  PROVE  MessagesToSdk(ms) = [i \in 1..Len(ms) |-> SdkOf(ms[i])]
<1>1. \A i \in 1..Len(ms) : ms[i] \in PlainMessage
  BY ElementOfSeq
<1>2. ASSUME NEW i \in 1..Len(ms)
      PROVE  [role    |-> ms[i].role,
              content |-> FlattenSeq([j \in 1..Len(ms[i].content) |->
                                        BlockToContent(ms[i].content[j])])]
               = SdkOf(ms[i])
  <2>1. ms[i] \in PlainMessage
    BY <1>1
  <2>2. FlattenSeq([j \in 1..Len(ms[i].content) |-> BlockToContent(ms[i].content[j])])
          = SdkOf(ms[i]).content
    BY <2>1, BuilderMakes
  <2> QED BY <2>2 DEF SdkOf
<1> QED BY <1>2 DEF MessagesToSdk

Marks(on, ms) == [i \in 1..Len(ms) |-> IF on /\ i \in LastTwo(ms) THEN MarkedOf(ms[i]) ELSE SdkOf(ms[i])]

\* Messages with the cache points of apply_cache_points, in the SDK's types.
LEMMA SentIs ==
  ASSUME NEW ms \in Seq(PlainMessage), NEW on \in BOOLEAN
  PROVE  MessagesToSdk(ApplyCachePoints(on, ms)) = Marks(on, ms)
<1>1. Len(ms) \in Nat /\ \A i \in 1..Len(ms) : ms[i] \in PlainMessage
  BY ElementOfSeq, LenProperties
<1> DEFINE ap == ApplyCachePoints(on, ms)
<1>2. /\ Len(ap) = Len(ms)
      /\ \A i \in 1..Len(ms) :
           ap[i] = IF on /\ i \in LastTwo(ms)
                   THEN [ms[i] EXCEPT !.content = Append(@, CachePoint)] ELSE ms[i]
  BY <1>1 DEF ApplyCachePoints
<1> HIDE DEF ap
<1>3. ASSUME NEW i \in 1..Len(ms)
      PROVE  [role    |-> ap[i].role,
              content |-> FlattenSeq([j \in 1..Len(ap[i].content) |->
                                        BlockToContent(ap[i].content[j])])]
               = Marks(on, ms)[i]
  <2>1. ms[i] \in PlainMessage
    BY <1>1
  <2>2. CASE on /\ i \in LastTwo(ms)
    <3>1. ap[i] = [ms[i] EXCEPT !.content = Append(@, CachePoint)]
      BY <1>2, <2>2
    <3>2. ap[i].role = ms[i].role /\ ap[i].content = Append(ms[i].content, CachePoint)
      BY <2>1, <3>1, PlainIs
    <3>3. FlattenSeq([j \in 1..Len(ap[i].content) |-> BlockToContent(ap[i].content[j])])
            = MarkedOf(ms[i]).content
      BY <2>1, <3>2, BuilderMakes
    <3> QED BY <2>2, <3>2, <3>3 DEF Marks, MarkedOf
  <2>3. CASE ~(on /\ i \in LastTwo(ms))
    <3>1. ap[i] = ms[i]
      BY <1>2, <2>3
    <3>2. FlattenSeq([j \in 1..Len(ap[i].content) |-> BlockToContent(ap[i].content[j])])
            = SdkOf(ms[i]).content
      BY <2>1, <3>1, BuilderMakes
    <3> QED BY <2>3, <3>1, <3>2 DEF Marks, SdkOf
  <2> QED BY <2>2, <2>3
<1>4. MessagesToSdk(ap) = Marks(on, ms)
  BY <1>2, <1>3 DEF MessagesToSdk, Marks
<1> QED BY <1>4 DEF ap

-----------------------------------------------------------------------------
(* What a text says                                                        *)

ChunkReading(role) ==
  [c \in Chunk |-> IF c.n = 0 THEN <<>>
                   ELSE << [role |-> role, kind |-> "text", id |-> NoId, says |-> <<c>>] >>]

\* A chunk of a text says one thing, or nothing when it is blank.
LEMMA ChunkReadingType ==
  ASSUME NEW role \in Role
  PROVE  ChunkReading(role) \in Reading(Chunk, Saying)
<1> SUFFICES ASSUME NEW c \in Chunk PROVE ChunkReading(role)[c] \in Seq(Saying)
  BY DEF ChunkReading, Reading
<1>1. <<c>> \in Seq(Chunk)
  OBVIOUS
<1> DEFINE said == [role |-> role, kind |-> "text", id |-> NoId, says |-> <<c>>]
<1>2. said \in Saying
  BY <1>1 DEF Saying, Role, NoId
<1>3. ChunkReading(role)[c] = IF c.n = 0 THEN <<>> ELSE <<said>>
  BY DEF ChunkReading
<1> HIDE DEF said
<1> QED BY <1>2, <1>3

\* A text says what its chunks say.
LEMMA SaidTextGathers ==
  ASSUME NEW role \in Role, NEW text \in Seq(Chunk)
  PROVE  SaidText(role, text) = Gather(ChunkReading(role), text)
<1>1. \A i \in 1..Len(text) : text[i] \in Chunk
  BY ElementOfSeq
<1>2. [i \in 1..Len(text) |->
         IF text[i].n = 0 THEN <<>>
         ELSE << [role |-> role, kind |-> "text", id |-> NoId, says |-> <<text[i]>>] >>]
        = [i \in 1..Len(text) |-> ChunkReading(role)[text[i]]]
  BY <1>1 DEF ChunkReading
<1> QED BY <1>2 DEF SaidText, FlatMap, Gather

\* A blank text says nothing, and a text that grows says more at its end.
LEMMA SaidTextRules ==
  ASSUME NEW role \in Role, NEW text \in Seq(Chunk), NEW c \in Chunk
  PROVE  /\ SaidText(role, text) \in Seq(Saying)
         /\ Blank(text) => SaidText(role, text) = <<>>
         /\ SaidText(role, <<c>>) = IF c.n = 0 THEN <<>> ELSE
              << [role |-> role, kind |-> "text", id |-> NoId, says |-> <<c>>] >>
         /\ SaidText(role, Append(text, c)) = SaidText(role, text) \o SaidText(role, <<c>>)
<1> DEFINE f == ChunkReading(role)
<1>1. f \in Reading(Chunk, Saying)
  BY ChunkReadingType
<1>2. f[c] = IF c.n = 0 THEN <<>> ELSE
              << [role |-> role, kind |-> "text", id |-> NoId, says |-> <<c>>] >>
  BY DEF ChunkReading
<1>3. Blank(text) => \A i \in 1..Len(text) : f[text[i]] = <<>>
  BY ElementOfSeq DEF ChunkReading, Blank
<1>4. <<c>> \in Seq(Chunk) /\ Append(text, c) \in Seq(Chunk)
  OBVIOUS
<1>5. /\ SaidText(role, text) = Gather(f, text)
      /\ SaidText(role, <<c>>) = Gather(f, <<c>>)
      /\ SaidText(role, Append(text, c)) = Gather(f, Append(text, c))
  BY <1>4, SaidTextGathers
<1> HIDE DEF f
<1>6. Gather(f, <<c>>) = f[c]
  BY <1>1, GatherOne
<1>7. Gather(f, Append(text, c)) = Gather(f, text) \o f[c]
  BY <1>1, GatherAppend
<1>8. Blank(text) => Gather(f, text) = <<>>
  BY <1>1, <1>3, GatherNone
<1>9. Gather(f, text) \in Seq(Saying)
  BY <1>1, GatherType
<1> QED BY <1>2, <1>5, <1>6, <1>7, <1>8, <1>9

-----------------------------------------------------------------------------
(* What the messages sent say                                              *)

PlainSays(m) == SaysBlock(m.role, BlockToContent(m.content[1])[1])
SaysReading == [m \in PlainMessage |-> PlainSays(m)]

\* What is read off the payload of a tool call, whatever is in it.
LEMMA CallSays ==
  ASSUME NEW role \in Role, NEW payload \in Payload
  PROVE  [i \in 1..Len(payload) |->
            [role |-> role, kind |-> "call", id |-> payload[i].id, says |-> payload[i].input]]
           \in Seq(Saying)
<1> DEFINE u(i) == [role |-> role, kind |-> "call", id |-> payload[i].id,
                    says |-> payload[i].input]
           g == [i \in 1..Len(payload) |-> u(i)]
<1>1. /\ Len(payload) \in Nat
      /\ \A i \in 1..Len(payload) : payload[i] \in [id : Nat, input : Seq(Chunk)]
  BY ElementOfSeq, LenProperties DEF Payload
<1>2. ASSUME NEW i \in 1..Len(payload) PROVE u(i) \in Saying
  <2>1. payload[i].id \in Nat /\ payload[i].input \in Seq(Chunk)
    BY <1>1
  <2> QED BY <2>1 DEF Saying, Role
<1>3. g \in [1..Len(payload) -> Saying]
  BY <1>2
<1> HIDE DEF g
<1>4. g \in Seq(Saying)
  BY <1>1, <1>3, SeqDef
<1> QED BY <1>4 DEF g

\* What each kind of content block says once it is an SDK block.
LEMMA PlainSaysIs ==
  ASSUME NEW r \in Role, NEW b \in PlainBlock
  PROVE  LET s == PlainSays([role |-> r, content |-> <<b>>])
         IN  /\ s = SaysBlock(r, BlockToContent(b)[1])
             /\ b.type = "text" => s = IF b.text = Stub THEN <<>> ELSE SaidText(r, b.text)
             /\ b.type = "tool_use" =>
                  s = [i \in 1..Len(b.input) |->
                         [role |-> r, kind |-> "call", id |-> b.input[i].id,
                          says |-> b.input[i].input]]
             /\ b.type = "tool_result" =>
                  s = << [role |-> r, kind |-> "result", id |-> b.tool_use_id, says |-> <<b.json>>] >>
<1> DEFINE m == [role |-> r, content |-> <<b>>]
           s == PlainSays(m)
<1>1. m.role = r /\ m.content[1] = b
  OBVIOUS
<1>2. s = SaysBlock(r, BlockToContent(b)[1])
  BY <1>1 DEF PlainSays
<1> HIDE DEF s
<1>3. ASSUME b.type = "text"
      PROVE  s = IF b.text = Stub THEN <<>> ELSE SaidText(r, b.text)
  <2> DEFINE x == [sdk |-> "Text", text |-> b.text]
  <2>1. BlockToContent(b)[1] = x
    BY <1>3 DEF BlockToContent
  <2>2. x.sdk = "Text" /\ x.text = b.text
    OBVIOUS
  <2> HIDE DEF x
  <2> QED BY <1>2, <2>1, <2>2 DEF SaysBlock
<1>4. ASSUME b.type = "tool_use"
      PROVE  s = [i \in 1..Len(b.input) |->
                         [role |-> r, kind |-> "call", id |-> b.input[i].id,
                          says |-> b.input[i].input]]
  <2> DEFINE x == BuildToolUseBlock(b)
  <2>1. BlockToContent(b)[1] = x
    BY <1>4 DEF BlockToContent
  <2>2. x.sdk = "ToolUse" /\ x.input = b.input
    BY DEF BuildToolUseBlock
  <2> HIDE DEF x
  <2> QED BY <1>2, <2>1, <2>2 DEF SaysBlock
<1>5. ASSUME b.type = "tool_result"
      PROVE  s = << [role |-> r, kind |-> "result", id |-> b.tool_use_id, says |-> <<b.json>>] >>
  <2> DEFINE x == BuildToolResultBlock(b)
  <2>1. BlockToContent(b)[1] = x
    BY <1>5 DEF BlockToContent
  <2>2. x.sdk = "ToolResult" /\ x.id = b.tool_use_id /\ x.content = b.json
    BY DEF BuildToolResultBlock
  <2> HIDE DEF x
  <2> QED BY <1>2, <2>1, <2>2 DEF SaysBlock
<1> QED BY <1>2, <1>3, <1>4, <1>5 DEF s

\* What a message of the walks says.
LEMMA SaysReadingType == SaysReading \in Reading(PlainMessage, Saying)
<1> SUFFICES ASSUME NEW r \in Role, NEW b \in PlainBlock
             PROVE  PlainSays([role |-> r, content |-> <<b>>]) \in Seq(Saying)
  BY DEF SaysReading, Reading, PlainMessage
<1> DEFINE s == PlainSays([role |-> r, content |-> <<b>>])
<1> SUFFICES s \in Seq(Saying)
  OBVIOUS
<1>1. CASE b.type = "text"
  <2>1. b.text \in Seq(Chunk)
    BY <1>1 DEF PlainBlock
  <2>2. [n |-> 0, closes |-> FALSE] \in Chunk
    BY DEF Chunk
  <2>3. SaidText(r, b.text) \in Seq(Saying)
    BY <2>1, <2>2, SaidTextRules
  <2>4. s = IF b.text = Stub THEN <<>> ELSE SaidText(r, b.text)
    BY <1>1, PlainSaysIs
  <2> HIDE DEF s
  <2> QED BY <2>3, <2>4
<1>2. CASE b.type = "tool_use"
  <2>1. b.input \in Payload
    BY <1>2 DEF PlainBlock
  <2>2. s = [i \in 1..Len(b.input) |->
                         [role |-> r, kind |-> "call", id |-> b.input[i].id,
                          says |-> b.input[i].input]]
    BY <1>2, PlainSaysIs
  <2> HIDE DEF s
  <2> QED BY <2>1, <2>2, CallSays
<1>3. CASE b.type = "tool_result"
  <2>1. b.tool_use_id \in Nat /\ <<b.json>> \in Seq(Chunk)
    BY <1>3 DEF PlainBlock
  <2> DEFINE u == [role |-> r, kind |-> "result", id |-> b.tool_use_id, says |-> <<b.json>>]
  <2>2. u \in Saying
    BY <2>1 DEF Saying, Role
  <2>3. s = <<u>>
    BY <1>3, PlainSaysIs
  <2> HIDE DEF s, u
  <2> QED BY <2>2, <2>3
<1> QED BY <1>1, <1>2, <1>3 DEF PlainBlock

\* A cache point says nothing.
LEMMA ContentSays ==
  ASSUME NEW m \in PlainMessage
  PROVE  /\ FlatMap(LAMBDA b : SaysBlock(m.role, b), SdkOf(m).content) = PlainSays(m)
         /\ FlatMap(LAMBDA b : SaysBlock(m.role, b), MarkedOf(m).content) = PlainSays(m)
<1>1. m.content[1] \in PlainBlock
  BY PlainIs
<1>2. PICK x \in SdkBlock : BlockToContent(m.content[1]) = <<x>>
  BY <1>1, ContentSdk
<1>3. PlainSays(m) = SaysBlock(m.role, x)
  BY <1>2 DEF PlainSays
<1>4. PlainSays(m) \in Seq(Saying)
  BY SaysReadingType DEF SaysReading, Reading
<1>5. SaysBlock(m.role, Point) = <<>>
  BY DEF SaysBlock, Point
<1>6. SdkOf(m).content = <<x>>
  BY <1>2 DEF SdkOf
<1>7. MarkedOf(m).content = <<x, Point>>
  <2>1. x \in {x, Point} /\ Point \in {x, Point}
    OBVIOUS
  <2>2. <<x>> \o <<Point>> = Append(<<x>>, Point)
    <3>1. <<x>> \in Seq({x, Point})
      OBVIOUS
    <3> QED BY <2>1, <3>1, AppendIsConcat
  <2> QED BY <1>2, <2>1, <2>2, Two DEF MarkedOf
<1>8. [i \in 1..Len(<<x>>) |-> SaysBlock(m.role, <<x>>[i])] = << PlainSays(m) >>
  BY <1>3
<1>9. [i \in 1..Len(<<x, Point>>) |-> SaysBlock(m.role, <<x, Point>>[i])]
        = << PlainSays(m), <<>> >>
  BY <1>3, <1>5
<1>10. FlattenSeq(<< PlainSays(m) >>) = PlainSays(m)
  BY <1>4, FlattenOne
<1>11. FlattenSeq(<< PlainSays(m), <<>> >>) = PlainSays(m)
  <2>1. <<>> \in Seq(Saying) /\ PlainSays(m) \o <<>> = PlainSays(m)
    BY <1>4, ConcatEmptySeq
  <2> QED BY <1>4, <2>1, FlattenTwo
<1> QED BY <1>6, <1>7, <1>8, <1>9, <1>10, <1>11 DEF FlatMap

\* A request says what its messages say, one after the other, and cache points say
\* nothing.
LEMMA SaysGathers ==
  ASSUME NEW ms \in Seq(PlainMessage), NEW on \in BOOLEAN
  PROVE  /\ Says(MessagesToSdk(ms)) = Gather(SaysReading, ms)
         /\ Says(Marks(on, ms)) = Gather(SaysReading, ms)
<1>1. Len(ms) \in Nat /\ \A i \in 1..Len(ms) : ms[i] \in PlainMessage
  BY ElementOfSeq, LenProperties
<1>2. ASSUME NEW out, Len(out) = Len(ms),
             \A i \in 1..Len(ms) : out[i] = SdkOf(ms[i]) \/ out[i] = MarkedOf(ms[i])
      PROVE  Says(out) = Gather(SaysReading, ms)
  <2>1. ASSUME NEW i \in 1..Len(ms)
        PROVE  FlatMap(LAMBDA b : SaysBlock(out[i].role, b), out[i].content)
                 = SaysReading[ms[i]]
    <3>1. ms[i] \in PlainMessage
      BY <1>1
    <3>2. SaysReading[ms[i]] = PlainSays(ms[i])
      BY <3>1 DEF SaysReading
    <3>3. CASE out[i] = SdkOf(ms[i])
      <4>1. out[i].role = ms[i].role
        BY <3>3 DEF SdkOf
      <4>2. FlatMap(LAMBDA b : SaysBlock(ms[i].role, b), SdkOf(ms[i]).content) = PlainSays(ms[i])
        BY <3>1, ContentSays
      <4> QED BY <3>2, <3>3, <4>1, <4>2
    <3>4. CASE out[i] = MarkedOf(ms[i])
      <4>1. out[i].role = ms[i].role
        BY <3>4 DEF MarkedOf
      <4>2. FlatMap(LAMBDA b : SaysBlock(ms[i].role, b), MarkedOf(ms[i]).content) = PlainSays(ms[i])
        BY <3>1, ContentSays
      <4> QED BY <3>2, <3>4, <4>1, <4>2
    <3> QED BY <1>2, <3>3, <3>4
  <2>2. [i \in 1..Len(out) |-> FlatMap(LAMBDA b : SaysBlock(out[i].role, b), out[i].content)]
          = [i \in 1..Len(ms) |-> SaysReading[ms[i]]]
    BY <1>2, <2>1
  <2>3. Says(out) = FlattenSeq([i \in 1..Len(out) |->
                      FlatMap(LAMBDA b : SaysBlock(out[i].role, b), out[i].content)])
    BY DEF Says, FlatMap
  <2> QED BY <2>2, <2>3 DEF Gather
<1>3. Says(MessagesToSdk(ms)) = Gather(SaysReading, ms)
  <2> DEFINE out == MessagesToSdk(ms)
  <2>1. Len(out) = Len(ms) /\ \A i \in 1..Len(ms) : out[i] = SdkOf(ms[i])
    BY <1>1, SdkIs
  <2> HIDE DEF out
  <2>2. Says(out) = Gather(SaysReading, ms)
    BY <1>2, <2>1
  <2> QED BY <2>2 DEF out
<1>4. Says(Marks(on, ms)) = Gather(SaysReading, ms)
  <2> DEFINE out == Marks(on, ms)
  <2>1. /\ Len(out) = Len(ms)
        /\ \A i \in 1..Len(ms) : out[i] = SdkOf(ms[i]) \/ out[i] = MarkedOf(ms[i])
    BY <1>1 DEF Marks
  <2> HIDE DEF out
  <2>2. Says(out) = Gather(SaysReading, ms)
    BY <1>2, <2>1
  <2> QED BY <2>2 DEF out
<1> QED BY <1>3, <1>4

\* Without the cache points, what is sent is what the messages are.
LEMMA ContentUnmarked ==
  ASSUME NEW m \in PlainMessage
  PROVE  /\ FlatMap(LAMBDA b : IF b.sdk = "CachePoint" THEN <<>> ELSE <<b>>, SdkOf(m).content)
              = SdkOf(m).content
         /\ FlatMap(LAMBDA b : IF b.sdk = "CachePoint" THEN <<>> ELSE <<b>>, MarkedOf(m).content)
              = SdkOf(m).content
<1>1. m.content[1] \in PlainBlock
  BY PlainIs
<1>2. PICK x \in SdkBlock : BlockToContent(m.content[1]) = <<x>> /\ x.sdk # "CachePoint"
  BY <1>1, ContentSdk
<1>3. Point.sdk = "CachePoint"
  BY DEF Point
<1>4. SdkOf(m).content = <<x>>
  BY <1>2 DEF SdkOf
<1>5. MarkedOf(m).content = <<x, Point>>
  <2>1. x \in {x, Point} /\ Point \in {x, Point}
    OBVIOUS
  <2>2. <<x>> \o <<Point>> = Append(<<x>>, Point)
    <3>1. <<x>> \in Seq({x, Point})
      OBVIOUS
    <3> QED BY <2>1, <3>1, AppendIsConcat
  <2> QED BY <1>2, <2>1, <2>2, Two DEF MarkedOf
<1> DEFINE u(b) == IF b.sdk = "CachePoint" THEN <<>> ELSE <<b>>
<1>6. u(x) = <<x>> /\ u(Point) = <<>>
  BY <1>2, <1>3
<1>7. [i \in 1..Len(<<x>>) |-> u(<<x>>[i])] = << <<x>> >>
  <2> HIDE DEF u
  <2> QED BY <1>6
<1>8. [i \in 1..Len(<<x, Point>>) |-> u(<<x, Point>>[i])] = << <<x>>, <<>> >>
  <2> HIDE DEF u
  <2> QED BY <1>6
<1>9. FlattenSeq(<< <<x>> >>) = <<x>>
  <2>1. <<x>> \in Seq(SdkBlock)
    OBVIOUS
  <2> QED BY <2>1, FlattenOne
<1>10. FlattenSeq(<< <<x>>, <<>> >>) = <<x>>
  <2>1. <<x>> \in Seq(SdkBlock) /\ <<>> \in Seq(SdkBlock) /\ <<x>> \o <<>> = <<x>>
    OBVIOUS
  <2> QED BY <2>1, FlattenTwo
<1> QED BY <1>4, <1>5, <1>7, <1>8, <1>9, <1>10 DEF FlatMap

\* Without its cache points a request is the SDK's form of what the walks made.
LEMMA UnmarkedIs ==
  ASSUME NEW ms \in Seq(PlainMessage), NEW on \in BOOLEAN
  PROVE  Unmarked(Marks(on, ms)) = MessagesToSdk(ms)
<1>1. Len(ms) \in Nat /\ \A i \in 1..Len(ms) : ms[i] \in PlainMessage
  BY ElementOfSeq, LenProperties
<1> DEFINE out == Marks(on, ms)
<1>2. /\ Len(out) = Len(ms)
      /\ \A i \in 1..Len(ms) : out[i] = SdkOf(ms[i]) \/ out[i] = MarkedOf(ms[i])
  BY <1>1 DEF Marks
<1> HIDE DEF out
<1>3. ASSUME NEW i \in 1..Len(ms)
      PROVE  [out[i] EXCEPT !.content =
                FlatMap(LAMBDA b : IF b.sdk = "CachePoint" THEN <<>> ELSE <<b>>, @)]
               = SdkOf(ms[i])
  <2>1. ms[i] \in PlainMessage
    BY <1>1
  <2>2. FlatMap(LAMBDA b : IF b.sdk = "CachePoint" THEN <<>> ELSE <<b>>, out[i].content)
          = SdkOf(ms[i]).content
    BY <1>2, <2>1, ContentUnmarked
  <2>3. \A x : [out[i] EXCEPT !.content = x] = [role |-> ms[i].role, content |-> x]
    <3>1. PICK c : out[i] = [role |-> ms[i].role, content |-> c]
      BY <1>2 DEF SdkOf, MarkedOf
    <3> QED BY <3>1
  <2>4. SdkOf(ms[i]) = [role |-> ms[i].role, content |-> SdkOf(ms[i]).content]
    BY DEF SdkOf
  <2> QED BY <2>2, <2>3, <2>4
<1>4. Unmarked(out) = [i \in 1..Len(ms) |-> SdkOf(ms[i])]
  BY <1>2, <1>3 DEF Unmarked
<1> QED BY <1>4, SdkIs DEF out

-----------------------------------------------------------------------------
(* What the record says                                                    *)

MessageSays == [m \in PriorMessage |-> Gather(SaysReading, PriorReading[m])]

\* What a message of the history says, when it is sent again.
LEMMA MessageSaysType == MessageSays \in Reading(PriorMessage, Saying)
<1>1. ASSUME NEW m \in PriorMessage
      PROVE  Gather(SaysReading, PriorReading[m]) \in Seq(Saying)
  BY PriorReadingType, SaysReadingType, GatherType DEF Reading
<1> QED BY <1>1 DEF MessageSays, Reading

SpeakerOf(m) == IF m.type = "user_query" THEN "user" ELSE "assistant"

\* A single message says what its block says.
LEMMA PlainGathers ==
  ASSUME NEW r \in Role, NEW b \in PlainBlock
  PROVE  Gather(SaysReading, << [role |-> r, content |-> <<b>>] >>)
           = PlainSays([role |-> r, content |-> <<b>>])
<1> DEFINE m == [role |-> r, content |-> <<b>>]
<1>1. m \in PlainMessage
  BY PlainMade
<1> SUFFICES Gather(SaysReading, <<m>>) = PlainSays(m)
  OBVIOUS
<1> HIDE DEF m
<1>2. Gather(SaysReading, <<m>>) = SaysReading[m]
  BY <1>1, SaysReadingType, GatherOne
<1> QED BY <1>1, <1>2 DEF SaysReading

\* A text of the history, which the walk leaves out when it is blank.
LEMMA TextSays ==
  ASSUME NEW m \in PriorMessage, m.type \in TextType, m.text # Stub
  PROVE  MessageSays[m] = SaidText(SpeakerOf(m), m.text)
<1> DEFINE b == [type |-> "text", text |-> m.text]
           r == SpeakerOf(m)
<1>1. m.text \in Seq(Chunk) /\ r \in Role
  BY PriorIs DEF SpeakerOf, Role
<1>2. b \in PlainBlock /\ b.type = "text" /\ b.text = m.text
  BY <1>1 DEF PlainBlock
<1>3. PriorMessageToJson(m)
        = IF Blank(m.text) THEN <<>> ELSE << [role |-> r, content |-> <<b>>] >>
  BY DEF PriorMessageToJson, TextType, UserText, AssistantText, SpeakerOf
<1> HIDE DEF b, r
<1>4. MessageSays[m] = Gather(SaysReading, PriorMessageToJson(m))
  BY DEF MessageSays, PriorReading
<1>5. CASE Blank(m.text)
  <2>1. [n |-> 0, closes |-> FALSE] \in Chunk
    BY DEF Chunk
  <2>2. SaidText(r, m.text) = <<>>
    BY <1>1, <1>5, <2>1, SaidTextRules
  <2> QED BY <1>3, <1>4, <1>5, <2>2, GatherEmpty DEF r
<1>6. CASE ~Blank(m.text)
  <2>1. PlainSays([role |-> r, content |-> <<b>>]) = SaidText(r, m.text)
    BY <1>1, <1>2, PlainSaysIs
  <2> QED BY <1>1, <1>2, <1>3, <1>4, <1>6, <2>1, PlainGathers DEF r
<1> QED BY <1>5, <1>6

\* A tool call of the history.
LEMMA CallMessageSays ==
  ASSUME NEW m \in PriorMessage, m.type = "tool_call"
  PROVE  MessageSays[m] =
           [i \in 1..Len(m.payload) |->
              [role |-> "assistant", kind |-> "call", id |-> m.payload[i].id,
               says |-> m.payload[i].input]]
<1> DEFINE b == [type |-> "tool_use", id |-> m.tool_call_id, name |-> ToolName(m),
                 input |-> m.payload]
<1>1. b \in PlainBlock /\ b.type = "tool_use" /\ b.input = m.payload
  BY PriorIs DEF PlainBlock, ToolName, ToolNames
<1>2. PriorMessageToJson(m) = << [role |-> "assistant", content |-> <<b>>] >>
  BY DEF PriorMessageToJson
<1> HIDE DEF b
<1>3. MessageSays[m] = Gather(SaysReading, PriorMessageToJson(m)) /\ "assistant" \in Role
  BY DEF MessageSays, PriorReading, Role
<1>4. PlainSays([role |-> "assistant", content |-> <<b>>]) =
           [i \in 1..Len(m.payload) |->
              [role |-> "assistant", kind |-> "call", id |-> m.payload[i].id,
               says |-> m.payload[i].input]]
  BY <1>1, <1>3, PlainSaysIs, ZenonT(60)
<1> QED BY <1>1, <1>2, <1>3, <1>4, PlainGathers

\* A tool result of the history.
LEMMA ResultMessageSays ==
  ASSUME NEW m \in PriorMessage, m.type = "tool_call_result"
  PROVE  MessageSays[m] =
           << [role |-> "user", kind |-> "result", id |-> m.tool_call_id, says |-> <<m.result>>] >>
<1> DEFINE b == [type |-> "tool_result", tool_use_id |-> m.tool_call_id, json |-> m.result]
<1>1. /\ b \in PlainBlock /\ b.type = "tool_result"
      /\ b.tool_use_id = m.tool_call_id /\ b.json = m.result
  BY PriorIs DEF PlainBlock
<1>2. PriorMessageToJson(m) = << [role |-> "user", content |-> <<b>>] >>
  BY DEF PriorMessageToJson, UserToolResult
<1> HIDE DEF b
<1>3. MessageSays[m] = Gather(SaysReading, PriorMessageToJson(m)) /\ "user" \in Role
  BY DEF MessageSays, PriorReading, Role
<1>4. PlainSays([role |-> "user", content |-> <<b>>]) =
           << [role |-> "user", kind |-> "result", id |-> m.tool_call_id, says |-> <<m.result>>] >>
  BY <1>1, <1>3, PlainSaysIs
<1> QED BY <1>1, <1>2, <1>3, <1>4, PlainGathers

\* A message the walk does not know says nothing.
LEMMA OtherMessageSays ==
  ASSUME NEW m \in PriorMessage, m.type = "other"
  PROVE  MessageSays[m] = <<>>
<1>1. PriorMessageToJson(m) = <<>>
  BY DEF PriorMessageToJson
<1> QED BY <1>1, GatherEmpty DEF MessageSays, PriorReading

\* A task says what its messages say.
LEMMA TaskSays ==
  ASSUME NEW task \in Seq(PriorMessage)
  PROVE  /\ Gather(PriorReading, task) \in Seq(PlainMessage)
         /\ Gather(SaysReading, Gather(PriorReading, task)) = Gather(MessageSays, task)
  BY PriorReadingType, SaysReadingType, GatherType, GatherGather DEF MessageSays

\* A history says what its tasks say, so a history with one more task says more at its
\* end.
LEMMA RebuiltSays ==
  ASSUME NEW tasks \in Seq(Seq(PriorMessage)), NEW task \in Seq(PriorMessage)
  PROVE  /\ Says(Rebuilt(tasks)) = Gather(SaysReading, WalkPriorMessages(tasks))
         /\ Says(Rebuilt(tasks)) \in Seq(Saying)
         /\ Says(Rebuilt(Append(tasks, task))) = Says(Rebuilt(tasks)) \o Gather(MessageSays, task)
<1> DEFINE w == WalkPriorMessages(tasks)
           g == Gather(PriorReading, task)
<1>1. w \in Seq(PlainMessage) /\ g \in Seq(PlainMessage)
  BY WalkRules, TaskSays
<1>2. WalkPriorMessages(Append(tasks, task)) = w \o g
  BY WalkRules
<1>3. Gather(SaysReading, g) = Gather(MessageSays, task)
  BY TaskSays
<1> HIDE DEF w, g
<1>4. w \o g \in Seq(PlainMessage)
  BY <1>1, ConcatProperties
<1>5. /\ Says(MessagesToSdk(w)) = Gather(SaysReading, w)
      /\ Says(MessagesToSdk(w \o g)) = Gather(SaysReading, w \o g)
  BY <1>1, <1>4, SaysGathers
<1>6. Gather(SaysReading, w \o g) = Gather(SaysReading, w) \o Gather(SaysReading, g)
  BY <1>1, SaysReadingType, GatherConcat
<1>7. Gather(SaysReading, w) \in Seq(Saying)
  BY <1>1, SaysReadingType, GatherType
<1> QED BY <1>2, <1>3, <1>5, <1>6, <1>7 DEF Rebuilt, w

\* Walked and translated, a message of the history says what the record says of it.
LEMMA PriorSays ==
  ASSUME NEW m \in PriorMessage, m.type \in TextType => m.text # Stub
  PROVE  MessageSays[m] = SaidPrior(m)
<1>1. CASE m.type \in TextType
  <2>1. MessageSays[m] = SaidText(SpeakerOf(m), m.text)
    BY <1>1, TextSays
  <2>2. CASE m.type = "user_query"
    BY <2>1, <2>2 DEF SpeakerOf, SaidPrior
  <2>3. CASE m.type \in {"agent_output", "agent_reasoning"}
    BY <2>1, <2>3 DEF SpeakerOf, SaidPrior
  <2> QED BY <1>1, <2>2, <2>3 DEF TextType
<1>2. CASE m.type = "tool_call"
  BY <1>2, CallMessageSays DEF SaidPrior
<1>3. CASE m.type = "tool_call_result"
  BY <1>3, ResultMessageSays DEF SaidPrior
<1>4. CASE m.type = "other"
  BY <1>4, OtherMessageSays DEF SaidPrior
<1> QED BY <1>1, <1>2, <1>3, <1>4, PriorIs DEF PriorTypes

\* So does a task.
LEMMA TaskRead ==
  ASSUME NEW task \in Seq(PriorMessage),
         \A j \in 1..Len(task) : task[j].type \in TextType => task[j].text # Stub
  PROVE  Gather(MessageSays, task) = SaidTask(task)
<1>1. \A j \in 1..Len(task) : task[j] \in PriorMessage
  BY ElementOfSeq
<1>2. ASSUME NEW j \in 1..Len(task) PROVE MessageSays[task[j]] = SaidPrior(task[j])
  BY <1>1, PriorSays
<1>3. [j \in 1..Len(task) |-> SaidPrior(task[j])] = [j \in 1..Len(task) |-> MessageSays[task[j]]]
  BY <1>2
<1> QED BY <1>3 DEF SaidTask, FlatMap, Gather

\* And the history: sent again, it says what the record says.
LEMMA RecordRead ==
  ASSUME NEW tasks \in Seq(Seq(PriorMessage)), Unstubbed(tasks)
  PROVE  Says(Rebuilt(tasks)) = SaidRecord(tasks)
<1> DEFINE h == [task \in Seq(PriorMessage) |-> Gather(SaysReading, TaskReading[task])]
<1>1. <<>> \in Seq(PriorMessage)
  BY EmptySeq
<1>2. Says(Rebuilt(tasks)) = Gather(SaysReading, Gather(TaskReading, tasks))
  BY <1>1, RebuiltSays, WalkGathers
<1>3. Gather(SaysReading, Gather(TaskReading, tasks)) = Gather(h, tasks)
  BY SaysReadingType, TaskReadingType, GatherGather
<1>4. ASSUME NEW i \in 1..Len(tasks) PROVE h[tasks[i]] = SaidTask(tasks[i])
  <2> DEFINE task == tasks[i]
  <2>1. task \in Seq(PriorMessage)
    BY ElementOfSeq
  <2>2. \A j \in 1..Len(task) : task[j].type \in TextType => task[j].text # Stub
    BY DEF Unstubbed
  <2> SUFFICES h[task] = SaidTask(task)
    OBVIOUS
  <2> HIDE DEF task
  <2>3. h[task] = Gather(SaysReading, Gather(PriorReading, task))
    BY <2>1 DEF TaskReading
  <2> QED BY <2>1, <2>2, <2>3, TaskSays, TaskRead
<1> HIDE DEF h
<1>5. [i \in 1..Len(tasks) |-> SaidTask(tasks[i])] = [i \in 1..Len(tasks) |-> h[tasks[i]]]
  BY <1>4
<1>6. Gather(h, tasks) = SaidRecord(tasks)
  BY <1>5 DEF SaidRecord, FlatMap, Gather
<1> QED BY <1>2, <1>3, <1>6

\* The record of an input says what was said in the input.
LEMMA InputsSay ==
  ASSUME NEW in \in Input,
         \A i \in 1..Len(RecordedInputs(in)) :
           RecordedInputs(in)[i].type \in TextType => RecordedInputs(in)[i].text # Stub
  PROVE  Gather(MessageSays, RecordedInputs(in)) = FlatMap(SaidInput, InputsOf(in))
<1> DEFINE s == InputsOf(in)
           r == RecordedInputs(in)
<1>1. /\ r \in Seq(PriorMessage) /\ Len(r) = Len(s) /\ Len(s) \in Nat
      /\ \A i \in 1..Len(s) : s[i] \in InputPiece /\ r[i] = RecordInput(s[i])
  BY RecordedType
<1>2. \A i \in 1..Len(s) : r[i].type \in TextType => r[i].text # Stub
  BY <1>1
<1> HIDE DEF s, r
<1>3. ASSUME NEW i \in 1..Len(s) PROVE SaidInput(s[i]) = MessageSays[r[i]]
  <2> DEFINE ui == s[i]
             m == r[i]
  <2>1. ui \in InputPiece /\ m = RecordInput(ui) /\ m \in PriorMessage
    BY <1>1, RecordInputType
  <2>2. m.type \in TextType => m.text # Stub
    BY <1>2
  <2> SUFFICES SaidInput(ui) = MessageSays[m]
    OBVIOUS
  <2> HIDE DEF ui, m
  <2>3. CASE ui.type = "ToolCallResult"
    <3>1. m.type = "tool_call_result" /\ m.tool_call_id = ui.tool_call_id /\ m.result = ui.result
      BY <2>1, <2>3 DEF RecordInput
    <3> QED BY <2>1, <2>3, <3>1, ResultMessageSays DEF SaidInput
  <2>4. CASE ui.type = "other"
    <3>1. m.type = "other"
      BY <2>1, <2>4 DEF RecordInput
    <3> QED BY <2>1, <2>4, <3>1, OtherMessageSays DEF SaidInput
  <2>5. CASE ui.type \notin {"ToolCallResult", "other"}
    <3>1. m.type = "user_query" /\ m.text = ui.text
      BY <2>1, <2>5 DEF RecordInput
    <3>2. MessageSays[m] = SaidText("user", ui.text)
      BY <2>1, <2>2, <3>1, TextSays DEF TextType, SpeakerOf
    <3> QED BY <2>5, <3>2 DEF SaidInput
  <2> QED BY <2>3, <2>4, <2>5
<1>4. [i \in 1..Len(s) |-> SaidInput(s[i])] = [i \in 1..Len(r) |-> MessageSays[r[i]]]
  BY <1>1, <1>3
<1>5. FlatMap(SaidInput, s) = Gather(MessageSays, r)
  BY <1>4 DEF FlatMap, Gather
<1> QED BY <1>5 DEF s, r

-----------------------------------------------------------------------------
(* The diagnostic stub                                                     *)

StubBlock(b) == b.type = "text" /\ b.text = Stub
Substantial == { m \in PlainMessage : ~StubBlock(m.content[1]) }
Proper(m) == m.type \in TextType => m.text # Stub

\* A message of the history whose text is not the stub's does not become the stub.
LEMMA ProperSubstantial ==
  ASSUME NEW m \in PriorMessage, Proper(m)
  PROVE  PriorReading[m] \in Seq(Substantial)
<1>1. PriorReading[m] = PriorMessageToJson(m) /\ PriorReading[m] \in Seq(PlainMessage)
  BY PriorReadingType DEF PriorReading, Reading
<1>2. \A i \in 1..Len(PriorMessageToJson(m)) : ~StubBlock(PriorMessageToJson(m)[i].content[1])
  BY DEF PriorMessageToJson, StubBlock, Proper, TextType, UserText, AssistantText, UserToolResult
<1> DEFINE p == PriorMessageToJson(m)
<1>3. p \in Seq(PlainMessage) /\ \A i \in 1..Len(p) : ~StubBlock(p[i].content[1])
  BY <1>1, <1>2
<1> HIDE DEF p
<1>4. Len(p) \in Nat /\ \A i \in 1..Len(p) : p[i] \in Substantial
  BY <1>3, ElementOfSeq, LenProperties DEF Substantial
<1>5. p = [i \in 1..Len(p) |-> p[i]]
  BY <1>3
<1>6. p \in [1..Len(p) -> Substantial]
  BY <1>4, <1>5
<1>7. p \in Seq(Substantial)
  BY <1>4, <1>6, SeqDef
<1> QED BY <1>1, <1>7 DEF p

\* Nor does any message of a task of such messages,
LEMMA TaskSubstantial ==
  ASSUME NEW task \in Seq(PriorMessage), \A i \in 1..Len(task) : Proper(task[i])
  PROVE  Gather(PriorReading, task) \in Seq(Substantial)
<1>1. \A i \in 1..Len(task) : PriorReading[task[i]] \in Seq(Substantial)
  BY ElementOfSeq, ProperSubstantial
<1> QED BY <1>1, PriorReadingType, GatherWithin

\* nor any message of a history of such tasks.
LEMMA WalkSubstantial ==
  ASSUME NEW tasks \in Seq(Seq(PriorMessage)), Unstubbed(tasks)
  PROVE  WalkPriorMessages(tasks) \in Seq(Substantial)
<1>1. ASSUME NEW i \in 1..Len(tasks) PROVE TaskReading[tasks[i]] \in Seq(Substantial)
  <2> DEFINE task == tasks[i]
  <2>1. task \in Seq(PriorMessage) /\ \A j \in 1..Len(task) : Proper(task[j])
    BY PartsOf DEF Unstubbed, Proper
  <2> HIDE DEF task
  <2>2. TaskReading[task] = Gather(PriorReading, task)
    BY <2>1 DEF TaskReading
  <2>3. TaskReading[task] \in Seq(Substantial)
    BY <2>1, <2>2, TaskSubstantial
  <2> QED BY <2>3 DEF task
<1>2. Gather(TaskReading, tasks) \in Seq(Substantial)
  BY <1>1, TaskReadingType, GatherWithin
<1> QED BY <1>2, WalkGathers

\* A message is the stub before it has cache points if and only if it is with them, and
\* in both forms it has a block that is none.
LEMMA StubIs ==
  ASSUME NEW m \in PlainMessage
  PROVE  /\ IsStub(SdkOf(m)) <=> StubBlock(m.content[1])
         /\ IsStub(MarkedOf(m)) <=> StubBlock(m.content[1])
         /\ \E b \in 1..Len(SdkOf(m).content) : SdkOf(m).content[b].sdk # "CachePoint"
         /\ \E b \in 1..Len(MarkedOf(m).content) : MarkedOf(m).content[b].sdk # "CachePoint"
         /\ SdkOf(m) \in [role : Role, content : Seq(SdkBlock)]
         /\ MarkedOf(m) \in [role : Role, content : Seq(SdkBlock)]
<1> DEFINE b == m.content[1]
<1>1. b \in PlainBlock /\ m.role \in Role
  BY PlainIs
<1>2. PICK x \in SdkBlock : BlockToContent(b) = <<x>> /\ x.sdk # "CachePoint"
  BY <1>1, ContentSdk
<1>3. x = [sdk |-> "Text", text |-> Stub] <=> StubBlock(b)
  <2>1. CASE b.type = "text"
    <3>1. x = [sdk |-> "Text", text |-> b.text]
      BY <1>2, <2>1 DEF BlockToContent
    <3>2. StubBlock(b) <=> b.text = Stub
      BY <2>1 DEF StubBlock
    <3> HIDE DEF b
    <3>3. ASSUME NEW s, NEW t, [sdk |-> "Text", text |-> s] = [sdk |-> "Text", text |-> t]
          PROVE  s = t
      <4>1. [sdk |-> "Text", text |-> s].text = [sdk |-> "Text", text |-> t].text
        BY <3>3
      <4> QED BY <4>1
    <3> QED BY <3>1, <3>2, <3>3
  <2>2. CASE b.type = "tool_use"
    <3>1. x.sdk = "ToolUse"
      BY <1>2, <2>2 DEF BlockToContent, BuildToolUseBlock
    <3> QED BY <2>2, <3>1 DEF StubBlock
  <2>3. CASE b.type = "tool_result"
    <3>1. x.sdk = "ToolResult"
      BY <1>2, <2>3 DEF BlockToContent, BuildToolResultBlock
    <3> QED BY <2>3, <3>1 DEF StubBlock
  <2> QED BY <1>1, <2>1, <2>2, <2>3 DEF PlainBlock
<1>4. SdkOf(m).content = <<x>> /\ SdkOf(m).role = m.role
  BY <1>2 DEF SdkOf
<1>5. MarkedOf(m).content = <<x>> \o <<Point>> /\ MarkedOf(m).role = m.role
  BY <1>2 DEF MarkedOf
<1>6. Point \in SdkBlock
  BY DEF Point, SdkBlock
<1> HIDE DEF b
<1>7. /\ <<x>> \o <<Point>> \in Seq(SdkBlock) /\ Len(<<x>> \o <<Point>>) = 2
      /\ (<<x>> \o <<Point>>)[1] = x /\ <<x>> \in Seq(SdkBlock) /\ Len(<<x>>) = 1 /\ <<x>>[1] = x
  BY <1>6
<1>8. SdkOf(m) \in [role : Role, content : Seq(SdkBlock)]
  BY <1>1, <1>4, <1>7 DEF SdkOf
<1>9. MarkedOf(m) \in [role : Role, content : Seq(SdkBlock)]
  BY <1>1, <1>5, <1>7 DEF MarkedOf
<1>10. /\ IsStub(SdkOf(m)) <=> x = [sdk |-> "Text", text |-> Stub]
       /\ IsStub(MarkedOf(m)) <=> x = [sdk |-> "Text", text |-> Stub]
  BY <1>4, <1>5, <1>7 DEF IsStub
<1>11. /\ \E k \in 1..Len(SdkOf(m).content) : SdkOf(m).content[k].sdk # "CachePoint"
       /\ \E k \in 1..Len(MarkedOf(m).content) : MarkedOf(m).content[k].sdk # "CachePoint"
  <2>1. 1 \in 1..Len(SdkOf(m).content) /\ SdkOf(m).content[1].sdk # "CachePoint"
    BY <1>2, <1>4, <1>7
  <2>2. 1 \in 1..Len(MarkedOf(m).content) /\ MarkedOf(m).content[1].sdk # "CachePoint"
    BY <1>2, <1>5, <1>7
  <2> QED BY <2>1, <2>2
<1> QED BY <1>3, <1>8, <1>9, <1>10, <1>11 DEF b

Sdk == [role : Role, content : Seq(SdkBlock)]

\* The messages of a request: as many as were translated, none empty.
LEMMA MarksAre ==
  ASSUME NEW ms \in Seq(PlainMessage), NEW on \in BOOLEAN
  PROVE  /\ Marks(on, ms) \in Seq(Sdk) /\ Len(Marks(on, ms)) = Len(ms)
         /\ \A i \in 1..Len(ms) :
              /\ IsStub(Marks(on, ms)[i]) <=> StubBlock(ms[i].content[1])
              /\ \E b \in 1..Len(Marks(on, ms)[i].content) :
                   Marks(on, ms)[i].content[b].sdk # "CachePoint"
<1>1. Len(ms) \in Nat /\ \A i \in 1..Len(ms) : ms[i] \in PlainMessage
  BY ElementOfSeq, LenProperties
<1> DEFINE out == Marks(on, ms)
<1>2. /\ Len(out) = Len(ms) /\ DOMAIN out = 1..Len(ms)
      /\ \A i \in 1..Len(ms) : out[i] = SdkOf(ms[i]) \/ out[i] = MarkedOf(ms[i])
  BY <1>1 DEF Marks
<1>3. out = [i \in 1..Len(ms) |-> out[i]]
  BY DEF Marks
<1> HIDE DEF out
<1>4. \A i \in 1..Len(ms) :
        /\ out[i] \in Sdk
        /\ IsStub(out[i]) <=> StubBlock(ms[i].content[1])
        /\ \E b \in 1..Len(out[i].content) : out[i].content[b].sdk # "CachePoint"
  <2> SUFFICES ASSUME NEW i \in 1..Len(ms)
               PROVE  /\ out[i] \in Sdk
                      /\ IsStub(out[i]) <=> StubBlock(ms[i].content[1])
                      /\ \E b \in 1..Len(out[i].content) : out[i].content[b].sdk # "CachePoint"
    OBVIOUS
  <2>1. ms[i] \in PlainMessage
    BY <1>1
  <2>2. CASE out[i] = SdkOf(ms[i])
    BY <2>1, <2>2, StubIs DEF Sdk
  <2>3. CASE out[i] = MarkedOf(ms[i])
    BY <2>1, <2>3, StubIs DEF Sdk
  <2> QED BY <1>2, <2>2, <2>3
<1>5. out \in [1..Len(ms) -> Sdk]
  BY <1>3, <1>4
<1>6. out \in Seq(Sdk)
  BY <1>1, <1>5, SeqDef
<1> QED BY <1>2, <1>4, <1>6 DEF out

-----------------------------------------------------------------------------
(* What a request is translated to                                         *)

ProperInput(in) == \A i \in 1..Len(RecordedInputs(in)) : Proper(RecordedInputs(in)[i])

\* The messages without the stub.
Built(tasks, in) == WalkPriorMessages(tasks) \o ExtractUserMessages(in)

\* build_messages is the walk of the history with the new input appended to it: the stub
\* is sent when that walk finds nothing, and not otherwise.
LEMMA BuiltIs ==
  ASSUME NEW tasks \in Seq(Seq(PriorMessage)), Unstubbed(tasks), NEW in \in Input, ProperInput(in)
  PROVE  /\ Built(tasks, in) \in Seq(PlainMessage)
         /\ \A i \in 1..Len(Built(tasks, in)) : ~StubBlock(Built(tasks, in)[i].content[1])
         /\ Built(tasks, in) = WalkPriorMessages(Append(tasks, RecordedInputs(in)))
         /\ BuildMessages(tasks, in) =
              IF Built(tasks, in) = <<>> THEN << UserText(Stub) >> ELSE Built(tasks, in)
<1> DEFINE w == WalkPriorMessages(tasks)
           r == RecordedInputs(in)
           e == Gather(PriorReading, r)
           b == Built(tasks, in)
<1>1. r \in Seq(PriorMessage)
  BY RecordedType
<1>2. b = w \o e
  BY ExtractIs DEF Built
<1>3. w \in Seq(Substantial) /\ e \in Seq(Substantial)
  BY <1>1, WalkSubstantial, TaskSubstantial DEF ProperInput
<1>4. b = WalkPriorMessages(Append(tasks, r))
  <2> HIDE DEF b
  <2> QED BY <1>1, <1>2, WalkRules
<1>5. BuildMessages(tasks, in) = IF b = <<>> THEN << UserText(Stub) >> ELSE b
  BY DEF BuildMessages, Built
<1> HIDE DEF w, e, b, r
<1>6. b \in Seq(Substantial)
  BY <1>2, <1>3, ConcatProperties
<1>7. /\ b \in Seq(PlainMessage)
      /\ \A i \in 1..Len(b) : ~StubBlock(b[i].content[1])
  <2>1. \A i \in 1..Len(b) : b[i] \in Substantial
    BY <1>6, ElementOfSeq
  <2>2. Substantial \subseteq PlainMessage
    BY DEF Substantial
  <2>3. b \in Seq(PlainMessage)
    BY <1>6, <2>2
  <2> QED BY <2>1, <2>3 DEF Substantial
<1> QED BY <1>4, <1>5, <1>7 DEF b, r

\* The stub alone says nothing.
LEMMA StubMessage ==
  /\ UserText(Stub) \in PlainMessage
  /\ StubBlock(UserText(Stub).content[1])
  /\ << UserText(Stub) >> \in Seq(PlainMessage)
  /\ Gather(SaysReading, << UserText(Stub) >>) = <<>>
<1>1. Stub \in Seq(Chunk)
  BY DEF Stub, Chunk
<1> DEFINE b == [type |-> "text", text |-> Stub]
<1>2. b \in PlainBlock /\ b.type = "text" /\ b.text = Stub
  BY <1>1 DEF PlainBlock
<1>3. UserText(Stub) = [role |-> "user", content |-> <<b>>] /\ "user" \in Role
  BY DEF UserText, Role
<1>4. StubBlock(b)
  BY <1>2 DEF StubBlock
<1> HIDE DEF b
<1>5. UserText(Stub) \in PlainMessage
  BY <1>2, <1>3, PlainMade
<1>6. UserText(Stub).content[1] = b
  BY <1>3
<1>7. PlainSays(UserText(Stub)) = <<>>
  BY <1>2, <1>3, PlainSaysIs
<1>8. Gather(SaysReading, << UserText(Stub) >>) = <<>>
  BY <1>2, <1>3, <1>7, PlainGathers
<1> QED BY <1>4, <1>5, <1>6, <1>8

Translated(on, tasks, in, s) ==
  /\ s \in Seq(Sdk) /\ s # <<>> /\ \E ms \in Seq(PlainMessage) : s = Marks(on, ms)
  /\ \A i \in 1..Len(s) : \E b \in 1..Len(s[i].content) : s[i].content[b].sdk # "CachePoint"
  /\ (\E i \in 1..Len(s) : IsStub(s[i])) => Len(s) = 1
  /\ Says(s) = Says(Rebuilt(tasks)) \o FlatMap(SaidInput, InputsOf(in))
  /\ Says(s) = Says(Rebuilt(Append(tasks, RecordedInputs(in))))
  /\ Rebuilt(Append(tasks, RecordedInputs(in))) # <<>>
       => /\ s = Marks(on, Built(tasks, in))
          /\ Unmarked(s) = Rebuilt(Append(tasks, RecordedInputs(in)))
  /\ ~IsStub(s[1]) => Rebuilt(Append(tasks, RecordedInputs(in))) # <<>>

\* What translate_warp_request makes of a proper history and a proper input.
LEMMA RequestTranslated ==
  ASSUME NEW tasks \in Seq(Seq(PriorMessage)), Unstubbed(tasks), NEW in \in Input, ProperInput(in),
         NEW on \in BOOLEAN, NEW s, s = TranslateWarpRequest(on, tasks, in)
  PROVE  Translated(on, tasks, in, s)
<1> DEFINE b == Built(tasks, in)
           m == BuildMessages(tasks, in)
           r == RecordedInputs(in)
<1>1. /\ b \in Seq(PlainMessage)
      /\ \A i \in 1..Len(b) : ~StubBlock(b[i].content[1])
      /\ b = WalkPriorMessages(Append(tasks, r))
      /\ m = IF b = <<>> THEN << UserText(Stub) >> ELSE b
  BY BuiltIs
<1>2. r \in Seq(PriorMessage)
  BY RecordedType
<1>3. /\ Says(Rebuilt(Append(tasks, r))) = Says(Rebuilt(tasks)) \o Gather(MessageSays, r)
      /\ Gather(MessageSays, r) = FlatMap(SaidInput, InputsOf(in))
  <2>1. \A i \in 1..Len(r) : r[i].type \in TextType => r[i].text # Stub
    BY DEF ProperInput, Proper
  <2> QED BY <1>2, <2>1, RebuiltSays, InputsSay
<1>4. Rebuilt(Append(tasks, r)) = MessagesToSdk(b)
  BY <1>1 DEF Rebuilt
<1> HIDE DEF b, m, r
<1>5. m \in Seq(PlainMessage)
  BY <1>1, StubMessage
<1>6. s = Marks(on, m)
  BY <1>5, SentIs DEF TranslateWarpRequest, m
<1>7. /\ s \in Seq(Sdk) /\ Len(s) = Len(m)
      /\ \A i \in 1..Len(m) :
           /\ IsStub(s[i]) <=> StubBlock(m[i].content[1])
           /\ \E k \in 1..Len(s[i].content) : s[i].content[k].sdk # "CachePoint"
  BY <1>5, <1>6, MarksAre, SMTT(60)
<1>8. Says(s) = Gather(SaysReading, m) /\ Says(MessagesToSdk(b)) = Gather(SaysReading, b)
  BY <1>1, <1>5, <1>6, SaysGathers
<1>9. Gather(SaysReading, m) = Gather(SaysReading, b)
  BY <1>1, StubMessage, GatherEmpty
<1>14. \E ms \in Seq(PlainMessage) : s = Marks(on, ms)
  BY <1>5, <1>6
<1>10. Len(MessagesToSdk(b)) = Len(b) /\ Len(b) \in Nat
  BY <1>1, SdkIs, LenProperties
<1>11. MessagesToSdk(b) # <<>> <=> b # <<>>
  <2>1. b # <<>> <=> Len(b) # 0
    BY <1>1, EmptySeq
  <2>2. MessagesToSdk(b) = [i \in 1..Len(b) |-> SdkOf(b[i])]
    BY <1>1, SdkIs
  <2> QED BY <1>10, <2>1, <2>2
<1>12. CASE b = <<>>
  <2>1. m = << UserText(Stub) >>
    BY <1>1, <1>12
  <2>2. Len(m) = 1 /\ m[1] = UserText(Stub)
    BY <2>1
  <2>3. IsStub(s[1]) /\ Len(s) = 1 /\ s # <<>>
    BY <1>7, <2>2, StubMessage
  <2> QED BY <1>3, <1>4, <1>7, <1>8, <1>9, <1>11, <1>12, <1>14, <2>3 DEF b, r, Translated
<1>13. CASE b # <<>>
  <2>1. m = b
    BY <1>1, <1>13
  <2>2. Len(b) # 0
    BY <1>1, <1>13, EmptySeq
  <2>3. s # <<>> /\ \A i \in 1..Len(s) : ~IsStub(s[i])
    BY <1>1, <1>7, <2>1, <2>2
  <2>4. Unmarked(s) = MessagesToSdk(b)
    BY <1>1, <1>6, <2>1, UnmarkedIs
  <2> QED BY <1>3, <1>4, <1>6, <1>7, <1>8, <1>9, <1>11, <1>13, <1>14, <2>1, <2>3, <2>4 DEF b, r, Translated
<1> QED BY <1>12, <1>13

=============================================================================
