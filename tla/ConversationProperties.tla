------------------------ MODULE ConversationProperties ------------------------
(***************************************************************************)
(* What a stateless translation owes a conversation, stated against the    *)
(* transcript of what was said.                                            *)
(***************************************************************************)
EXTENDS Conversation

SdkBlock ==
       [sdk : {"Text"}, text : Seq(Chunk)]
  \cup [sdk : {"CachePoint"}]
  \cup [sdk : {"ToolUse"}, id : Nat, name : {"unknown"} \cup ToolVariant,
        input : Seq([id : Nat, input : Seq(Chunk)])]
  \cup [sdk : {"ToolResult"}, id : Nat, content : Chunk, status : {"success", "error"}]

\* The messages with a cache point.
MarkedAt(messages) ==
  { i \in 1..Len(messages) : Contains(messages[i].content, [sdk |-> "CachePoint"]) }

\* Types; and no request has more than two cache points (cache.rs:3-4).
TypeOK ==
  /\ use_prompt_cache \in BOOLEAN
  /\ task_context \in Seq(Seq(PriorMessage))
  /\ input \in Option(Input)
  /\ IsBlocks(turn.blocks) /\ turn.adapter \in Adapter /\ IsClient(turn.client)
  /\ sent \in Seq([role : {"user", "assistant"}, content : Seq(SdkBlock)])
  /\ calls \in Seq(Nat)
  /\ transcript \in Seq(Saying)
  /\ turns \in 0..MaxTurns /\ parts \in 0..MaxParts
  /\ Cardinality(MarkedAt(sent)) =< 2

-----------------------------------------------------------------------------
(* Reading the messages sent                                               *)

\* What the messages sent say, for Conversation's transcript.
SaysBlock(role, block) ==
  CASE block.sdk = "Text" /\ block.text # Stub -> SaidText(role, block.text)
    [] block.sdk = "ToolUse" ->
         [i \in 1..Len(block.input) |->
            [role |-> role, kind |-> "call", id |-> block.input[i].id,
             says |-> block.input[i].input]]
    [] block.sdk = "ToolResult" ->
         << [role |-> role, kind |-> "result", id |-> block.id,
            says |-> <<block.content>>] >>
    [] OTHER -> <<>>

Says(messages) ==
  FlatMap(LAMBDA m : FlatMap(LAMBDA b : SaysBlock(m.role, b), m.content), messages)

IsStub(message) == message.content[1] = [sdk |-> "Text", text |-> Stub]

Unmarked(messages) ==
  [i \in 1..Len(messages) |->
    [messages[i] EXCEPT !.content =
       FlatMap(LAMBDA b : IF b.sdk = "CachePoint" THEN <<>> ELSE <<b>>, @)]]

UsersAt(messages) == { i \in 1..Len(messages) : messages[i].role = "user" }

Asked == input = <<>> /\ input' # <<>>

-----------------------------------------------------------------------------

\* Every text that is not blank, the payload of every tool call (its id and its input)
\* and every result under its call's id reaches Bedrock again in each later request,
\* once, in order and under its role: the history, which went through accumulator,
\* adapter, client and walker, then the new input (translator.rs:99-137).  What does
\* not come back: reasoning, which the client never gets (ReasoningForwarded), and the
\* tool_use block's own id, name and bounds (ToolLoopResumes).
TextsAndPayloadsKept == [][Asked => Says(sent') = transcript']_vars

\* A request is never empty (Bedrock refuses it), no message lacks a content
\* block (the SDK's builder refuses it), and the diagnostic stub appears only
\* when there is nothing else (translator.rs:102-111, 324-325).
StubAlone ==
  turns > 0 =>
    /\ sent # <<>>
    /\ \A i \in 1..Len(sent) :
         \E b \in 1..Len(sent[i].content) : sent[i].content[b].sdk # "CachePoint"
    /\ (\E i \in 1..Len(sent) : IsStub(sent[i])) => Len(sent) = 1

\* A turn only appends to what the turn before sent: the two walks, of the new
\* input and of the history it becomes, agree.  Without it no prompt cache hits.
PrefixStable ==
  [][ Asked /\ sent # <<>> /\ ~IsStub(sent[1])
        => IsPrefix(Unmarked(sent), Unmarked(sent')) ]_vars

\* A prefix cached by one turn is marked again by the next, as long as that adds
\* one user message at most: the reason for the last two (cache.rs:3-4, 43-51).
CacheReusable ==
  [][ Asked /\ sent # <<>> /\ ~IsStub(sent[1]) /\ use_prompt_cache
        /\ Cardinality(UsersAt(sent')) =< Cardinality(UsersAt(sent)) + 1
        => \A i \in UsersAt(sent) : (\A j \in UsersAt(sent) : j =< i) => i \in MarkedAt(sent') ]_vars

-----------------------------------------------------------------------------
(* Why they hold: the inductive invariant                                  *)

\* The record as it would be, did the turn being served end now; and as it was when
\* its request was sent.
RecordWith(client) ==
  IF input = <<>> THEN task_context ELSE Append(task_context, Record(input[1], client))

Rebuilt(tasks) == MessagesToSdk(WalkPriorMessages(tasks))

\* Between two content blocks none is open, and the client has what the adapter
\* believes it has: the prelude, a message per id, the last one of the open kind.
ClientInStep ==
  LET a == turn.adapter
      c == turn.client
  IN  /\ turn = [blocks |-> <<>>, adapter |-> a, client |-> c]
      /\ c.init = a.sent_init /\ c.task = a.sent_init
      /\ c.finished = <<>> /\ ~c.fault
      /\ DOMAIN c.messages = 1..a.message_id
      /\ a.active_kind = IF a.message_id = 0 THEN <<>> ELSE << c.messages[a.message_id].kind >>
      /\ a.message_id # 0 => a.sent_init
      /\ \A id \in 1..a.message_id : \A i \in 1..Len(c.messages[id].body) :
           c.messages[id].body[i].kind = c.messages[id].kind

\* What the record says is what was said.
RecordSays ==
  /\ RecordWith(turn.client) \in Seq(Seq(PriorMessage))
  /\ Unstubbed(RecordWith(turn.client))
  /\ transcript = Says(Rebuilt(RecordWith(turn.client)))

\* What was sent is what the record had then, and the record has it still.
Unstubbing == sent # <<>> /\ ~IsStub(sent[1])
SentRecorded ==
  Unstubbing =>
    /\ input # <<>> => Unmarked(sent) = Rebuilt(RecordWith(NewClient))
    /\ input = <<>> => IsPrefix(Unmarked(sent), Rebuilt(task_context))

ConversationInv ==
  TypeOK /\ ClientInStep /\ RecordSays /\ SentRecorded /\ StubAlone

-----------------------------------------------------------------------------
(* What the documentation says and the code does not do                    *)

\* README.md:164-167: "Assistant `tool_use` blocks and user `tool_result` blocks
\* round-trip through both the input walker (translator.rs) and the SDK
\* translator": every call the model made comes back as a tool_use block of its
\* own with the id it was made with.
ToolLoopResumes ==
  \A i \in 1..Len(Says(sent)) :
    Says(sent)[i].kind = "call" =>
      \E m \in 1..Len(sent) : \E b \in 1..Len(sent[m].content) :
        /\ sent[m].content[b].sdk = "ToolUse"
        /\ sent[m].content[b].id = Says(sent)[i].id

=============================================================================
