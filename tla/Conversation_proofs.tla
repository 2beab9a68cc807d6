------------------------- MODULE Conversation_proofs -------------------------
(***************************************************************************)
(* Theorems about Conversation for every value of its constants: however   *)
(* many turns there are and however long the answers are, the request of a *)
(* turn says what the turns before it said.                                *)
(*                                                                         *)
(* The argument follows a content block of the model from Bedrock to the   *)
(* client's record of it (A content block), shows that the record grows by *)
(* what was said (What a message of an answer says), and then reads the    *)
(* record back with the walk of the next request (RequestTranslator_proofs).*)
(***************************************************************************)
EXTENDS RequestTranslator_proofs, FiniteSetTheorems

-----------------------------------------------------------------------------
(* The inputs of a client                                                  *)

AskKind == {"UserQuery", "CliAgentUserQuery", "ToolCallResult", "blank", "other"}

\* The stub's text is a chunk of its own.
LEMMA NotStub ==
  ASSUME NEW text, text[1].n # 1
  PROVE  text # Stub
<1>1. Stub[1].n = 1
  BY DEF Stub
<1> QED BY <1>1

\* Each tool result of an answerable input answers a call there was.
LEMMA ResultHasCall ==
  ASSUME NEW kinds \in Seq(AskKind), NEW m \in Nat,
         ResultsUpTo(kinds, Len(kinds)) =< m,
         NEW i \in 1..Len(kinds), kinds[i] = "ToolCallResult"
  PROVE  ResultsUpTo(kinds, i) \in 1..m
<1> DEFINE n == Len(kinds)
           A == { j \in 1..i : kinds[j] = "ToolCallResult" }
           B == { j \in 1..n : kinds[j] = "ToolCallResult" }
<1>1. n \in Nat /\ i \in Nat
  BY LenProperties
<1>2. A \subseteq B /\ B \subseteq 1..n /\ i \in A
  BY <1>1
<1>3. IsFiniteSet(1..n)
  BY <1>1, FS_Interval
<1> HIDE DEF A, B
<1>4. IsFiniteSet(B) /\ IsFiniteSet(A) /\ Cardinality(A) =< Cardinality(B)
  BY <1>2, <1>3, FS_Subset
<1>5. Cardinality(A) \in Nat /\ Cardinality(B) \in Nat /\ Cardinality(A) # 0
  BY <1>2, <1>4, FS_CardinalityType, FS_EmptySet
<1>6. Cardinality(B) =< m /\ ResultsUpTo(kinds, i) = Cardinality(A)
  BY DEF ResultsUpTo, A, B
<1> QED BY <1>4, <1>5, <1>6

\* What the client and Bedrock say is not the stub's text.
LEMMA ChunksTyped ==
  ASSUME TypeOK, NEW i \in Nat
  PROVE  /\ InputChunk(i) \in Chunk /\ InputChunk(i).n # 1
         /\ Space \in Chunk /\ Space.n = 0
<1>1. turns \in Nat
  BY AskAssumption DEF TypeOK
<1>2. 100 + 10 * turns + i \in Nat /\ 100 + 10 * turns + i # 1
  BY <1>1
<1> QED BY <1>2 DEF InputChunk, Space, Chunk

\* A piece of an input the client can make.
LEMMA UserInputTyped ==
  ASSUME TypeOK, NEW kinds \in Seq(AskKind), ResultsUpTo(kinds, Len(kinds)) =< Len(calls),
         NEW i \in 1..Len(kinds)
  PROVE  UserInputOf(kinds, i) \in UserInput /\ Proper(RecordInput(UserInputOf(kinds, i)))
<1>1. kinds[i] \in AskKind /\ i \in Nat
  BY ElementOfSeq, LenProperties
<1> DEFINE c == InputChunk(i)
           u == UserInputOf(kinds, i)
<1>2. c \in Chunk /\ c.n # 1 /\ Space \in Chunk /\ Space.n = 0
  BY <1>1, ChunksTyped
<1> HIDE DEF c
<1> SUFFICES u \in UserInput /\ Proper(RecordInput(u))
  OBVIOUS
<1>3. CASE kinds[i] = "ToolCallResult"
  <2> DEFINE k == ResultsUpTo(kinds, i)
  <2>1. calls \in Seq(Nat) /\ Len(calls) \in Nat
    BY LenProperties DEF TypeOK
  <2>2. k \in 1..Len(calls)
    BY <1>3, <2>1, ResultHasCall
  <2>3. calls[k] \in Nat
    <3> HIDE DEF k
    <3> QED BY <2>1, <2>2, ElementOfSeq
  <2>4. u = [type |-> "ToolCallResult", tool_call_id |-> calls[k], result |-> c]
    BY <1>3 DEF UserInputOf, c
  <2> HIDE DEF u, k
  <2> QED BY <1>2, <2>3, <2>4 DEF UserInput, RecordInput, Proper, TextType
<1>4. CASE kinds[i] = "blank"
  <2>1. u = [type |-> "UserQuery", text |-> <<Space>>]
    BY <1>4 DEF UserInputOf
  <2>2. <<Space>> # Stub
    <3>1. <<Space>>[1].n # 1
      BY <1>2
    <3> QED BY <3>1, NotStub
  <2> HIDE DEF u
  <2> QED BY <1>2, <2>1, <2>2 DEF UserInput, RecordInput, Proper, TextType
<1>5. CASE kinds[i] = "other"
  <2>1. u = [type |-> "other"]
    BY <1>5 DEF UserInputOf
  <2> HIDE DEF u
  <2> QED BY <2>1 DEF UserInput, RecordInput, Proper, TextType
<1>6. CASE kinds[i] \in {"UserQuery", "CliAgentUserQuery"}
  <2>1. u = [type |-> kinds[i], text |-> <<c>>]
    BY <1>6 DEF UserInputOf, c
  <2>2. <<c>> # Stub
    <3>1. <<c>>[1].n # 1
      BY <1>2
    <3> QED BY <3>1, NotStub
  <2> HIDE DEF u
  <2> QED BY <1>2, <1>6, <2>1, <2>2 DEF UserInput, RecordInput, Proper, TextType
<1> QED BY <1>1, <1>3, <1>4, <1>5, <1>6 DEF AskKind

\* An input the client can make, whose record is proper.
LEMMA InputTyped ==
  ASSUME TypeOK, NEW ask \in Asks, Answerable(ask)
  PROVE  InputOf(ask) \in Input /\ ProperInput(InputOf(ask))
<1> DEFINE in == InputOf(ask)
<1> SUFFICES in \in Input /\ ProperInput(in)
  OBVIOUS
<1>1. \/ ask.type = "UserInputs" /\ ask.kinds \in Seq(AskKind)
      \/ ask.type = "other"
      \/ ask.type \in QueryType
  BY AskAssumption DEF AskKind
<1>2. CASE ask.type = "UserInputs"
  <2> DEFINE kinds == ask.kinds
             n == Len(kinds)
             s == [i \in 1..n |-> UserInputOf(kinds, i)]
  <2>1. kinds \in Seq(AskKind) /\ n \in Nat
    BY <1>1, <1>2, LenProperties DEF QueryType
  <2>2. ResultsUpTo(kinds, n) =< Len(calls)
    BY <1>2 DEF Answerable
  <2> HIDE DEF kinds
  <2>3. \A i \in 1..n : UserInputOf(kinds, i) \in UserInput /\ Proper(RecordInput(UserInputOf(kinds, i)))
    BY <2>1, <2>2, UserInputTyped
  <2>4. in = [type |-> "UserInputs", inputs |-> s]
    BY <1>2 DEF InputOf, kinds
  <2>5. s \in [1..n -> UserInput] /\ \A i \in 1..n : s[i] = UserInputOf(kinds, i)
    BY <2>3
  <2> HIDE DEF s
  <2>6. s \in Seq(UserInput) /\ Len(s) = n
    <3> HIDE DEF n
    <3>1. s \in Seq(UserInput)
      BY <2>1, <2>5, SeqDef
    <3> QED BY <2>1, <2>5, <3>1
  <2> HIDE DEF in, n
  <2>7. in \in Input
    BY <2>4, <2>6 DEF Input
  <2>8. InputsOf(in) = s
    BY <2>4 DEF InputsOf
  <2>9. ASSUME NEW i \in 1..Len(RecordedInputs(in)) PROVE Proper(RecordedInputs(in)[i])
    <3>1. i \in 1..n /\ RecordedInputs(in)[i] = RecordInput(s[i])
      BY <2>6, <2>7, <2>8, RecordedType
    <3> QED BY <2>3, <2>5, <3>1
  <2> QED BY <2>7, <2>9 DEF ProperInput
<1>3. CASE ask.type = "other"
  <2>1. in = [type |-> "other"]
    BY <1>3 DEF InputOf
  <2> HIDE DEF in
  <2>2. in \in Input /\ InputsOf(in) = <<in>>
    BY <2>1 DEF Input, InputsOf
  <2>3. ASSUME NEW i \in 1..Len(RecordedInputs(in)) PROVE Proper(RecordedInputs(in)[i])
    <3>1. RecordedInputs(in)[i] = RecordInput(in)
      BY <2>2, RecordedType
    <3> QED BY <2>1, <3>1 DEF Proper, RecordInput, TextType
  <2> QED BY <2>2, <2>3 DEF ProperInput
<1>4. CASE ask.type \in QueryType
  <2> DEFINE c == InputChunk(1)
             t == <<Space, c>>
  <2>1. c \in Chunk /\ Space \in Chunk /\ Space.n = 0
    BY ChunksTyped
  <2>2. t \in Seq(Chunk) /\ t[1].n # 1
    <3> HIDE DEF c
    <3> QED BY <2>1
  <2>3. t # Stub
    BY <2>2, NotStub
  <2>4. in = [type |-> ask.type, text |-> t]
    BY <1>4 DEF InputOf, QueryType
  <2> HIDE DEF in, t
  <2>5. in \in Input /\ InputsOf(in) = <<in>> /\ in.type \notin {"ToolCallResult", "other"} /\ in.text = t
    BY <1>4, <2>2, <2>4 DEF Input, InputsOf, QueryType
  <2>6. ASSUME NEW i \in 1..Len(RecordedInputs(in)) PROVE Proper(RecordedInputs(in)[i])
    <3>1. RecordedInputs(in)[i] = RecordInput(in)
      BY <2>5, RecordedType
    <3> QED BY <2>3, <2>5, <3>1 DEF Proper, RecordInput, TextType
  <2> QED BY <2>5, <2>6 DEF ProperInput
<1> QED BY <1>1, <1>2, <1>3, <1>4

-----------------------------------------------------------------------------
(* A request                                                               *)

Shown(client, n) == [id \in 1..n |-> RecordMessage(client.messages[id])]

\* The client's record of a turn: the input, then the messages it was shown.
LEMMA RecordIs ==
  ASSUME NEW in, NEW client, NEW n \in Nat, DOMAIN client.messages = 1..n
  PROVE  Record(in, client) = RecordedInputs(in) \o Shown(client, n)
<1>1. Cardinality(1..n) = n
  BY FS_Interval
<1> QED BY <1>1 DEF Record, RecordedInputs, Shown

\* At the start of a turn the record is the input alone.
LEMMA RecordNew ==
  ASSUME NEW in \in Input
  PROVE  Record(in, NewClient) = RecordedInputs(in)
<1>1. DOMAIN NewClient.messages = 1..0
  BY DEF NewClient
<1>2. Record(in, NewClient) = RecordedInputs(in) \o Shown(NewClient, 0)
  BY <1>1, RecordIs
<1>3. Shown(NewClient, 0) = <<>>
  BY DEF Shown
<1> QED BY <1>2, <1>3, RecordedType, ConcatEmptySeq

\* A new turn is well typed.
LEMMA NewTurnTyped ==
  /\ IsBlocks(NewTurn.blocks) /\ NewTurn.adapter \in Adapter /\ IsClient(NewTurn.client)
  /\ NewTurn = [blocks |-> <<>>, adapter |-> NewAdapter, client |-> NewClient]
<1>1. IsBlocks(<<>>)
  BY DEF IsBlocks
<1>2. NewAdapter \in Adapter
  BY DEF NewAdapter, Adapter, Option
<1>3. IsClient(NewClient)
  BY DEF NewClient, IsClient
<1> QED BY <1>1, <1>2, <1>3 DEF NewTurn

-----------------------------------------------------------------------------
(* A turn in step                                                          *)

\* What a turn is while the client has what the adapter believes it has.
ClientOf(g, M) ==
  [init |-> g # "new", task |-> g = "open", messages |-> M, finished |-> <<>>, fault |-> FALSE]
OpenKind(n, M) == IF n = 0 THEN <<>> ELSE << M[n].kind >>
AdapterOf(g, n, p, M) ==
  [sent_init |-> g = "open", message_id |-> n, active_kind |-> OpenKind(n, M), pending_usage |-> p]
TurnOf(bs, g, n, p, M) ==
  [blocks |-> bs, adapter |-> AdapterOf(g, n, p, M), client |-> ClientOf(g, M)]

InStep(g, n, M) ==
  g \in {"new", "open"} /\ n \in Nat /\ DOMAIN M = 1..n /\ (n # 0 => g = "open")

\* The messages after content of a kind: the open one goes on, or a new one opens.
Opens(n, M, kind) == n = 0 \/ M[n].kind # kind
NextId(n, M, kind) == IF Opens(n, M, kind) THEN n + 1 ELSE n
NextMessages(n, M, kind, content) ==
  IF Opens(n, M, kind)
  THEN [i \in 1..(n + 1) |-> IF i = n + 1 THEN [kind |-> kind, body |-> content] ELSE M[i]]
  ELSE [i \in 1..n |-> IF i = n THEN [kind |-> kind, body |-> M[n].body \o content] ELSE M[i]]

\* The client is told of the stream and of its task.
LEMMA ReceivesPrelude ==
  ASSUME NEW M
  PROVE  /\ Receive(ClientOf("new", M), StreamInit) = ClientOf("begun", M)
         /\ Receive(ClientOf("begun", M), CreateTask) = ClientOf("open", M)
<1>1. Receive(ClientOf("new", M), StreamInit) = ClientOf("begun", M)
  BY DEF Receive, Lands, Applied, ClientOf, StreamInit
<1>2. Receive(ClientOf("begun", M), CreateTask) = ClientOf("open", M)
  BY DEF Receive, Lands, Applied, ClientOf, CreateTask
<1> QED BY <1>1, <1>2

\* The client is told of a new message.
LEMMA ReceivesAdd ==
  ASSUME NEW M, NEW id, NEW kind, id \notin DOMAIN M
  PROVE  Receive(ClientOf("open", M), AddMessages(id, kind))
           = ClientOf("open", Register(M, id, kind))
  BY DEF Receive, Lands, Applied, ClientOf, AddMessages

\* The client is told of more content for a message it has.
LEMMA ReceivesAppend ==
  ASSUME NEW M, NEW id, NEW kind, NEW content, id \in DOMAIN M, M[id].kind = kind
  PROVE  Receive(ClientOf("open", M), AppendContent(id, kind, content))
           = ClientOf("open", Extend(M, id, content))
  BY DEF Receive, Lands, Applied, ClientOf, AppendContent

\* The client is told of the end of the stream.
LEMMA ReceivesFinished ==
  ASSUME NEW M, NEW reason, NEW usage
  PROVE  Receive(ClientOf("open", M), StreamFinished(reason, usage)).messages = M
  BY DEF Receive, Lands, Applied, ClientOf, StreamFinished

\* The events of a frame reach the client one after the other.
LEMMA ReceivesAll ==
  ASSUME NEW b, NEW e
  PROVE  /\ DOMAIN e = 1..0 => FoldLeft(Receive, b, e) = b
         /\ DOMAIN e = 1..1 => FoldLeft(Receive, b, e) = Receive(b, e[1])
         /\ DOMAIN e = 1..2 => FoldLeft(Receive, b, e) = Receive(Receive(b, e[1]), e[2])
         /\ DOMAIN e = 1..3 => FoldLeft(Receive, b, e) = Receive(Receive(Receive(b, e[1]), e[2]), e[3])
         /\ DOMAIN e = 1..4 =>
              FoldLeft(Receive, b, e)
                = Receive(Receive(Receive(Receive(b, e[1]), e[2]), e[3]), e[4])
<1>1. \A c, x : Step("receive", c, x) = Receive(c, x)
  BY DEF Step
<1> DEFINE last == FoldLeft(Receive, b, e)
<1>2. \A n \in Nat : DOMAIN e = 1..n => Chain("receive", b, e, n, last)
  BY FoldReceive
<1> HIDE DEF last
<1>3. DOMAIN e = 1..0 => last = b
  BY <1>2, ChainIs
<1>4. DOMAIN e = 1..1 => last = Step("receive", b, e[1])
  BY <1>2, ChainIs
<1>5. DOMAIN e = 1..2 => last = Step("receive", Step("receive", b, e[1]), e[2])
  BY <1>2, ChainIs
<1>6. DOMAIN e = 1..4 =>
        last = Step("receive", Step("receive", Step("receive", Step("receive", b, e[1]), e[2]), e[3]), e[4])
  BY <1>2, ChainIs
<1>7. /\ DOMAIN e = 1..0 => last = b
      /\ DOMAIN e = 1..1 => last = Receive(b, e[1])
  BY <1>1, <1>3, <1>4
<1>8. DOMAIN e = 1..2 => last = Receive(Receive(b, e[1]), e[2])
  BY <1>1, <1>5
<1>10. DOMAIN e = 1..3 => last = Receive(Receive(Receive(b, e[1]), e[2]), e[3])
  <2>1. DOMAIN e = 1..3 =>
          last = Step("receive", Step("receive", Step("receive", b, e[1]), e[2]), e[3])
    BY <1>2, ChainIs
  <2> QED BY <1>1, <2>1
<1>9. DOMAIN e = 1..4 => last = Receive(Receive(Receive(Receive(b, e[1]), e[2]), e[3]), e[4])
  BY <1>1, <1>6
<1> QED BY <1>7, <1>8, <1>9, <1>10 DEF last

\* The events of content: the prelude and a new message, a new message, or neither.
Script(g, n, M, kind, content) ==
  LET append == AppendContent(NextId(n, M, kind), kind, content)
  IN  IF g = "new" THEN <<StreamInit, CreateTask, AddMessages(n + 1, kind), append>>
      ELSE IF Opens(n, M, kind) THEN <<AddMessages(n + 1, kind), append>>
      ELSE <<append>>

\* A client in step is told of a new message and of what is in it.
LEMMA OpensMessage ==
  ASSUME NEW n \in Nat, NEW M, DOMAIN M = 1..n, NEW kind, NEW content, content \in Seq(Content),
         Opens(n, M, kind)
  PROVE  Receive(Receive(ClientOf("open", M), AddMessages(n + 1, kind)),
                 AppendContent(NextId(n, M, kind), kind, content))
           = ClientOf("open", NextMessages(n, M, kind, content))
<1> DEFINE R == Register(M, n + 1, kind)
           N == NextMessages(n, M, kind, content)
           E == Extend(R, n + 1, content)
<1>1. /\ n + 1 \notin DOMAIN M /\ DOMAIN R = 1..(n + 1)
      /\ R[n + 1] = [kind |-> kind, body |-> <<>>] /\ \A j \in 1..n : R[j] = M[j]
  BY DEF Register
<1>2. NextId(n, M, kind) = n + 1
  BY DEF NextId
<1>3. N = [j \in 1..(n + 1) |-> IF j = n + 1 THEN [kind |-> kind, body |-> content] ELSE M[j]]
  BY DEF NextMessages
<1>4. Receive(ClientOf("open", M), AddMessages(n + 1, kind)) = ClientOf("open", R)
  <2>1. n + 1 \notin DOMAIN M
    OBVIOUS
  <2> QED BY <2>1, ReceivesAdd
<1> HIDE DEF R, N, E
<1>5. n + 1 \in DOMAIN R /\ R[n + 1].kind = kind /\ R[n + 1].body = <<>>
  BY <1>1
<1>6. Receive(ClientOf("open", R), AppendContent(n + 1, kind, content)) = ClientOf("open", E)
  <2>1. n + 1 \in DOMAIN R /\ R[n + 1].kind = kind
    BY <1>5
  <2> QED BY <2>1, ReceivesAppend DEF E
<1>7. E = [R EXCEPT ![n + 1] = [kind |-> kind, body |-> content]]
  <2>1. E = [R EXCEPT ![n + 1] = [kind |-> R[n + 1].kind, body |-> R[n + 1].body \o content]]
    BY DEF E, Extend
  <2>2. <<>> \o content = content
    BY ConcatEmptySeq
  <2> QED BY <1>5, <2>1, <2>2
<1>8. E = N
  <2>1. DOMAIN E = 1..(n + 1) /\ DOMAIN N = 1..(n + 1)
    BY <1>1, <1>3, <1>7
  <2>2. \A j \in 1..(n + 1) : E[j] = N[j]
    <3>1. E[n + 1] = N[n + 1]
      BY <1>1, <1>3, <1>7
    <3>2. ASSUME NEW j \in 1..n PROVE E[j] = N[j]
      BY <1>1, <1>3, <1>7
    <3>3. \A j \in 1..(n + 1) : j = n + 1 \/ j \in 1..n
      OBVIOUS
    <3> QED BY <3>1, <3>2, <3>3
  <2>3. E = [j \in 1..(n + 1) |-> E[j]] /\ N = [j \in 1..(n + 1) |-> N[j]]
    BY <1>3, <1>7, <2>1
  <2> QED BY <2>2, <2>3
<1> QED BY <1>2, <1>4, <1>6, <1>8 DEF N

\* A client in step is told of more content for its last message.
LEMMA ExtendsMessage ==
  ASSUME NEW n \in Nat, NEW M, DOMAIN M = 1..n, NEW kind, NEW content, ~Opens(n, M, kind)
  PROVE  Receive(ClientOf("open", M), AppendContent(NextId(n, M, kind), kind, content))
           = ClientOf("open", NextMessages(n, M, kind, content))
<1>1. n \in DOMAIN M /\ M[n].kind = kind /\ NextId(n, M, kind) = n
  BY DEF Opens, NextId
<1>2. NextMessages(n, M, kind, content)
        = [j \in 1..n |-> IF j = n THEN [kind |-> kind, body |-> M[n].body \o content] ELSE M[j]]
  BY DEF NextMessages
<1>3. Extend(M, n, content) = [M EXCEPT ![n] = [kind |-> M[n].kind, body |-> M[n].body \o content]]
  BY DEF Extend
<1>4. Extend(M, n, content) = NextMessages(n, M, kind, content)
  BY <1>1, <1>2, <1>3
<1>5. Receive(ClientOf("open", M), AppendContent(n, kind, content))
        = ClientOf("open", Extend(M, n, content))
  <2>1. n \in DOMAIN M /\ M[n].kind = kind
    BY <1>1
  <2> QED BY <2>1, ReceivesAppend
<1> QED BY <1>1, <1>4, <1>5

\* A client in step is in step with the adapter still when it has received what the
\* adapter makes of a frame with content.
LEMMA ReceivesContent ==
  ASSUME NEW g \in {"new", "open"}, NEW n \in Nat, NEW M, DOMAIN M = 1..n, n # 0 => g = "open",
         NEW kind, NEW content, content \in Seq(Content)
  PROVE  FoldLeft(Receive, ClientOf(g, M), Script(g, n, M, kind, content))
           = ClientOf("open", NextMessages(n, M, kind, content))
<1> DEFINE e == Script(g, n, M, kind, content)
           last == FoldLeft(Receive, ClientOf(g, M), e)
           add == AddMessages(n + 1, kind)
           append == AppendContent(NextId(n, M, kind), kind, content)
           c == ClientOf("open", NextMessages(n, M, kind, content))
<1> SUFFICES last = c
  OBVIOUS
<1>1. CASE g = "new"
  <2>1. e = <<StreamInit, CreateTask, add, append>>
    BY <1>1 DEF Script
  <2>2. Receive(Receive(ClientOf("open", M), add), append) = c
    <3>1. Opens(n, M, kind)
      BY <1>1 DEF Opens
    <3> QED BY <3>1, OpensMessage
  <2>3. /\ Receive(ClientOf(g, M), StreamInit) = ClientOf("begun", M)
        /\ Receive(ClientOf("begun", M), CreateTask) = ClientOf("open", M)
    BY <1>1, ReceivesPrelude
  <2> HIDE DEF e, add, append, c
  <2>4. DOMAIN e = 1..4 /\ e[1] = StreamInit /\ e[2] = CreateTask /\ e[3] = add /\ e[4] = append
    BY <2>1
  <2>5. last = Receive(Receive(Receive(Receive(ClientOf(g, M), e[1]), e[2]), e[3]), e[4])
    BY <2>4, ReceivesAll
  <2> HIDE DEF last
  <2> QED BY <2>2, <2>3, <2>4, <2>5
<1>2. CASE g = "open" /\ Opens(n, M, kind)
  <2>1. e = <<add, append>>
    BY <1>2 DEF Script
  <2>2. Receive(Receive(ClientOf("open", M), add), append) = c
    BY <1>2, OpensMessage
  <2> HIDE DEF e, add, append, c
  <2>3. DOMAIN e = 1..2 /\ e[1] = add /\ e[2] = append
    BY <2>1
  <2>4. last = Receive(Receive(ClientOf(g, M), e[1]), e[2])
    BY <2>3, ReceivesAll
  <2>5. ClientOf(g, M) = ClientOf("open", M)
    BY <1>2
  <2> HIDE DEF last
  <2> QED BY <2>2, <2>3, <2>4, <2>5
<1>3. CASE g = "open" /\ ~Opens(n, M, kind)
  <2>1. e = <<append>>
    BY <1>3 DEF Script
  <2>2. Receive(ClientOf("open", M), append) = c
    BY <1>3, ExtendsMessage
  <2> HIDE DEF e, append, c
  <2>3. DOMAIN e = 1..1 /\ e[1] = append
    BY <2>1
  <2>4. last = Receive(ClientOf(g, M), e[1])
    BY <2>3, ReceivesAll
  <2>5. ClientOf(g, M) = ClientOf("open", M)
    BY <1>3
  <2> HIDE DEF last
  <2> QED BY <2>2, <2>3, <2>4, <2>5
<1> QED BY <1>1, <1>2, <1>3

\* Sequences of a few elements, end to end.
LEMMA EmptyFirst ==
  ASSUME NEW w, NEW x
  PROVE  <<>> \o <<w>> = <<w>> /\ <<>> \o <<w, x>> = <<w, x>>
<1> DEFINE S == {w, x}
<1>1. <<w>> \in Seq(S) /\ <<w, x>> \in Seq(S)
  OBVIOUS
<1> HIDE DEF S
<1> QED BY <1>1, ConcatEmptySeq

\* A concatenation is known by its elements.
LEMMA ConcatIs ==
  ASSUME NEW S, NEW r \in Seq(S), NEW s \in Seq(S), NEW t \in Seq(S), Len(t) = Len(r) + Len(s),
         \A j \in 1..Len(r) : t[j] = r[j], \A j \in 1..Len(s) : t[Len(r) + j] = s[j]
  PROVE  r \o s = t
<1> DEFINE u == r \o s
<1>1. u \in Seq(S) /\ Len(u) = Len(r) + Len(s)
  BY ConcatProperties
<1>2. \A j \in 1..(Len(r) + Len(s)) : u[j] = IF j =< Len(r) THEN r[j] ELSE s[j - Len(r)]
  BY ConcatProperties
<1> HIDE DEF u
<1>3. Len(r) \in Nat /\ Len(s) \in Nat
  BY LenProperties
<1>4. ASSUME NEW j \in 1..(Len(r) + Len(s)) PROVE u[j] = t[j]
  <2>1. CASE j =< Len(r)
    BY <1>2, <1>3, <2>1
  <2>2. CASE j > Len(r)
    <3>1. j - Len(r) \in 1..Len(s) /\ Len(r) + (j - Len(r)) = j
      BY <1>3, <2>2
    <3>2. u[j] = s[j - Len(r)]
      BY <1>2, <1>3, <2>2
    <3>3. t[Len(r) + (j - Len(r))] = s[j - Len(r)]
      BY <3>1
    <3> QED BY <3>1, <3>2, <3>3
  <2> QED BY <1>3, <2>1, <2>2
<1>5. u = t
  BY <1>1, <1>4, SeqEqual
<1> QED BY <1>5 DEF u

\* Concatenations of short sequences.
LEMMA OneAndOne ==
  ASSUME NEW w, NEW x
  PROVE  <<w>> \o <<x>> = <<w, x>>
<1> DEFINE S == {w, x}
           r == <<w>>
           s == <<x>>
           t == <<w, x>>
<1>1. r \in Seq(S) /\ Len(r) = 1 /\ r[1] = w
  OBVIOUS
<1>2. s \in Seq(S) /\ Len(s) = 1 /\ s[1] = x
  OBVIOUS
<1>3. t \in Seq(S) /\ Len(t) = 2 /\ t[1] = w /\ t[2] = x
  OBVIOUS
<1> HIDE DEF r, s, t, S
<1>4. Len(t) = Len(r) + Len(s)
  BY <1>1, <1>2, <1>3
<1>5. \A j \in 1..Len(r) : t[j] = r[j]
  BY <1>1, <1>2, <1>3
<1>6. \A j \in 1..Len(s) : t[Len(r) + j] = s[j]
  <2>1. 1 + 1 = 2
    OBVIOUS
  <2> QED BY <1>1, <1>2, <1>3, <2>1
<1>7. r \o s = t
  BY <1>1, <1>2, <1>3, <1>4, <1>5, <1>6, ConcatIs
<1> QED BY <1>7 DEF r, s, t

\* Two and two elements.
LEMMA TwoAndTwo ==
  ASSUME NEW w, NEW x, NEW y, NEW z
  PROVE  <<w, x>> \o <<y, z>> = <<w, x, y, z>>
<1> DEFINE S == {w, x, y, z}
           r == <<w, x>>
           s == <<y, z>>
           t == <<w, x, y, z>>
<1>1. r \in Seq(S) /\ Len(r) = 2 /\ r[1] = w /\ r[2] = x
  OBVIOUS
<1>2. s \in Seq(S) /\ Len(s) = 2 /\ s[1] = y /\ s[2] = z
  OBVIOUS
<1>3. t \in Seq(S) /\ Len(t) = 4 /\ t[1] = w /\ t[2] = x /\ t[3] = y /\ t[4] = z
  OBVIOUS
<1> HIDE DEF r, s, t, S
<1>4. Len(t) = Len(r) + Len(s)
  BY <1>1, <1>2, <1>3
<1>5. \A j \in 1..Len(r) : t[j] = r[j]
  BY <1>1, <1>2, <1>3
<1>6. \A j \in 1..Len(s) : t[Len(r) + j] = s[j]
  <2>1. 2 + 1 = 3 /\ 2 + 2 = 4
    OBVIOUS
  <2> QED BY <1>1, <1>2, <1>3, <2>1
<1>7. r \o s = t
  BY <1>1, <1>2, <1>3, <1>4, <1>5, <1>6, ConcatIs
<1> QED BY <1>7 DEF r, s, t

\* Two elements and one.
LEMMA TwoAndOne ==
  ASSUME NEW w, NEW x, NEW y
  PROVE  <<w, x>> \o <<y>> = <<w, x, y>>
<1> DEFINE S == {w, x, y}
           r == <<w, x>>
           s == <<y>>
           t == <<w, x, y>>
<1>1. r \in Seq(S) /\ Len(r) = 2 /\ r[1] = w /\ r[2] = x
  OBVIOUS
<1>2. s \in Seq(S) /\ Len(s) = 1 /\ s[1] = y
  OBVIOUS
<1>3. t \in Seq(S) /\ Len(t) = 3 /\ t[1] = w /\ t[2] = x /\ t[3] = y
  OBVIOUS
<1> HIDE DEF r, s, t, S
<1>4. Len(t) = Len(r) + Len(s)
  BY <1>1, <1>2, <1>3
<1>5. \A j \in 1..Len(r) : t[j] = r[j]
  BY <1>1, <1>2, <1>3
<1>6. \A j \in 1..Len(s) : t[Len(r) + j] = s[j]
  <2>1. 2 + 1 = 3
    OBVIOUS
  <2> QED BY <1>1, <1>2, <1>3, <2>1
<1>7. r \o s = t
  BY <1>1, <1>2, <1>3, <1>4, <1>5, <1>6, ConcatIs
<1> QED BY <1>7 DEF r, s, t

\* What the adapter becomes, and what it says.
LEMMA RotatesIs ==
  ASSUME NEW g, NEW n, NEW p, NEW M, NEW kind
  PROVE  Rotates(AdapterOf(g, n, p, M), kind) <=> Opens(n, M, kind)
<1>1. OpenKind(n, M) # <<kind>> <=> Opens(n, M, kind)
  <2>1. CASE n = 0
    <3>1. <<>> # <<kind>>
      OBVIOUS
    <3> QED BY <2>1, <3>1 DEF OpenKind, Opens
  <2>2. CASE n # 0
    BY <2>2 DEF OpenKind, Opens
  <2> QED BY <2>1, <2>2
<1> QED BY <1>1 DEF Rotates, AdapterOf

\* After a frame with content the open message is of its kind.
LEMMA OpenAfter ==
  ASSUME NEW n \in Nat, NEW M, NEW kind, NEW content
  PROVE  OpenKind(NextId(n, M, kind), NextMessages(n, M, kind, content)) = <<kind>>
<1> DEFINE N == NextMessages(n, M, kind, content)
<1>1. CASE Opens(n, M, kind)
  <2>1. N = [j \in 1..(n + 1) |-> IF j = n + 1 THEN [kind |-> kind, body |-> content] ELSE M[j]]
    BY <1>1 DEF NextMessages
  <2> HIDE DEF N
  <2>2. N[n + 1].kind = kind
    BY <2>1
  <2>3. NextId(n, M, kind) = n + 1 /\ n + 1 # 0
    BY <1>1 DEF NextId
  <2>4. OpenKind(NextId(n, M, kind), N) = <<kind>>
    BY <2>2, <2>3 DEF OpenKind
  <2> QED BY <2>4 DEF N
<1>2. CASE ~Opens(n, M, kind)
  <2>1. N = [j \in 1..n |-> IF j = n THEN [kind |-> kind, body |-> M[n].body \o content] ELSE M[j]]
    BY <1>2 DEF NextMessages
  <2> HIDE DEF N
  <2>2. NextId(n, M, kind) = n /\ n # 0
    BY <1>2 DEF NextId, Opens
  <2>3. N[n].kind = kind
    BY <2>1, <2>2
  <2>4. OpenKind(NextId(n, M, kind), N) = <<kind>>
    BY <2>2, <2>3 DEF OpenKind
  <2> QED BY <2>4 DEF N
<1> QED BY <1>1, <1>2

\* The adapter's state and its events for a frame with content.
LEMMA TranslatesContent ==
  ASSUME NEW g \in {"new", "open"}, NEW n \in Nat, NEW p, NEW M, n # 0 => g = "open",
         NEW frame, HasContent(frame)
  PROVE  /\ TranslateAdapter(AdapterOf(g, n, p, M), frame)
              = AdapterOf("open", NextId(n, M, KindOf(frame)), p,
                          NextMessages(n, M, KindOf(frame), ContentOf(frame)))
         /\ TranslateEvents(AdapterOf(g, n, p, M), frame)
              = Script(g, n, M, KindOf(frame), ContentOf(frame))
<1> DEFINE a == AdapterOf(g, n, p, M)
           kind == KindOf(frame)
           content == ContentOf(frame)
           m == NextId(n, M, kind)
           N == NextMessages(n, M, kind, content)
           add == AddMessages(n + 1, kind)
           append == AppendContent(m, kind, content)
<1> SUFFICES /\ TranslateAdapter(a, frame) = AdapterOf("open", m, p, N)
             /\ TranslateEvents(a, frame) = Script(g, n, M, kind, content)
  OBVIOUS
<1>1. NeedsPrelude(frame)
  BY DEF HasContent, NeedsPrelude
<1>2. /\ TranslateAdapter(a, frame) = EnsureKind(Opened(a, frame), kind)
      /\ TranslateEvents(a, frame) = Prelude(a, frame) \o ContentEvents(a, frame)
  <2> HIDE DEF a, kind
  <2>1. TranslateAdapter(a, frame) = EnsureKind(Opened(a, frame), kind)
    BY DEF TranslateAdapter, HasContent, kind
  <2>2. TranslateEvents(a, frame) = Prelude(a, frame) \o ContentEvents(a, frame)
    BY DEF TranslateEvents, HasContent
  <2> QED BY <2>1, <2>2
<1>3. OpenKind(m, N) = <<kind>>
  BY OpenAfter
<1>4. Rotates(a, kind) <=> Opens(n, M, kind)
  BY RotatesIs
<1>5. Prelude(a, frame) = IF g = "open" THEN <<>> ELSE <<StreamInit, CreateTask>>
  BY <1>1 DEF Prelude, AdapterOf
<1>6. EnsureKindEvents(a, kind) = IF Opens(n, M, kind) THEN <<add>> ELSE <<>>
  BY <1>4 DEF EnsureKindEvents, AdapterOf
<1>7. EnsureKind(a, kind).message_id = m
  <2>1. CASE Opens(n, M, kind)
    BY <1>4, <2>1 DEF EnsureKind, AdapterOf, NextId
  <2>2. CASE ~Opens(n, M, kind)
    BY <1>4, <2>2 DEF EnsureKind, AdapterOf, NextId
  <2> QED BY <2>1, <2>2
<1>8. ContentEvents(a, frame) = EnsureKindEvents(a, kind) \o <<append>>
  BY <1>7 DEF ContentEvents
<1>9. Opened(a, frame) = AdapterOf("open", n, p, M)
  <2>1. a.sent_init \/ NeedsPrelude(frame) <=> TRUE
    BY <1>1
  <2>2. Opened(a, frame) = [a EXCEPT !.sent_init = TRUE]
    BY <2>1 DEF Opened
  <2> QED BY <2>2 DEF AdapterOf
<1>10. Rotates(AdapterOf("open", n, p, M), kind) <=> Opens(n, M, kind)
  BY RotatesIs
<1>11. Script(g, n, M, kind, content)
         = IF g = "new" THEN <<StreamInit, CreateTask, add, append>>
           ELSE IF Opens(n, M, kind) THEN <<add, append>> ELSE <<append>>
  BY DEF Script
<1> HIDE DEF a, kind, content, m, N, add, append
<1>12. TranslateAdapter(a, frame) = AdapterOf("open", m, p, N)
  <2>1. CASE Opens(n, M, kind)
    <3>1. m = n + 1
      BY <2>1 DEF NextId, m
    <3>2. EnsureKind(AdapterOf("open", n, p, M), kind)
            = [sent_init |-> TRUE, message_id |-> n + 1, active_kind |-> <<kind>>, pending_usage |-> p]
      BY <1>10, <2>1 DEF EnsureKind, AdapterOf
    <3>3. AdapterOf("open", m, p, N)
            = [sent_init |-> TRUE, message_id |-> n + 1, active_kind |-> <<kind>>, pending_usage |-> p]
      BY <1>3, <3>1 DEF AdapterOf
    <3> QED BY <1>2, <1>9, <3>2, <3>3
  <2>2. CASE ~Opens(n, M, kind)
    <3>1. m = n /\ OpenKind(n, M) = <<kind>>
      BY <2>2 DEF NextId, m, Opens, OpenKind
    <3> QED BY <1>2, <1>3, <1>9, <1>10, <2>2, <3>1 DEF EnsureKind, AdapterOf
  <2> QED BY <2>1, <2>2
<1>13. TranslateEvents(a, frame) = Script(g, n, M, kind, content)
  <2>1. CASE g = "new"
    <3>1. Opens(n, M, kind)
      BY <2>1 DEF Opens
    <3>2. ContentEvents(a, frame) = <<add, append>>
      BY <1>6, <1>8, <3>1, EmptyFirst, OneAndOne
    <3>3. <<StreamInit, CreateTask>> \o <<add, append>> = <<StreamInit, CreateTask, add, append>>
      BY TwoAndTwo
    <3>4. /\ Prelude(a, frame) = <<StreamInit, CreateTask>>
          /\ Script(g, n, M, kind, content) = <<StreamInit, CreateTask, add, append>>
      BY <1>5, <1>11, <2>1
    <3> QED BY <1>2, <3>2, <3>3, <3>4
  <2>2. CASE g = "open" /\ Opens(n, M, kind)
    <3>1. ContentEvents(a, frame) = <<add, append>>
      BY <1>6, <1>8, <2>2, EmptyFirst, OneAndOne
    <3> QED BY <1>2, <1>5, <1>11, <2>2, <3>1, EmptyFirst, OneAndOne
  <2>3. CASE g = "open" /\ ~Opens(n, M, kind)
    <3>1. ContentEvents(a, frame) = <<append>>
      BY <1>6, <1>8, <2>3, EmptyFirst, OneAndOne
    <3> QED BY <1>2, <1>5, <1>11, <2>3, <3>1, EmptyFirst, OneAndOne
  <2> QED BY <2>1, <2>2, <2>3
<1> QED BY <1>12, <1>13

\* Such a frame takes a turn in step to a turn in step.
LEMMA FlushContent ==
  ASSUME NEW bs, NEW g, NEW n, NEW p, NEW M, InStep(g, n, M),
         NEW frame, HasContent(frame), ContentOf(frame) \in Seq(Content)
  PROVE  Flush(TurnOf(bs, g, n, p, M), frame)
           = TurnOf(bs, "open", NextId(n, M, KindOf(frame)), p,
                    NextMessages(n, M, KindOf(frame), ContentOf(frame)))
<1> DEFINE a == AdapterOf(g, n, p, M)
           c == ClientOf(g, M)
           t == TurnOf(bs, g, n, p, M)
           kind == KindOf(frame)
           content == ContentOf(frame)
           m == NextId(n, M, kind)
           N == NextMessages(n, M, kind, content)
<1> SUFFICES Flush(t, frame) = TurnOf(bs, "open", m, p, N)
  OBVIOUS
<1>0. g \in {"new", "open"} /\ n \in Nat /\ DOMAIN M = 1..n /\ (n # 0 => g = "open")
  BY DEF InStep
<1>1. t = [blocks |-> bs, adapter |-> a, client |-> c]
  BY DEF TurnOf
<1>2. /\ TranslateAdapter(a, frame) = AdapterOf("open", m, p, N)
      /\ TranslateEvents(a, frame) = Script(g, n, M, kind, content)
  BY <1>0, TranslatesContent
<1>3. FoldLeft(Receive, c, Script(g, n, M, kind, content)) = ClientOf("open", N)
  <2> HIDE DEF kind
  <2>1. content \in Seq(Content)
    OBVIOUS
  <2> HIDE DEF content
  <2> QED BY <1>0, <2>1, ReceivesContent
<1>4. FoldLeft(Receive, c, TranslateEvents(a, frame)) = ClientOf("open", N)
  BY <1>2, <1>3
<1> HIDE DEF a, c, t, m, N, kind, content
<1>5. t.adapter = a /\ t.client = c
  BY <1>1
<1>6. Flush(t, frame) = [t EXCEPT !.adapter = TranslateAdapter(t.adapter, frame),
                                  !.client = FoldLeft(Receive, t.client, TranslateEvents(t.adapter, frame))]
  BY DEF Flush
<1>7. Flush(t, frame) = [blocks |-> bs, adapter |-> AdapterOf("open", m, p, N),
                         client |-> ClientOf("open", N)]
  BY <1>1, <1>2, <1>4, <1>5, <1>6
<1> QED BY <1>7 DEF TurnOf

\* Short sequences, and what is done to the elements of one, by name.
One(x) == <<x>>
Both(x, y) == <<x, y>>
Three(x, y, z) == <<x, y, z>>
Four(w, x, y, z) == <<w, x, y, z>>
PumpAll(t, e) == FoldLeft(Pump, t, e)

\* The frames of an event are flushed one after the other.
FlushAll(t, e) == FoldLeft(Flush, t, e)

\* An event yields no frame, one, or two.
LEMMA FlushesAll ==
  ASSUME NEW t, NEW e
  PROVE  /\ DOMAIN e = 1..0 => FlushAll(t, e) = t
         /\ DOMAIN e = 1..1 => FlushAll(t, e) = Flush(t, e[1])
         /\ DOMAIN e = 1..2 => FlushAll(t, e) = Flush(Flush(t, e[1]), e[2])
<1>1. \A c, x : Step("flush", c, x) = Flush(c, x)
  BY DEF Step
<1> DEFINE last == FoldLeft(Flush, t, e)
<1>2. \A n \in Nat : DOMAIN e = 1..n => Chain("flush", t, e, n, last)
  BY FoldFlush
<1>3. FlushAll(t, e) = last
  BY DEF FlushAll
<1> HIDE DEF last
<1>4. DOMAIN e = 1..0 => last = t
  BY <1>2, ChainIs
<1>5. DOMAIN e = 1..1 => last = Flush(t, e[1])
  <2>1. DOMAIN e = 1..1 => last = Step("flush", t, e[1])
    BY <1>2, ChainIs
  <2> QED BY <1>1, <2>1
<1>6. DOMAIN e = 1..2 => last = Flush(Flush(t, e[1]), e[2])
  <2>1. DOMAIN e = 1..2 => last = Step("flush", Step("flush", t, e[1]), e[2])
    BY <1>2, ChainIs
  <2> QED BY <1>1, <2>1
<1> QED BY <1>3, <1>4, <1>5, <1>6

\* No frame leaves the turn as it is.
LEMMA FlushesNone ==
  ASSUME NEW t
  PROVE  FlushAll(t, <<>>) = t
<1>1. DOMAIN <<>> = 1..0
  OBVIOUS
<1> QED BY <1>1, FlushesAll

\* One frame is flushed.
LEMMA FlushesOne ==
  ASSUME NEW t, NEW x
  PROVE  FlushAll(t, One(x)) = Flush(t, x)
<1> DEFINE d == One(x)
<1>1. DOMAIN d = 1..1 /\ d[1] = x
  BY DEF One
<1> HIDE DEF d
<1>2. FlushAll(t, d) = Flush(t, d[1])
  BY <1>1, FlushesAll
<1>3. FlushAll(t, d) = Flush(t, x)
  BY <1>1, <1>2
<1> QED BY <1>3 DEF d

\* Two frames are flushed one after the other.
LEMMA FlushesBoth ==
  ASSUME NEW t, NEW x, NEW y
  PROVE  FlushAll(t, Both(x, y)) = Flush(Flush(t, x), y)
<1> DEFINE d == Both(x, y)
<1>1. DOMAIN d = 1..2 /\ d[1] = x /\ d[2] = y
  BY DEF Both
<1> HIDE DEF d
<1>2. FlushAll(t, d) = Flush(Flush(t, d[1]), d[2])
  BY <1>1, FlushesAll
<1>3. FlushAll(t, d) = Flush(Flush(t, x), y)
  BY <1>1, <1>2
<1> QED BY <1>3 DEF d

\* The events of a content block are pumped one after the other.
LEMMA PumpsAll ==
  ASSUME NEW t, NEW x, NEW y
  PROVE  /\ PumpAll(t, Both(x, y)) = Pump(Pump(t, x), y)
         /\ \A z : PumpAll(t, Three(x, y, z)) = Pump(Pump(Pump(t, x), y), z)
         /\ \A z, w : PumpAll(t, Four(x, y, z, w)) = Pump(Pump(Pump(Pump(t, x), y), z), w)
<1>1. \A c, w : Step("pump", c, w) = Pump(c, w)
  BY DEF Step
<1>2. PumpAll(t, Both(x, y)) = Pump(Pump(t, x), y)
  <2> DEFINE e == Both(x, y)
             last == FoldLeft(Pump, t, e)
  <2>1. DOMAIN e = 1..2 /\ e[1] = x /\ e[2] = y
    BY DEF Both
  <2> HIDE DEF e
  <2>2. Chain("pump", t, e, 2, last)
    BY <2>1, FoldPump
  <2>3. PumpAll(t, e) = last
    BY DEF PumpAll
  <2> HIDE DEF last
  <2>4. last = Step("pump", Step("pump", t, e[1]), e[2])
    BY <2>2, ChainIs
  <2> QED BY <1>1, <2>1, <2>3, <2>4 DEF e
<1>3. ASSUME NEW z PROVE PumpAll(t, Three(x, y, z)) = Pump(Pump(Pump(t, x), y), z)
  <2> DEFINE e == Three(x, y, z)
             last == FoldLeft(Pump, t, e)
  <2>1. DOMAIN e = 1..3 /\ e[1] = x /\ e[2] = y /\ e[3] = z
    BY DEF Three
  <2> HIDE DEF e
  <2>2. Chain("pump", t, e, 3, last)
    BY <2>1, FoldPump
  <2>3. PumpAll(t, e) = last
    BY DEF PumpAll
  <2> HIDE DEF last
  <2>4. last = Step("pump", Step("pump", Step("pump", t, e[1]), e[2]), e[3])
    BY <2>2, ChainIs
  <2> QED BY <1>1, <2>1, <2>3, <2>4 DEF e
<1>4. ASSUME NEW z, NEW w PROVE PumpAll(t, Four(x, y, z, w)) = Pump(Pump(Pump(Pump(t, x), y), z), w)
  <2> DEFINE e == Four(x, y, z, w)
             last == FoldLeft(Pump, t, e)
  <2>1. DOMAIN e = 1..4 /\ e[1] = x /\ e[2] = y /\ e[3] = z /\ e[4] = w
    BY DEF Four
  <2> HIDE DEF e
  <2>2. Chain("pump", t, e, 4, last)
    BY <2>1, FoldPump
  <2>3. PumpAll(t, e) = last
    BY DEF PumpAll
  <2> HIDE DEF last
  <2>4. last = Step("pump", Step("pump", Step("pump", Step("pump", t, e[1]), e[2]), e[3]), e[4])
    BY <2>2, ChainIs
  <2> QED BY <1>1, <2>1, <2>3, <2>4 DEF e
<1> QED BY <1>2, <1>3, <1>4

\* An event changes the accumulator, then its frames are flushed.
LEMMA PumpIs ==
  ASSUME NEW bs, NEW g, NEW n, NEW p, NEW M, NEW ev
  PROVE  Pump(TurnOf(bs, g, n, p, M), ev)
           = FlushAll(TurnOf(HandleBlocks(bs, ev), g, n, p, M), HandleFrames(bs, ev))
<1> DEFINE t == TurnOf(bs, g, n, p, M)
           cs == HandleBlocks(bs, ev)
           fs == HandleFrames(bs, ev)
           u == TurnOf(cs, g, n, p, M)
<1>1. t.blocks = bs
  BY DEF TurnOf
<1>2. [t EXCEPT !.blocks = cs] = u
  <2> HIDE DEF cs
  <2> QED BY DEF TurnOf
<1> HIDE DEF t, u
<1>3. [t EXCEPT !.blocks = HandleBlocks(@, ev)] = u
  BY <1>1, <1>2
<1>4. HandleFrames(t.blocks, ev) = fs
  BY <1>1
<1> HIDE DEF fs
<1>5. Pump(t, ev) = FlushAll(u, fs)
  BY <1>3, <1>4 DEF Pump, FlushAll
<1> QED BY <1>5 DEF t, u, fs

\* An event without frames,
LEMMA PumpNone ==
  ASSUME NEW bs, NEW g, NEW n, NEW p, NEW M, NEW ev, HandleFrames(bs, ev) = <<>>
  PROVE  Pump(TurnOf(bs, g, n, p, M), ev) = TurnOf(HandleBlocks(bs, ev), g, n, p, M)
<1>1. Pump(TurnOf(bs, g, n, p, M), ev) = FlushAll(TurnOf(HandleBlocks(bs, ev), g, n, p, M), <<>>)
  BY PumpIs
<1> QED BY <1>1, FlushesNone

\* with one,
LEMMA PumpOne ==
  ASSUME NEW bs, NEW g, NEW n, NEW p, NEW M, NEW ev, NEW x, HandleFrames(bs, ev) = One(x)
  PROVE  Pump(TurnOf(bs, g, n, p, M), ev) = Flush(TurnOf(HandleBlocks(bs, ev), g, n, p, M), x)
<1>1. Pump(TurnOf(bs, g, n, p, M), ev) = FlushAll(TurnOf(HandleBlocks(bs, ev), g, n, p, M), One(x))
  BY PumpIs
<1> QED BY <1>1, FlushesOne

\* and with two.
LEMMA PumpBoth ==
  ASSUME NEW bs, NEW g, NEW n, NEW p, NEW M, NEW ev, NEW x, NEW y, HandleFrames(bs, ev) = Both(x, y)
  PROVE  Pump(TurnOf(bs, g, n, p, M), ev)
           = Flush(Flush(TurnOf(HandleBlocks(bs, ev), g, n, p, M), x), y)
<1>1. Pump(TurnOf(bs, g, n, p, M), ev) = FlushAll(TurnOf(HandleBlocks(bs, ev), g, n, p, M), Both(x, y))
  BY PumpIs
<1> QED BY <1>1, FlushesBoth

-----------------------------------------------------------------------------
(* Frames without content                                                  *)

IsQuiet(frame) == frame.type \in {"ToolUseInputDelta", "BlockStop"}

\* The adapter drops the frames that only the accumulator's state needs.
LEMMA FlushQuiet ==
  ASSUME NEW bs, NEW g \in {"new", "open"}, NEW n, NEW p, NEW M,
         NEW frame, IsQuiet(frame)
  PROVE  Flush(TurnOf(bs, g, n, p, M), frame) = TurnOf(bs, g, n, p, M)
<1> DEFINE a == AdapterOf(g, n, p, M)
           c == ClientOf(g, M)
           t == TurnOf(bs, g, n, p, M)
<1>1. t = [blocks |-> bs, adapter |-> a, client |-> c]
  BY DEF TurnOf
<1>2. ~HasContent(frame) /\ ~NeedsPrelude(frame) /\ frame.type # "UsageUpdate" /\ frame.type # "Done"
  BY DEF IsQuiet, HasContent, NeedsPrelude
<1>3. a.sent_init \in BOOLEAN
  BY DEF AdapterOf
<1>4. a = [a EXCEPT !.sent_init = a.sent_init]
  BY DEF AdapterOf
<1> HIDE DEF a, c
<1>5. TranslateAdapter(a, frame) = a
  <2>1. TranslateAdapter(a, frame) = Opened(a, frame)
    BY <1>2 DEF TranslateAdapter
  <2>2. a.sent_init \/ NeedsPrelude(frame) <=> a.sent_init
    BY <1>2
  <2>3. (a.sent_init \/ NeedsPrelude(frame)) = a.sent_init
    BY <1>3, <2>2
  <2>4. Opened(a, frame) = [a EXCEPT !.sent_init = a.sent_init]
    BY <2>3 DEF Opened
  <2> QED BY <1>4, <2>1, <2>4
<1>6. TranslateEvents(a, frame) = <<>>
  <2>1. Prelude(a, frame) = <<>>
    BY <1>2 DEF Prelude
  <2>2. TranslateEvents(a, frame) = <<>> \o <<>>
    BY <1>2, <2>1 DEF TranslateEvents
  <2>3. <<>> \in Seq({})
    OBVIOUS
  <2>4. <<>> \o <<>> = <<>>
    BY <2>3, ConcatEmptySeq
  <2> QED BY <2>2, <2>4
<1>7. FoldLeft(Receive, c, <<>>) = c
  <2>1. DOMAIN <<>> = 1..0
    OBVIOUS
  <2> QED BY <2>1, ReceivesAll
<1>8. FoldLeft(Receive, c, TranslateEvents(a, frame)) = c
  BY <1>6, <1>7
<1>9. t.adapter = a /\ t.client = c /\ t = [t EXCEPT !.adapter = a, !.client = c]
  <2> HIDE DEF t
  <2>1. t.adapter = a /\ t.client = c
    BY <1>1
  <2> DEFINE u == [t EXCEPT !.adapter = a, !.client = c]
  <2>2. u = [t EXCEPT !.adapter = a, !.client = c]
    OBVIOUS
  <2> HIDE DEF u
  <2>3. u = [blocks |-> bs, adapter |-> a, client |-> c]
    BY <1>1, <2>2
  <2>4. t = u
    BY <1>1, <2>3
  <2> QED BY <2>1, <2>4 DEF u
<1> HIDE DEF t
<1>10. Flush(t, frame) = [t EXCEPT !.adapter = TranslateAdapter(t.adapter, frame),
                                   !.client = FoldLeft(Receive, t.client, TranslateEvents(t.adapter, frame))]
  BY DEF Flush
<1>11. Flush(t, frame) = t
  BY <1>5, <1>8, <1>9, <1>10
<1> QED BY <1>11 DEF t

\* What is shown when a turn ends is what was shown before.
LEMMA FlushDone ==
  ASSUME NEW bs, NEW g \in {"new", "open"}, NEW n, NEW p, NEW M, NEW frame, frame.type = "Done"
  PROVE  Flush(TurnOf(bs, g, n, p, M), frame).client.messages = M
<1> DEFINE a == AdapterOf(g, n, p, M)
           c == ClientOf(g, M)
           t == TurnOf(bs, g, n, p, M)
           finished == StreamFinished(FinishReason(frame.reason), p)
           events == TranslateEvents(a, frame)
           last == FoldLeft(Receive, c, events)
<1>1. t = [blocks |-> bs, adapter |-> a, client |-> c]
  BY DEF TurnOf
<1>2. ~HasContent(frame) /\ NeedsPrelude(frame)
  BY DEF HasContent, NeedsPrelude
<1>3. a.pending_usage = p /\ (a.sent_init <=> g = "open")
  BY DEF AdapterOf
<1>4. Receive(ClientOf("open", M), finished).messages = M
  BY ReceivesFinished
<1>5. /\ Receive(ClientOf("new", M), StreamInit) = ClientOf("begun", M)
      /\ Receive(ClientOf("begun", M), CreateTask) = ClientOf("open", M)
  BY ReceivesPrelude
<1> HIDE DEF a
<1>6. events = Prelude(a, frame) \o <<finished>>
  BY <1>2, <1>3 DEF TranslateEvents
<1>7. Prelude(a, frame) = IF g = "open" THEN <<>> ELSE <<StreamInit, CreateTask>>
  BY <1>2, <1>3 DEF Prelude
<1>8. last.messages = M
  <2>1. CASE g = "open"
    <3> HIDE DEF events, finished
    <3>1. events = <<finished>>
      BY <1>6, <1>7, <2>1, EmptyFirst
    <3>2. DOMAIN events = 1..1 /\ events[1] = finished
      BY <3>1
    <3>3. last = Receive(c, events[1])
      BY <3>2, ReceivesAll
    <3> HIDE DEF last
    <3> QED BY <1>4, <2>1, <3>2, <3>3
  <2>2. CASE g = "new"
    <3> HIDE DEF events, finished
    <3>1. events = <<StreamInit, CreateTask>> \o <<finished>>
      BY <1>6, <1>7, <2>2
    <3>2. events = <<StreamInit, CreateTask, finished>>
      BY <3>1, TwoAndOne
    <3>3. DOMAIN events = 1..3 /\ events[1] = StreamInit /\ events[2] = CreateTask /\ events[3] = finished
      BY <3>2
    <3>4. last = Receive(Receive(Receive(c, events[1]), events[2]), events[3])
      BY <3>3, ReceivesAll
    <3> HIDE DEF last
    <3> QED BY <1>4, <1>5, <2>2, <3>3, <3>4
  <2> QED BY <2>1, <2>2
<1>9. t.adapter = a /\ t.client = c
  BY <1>1
<1>10. Flush(t, frame) = [t EXCEPT !.adapter = TranslateAdapter(a, frame), !.client = last]
  <2> HIDE DEF t, c
  <2> QED BY <1>9 DEF Flush
<1>11. Flush(t, frame) = [blocks |-> bs, adapter |-> TranslateAdapter(a, frame), client |-> last]
  <2> HIDE DEF c, last, t
  <2> QED BY <1>1, <1>10
<1>12. Flush(t, frame).client = last
  <2> HIDE DEF t, last
  <2> QED BY <1>11
<1> HIDE DEF last, t
<1>13. Flush(t, frame).client.messages = M
  BY <1>8, <1>12
<1> QED BY <1>13 DEF t

-----------------------------------------------------------------------------
(* A content block                                                         *)

\* The only block there is.
Only(k, kind, id, json) == [x \in {k} |-> [kind |-> kind, id |-> id, json |-> json]]

\* What reaches the accumulator, and what it yields.
StartOf(k, id, kind) == [type |-> "block_start", index |-> k, id |-> id, kind |-> kind]
DeltaOf(k, delta, c) == [type |-> "delta", index |-> k, chunk |-> c, delta |-> delta]
StopOf(k) == [type |-> "block_stop", index |-> k]
TextFrame(c) == [type |-> "TextDelta", text |-> <<c>>]
CallFrame(id, d) == [type |-> "ToolUse", id |-> id, input |-> d]
GrownFrame(k) == [type |-> "ToolUseInputDelta", index |-> k]
StopFrame(k) == [type |-> "BlockStop", index |-> k]

\* A content block starts when none is open.
LEMMA BlockStarts ==
  ASSUME NEW k, NEW id, NEW kind
  PROVE  /\ HandleBlocks(<<>>, StartOf(k, id, kind)) = Only(k, kind, id, <<>>)
         /\ HandleFrames(<<>>, StartOf(k, id, kind)) = <<>>
<1> DEFINE ev == StartOf(k, id, kind)
<1>1. ev.type = "block_start" /\ ev.index = k /\ ev.kind = kind /\ ev.id = id
  BY DEF StartOf
<1> HIDE DEF ev
<1>2. HandleFrames(<<>>, ev) = <<>>
  BY <1>1 DEF HandleFrames
<1>3. HandleBlocks(<<>>, ev) = Insert(<<>>, k, [kind |-> kind, id |-> id, json |-> <<>>])
  BY <1>1 DEF HandleBlocks, ParseBlockStart
<1>4. \A b : Insert(<<>>, k, b) = [x \in {k} |-> b]
  BY DEF Insert
<1>5. HandleBlocks(<<>>, ev) = Only(k, kind, id, <<>>)
  BY <1>3, <1>4 DEF Only
<1> QED BY <1>2, <1>5 DEF ev

\* A piece of text is passed on at once.
LEMMA TextGrows ==
  ASSUME NEW k, NEW id, NEW c
  PROVE  /\ HandleBlocks(Only(k, "text", id, <<>>), DeltaOf(k, "text_delta", c)) = Only(k, "text", id, <<>>)
         /\ HandleFrames(Only(k, "text", id, <<>>), DeltaOf(k, "text_delta", c)) = One(TextFrame(c))
<1> DEFINE bs == Only(k, "text", id, <<>>)
           ev == DeltaOf(k, "text_delta", c)
           b == [kind |-> "text", id |-> id, json |-> <<>>]
<1> SUFFICES HandleBlocks(bs, ev) = bs /\ HandleFrames(bs, ev) = One(TextFrame(c))
  OBVIOUS
<1>1. ev.type = "delta" /\ ev.index = k /\ ev.delta = "text_delta" /\ ev.chunk = c
  BY DEF DeltaOf
<1>2. k \in DOMAIN bs /\ bs[k] = b /\ DOMAIN bs \cup {k} = {k} /\ bs = [x \in {k} |-> b]
  BY DEF Only
<1>3. b.kind = "text"
  OBVIOUS
<1> HIDE DEF bs, ev, b
<1>4. BlockAt(bs, k) = b
  BY <1>2 DEF BlockAt
<1>5. HandleBlocks(bs, ev) = bs
  <2>1. HandleBlocks(bs, ev) = Insert(bs, k, GrowBlock(b, ev))
    BY <1>1, <1>4 DEF HandleBlocks
  <2>2. GrowBlock(b, ev) = b
    BY <1>3 DEF GrowBlock
  <2>3. Insert(bs, k, b) = [x \in {k} |-> b]
    BY <1>2 DEF Insert
  <2> QED BY <1>2, <2>1, <2>2, <2>3
<1>6. HandleFrames(bs, ev) = One(TextFrame(c))
  <2>1. HandleFrames(bs, ev) = DeltaFrames(b, ev)
    BY <1>1, <1>4 DEF HandleFrames
  <2>2. DeltaFrames(b, ev) = << [type |-> "TextDelta", text |-> <<ev.chunk>>] >>
    BY <1>1, <1>3 DEF DeltaFrames
  <2> QED BY <1>1, <2>1, <2>2 DEF One, TextFrame
<1> QED BY <1>5, <1>6

\* A piece of a tool call's input is kept after the pieces before it.
LEMMA CallGrows ==
  ASSUME NEW k, NEW id, NEW c, NEW d, NEW e, e = Append(d, c)
  PROVE  /\ HandleBlocks(Only(k, "tool_use", id, d), DeltaOf(k, "input_json_delta", c))
              = Only(k, "tool_use", id, e)
         /\ HandleFrames(Only(k, "tool_use", id, d), DeltaOf(k, "input_json_delta", c))
              = One(GrownFrame(k))
<1> DEFINE bs == Only(k, "tool_use", id, d)
           ev == DeltaOf(k, "input_json_delta", c)
           b == [kind |-> "tool_use", id |-> id, json |-> d]
<1> SUFFICES /\ HandleBlocks(bs, ev) = Only(k, "tool_use", id, e)
             /\ HandleFrames(bs, ev) = One(GrownFrame(k))
  OBVIOUS
<1>1. ev.type = "delta" /\ ev.index = k /\ ev.delta = "input_json_delta" /\ ev.chunk = c
  BY DEF DeltaOf
<1>2. k \in DOMAIN bs /\ bs[k] = b /\ DOMAIN bs \cup {k} = {k}
  BY DEF Only
<1>3. b.kind = "tool_use" /\ b.json = d
  OBVIOUS
<1>5. [b EXCEPT !.json = e] = [kind |-> "tool_use", id |-> id, json |-> e]
  <2> DEFINE u == [b EXCEPT !.json = e]
  <2>1. u = [b EXCEPT !.json = e]
    OBVIOUS
  <2> HIDE DEF u
  <2>2. u = [kind |-> "tool_use", id |-> id, json |-> e]
    BY <2>1
  <2> QED BY <2>2 DEF u
<1>6. Only(k, "tool_use", id, e) = [x \in {k} |-> [kind |-> "tool_use", id |-> id, json |-> e]]
  BY DEF Only
<1> HIDE DEF bs, ev, b
<1>7. BlockAt(bs, k) = b
  BY <1>2 DEF BlockAt
<1>8. HandleBlocks(bs, ev) = Only(k, "tool_use", id, e)
  <2>1. HandleBlocks(bs, ev) = Insert(bs, k, GrowBlock(b, ev))
    BY <1>1, <1>7 DEF HandleBlocks
  <2> DEFINE u == [b EXCEPT !.json = e]
             v == [kind |-> "tool_use", id |-> id, json |-> e]
  <2>2. GrowBlock(b, ev) = u
    BY <1>1, <1>3 DEF GrowBlock
  <2>3. \A x : Insert(bs, k, x) = [y \in {k} |-> x]
    BY <1>2 DEF Insert
  <2>4. u = v /\ Only(k, "tool_use", id, e) = [x \in {k} |-> v]
    BY <1>5, <1>6
  <2> HIDE DEF u, v
  <2> QED BY <2>1, <2>2, <2>3, <2>4
<1>9. HandleFrames(bs, ev) = One(GrownFrame(k))
  <2>1. HandleFrames(bs, ev) = DeltaFrames(b, ev)
    BY <1>1, <1>7 DEF HandleFrames
  <2>2. DeltaFrames(b, ev) = << [type |-> "ToolUseInputDelta", index |-> ev.index] >>
    BY <1>1, <1>3 DEF DeltaFrames
  <2> QED BY <1>1, <2>1, <2>2 DEF One, GrownFrame
<1> QED BY <1>8, <1>9

\* A piece of reasoning for a block that has not started opens one of text, and is dropped.
LEMMA ReasoningDropped ==
  ASSUME NEW k, NEW c
  PROVE  /\ HandleBlocks(<<>>, DeltaOf(k, "thinking_delta", c)) = Only(k, "text", 0, <<>>)
         /\ HandleFrames(<<>>, DeltaOf(k, "thinking_delta", c)) = <<>>
<1> DEFINE ev == DeltaOf(k, "thinking_delta", c)
           b == [kind |-> "text", id |-> 0, json |-> <<>>]
<1>1. ev.type = "delta" /\ ev.index = k /\ ev.delta = "thinking_delta"
  BY DEF DeltaOf
<1>2. BlockAt(<<>>, k) = b
  BY DEF BlockAt, AutoTextBlock
<1>3. b.kind = "text"
  OBVIOUS
<1>4. Only(k, "text", 0, <<>>) = [x \in {k} |-> b]
  BY DEF Only
<1>5. \A x : Insert(<<>>, k, x) = [y \in {k} |-> x]
  BY DEF Insert
<1> HIDE DEF ev, b
<1>6. HandleBlocks(<<>>, ev) = Insert(<<>>, k, b)
  <2>1. HandleBlocks(<<>>, ev) = Insert(<<>>, k, GrowBlock(b, ev))
    BY <1>1, <1>2 DEF HandleBlocks
  <2>2. GrowBlock(b, ev) = b
    BY <1>3 DEF GrowBlock
  <2> QED BY <2>1, <2>2
<1>7. HandleFrames(<<>>, ev) = <<>>
  <2>1. HandleFrames(<<>>, ev) = DeltaFrames(b, ev)
    BY <1>1, <1>2 DEF HandleFrames
  <2>2. DeltaFrames(b, ev) = <<>>
    BY <1>1, <1>3 DEF DeltaFrames
  <2> QED BY <2>1, <2>2
<1> QED BY <1>4, <1>5, <1>6, <1>7 DEF ev

\* The end of a block forgets it.
LEMMA BlockEnds ==
  ASSUME NEW k, NEW id
  PROVE  /\ \A kind, json : HandleBlocks(Only(k, kind, id, json), StopOf(k)) = <<>>
         /\ HandleFrames(Only(k, "text", id, <<>>), StopOf(k)) = One(StopFrame(k))
<1> DEFINE ev == StopOf(k)
           text == Only(k, "text", id, <<>>)
           stop == [type |-> "BlockStop", index |-> k]
<1> SUFFICES /\ \A kind, json : HandleBlocks(Only(k, kind, id, json), ev) = <<>>
             /\ HandleFrames(text, ev) = One(StopFrame(k))
  OBVIOUS
<1>1. ev.type = "block_stop" /\ ev.index = k
  BY DEF StopOf
<1>2. k \in DOMAIN text /\ text[k].kind = "text"
  BY DEF Only
<1> HIDE DEF ev, text
<1>3. ASSUME NEW kind, NEW json
      PROVE  HandleBlocks(Only(k, kind, id, json), ev) = <<>>
  <2> DEFINE bs == Only(k, kind, id, json)
  <2>1. DOMAIN bs \ {k} = {}
    BY DEF Only
  <2> HIDE DEF bs
  <2>2. HandleBlocks(bs, ev) = Restrict(bs, DOMAIN bs \ {k})
    BY <1>1 DEF HandleBlocks
  <2>3. Restrict(bs, {}) = <<>>
    BY DEF Restrict
  <2>4. HandleBlocks(bs, ev) = <<>>
    BY <2>1, <2>2, <2>3
  <2> QED BY <2>4 DEF bs
<1>4. HandleFrames(text, ev) = One(StopFrame(k))
  <2>1. HandleFrames(text, ev) = StopFrames(text, ev)
    BY <1>1 DEF HandleFrames
  <2>2. StopFrames(text, ev) = << [type |-> "BlockStop", index |-> ev.index] >>
    BY <1>1, <1>2 DEF StopFrames
  <2> QED BY <1>1, <2>1, <2>2 DEF One, StopFrame
<1> QED BY <1>3, <1>4

\* The end of a tool call's block passes on the call, with its input as it parses.
LEMMA CallEnds ==
  ASSUME NEW k, NEW id, NEW d, NEW e, e = ParseJson(d)
  PROVE  HandleFrames(Only(k, "tool_use", id, d), StopOf(k))
           = Both(CallFrame(id, e), StopFrame(k))
<1> DEFINE ev == StopOf(k)
           tool == Only(k, "tool_use", id, d)
           stop == [type |-> "BlockStop", index |-> k]
<1> SUFFICES HandleFrames(tool, ev) = << [type |-> "ToolUse", id |-> id, input |-> e], stop >>
  BY DEF Both, CallFrame, StopFrame
<1>1. ev.type = "block_stop" /\ ev.index = k
  BY DEF StopOf
<1>2. k \in DOMAIN tool /\ tool[k].kind = "tool_use" /\ tool[k].id = id /\ tool[k].json = d
  BY DEF Only
<1> HIDE DEF ev, tool
<1>4. HandleFrames(tool, ev) = StopFrames(tool, ev)
  BY <1>1 DEF HandleFrames
<1> HIDE DEF stop
<1>6. ev.index \in DOMAIN tool /\ tool[ev.index].kind = "tool_use" /\ tool[ev.index].id = id
      /\ ParseJson(tool[ev.index].json) = e
  BY <1>1, <1>2
<1>7. [type |-> "BlockStop", index |-> ev.index] = stop
  BY <1>1 DEF stop
<1>8. StopFrames(tool, ev) = << [type |-> "ToolUse", id |-> tool[ev.index].id,
                                 input |-> ParseJson(tool[ev.index].json)], stop >>
  BY <1>6, <1>7 DEF StopFrames
<1> QED BY <1>4, <1>6, <1>8

\* An input of two pieces is whole if the second piece, and only that, closes it; one
\* that nothing closes is the empty object.
LEMMA ParsesWhole ==
  ASSUME NEW c, NEW e, ~c.closes
  PROVE  /\ e.closes => ParseJson(<<c, e>>) = <<c, e>>
         /\ ParseJson(<<c>>) = EmptyObject
<1> DEFINE d == <<c, e>>
           f == <<c>>
<1>1. Len(d) = 2 /\ d[1] = c /\ d[2] = e /\ d # <<>>
  OBVIOUS
<1>2. Len(f) = 1 /\ f[1] = c
  OBVIOUS
<1> HIDE DEF d, f
<1>3. ASSUME e.closes PROVE ParseJson(d) = d
  <2>1. \A i \in 1..Len(d) : d[i].closes <=> i = Len(d)
    BY <1>1, <1>3
  <2> QED BY <1>1, <2>1 DEF ParseJson
<1>4. ParseJson(f) = EmptyObject
  <2>1. ~(\A i \in 1..Len(f) : f[i].closes <=> i = Len(f))
    BY <1>2
  <2> QED BY <2>1 DEF ParseJson
<1> QED BY <1>3, <1>4 DEF d, f

\* A content block shows one piece of content of its kind.
TextContent(c) == << [kind |-> "agent_output", chunk |-> c] >>
CallContent(id, d) == << [kind |-> "tool_call", id |-> id, input |-> d] >>

\* A frame of text has content of its kind.
LEMMA TextFrames ==
  ASSUME NEW c \in Chunk
  PROVE  /\ HasContent(TextFrame(c)) /\ KindOf(TextFrame(c)) = "agent_output"
         /\ ContentOf(TextFrame(c)) = TextContent(c) /\ TextContent(c) \in Seq(Content)
<1> DEFINE frame == TextFrame(c)
           d == <<c>>
<1>1. Len(d) = 1 /\ d[1] = c
  OBVIOUS
<1>2. frame.text = d /\ frame.type = "TextDelta"
  BY DEF TextFrame
<1> HIDE DEF d, frame
<1>3. HasContent(frame) /\ KindOf(frame) = "agent_output"
  BY <1>2 DEF HasContent, KindOf
<1>4. ContentOf(frame) = [i \in 1..1 |-> [kind |-> "agent_output", chunk |-> d[i]]]
  BY <1>1, <1>2, <1>3 DEF ContentOf
<1>5. ContentOf(frame) = [i \in 1..1 |-> [kind |-> "agent_output", chunk |-> c]]
  BY <1>1, <1>4
<1>6. ContentOf(frame) = TextContent(c)
  BY <1>5 DEF TextContent
<1>7. TextContent(c) \in Seq(Content)
  <2>1. [kind |-> "agent_output", chunk |-> c] \in Content
    BY DEF Content
  <2> QED BY <2>1 DEF TextContent
<1> QED BY <1>3, <1>6, <1>7 DEF frame

\* So has the frame of a call.
LEMMA CallFrames ==
  ASSUME NEW id \in Nat, NEW d \in Seq(Chunk)
  PROVE  /\ HasContent(CallFrame(id, d)) /\ KindOf(CallFrame(id, d)) = "tool_call"
         /\ ContentOf(CallFrame(id, d)) = CallContent(id, d) /\ CallContent(id, d) \in Seq(Content)
<1> DEFINE frame == CallFrame(id, d)
<1>2. frame.type = "ToolUse" /\ frame.id = id /\ frame.input = d
  BY DEF CallFrame
<1> HIDE DEF frame
<1>3. HasContent(frame) /\ KindOf(frame) = "tool_call"
  BY <1>2 DEF HasContent, KindOf
<1>4. ContentOf(frame) = CallContent(id, d)
  BY <1>2 DEF ContentOf, CallContent
<1>5. CallContent(id, d) \in Seq(Content)
  <2>1. [kind |-> "tool_call", id |-> id, input |-> d] \in Content
    BY DEF Content
  <2> QED BY <2>1 DEF CallContent
<1> QED BY <1>3, <1>4, <1>5 DEF frame

\* The others have none.
LEMMA QuietFrames ==
  ASSUME NEW k
  PROVE  IsQuiet(GrownFrame(k)) /\ IsQuiet(StopFrame(k))
  BY DEF IsQuiet, GrownFrame, StopFrame

\* A block of text, start to end: its text reaches the client.
LEMMA TextPumped ==
  ASSUME NEW k, NEW id, NEW c \in Chunk, NEW g, NEW n, NEW p, NEW M, InStep(g, n, M)
  PROVE  Pump(Pump(Pump(TurnOf(<<>>, g, n, p, M), StartOf(k, id, "text")),
                   DeltaOf(k, "text_delta", c)), StopOf(k))
           = TurnOf(<<>>, "open", NextId(n, M, "agent_output"), p,
                    NextMessages(n, M, "agent_output", TextContent(c)))
<1> DEFINE bs == Only(k, "text", id, <<>>)
           m == NextId(n, M, "agent_output")
           N == NextMessages(n, M, "agent_output", TextContent(c))
<1>1. Pump(TurnOf(<<>>, g, n, p, M), StartOf(k, id, "text")) = TurnOf(bs, g, n, p, M)
  BY BlockStarts, PumpNone
<1>2. /\ HandleBlocks(bs, DeltaOf(k, "text_delta", c)) = bs
      /\ HandleFrames(bs, DeltaOf(k, "text_delta", c)) = One(TextFrame(c))
  BY TextGrows
<1>3. /\ HandleBlocks(bs, StopOf(k)) = <<>>
      /\ HandleFrames(bs, StopOf(k)) = One(StopFrame(k))
  BY BlockEnds
<1> HIDE DEF bs
<1>4. Flush(TurnOf(bs, g, n, p, M), TextFrame(c)) = TurnOf(bs, "open", m, p, N)
  <2> DEFINE frame == TextFrame(c)
  <2>1. /\ HasContent(frame) /\ KindOf(frame) = "agent_output"
        /\ ContentOf(frame) = TextContent(c) /\ ContentOf(frame) \in Seq(Content)
    BY TextFrames
  <2> HIDE DEF frame, m, N
  <2>2. Flush(TurnOf(bs, g, n, p, M), frame)
          = TurnOf(bs, "open", NextId(n, M, KindOf(frame)), p,
                   NextMessages(n, M, KindOf(frame), ContentOf(frame)))
    <3>1. HasContent(frame) /\ ContentOf(frame) \in Seq(Content)
      BY <2>1
    <3> QED BY <3>1, FlushContent
  <2>3. Flush(TurnOf(bs, g, n, p, M), frame) = TurnOf(bs, "open", m, p, N)
    BY <2>1, <2>2 DEF m, N
  <2> QED BY <2>3 DEF frame
<1> HIDE DEF m, N
<1>5. Pump(TurnOf(bs, g, n, p, M), DeltaOf(k, "text_delta", c)) = TurnOf(bs, "open", m, p, N)
  BY <1>2, <1>4, PumpOne
<1>6. Flush(TurnOf(<<>>, "open", m, p, N), StopFrame(k)) = TurnOf(<<>>, "open", m, p, N)
  BY QuietFrames, FlushQuiet
<1>7. Pump(TurnOf(bs, "open", m, p, N), StopOf(k)) = TurnOf(<<>>, "open", m, p, N)
  BY <1>3, <1>6, PumpOne
<1> QED BY <1>1, <1>5, <1>7 DEF m, N

\* A piece of a tool call's input changes nothing but the block.
Grown(d, c) == Append(d, c)
LEMMA PiecePumped ==
  ASSUME NEW k, NEW id, NEW c, NEW d, NEW g \in {"new", "open"}, NEW n, NEW p, NEW M
  PROVE  Pump(TurnOf(Only(k, "tool_use", id, d), g, n, p, M), DeltaOf(k, "input_json_delta", c))
           = TurnOf(Only(k, "tool_use", id, Grown(d, c)), g, n, p, M)
<1> DEFINE bs == Only(k, "tool_use", id, d)
           e == Grown(d, c)
           cs == Only(k, "tool_use", id, e)
           ev == DeltaOf(k, "input_json_delta", c)
<1>1. HandleBlocks(bs, ev) = cs /\ HandleFrames(bs, ev) = One(GrownFrame(k))
  <2>1. e = Append(d, c)
    BY DEF Grown
  <2> HIDE DEF e
  <2> QED BY <2>1, CallGrows
<1> HIDE DEF bs, cs, ev
<1>2. Flush(TurnOf(cs, g, n, p, M), GrownFrame(k)) = TurnOf(cs, g, n, p, M)
  BY QuietFrames, FlushQuiet
<1>3. Pump(TurnOf(bs, g, n, p, M), ev) = TurnOf(cs, g, n, p, M)
  BY <1>1, <1>2, PumpOne
<1> QED BY <1>3 DEF bs, cs, ev

\* At the end of its block a tool call reaches the client.
LEMMA CallPumped ==
  ASSUME NEW k, NEW id \in Nat, NEW d, NEW e \in Seq(Chunk), e = ParseJson(d),
         NEW g, NEW n, NEW p, NEW M, InStep(g, n, M)
  PROVE  Pump(TurnOf(Only(k, "tool_use", id, d), g, n, p, M), StopOf(k))
           = TurnOf(<<>>, "open", NextId(n, M, "tool_call"), p,
                    NextMessages(n, M, "tool_call", CallContent(id, e)))
<1> DEFINE cs == Only(k, "tool_use", id, d)
           m == NextId(n, M, "tool_call")
           N == NextMessages(n, M, "tool_call", CallContent(id, e))
<1>3. /\ HandleBlocks(cs, StopOf(k)) = <<>>
      /\ HandleFrames(cs, StopOf(k)) = Both(CallFrame(id, e), StopFrame(k))
  BY BlockEnds, CallEnds
<1> HIDE DEF cs
<1>6. Flush(TurnOf(<<>>, g, n, p, M), CallFrame(id, e)) = TurnOf(<<>>, "open", m, p, N)
  <2>1. /\ HasContent(CallFrame(id, e)) /\ KindOf(CallFrame(id, e)) = "tool_call"
        /\ ContentOf(CallFrame(id, e)) = CallContent(id, e) /\ ContentOf(CallFrame(id, e)) \in Seq(Content)
    BY CallFrames
  <2>2. Flush(TurnOf(<<>>, g, n, p, M), CallFrame(id, e))
          = TurnOf(<<>>, "open", NextId(n, M, KindOf(CallFrame(id, e))), p,
                   NextMessages(n, M, KindOf(CallFrame(id, e)), ContentOf(CallFrame(id, e))))
    BY <2>1, FlushContent
  <2> QED BY <2>1, <2>2
<1> HIDE DEF m, N
<1>7. Flush(TurnOf(<<>>, "open", m, p, N), StopFrame(k)) = TurnOf(<<>>, "open", m, p, N)
  BY QuietFrames, FlushQuiet
<1>8. Pump(TurnOf(cs, g, n, p, M), StopOf(k)) = TurnOf(<<>>, "open", m, p, N)
  BY <1>3, <1>6, <1>7, PumpBoth
<1> QED BY <1>8 DEF cs, m, N

\* A block of reasoning, from its first piece to its end, leaves no trace.
LEMMA ReasoningPumped ==
  ASSUME NEW k, NEW c, NEW g \in {"new", "open"}, NEW n, NEW p, NEW M
  PROVE  Pump(Pump(TurnOf(<<>>, g, n, p, M), DeltaOf(k, "thinking_delta", c)), StopOf(k))
           = TurnOf(<<>>, g, n, p, M)
<1> DEFINE bs == Only(k, "text", 0, <<>>)
<1>1. Pump(TurnOf(<<>>, g, n, p, M), DeltaOf(k, "thinking_delta", c)) = TurnOf(bs, g, n, p, M)
  BY ReasoningDropped, PumpNone
<1>2. HandleBlocks(bs, StopOf(k)) = <<>> /\ HandleFrames(bs, StopOf(k)) = One(StopFrame(k))
  BY BlockEnds
<1> HIDE DEF bs
<1>3. Flush(TurnOf(<<>>, g, n, p, M), StopFrame(k)) = TurnOf(<<>>, g, n, p, M)
  BY QuietFrames, FlushQuiet
<1>4. Pump(TurnOf(bs, g, n, p, M), StopOf(k)) = TurnOf(<<>>, g, n, p, M)
  BY <1>2, <1>3, PumpOne
<1> QED BY <1>1, <1>4

-----------------------------------------------------------------------------
(* An answer                                                               *)

PartKind(part) == IF part \in {"tool", "cut"} THEN "tool_call" ELSE "agent_output"
PartText(part) == IF part = "blank" THEN Space ELSE FirstChunk
PartInput(part) == IF part = "tool" THEN <<FirstChunk, LastChunk>> ELSE EmptyObject
PartContent(part) ==
  IF part \in {"tool", "cut"} THEN CallContent(1 + parts, PartInput(part))
  ELSE TextContent(PartText(part))

\* The chunks of a content block.
LEMMA PartChunks ==
  ASSUME parts \in Nat
  PROVE  /\ FirstChunk \in Chunk /\ FirstChunk.n \notin {0, 1} /\ ~FirstChunk.closes
         /\ LastChunk \in Chunk /\ LastChunk.closes
         /\ Space \in Chunk /\ Space.n = 0
<1>1. 200 + 2 * parts \in Nat \ {0, 1} /\ 201 + 2 * parts \in Nat
  OBVIOUS
<1> QED BY <1>1 DEF FirstChunk, LastChunk, Space, Chunk

\* Each part of an answer but reasoning reaches the client as one piece of content.
LEMMA PartPumped ==
  ASSUME parts \in Nat, NEW part \in {"text", "blank", "tool", "cut"}, NEW g, NEW n, NEW p, NEW M,
         InStep(g, n, M)
  PROVE  PumpAll(TurnOf(<<>>, g, n, p, M), BlockEvents(part))
           = TurnOf(<<>>, "open", NextId(n, M, PartKind(part)), p,
                    NextMessages(n, M, PartKind(part), PartContent(part)))
<1> DEFINE t == TurnOf(<<>>, g, n, p, M)
           id == 1 + parts
           first == FirstChunk
           rest == LastChunk
           d == <<first>>
           e == <<first, rest>>
           z == <<>>
           begun == TurnOf(Only(parts, "tool_use", id, z), g, n, p, M)
           half == TurnOf(Only(parts, "tool_use", id, d), g, n, p, M)
           whole == TurnOf(Only(parts, "tool_use", id, e), g, n, p, M)
           start == StartOf(parts, id, "tool_use")
           one == DeltaOf(parts, "input_json_delta", first)
           two == DeltaOf(parts, "input_json_delta", rest)
<1>0. /\ first \in Chunk /\ ~first.closes /\ rest \in Chunk /\ rest.closes
      /\ id \in Nat /\ g \in {"new", "open"}
  BY PartChunks DEF InStep
<1>1. d = Append(z, first) /\ e = Append(d, rest) /\ e \in Seq(Chunk)
  <2> HIDE DEF first, rest
  <2> QED BY <1>0
<1>2. ParseJson(e) = e /\ ParseJson(d) = EmptyObject
  <2> HIDE DEF first, rest
  <2> QED BY <1>0, ParsesWhole
<1>3. EmptyObject \in Seq(Chunk)
  BY EmptySeq DEF EmptyObject
<1>4. Pump(t, start) = begun
  BY BlockStarts, PumpNone
<1>5. Pump(begun, one) = half /\ Pump(half, two) = whole
  <2>1. g \in {"new", "open"} /\ Grown(z, first) = d /\ Grown(d, rest) = e
    BY <1>0, <1>1 DEF Grown
  <2> HIDE DEF id, first, rest, z, d, e
  <2>2. Pump(begun, one) = half
    BY <2>1, PiecePumped
  <2>3. Pump(half, two) = whole
    BY <2>1, PiecePumped
  <2> QED BY <2>2, <2>3
<1>6. CASE part = "tool"
  <2>1. BlockEvents(part) = Four(start, one, two, StopOf(parts))
    BY <1>6 DEF BlockEvents, BlockStart, Delta, BlockStop, StartOf, DeltaOf, StopOf, Four
  <2>2. PumpAll(t, BlockEvents(part)) = Pump(Pump(Pump(Pump(t, start), one), two), StopOf(parts))
    <3> HIDE DEF t, start, one, two
    <3> QED BY <2>1, PumpsAll
  <2>3. PumpAll(t, BlockEvents(part)) = Pump(whole, StopOf(parts))
    <3> HIDE DEF t, start, one, two, begun, half, whole
    <3> QED BY <1>4, <1>5, <2>2
  <2>4. PartContent(part) = CallContent(id, e) /\ PartKind(part) = "tool_call"
    BY <1>6 DEF PartContent, PartKind, PartInput
  <2>5. Pump(whole, StopOf(parts))
          = TurnOf(<<>>, "open", NextId(n, M, "tool_call"), p,
                   NextMessages(n, M, "tool_call", CallContent(id, e)))
    <3>1. id \in Nat /\ e \in Seq(Chunk) /\ e = ParseJson(e)
      BY <1>0, <1>1, <1>2
    <3> HIDE DEF id, e
    <3> QED BY <3>1, CallPumped
  <2> HIDE DEF whole, e, id
  <2> QED BY <2>3, <2>4, <2>5
<1>7. CASE part = "cut"
  <2>1. BlockEvents(part) = Three(start, one, StopOf(parts))
    BY <1>7 DEF BlockEvents, BlockStart, Delta, BlockStop, StartOf, DeltaOf, StopOf, Three
  <2>2. PumpAll(t, BlockEvents(part)) = Pump(Pump(Pump(t, start), one), StopOf(parts))
    <3> HIDE DEF t, start, one
    <3> QED BY <2>1, PumpsAll
  <2>3. PumpAll(t, BlockEvents(part)) = Pump(half, StopOf(parts))
    <3> HIDE DEF t, start, one, begun, half
    <3> QED BY <1>4, <1>5, <2>2
  <2>4. PartContent(part) = CallContent(id, EmptyObject) /\ PartKind(part) = "tool_call"
    BY <1>7 DEF PartContent, PartKind, PartInput
  <2>5. Pump(half, StopOf(parts))
          = TurnOf(<<>>, "open", NextId(n, M, "tool_call"), p,
                   NextMessages(n, M, "tool_call", CallContent(id, EmptyObject)))
    <3> HIDE DEF id, d
    <3> QED BY <1>0, <1>2, <1>3, CallPumped
  <2> HIDE DEF half, id
  <2> QED BY <2>3, <2>4, <2>5
<1>8. CASE part \in {"text", "blank"}
  <2> DEFINE c == PartText(part)
  <2>1. BlockEvents(part) = Three(StartOf(parts, id, "text"), DeltaOf(parts, "text_delta", c),
                                  StopOf(parts))
    BY <1>8 DEF BlockEvents, PartText, BlockStart, Delta, BlockStop, StartOf, DeltaOf, StopOf, Three
  <2>2. PumpAll(t, BlockEvents(part))
          = Pump(Pump(Pump(t, StartOf(parts, id, "text")), DeltaOf(parts, "text_delta", c)), StopOf(parts))
    BY <2>1, PumpsAll
  <2>3. c \in Chunk
    BY PartChunks DEF PartText
  <2>4. PartContent(part) = TextContent(c) /\ PartKind(part) = "agent_output"
    BY <1>8 DEF PartContent, PartKind
  <2>5. Pump(Pump(Pump(t, StartOf(parts, id, "text")), DeltaOf(parts, "text_delta", c)), StopOf(parts))
          = TurnOf(<<>>, "open", NextId(n, M, "agent_output"), p,
                   NextMessages(n, M, "agent_output", TextContent(c)))
    <3> HIDE DEF id, c
    <3> QED BY <2>3, TextPumped
  <2> QED BY <2>2, <2>4, <2>5
<1> QED BY <1>6, <1>7, <1>8

\* Reasoning does not reach the client.
LEMMA ReasoningLost ==
  ASSUME NEW g, NEW n, NEW p, NEW M, InStep(g, n, M)
  PROVE  PumpAll(TurnOf(<<>>, g, n, p, M), BlockEvents("reasoning")) = TurnOf(<<>>, g, n, p, M)
<1> DEFINE t == TurnOf(<<>>, g, n, p, M)
           c == FirstChunk
           one == DeltaOf(parts, "thinking_delta", c)
<1>1. BlockEvents("reasoning") = Both(one, StopOf(parts))
  BY DEF BlockEvents, Delta, BlockStop, DeltaOf, StopOf, Both
<1>2. Pump(Pump(t, one), StopOf(parts)) = t
  <2> HIDE DEF c
  <2> QED BY ReasoningPumped DEF InStep
<1> HIDE DEF t, one
<1>3. PumpAll(t, BlockEvents("reasoning")) = t
  BY <1>1, <1>2, PumpsAll
<1> QED BY <1>3 DEF t

-----------------------------------------------------------------------------
(* What a message of an answer says                                        *)

OfKind(kind, body) == body \in Seq(Content) /\ \A i \in 1..Len(body) : body[i].kind = kind
Texts(body) == [i \in 1..Len(body) |-> body[i].chunk]
Payloads(body) == [i \in 1..Len(body) |-> [id |-> body[i].id, input |-> body[i].input]]
Calling(id, says) == [role |-> "assistant", kind |-> "call", id |-> id, says |-> says]
Callings(payload) == [i \in 1..Len(payload) |-> Calling(payload[i].id, payload[i].input)]

Substance(kind, body) == kind # "tool_call" => Texts(body) # Stub
SaidBody(kind, body) ==
  IF kind = "tool_call" THEN Callings(Payloads(body)) ELSE SaidText("assistant", Texts(body))

\* Content has the fields of its kind.
LEMMA ContentIs ==
  ASSUME NEW e \in Content
  PROVE  /\ e.kind \in ActiveKind
         /\ e.kind # "tool_call" => e.chunk \in Chunk
         /\ e.kind = "tool_call" => e.id \in Nat /\ e.input \in Seq(Chunk)
  BY DEF Content, ActiveKind

\* The content of a message is of one kind.
LEMMA BodyIs ==
  ASSUME NEW kind, NEW body, OfKind(kind, body)
  PROVE  /\ Len(body) \in Nat
         /\ \A i \in 1..Len(body) : body[i] \in Content /\ body[i].kind = kind
  BY LenProperties, ElementOfSeq DEF OfKind

\* The texts of a message of text.
LEMMA TextsTyped ==
  ASSUME NEW kind, NEW body, OfKind(kind, body), kind # "tool_call"
  PROVE  Texts(body) \in Seq(Chunk) /\ Len(Texts(body)) = Len(body)
<1> DEFINE n == Len(body)
           t == Texts(body)
<1>1. n \in Nat /\ \A i \in 1..n : body[i].chunk \in Chunk
  BY BodyIs, ContentIs
<1>2. t = [i \in 1..n |-> body[i].chunk]
  BY DEF Texts
<1> HIDE DEF n, t
<1>3. t \in [1..n -> Chunk]
  BY <1>1, <1>2
<1>4. t \in Seq(Chunk) /\ Len(t) = n
  BY <1>1, <1>3, SeqDef
<1> QED BY <1>4 DEF n, t

\* The calls of a message of calls.
LEMMA PayloadsTyped ==
  ASSUME NEW body, OfKind("tool_call", body)
  PROVE  Payloads(body) \in Payload /\ Len(Payloads(body)) = Len(body)
<1> DEFINE n == Len(body)
           t == Payloads(body)
           P == [id : Nat, input : Seq(Chunk)]
<1>1. n \in Nat /\ \A i \in 1..n : body[i].id \in Nat /\ body[i].input \in Seq(Chunk)
  BY BodyIs, ContentIs
<1>2. t = [i \in 1..n |-> [id |-> body[i].id, input |-> body[i].input]]
  BY DEF Payloads
<1>3. \A i \in 1..n : [id |-> body[i].id, input |-> body[i].input] \in P
  BY <1>1
<1> HIDE DEF n, t, P
<1>4. t \in [1..n -> P]
  BY <1>2, <1>3
<1>5. t \in Seq(P) /\ Len(t) = n
  BY <1>1, <1>4, SeqDef
<1> QED BY <1>5 DEF n, t, P, Payload

\* What a message says is what its body says.
LEMMA TextBodySays ==
  ASSUME NEW kind \in {"agent_output", "agent_reasoning"}, NEW body, OfKind(kind, body),
         Texts(body) # Stub, NEW m, m.kind = kind, m.body = body
  PROVE  /\ RecordMessage(m) \in PriorMessage /\ Proper(RecordMessage(m))
         /\ MessageSays[RecordMessage(m)] = SaidText("assistant", Texts(body))
<1> DEFINE t == Texts(body)
           r == RecordMessage(m)
<1>1. t \in Seq(Chunk)
  BY TextsTyped
<1>2. r = [type |-> kind, text |-> t]
  BY DEF RecordMessage, Texts
<1> HIDE DEF t, r
<1>3. r \in PriorMessage /\ r.type = kind /\ r.text = t
  BY <1>1, <1>2 DEF PriorMessage
<1>4. kind \in TextType /\ t # Stub /\ SpeakerOf(r) = "assistant"
  BY <1>3 DEF t, TextType, SpeakerOf
<1>5. MessageSays[r] = SaidText(SpeakerOf(r), r.text)
  BY <1>3, <1>4, TextSays
<1> QED BY <1>3, <1>4, <1>5 DEF t, r, Proper

\* The record of a message of calls says the calls.
LEMMA CallBodySays ==
  ASSUME NEW body, OfKind("tool_call", body), NEW m, m.kind = "tool_call", m.body = body
  PROVE  /\ RecordMessage(m) \in PriorMessage /\ Proper(RecordMessage(m))
         /\ MessageSays[RecordMessage(m)] = Callings(Payloads(body))
<1> DEFINE t == Payloads(body)
           r == RecordMessage(m)
<1>1. t \in Payload
  BY PayloadsTyped
<1>2. r = [type |-> "tool_call", tool_call_id |-> NoId, tool |-> "server", payload |-> t]
  BY DEF RecordMessage, Payloads
<1> HIDE DEF t, r
<1>3. NoId \in Nat /\ "server" \in ToolVariant
  BY DEF NoId, ToolVariant
<1>4. r \in PriorMessage /\ r.type = "tool_call" /\ r.payload = t
  BY <1>1, <1>2, <1>3 DEF PriorMessage, Payload
<1>5. MessageSays[r] = Callings(t)
  BY <1>4, CallMessageSays DEF Callings, Calling
<1>6. Proper(r)
  BY <1>4 DEF Proper, TextType
<1> QED BY <1>4, <1>5, <1>6 DEF t, r

\* The record of a message says what the message holds.
LEMMA BodySays ==
  ASSUME NEW kind \in ActiveKind, NEW body, OfKind(kind, body), Substance(kind, body),
         NEW m, m.kind = kind, m.body = body
  PROVE  /\ RecordMessage(m) \in PriorMessage /\ Proper(RecordMessage(m))
         /\ MessageSays[RecordMessage(m)] = SaidBody(kind, body)
<1>1. CASE kind = "tool_call"
  BY <1>1, CallBodySays DEF SaidBody
<1>2. CASE kind # "tool_call"
  <2>1. kind \in {"agent_output", "agent_reasoning"} /\ Texts(body) # Stub
    BY <1>2 DEF ActiveKind, Substance
  <2> QED BY <1>2, <2>1, TextBodySays DEF SaidBody
<1> QED BY <1>1, <1>2

\* An empty body says nothing.
LEMMA EmptyBody ==
  ASSUME NEW kind \in ActiveKind
  PROVE  OfKind(kind, <<>>) /\ Substance(kind, <<>>) /\ SaidBody(kind, <<>>) = <<>>
<1>1. OfKind(kind, <<>>)
  BY DEF OfKind
<1>2. Texts(<<>>) = <<>> /\ Payloads(<<>>) = <<>> /\ Callings(<<>>) = <<>>
  BY DEF Texts, Payloads, Callings
<1>3. Len(Stub) = 1
  BY DEF Stub
<1>4. Space \in Chunk /\ <<>> \in Seq(Chunk) /\ "assistant" \in Role /\ Blank(<<>>)
  BY DEF Space, Chunk, Role, Blank
<1>5. SaidText("assistant", <<>>) = <<>>
  BY <1>4, SaidTextRules
<1> QED BY <1>1, <1>2, <1>3, <1>5 DEF Substance, SaidBody

\* A body says more by what is appended to it.
LEMMA BodyExtends ==
  ASSUME NEW kind, NEW body, OfKind(kind, body), NEW e \in Content, e.kind = kind
  PROVE  /\ OfKind(kind, Append(body, e)) /\ Len(Append(body, e)) = Len(body) + 1
         /\ Append(body, e)[Len(body) + 1] = e
         /\ \A i \in 1..Len(body) : Append(body, e)[i] = body[i]
<1> DEFINE n == Len(body)
           b == Append(body, e)
<1>1. body \in Seq(Content) /\ n \in Nat /\ \A i \in 1..n : body[i].kind = kind
  BY BodyIs DEF OfKind
<1>2. b \in Seq(Content) /\ Len(b) = n + 1 /\ b[n + 1] = e /\ \A i \in 1..n : b[i] = body[i]
  BY <1>1, AppendProperties
<1> HIDE DEF n, b
<1>3. \A i \in 1..Len(b) : b[i].kind = kind
  BY <1>1, <1>2
<1> QED BY <1>2, <1>3 DEF n, b, OfKind

\* A message of text grows by a text.
LEMMA TextBodyGrows ==
  ASSUME NEW kind, NEW body, OfKind(kind, body), NEW e \in Content, e.kind = kind,
         kind # "tool_call"
  PROVE  Texts(Append(body, e)) = Append(Texts(body), e.chunk)
<1> DEFINE n == Len(body)
           b == Append(body, e)
           s == Texts(body)
           t == Texts(b)
           c == e.chunk
           u == Append(s, c)
<1>1. n \in Nat /\ c \in Chunk
  BY BodyIs, ContentIs
<1>2. OfKind(kind, b) /\ Len(b) = n + 1 /\ b[n + 1] = e /\ \A i \in 1..n : b[i] = body[i]
  BY BodyExtends
<1>3. s \in Seq(Chunk) /\ Len(s) = n /\ \A i \in 1..n : s[i] = body[i].chunk
  BY TextsTyped DEF Texts
<1> HIDE DEF b
<1>4. t \in Seq(Chunk) /\ Len(t) = n + 1 /\ \A i \in 1..(n + 1) : t[i] = b[i].chunk
  BY <1>2, TextsTyped DEF Texts
<1> HIDE DEF n, s, t, c
<1>5. u \in Seq(Chunk) /\ Len(u) = n + 1 /\ u[n + 1] = c /\ \A i \in 1..n : u[i] = s[i]
  BY <1>1, <1>3, AppendProperties
<1>6. t[n + 1] = c /\ \A i \in 1..n : t[i] = s[i]
  BY <1>1, <1>2, <1>3, <1>4 DEF c
<1> HIDE DEF u
<1>7. \A i \in 1..(n + 1) : t[i] = u[i]
  BY <1>1, <1>5, <1>6
<1>8. t = u
  BY <1>1, <1>4, <1>5, <1>7, SeqEqual
<1> QED BY <1>8 DEF b, s, t, c, u

\* A message of calls grows by a call.
LEMMA CallBodyGrows ==
  ASSUME NEW body, OfKind("tool_call", body), NEW e \in Content, e.kind = "tool_call"
  PROVE  Callings(Payloads(Append(body, e)))
           = Callings(Payloads(body)) \o One(Calling(e.id, e.input))
<1> DEFINE n == Len(body)
           b == Append(body, e)
           s == Callings(Payloads(body))
           t == Callings(Payloads(b))
           x == Calling(e.id, e.input)
           S == { Calling(b[i].id, b[i].input) : i \in 1..(n + 1) }
<1>1. n \in Nat
  BY BodyIs
<1>2. OfKind("tool_call", b) /\ Len(b) = n + 1 /\ b[n + 1] = e /\ \A i \in 1..n : b[i] = body[i]
  BY BodyExtends
<1>3. /\ Len(Payloads(body)) = n
      /\ \A i \in 1..n : Payloads(body)[i].id = body[i].id /\ Payloads(body)[i].input = body[i].input
  BY PayloadsTyped DEF Payloads
<1> HIDE DEF b
<1>4. /\ Len(Payloads(b)) = n + 1
      /\ \A i \in 1..(n + 1) : Payloads(b)[i].id = b[i].id /\ Payloads(b)[i].input = b[i].input
  BY <1>2, PayloadsTyped DEF Payloads
<1> HIDE DEF n
<1>5. s = [i \in 1..n |-> Calling(b[i].id, b[i].input)]
  BY <1>1, <1>2, <1>3 DEF Callings
<1>6. t = [i \in 1..(n + 1) |-> Calling(b[i].id, b[i].input)]
  BY <1>1, <1>4 DEF Callings
<1>7. x = Calling(b[n + 1].id, b[n + 1].input)
  BY <1>2
<1>8. \A i \in 1..(n + 1) : Calling(b[i].id, b[i].input) \in S
  OBVIOUS
<1> HIDE DEF s, t, x, S
<1>9. x \in S /\ s \in [1..n -> S] /\ t \in [1..(n + 1) -> S]
  BY <1>1, <1>5, <1>6, <1>7, <1>8
<1>10. s \in Seq(S) /\ Len(s) = n /\ t \in Seq(S) /\ Len(t) = n + 1
  BY <1>1, <1>9, SeqDef
<1>11. t[n + 1] = x /\ \A i \in 1..n : t[i] = s[i]
  BY <1>1, <1>5, <1>6, <1>7
<1> DEFINE u == Append(s, x)
<1>12. u \in Seq(S) /\ Len(u) = n + 1 /\ u[n + 1] = x /\ \A i \in 1..n : u[i] = s[i]
  BY <1>9, <1>10, AppendProperties
<1>13. u = s \o One(x)
  BY <1>9, <1>10, AppendIsConcat DEF One
<1> HIDE DEF u
<1>14. \A i \in 1..(n + 1) : t[i] = u[i]
  BY <1>1, <1>11, <1>12
<1>15. t = u
  BY <1>1, <1>10, <1>12, <1>14, SeqEqual
<1> QED BY <1>13, <1>15 DEF b, s, t, x

\* A text that grows by anything but the stub's chunk is not the stub.
LEMMA StubOnlyFirst ==
  ASSUME NEW text \in Seq(Chunk), NEW c \in Chunk, c.n # 1
  PROVE  Append(text, c) # Stub
<1> DEFINE u == Append(text, c)
<1>1. Len(text) \in Nat /\ Len(u) = Len(text) + 1 /\ u[Len(text) + 1] = c
  BY AppendProperties, LenProperties
<1> HIDE DEF u
<1>2. Len(Stub) = 1 /\ Stub[1].n = 1
  BY DEF Stub
<1>3. CASE Len(text) = 0
  <2>1. u[1].n # 1
    BY <1>1, <1>3
  <2> QED BY <1>2, <2>1 DEF u
<1>4. CASE Len(text) # 0
  <2>1. Len(u) # 1
    BY <1>1, <1>4
  <2> QED BY <1>2, <2>1 DEF u
<1> QED BY <1>3, <1>4

\* A piece of an answer; the number 1 is the stub's.
Piece(kind, e) == e \in Content /\ e.kind = kind /\ (kind # "tool_call" => e.chunk.n # 1)

\* A message that grows by a piece says what it said, then what the piece says.
LEMMA BodyGrows ==
  ASSUME NEW kind \in ActiveKind, NEW body, OfKind(kind, body), NEW e, Piece(kind, e)
  PROVE  /\ OfKind(kind, Append(body, e)) /\ Substance(kind, Append(body, e))
         /\ SaidBody(kind, Append(body, e)) = SaidBody(kind, body) \o SaidBody(kind, One(e))
<1>1. e \in Content /\ e.kind = kind
  BY DEF Piece
<1>2. OfKind(kind, Append(body, e))
  BY <1>1, BodyExtends
<1>3. OfKind(kind, <<>>) /\ Append(<<>>, e) = One(e)
  BY EmptyBody DEF One
<1>4. CASE kind = "tool_call"
  <2> DEFINE x == Calling(e.id, e.input)
  <2>1. Callings(Payloads(Append(body, e))) = Callings(Payloads(body)) \o One(x)
    BY <1>1, <1>4, CallBodyGrows
  <2>2. Callings(Payloads(One(e))) = Callings(Payloads(<<>>)) \o One(x)
    BY <1>1, <1>3, <1>4, CallBodyGrows
  <2>3. Callings(Payloads(<<>>)) = <<>>
    BY DEF Callings, Payloads
  <2> HIDE DEF x
  <2>4. Callings(Payloads(One(e))) = One(x)
    <3>1. One(x) \in Seq({x})
      BY DEF One
    <3> QED BY <2>2, <2>3, <3>1, ConcatEmptySeq
  <2> QED BY <1>2, <1>4, <2>1, <2>4 DEF Substance, SaidBody
<1>5. CASE kind # "tool_call"
  <2> DEFINE s == Texts(body)
             c == e.chunk
  <2>1. s \in Seq(Chunk) /\ c \in Chunk /\ c.n # 1 /\ "assistant" \in Role
    BY <1>1, <1>5, TextsTyped, ContentIs DEF Piece, Role
  <2>2. Texts(Append(body, e)) = Append(s, c)
    BY <1>1, <1>5, TextBodyGrows
  <2> DEFINE z == <<>>
             d == <<c>>
  <2> HIDE DEF c
  <2>3. OfKind(kind, z) /\ Append(z, e) = One(e) /\ Texts(z) = z /\ Append(z, c) = d
    BY <1>3 DEF Texts
  <2>4. SaidText("assistant", <<c>>) = SaidText("assistant", d)
    OBVIOUS
  <2> HIDE DEF s, z, d
  <2>5. Texts(One(e)) = d
    <3>1. Texts(Append(z, e)) = Append(Texts(z), e.chunk)
      <4>1. OfKind(kind, z)
        BY <2>3
      <4> QED BY <1>1, <1>5, <4>1, TextBodyGrows
    <3>2. Texts(Append(z, e)) = Append(z, c)
      BY <2>3, <3>1 DEF c
    <3> QED BY <2>3, <3>2
  <2>6. Append(s, c) # Stub
    BY <2>1, StubOnlyFirst
  <2>7. SaidText("assistant", Append(s, c)) = SaidText("assistant", s) \o SaidText("assistant", <<c>>)
    BY <2>1, SaidTextRules
  <2> QED BY <1>2, <1>5, <2>2, <2>4, <2>5, <2>6, <2>7 DEF s, Substance, SaidBody
<1> QED BY <1>4, <1>5

-----------------------------------------------------------------------------
(* What the client has says                                                *)

\* The client's messages, each of a kind, of which its body is.
Held(n, M) ==
  \A i \in 1..n : /\ M[i] \in Message
                  /\ OfKind(M[i].kind, M[i].body) /\ Substance(M[i].kind, M[i].body)
ShownOf(n, M) == [i \in 1..n |-> RecordMessage(M[i])]

\* The record of what a client holds.
LEMMA HeldShown ==
  ASSUME NEW n \in Nat, NEW M, Held(n, M)
  PROVE  /\ ShownOf(n, M) \in Seq(PriorMessage) /\ Len(ShownOf(n, M)) = n
         /\ \A i \in 1..n : /\ ShownOf(n, M)[i] = RecordMessage(M[i])
                            /\ Proper(ShownOf(n, M)[i])
                            /\ MessageSays[ShownOf(n, M)[i]] = SaidBody(M[i].kind, M[i].body)
<1> DEFINE s == ShownOf(n, M)
<1>1. ASSUME NEW i \in 1..n
      PROVE  /\ RecordMessage(M[i]) \in PriorMessage /\ Proper(RecordMessage(M[i]))
             /\ MessageSays[RecordMessage(M[i])] = SaidBody(M[i].kind, M[i].body)
  BY BodySays DEF Held, Message
<1>2. s = [i \in 1..n |-> RecordMessage(M[i])]
  BY DEF ShownOf
<1> HIDE DEF s
<1>3. s \in [1..n -> PriorMessage]
  BY <1>1, <1>2
<1>4. s \in Seq(PriorMessage) /\ Len(s) = n
  BY <1>3, SeqDef
<1> QED BY <1>1, <1>2, <1>4 DEF s

\* The messages after another piece.
LEMMA HeldGrows ==
  ASSUME NEW n \in Nat, NEW M, Held(n, M), NEW kind \in ActiveKind, NEW e, Piece(kind, e)
  PROVE  /\ NextId(n, M, kind) \in Nat /\ NextId(n, M, kind) # 0
         /\ DOMAIN NextMessages(n, M, kind, One(e)) = 1..NextId(n, M, kind)
         /\ Held(NextId(n, M, kind), NextMessages(n, M, kind, One(e)))
         /\ Gather(MessageSays, ShownOf(NextId(n, M, kind), NextMessages(n, M, kind, One(e))))
              = Gather(MessageSays, ShownOf(n, M)) \o SaidBody(kind, One(e))
<1> DEFINE N == NextMessages(n, M, kind, One(e))
           m == NextId(n, M, kind)
           s == ShownOf(n, M)
           t == ShownOf(m, N)
<1>1. OfKind(kind, <<>>) /\ Append(<<>>, e) = One(e)
  BY EmptyBody DEF One
<1>2. OfKind(kind, One(e)) /\ Substance(kind, One(e))
  BY <1>1, BodyGrows
<1>3. CASE Opens(n, M, kind)
  <2>1. /\ N = [i \in 1..(n + 1) |-> IF i = n + 1 THEN [kind |-> kind, body |-> One(e)] ELSE M[i]]
        /\ m = n + 1
    BY <1>3 DEF NextMessages, NextId
  <2> HIDE DEF N, m
  <2>2. N[n + 1].kind = kind /\ N[n + 1].body = One(e) /\ \A i \in 1..n : N[i] = M[i]
    BY <2>1
  <2>13. N[n + 1] \in Message
    BY <1>2, <2>1 DEF Message, OfKind
  <2>3. Held(m, N)
    BY <1>2, <2>1, <2>2, <2>13 DEF Held
  <2>4. /\ t \in Seq(PriorMessage) /\ Len(t) = n + 1 /\ \A i \in 1..(n + 1) : t[i] = RecordMessage(N[i])
        /\ MessageSays[t[n + 1]] = SaidBody(N[n + 1].kind, N[n + 1].body)
    <3>1. m \in Nat /\ n + 1 \in 1..m
      BY <2>1
    <3>2. t \in Seq(PriorMessage) /\ Len(t) = m
      BY <2>3, <3>1, HeldShown
    <3>3. \A i \in 1..m : t[i] = RecordMessage(N[i])
      BY <2>3, <3>1, HeldShown
    <3>4. \A i \in 1..m : MessageSays[t[i]] = SaidBody(N[i].kind, N[i].body)
      BY <2>3, <3>1, HeldShown
    <3> HIDE DEF t
    <3> QED BY <2>1, <3>1, <3>2, <3>3, <3>4
  <2>5. s \in Seq(PriorMessage) /\ Len(s) = n /\ \A i \in 1..n : s[i] = RecordMessage(M[i])
    BY HeldShown
  <2> HIDE DEF s, t
  <2> DEFINE x == t[n + 1]
             u == Append(s, x)
  <2>6. x \in PriorMessage
    BY <2>4, ElementOfSeq
  <2>7. u \in Seq(PriorMessage) /\ Len(u) = n + 1 /\ u[n + 1] = x /\ \A i \in 1..n : u[i] = s[i]
    BY <2>5, <2>6, AppendProperties
  <2> HIDE DEF u
  <2>8. \A i \in 1..(n + 1) : t[i] = u[i]
    BY <2>2, <2>4, <2>5, <2>7
  <2>9. t = u
    BY <2>4, <2>7, <2>8, SeqEqual
  <2>10. Gather(MessageSays, u) = Gather(MessageSays, s) \o MessageSays[x]
    BY <2>5, <2>6, MessageSaysType, GatherAppend DEF u
  <2>11. Gather(MessageSays, t) = Gather(MessageSays, s) \o SaidBody(kind, One(e))
    BY <2>2, <2>4, <2>9, <2>10
  <2>12. m \in Nat /\ m # 0 /\ DOMAIN N = 1..m
    BY <2>1
  <2> QED BY <2>3, <2>11, <2>12 DEF N, m, s, t
<1>4. CASE ~Opens(n, M, kind)
  <2> DEFINE b == M[n].body
  <2>1. /\ N = [i \in 1..n |-> IF i = n THEN [kind |-> kind, body |-> b \o One(e)] ELSE M[i]]
        /\ m = n /\ n # 0 /\ M[n].kind = kind
    BY <1>4 DEF NextMessages, NextId, Opens
  <2>2. OfKind(kind, b) /\ Substance(kind, b)
    BY <2>1 DEF Held
  <2>3. b \o One(e) = Append(b, e)
    <3>1. b \in Seq(Content) /\ e \in Content
      BY <2>2 DEF OfKind, Piece
    <3> QED BY <3>1, AppendIsConcat DEF One
  <2> HIDE DEF N, m, b
  <2>4. OfKind(kind, Append(b, e)) /\ Substance(kind, Append(b, e))
    BY <2>2, BodyGrows
  <2>5. SaidBody(kind, Append(b, e)) = SaidBody(kind, b) \o SaidBody(kind, One(e))
    BY <2>2, BodyGrows
  <2>6. N[n].kind = kind /\ N[n].body = Append(b, e) /\ \A i \in 1..n : i # n => N[i] = M[i]
    BY <2>1, <2>3
  <2>19. N[n] \in Message
    BY <2>1, <2>3, <2>4 DEF Message, OfKind
  <2>7. Held(m, N)
    BY <2>1, <2>4, <2>6, <2>19 DEF Held
  <2>8. /\ t \in Seq(PriorMessage) /\ Len(t) = n /\ \A i \in 1..n : t[i] = RecordMessage(N[i])
        /\ MessageSays[t[n]] = SaidBody(N[n].kind, N[n].body)
    <3>1. m \in Nat /\ n \in 1..m
      BY <2>1
    <3>2. t \in Seq(PriorMessage) /\ Len(t) = m
      BY <2>7, <3>1, HeldShown
    <3>3. \A i \in 1..m : t[i] = RecordMessage(N[i])
      BY <2>7, <3>1, HeldShown
    <3>4. \A i \in 1..m : MessageSays[t[i]] = SaidBody(N[i].kind, N[i].body)
      BY <2>7, <3>1, HeldShown
    <3> HIDE DEF t
    <3> QED BY <2>1, <3>1, <3>2, <3>3, <3>4
  <2>9. /\ s \in Seq(PriorMessage) /\ Len(s) = n /\ \A i \in 1..n : s[i] = RecordMessage(M[i])
        /\ MessageSays[s[n]] = SaidBody(M[n].kind, M[n].body)
    BY <2>1, HeldShown
  <2> HIDE DEF s, t
  <2> DEFINE ss == [i \in 1..Len(s) |-> MessageSays[s[i]]]
             tt == [i \in 1..Len(t) |-> MessageSays[t[i]]]
             c == SaidBody(kind, One(e))
  <2>10. ss \in Seq(Seq(Saying)) /\ tt \in Seq(Seq(Saying))
    BY <2>8, <2>9, MessageSaysType, GatherParts
  <2>11. c \in Seq(Saying)
    <3>1. MessageSays[RecordMessage([kind |-> kind, body |-> One(e)])] = c
      <4> DEFINE w == [kind |-> kind, body |-> One(e)]
      <4>1. w.kind = kind /\ w.body = One(e)
        OBVIOUS
      <4> HIDE DEF w
      <4>2. MessageSays[RecordMessage(w)] = c
        BY <1>2, <4>1, BodySays
      <4> QED BY <4>2 DEF w
    <3>2. RecordMessage([kind |-> kind, body |-> One(e)]) \in PriorMessage
      <4> DEFINE w == [kind |-> kind, body |-> One(e)]
      <4>1. w.kind = kind /\ w.body = One(e)
        OBVIOUS
      <4> HIDE DEF w
      <4>2. RecordMessage(w) \in PriorMessage
        BY <1>2, <4>1, BodySays
      <4> QED BY <4>2 DEF w
    <3> QED BY <3>1, <3>2, MessageSaysType DEF Reading
  <2>12. Len(ss) = n /\ Len(tt) = n /\ ss # <<>>
    <3>1. DOMAIN ss = 1..n /\ DOMAIN tt = 1..n
      BY <2>8, <2>9
    <3> HIDE DEF ss, tt
    <3>2. Len(ss) = n /\ Len(tt) = n
      BY <2>10, <3>1, LenProperties
    <3> QED BY <2>1, <3>2
  <2>13. ASSUME NEW i \in 1..n PROVE tt[i] = IF i = n THEN ss[i] \o c ELSE ss[i]
    <3>1. ss[i] = MessageSays[s[i]] /\ tt[i] = MessageSays[t[i]]
      BY <2>8, <2>9
    <3>2. CASE i = n
      BY <2>1, <2>5, <2>6, <2>8, <2>9, <3>1, <3>2 DEF b
    <3>3. CASE i # n
      BY <2>6, <2>8, <2>9, <3>1, <3>3
    <3> QED BY <3>2, <3>3
  <2> HIDE DEF ss, tt, c
  <2>16. \A i \in 1..Len(ss) : tt[i] = IF i = Len(ss) THEN ss[i] \o c ELSE ss[i]
    BY <2>12, <2>13
  <2>17. Len(tt) = Len(ss)
    BY <2>12
  <2>14. FlattenSeq(tt) = FlattenSeq(ss) \o c
    BY <2>10, <2>11, <2>12, <2>16, <2>17, FlattenLast
  <2>15. Gather(MessageSays, t) = Gather(MessageSays, s) \o c
    BY <2>14 DEF Gather, ss, tt
  <2>18. m \in Nat /\ m # 0 /\ DOMAIN N = 1..m
    BY <2>1
  <2> QED BY <2>7, <2>15, <2>18 DEF N, m, s, t, c
<1> QED BY <1>3, <1>4

-----------------------------------------------------------------------------
(* The record grows by a task                                              *)

AllProper(task) == \A j \in 1..Len(task) : Proper(task[j])

\* A history with one more task is proper if both are.
LEMMA TaskAppended ==
  ASSUME NEW tasks \in Seq(Seq(PriorMessage)), NEW task \in Seq(PriorMessage)
  PROVE  /\ Append(tasks, task) \in Seq(Seq(PriorMessage))
         /\ Unstubbed(Append(tasks, task)) <=> Unstubbed(tasks) /\ AllProper(task)
<1> DEFINE n == Len(tasks)
           u == Append(tasks, task)
<1>1. n \in Nat
  BY LenProperties
<1>2. /\ u \in Seq(Seq(PriorMessage)) /\ Len(u) = n + 1 /\ u[n + 1] = task
      /\ \A i \in 1..n : u[i] = tasks[i]
  BY AppendProperties
<1> HIDE DEF n, u
<1>3. ASSUME Unstubbed(u) PROVE Unstubbed(tasks) /\ AllProper(task)
  <2>1. \A i \in 1..(n + 1) : AllProper(u[i])
    BY <1>2, <1>3 DEF Unstubbed, AllProper, Proper
  <2>2. AllProper(u[n + 1]) /\ \A i \in 1..n : AllProper(u[i])
    BY <1>1, <2>1
  <2>3. AllProper(task) /\ \A i \in 1..n : AllProper(tasks[i])
    BY <1>2, <2>2
  <2> QED BY <2>3 DEF Unstubbed, AllProper, Proper, n
<1>4. ASSUME Unstubbed(tasks), AllProper(task) PROVE Unstubbed(u)
  <2>1. \A i \in 1..n : AllProper(tasks[i])
    BY <1>4 DEF Unstubbed, AllProper, Proper, n
  <2>2. ASSUME NEW i \in 1..(n + 1) PROVE AllProper(u[i])
    <3>1. CASE i = n + 1
      BY <1>2, <1>4, <3>1
    <3>2. CASE i # n + 1
      <4>1. i \in 1..n
        BY <1>1, <3>2
      <4> QED BY <1>2, <2>1, <4>1
    <3> QED BY <3>1, <3>2
  <2> QED BY <1>2, <2>2 DEF Unstubbed, AllProper, Proper
<1> QED BY <1>2, <1>3, <1>4 DEF u

\* Two proper tasks, one after the other, are a proper task.
LEMMA ProperConcat ==
  ASSUME NEW r \in Seq(PriorMessage), NEW s \in Seq(PriorMessage)
  PROVE  /\ r \o s \in Seq(PriorMessage)
         /\ AllProper(r \o s) <=> AllProper(r) /\ AllProper(s)
<1> DEFINE u == r \o s
           k == Len(r)
           n == Len(s)
<1>1. k \in Nat /\ n \in Nat
  BY LenProperties
<1>2. u \in Seq(PriorMessage) /\ Len(u) = k + n
  BY ConcatProperties
<1>3. \A i \in 1..(k + n) : u[i] = IF i =< k THEN r[i] ELSE s[i - k]
  BY ConcatProperties
<1> HIDE DEF u, k, n
<1>4. \A i \in 1..k : u[i] = r[i]
  BY <1>1, <1>3
<1>5. \A i \in 1..n : u[k + i] = s[i]
  <2> SUFFICES ASSUME NEW i \in 1..n PROVE u[k + i] = s[i]
    OBVIOUS
  <2> DEFINE j == k + i
  <2>1. j \in 1..(k + n) /\ ~(j =< k) /\ j - k = i
    BY <1>1
  <2> HIDE DEF j
  <2>2. u[j] = s[j - k]
    BY <1>3, <2>1
  <2> QED BY <2>1, <2>2 DEF j
<1>6. ASSUME AllProper(u) PROVE AllProper(r) /\ AllProper(s)
  <2>1. \A i \in 1..k : i \in 1..(k + n)
    BY <1>1
  <2>2. \A i \in 1..n : k + i \in 1..(k + n)
    BY <1>1
  <2>3. \A i \in 1..(k + n) : Proper(u[i])
    BY <1>2, <1>6 DEF AllProper
  <2>4. \A i \in 1..k : Proper(r[i])
    BY <1>4, <2>1, <2>3
  <2>5. \A i \in 1..n : Proper(s[i])
    BY <1>5, <2>2, <2>3
  <2> QED BY <2>4, <2>5 DEF AllProper, k, n
<1>7. ASSUME AllProper(r), AllProper(s) PROVE AllProper(u)
  <2> SUFFICES ASSUME NEW i \in 1..(k + n) PROVE Proper(u[i])
    BY <1>2 DEF AllProper
  <2>1. CASE i =< k
    <3>1. i \in 1..k
      BY <1>1, <2>1
    <3> QED BY <1>4, <1>7, <3>1 DEF AllProper, k
  <2>2. CASE ~(i =< k)
    <3>1. i - k \in 1..n /\ u[i] = s[i - k]
      BY <1>1, <1>3, <2>2
    <3> QED BY <1>7, <3>1 DEF AllProper, n
  <2> QED BY <2>1, <2>2
<1> QED BY <1>2, <1>6, <1>7 DEF u

\* A record with the turn being served: its inputs, then what the client has.
TurnRecord(tasks, in, n, M, w) ==
  /\ tasks \in Seq(Seq(PriorMessage)) /\ Unstubbed(tasks) /\ in \in Input /\ ProperInput(in)
  /\ n \in Nat /\ Held(n, M) /\ w = RecordedInputs(in) \o ShownOf(n, M)
SaysTurn(tasks, in, n, M, w) ==
  Says(Rebuilt(Append(tasks, w)))
    = Says(Rebuilt(Append(tasks, RecordedInputs(in)))) \o Gather(MessageSays, ShownOf(n, M))

\* With the record of a turn appended to it, the history says what it said before, what
\* was asked, and what the client was shown.
LEMMA TurnRecorded ==
  ASSUME NEW tasks, NEW in, NEW n, NEW M, NEW w, TurnRecord(tasks, in, n, M, w)
  PROVE  /\ Append(tasks, w) \in Seq(Seq(PriorMessage)) /\ Unstubbed(Append(tasks, w))
         /\ SaysTurn(tasks, in, n, M, w)
<1>9. /\ tasks \in Seq(Seq(PriorMessage)) /\ Unstubbed(tasks) /\ in \in Input /\ ProperInput(in)
      /\ n \in Nat /\ Held(n, M) /\ w = RecordedInputs(in) \o ShownOf(n, M)
  BY DEF TurnRecord
<1> DEFINE r == RecordedInputs(in)
           s == ShownOf(n, M)
<1>1. r \in Seq(PriorMessage) /\ AllProper(r)
  BY <1>9, RecordedType DEF ProperInput, AllProper
<1>2. s \in Seq(PriorMessage) /\ AllProper(s)
  BY <1>9, HeldShown DEF AllProper
<1> HIDE DEF r, s
<1>3. w \in Seq(PriorMessage) /\ AllProper(w)
  BY <1>1, <1>2, <1>9, ProperConcat DEF r, s
<1>4. /\ Says(Rebuilt(Append(tasks, w))) = Says(Rebuilt(tasks)) \o Gather(MessageSays, w)
      /\ Says(Rebuilt(Append(tasks, r))) = Says(Rebuilt(tasks)) \o Gather(MessageSays, r)
      /\ Says(Rebuilt(tasks)) \in Seq(Saying)
  BY <1>1, <1>3, <1>9, RebuiltSays
<1>5. /\ Gather(MessageSays, r \o s) = Gather(MessageSays, r) \o Gather(MessageSays, s)
      /\ Gather(MessageSays, r) \in Seq(Saying) /\ Gather(MessageSays, s) \in Seq(Saying)
  BY <1>1, <1>2, MessageSaysType, GatherConcat, GatherType
<1>6. w = r \o s
  BY <1>9 DEF r, s
<1> DEFINE x == Says(Rebuilt(tasks))
           y == Gather(MessageSays, r)
           z == Gather(MessageSays, s)
<1> HIDE DEF x, y, z
<1>7. x \o (y \o z) = (x \o y) \o z
  <2>1. x \in Seq(Saying) /\ y \in Seq(Saying) /\ z \in Seq(Saying)
    BY <1>4, <1>5 DEF x, y, z
  <2> QED BY <2>1, ConcatAssociative, SMTT(60)
<1>8. Says(Rebuilt(Append(tasks, w))) = Says(Rebuilt(Append(tasks, r))) \o z
  BY <1>4, <1>5, <1>6, <1>7 DEF x, y, z
<1>10. SaysTurn(tasks, in, n, M, w)
  BY <1>8 DEF SaysTurn, r, s, z
<1> QED BY <1>3, <1>9, <1>10, TaskAppended

-----------------------------------------------------------------------------
(* The state of a turn                                                     *)

\* Its stage, as the adapter has it.
Stage == IF turn.adapter.sent_init THEN "open" ELSE "new"

\* Between two content blocks the turn is in step.
LEMMA TurnIs ==
  ASSUME TypeOK, ClientInStep
  PROVE  /\ InStep(Stage, turn.adapter.message_id, turn.client.messages)
         /\ turn = TurnOf(<<>>, Stage, turn.adapter.message_id, turn.adapter.pending_usage,
                          turn.client.messages)
<1> DEFINE a == turn.adapter
           c == turn.client
           n == a.message_id
           M == c.messages
<1>1. a \in Adapter /\ IsClient(c)
  BY DEF TypeOK
<1>2. turn = [blocks |-> <<>>, adapter |-> a, client |-> c]
  BY DEF ClientInStep
<1>3. /\ c.init = a.sent_init /\ c.task = a.sent_init /\ c.finished = <<>> /\ ~c.fault
      /\ DOMAIN M = 1..n /\ (n # 0 => a.sent_init)
      /\ a.active_kind = IF n = 0 THEN <<>> ELSE << M[n].kind >>
  BY DEF ClientInStep
<1> HIDE DEF a, c
<1>4. /\ n \in Nat /\ a.sent_init \in BOOLEAN
      /\ a = [sent_init |-> a.sent_init, message_id |-> n, active_kind |-> a.active_kind,
              pending_usage |-> a.pending_usage]
  BY <1>1 DEF Adapter
<1>5. /\ c = [init |-> c.init, task |-> c.task, messages |-> M, finished |-> c.finished,
              fault |-> c.fault]
      /\ c.fault \in BOOLEAN
  BY <1>1 DEF IsClient
<1>6. (Stage = "open") = a.sent_init /\ (Stage # "new") = a.sent_init /\ Stage \in {"new", "open"}
  BY <1>4 DEF Stage, a
<1>7. InStep(Stage, n, M)
  BY <1>3, <1>4, <1>6 DEF InStep
<1>8. a = AdapterOf(Stage, n, a.pending_usage, M)
  BY <1>3, <1>4, <1>6 DEF AdapterOf, OpenKind
<1>9. c = ClientOf(Stage, M)
  BY <1>3, <1>4, <1>5, <1>6 DEF ClientOf
<1>10. turn = TurnOf(<<>>, Stage, n, a.pending_usage, M)
  BY <1>2, <1>8, <1>9 DEF TurnOf
<1> QED BY <1>7, <1>10 DEF a, c

\* What the record would be, and what its parts are.
LEMMA RecordSplits ==
  ASSUME TypeOK, ClientInStep, RecordSays, input # <<>>, NEW in, in = input[1],
         NEW n, n = turn.adapter.message_id, NEW M, M = turn.client.messages
  PROVE  /\ in \in Input /\ input = <<in>> /\ n \in Nat
         /\ RecordWith(turn.client) = Append(task_context, RecordedInputs(in) \o ShownOf(n, M))
         /\ Unstubbed(task_context) /\ ProperInput(in) /\ Held(n, M)
<1>1. in \in Input /\ input = <<in>>
  <2>1. input \in Seq(Input) /\ Len(input) =< 1 /\ Len(input) # 0
    BY EmptySeq DEF TypeOK, Option
  <2>2. Len(input) = 1
    <3> DEFINE k == Len(input)
    <3>1. k \in Nat /\ k =< 1 /\ k # 0
      BY <2>1, LenProperties
    <3> HIDE DEF k
    <3>2. k = 1
      BY <3>1
    <3> QED BY <3>2 DEF k
  <2> QED BY <2>1, <2>2, ElementOfSeq
<1>2. n \in Nat /\ DOMAIN M = 1..n
  BY TurnIs DEF InStep
<1>3. Record(in, turn.client) = RecordedInputs(in) \o ShownOf(n, M)
  BY <1>2, RecordIs DEF Shown, ShownOf
<1>4. RecordWith(turn.client) = Append(task_context, RecordedInputs(in) \o ShownOf(n, M))
  BY <1>3 DEF RecordWith
<1>5. ASSUME NEW i \in 1..n
      PROVE M[i] \in Message /\ M[i].kind \in ActiveKind /\ OfKind(M[i].kind, M[i].body)
  <2>1. M[i] \in Message
    BY <1>2 DEF TypeOK, IsClient
  <2>2. \A j \in 1..Len(M[i].body) : M[i].body[j].kind = M[i].kind
    BY DEF ClientInStep
  <2> QED BY <2>1, <2>2 DEF Message, OfKind
<1>6. ASSUME NEW i \in 1..n
      PROVE  /\ ShownOf(n, M)[i] \in PriorMessage
             /\ Proper(ShownOf(n, M)[i]) => Substance(M[i].kind, M[i].body)
  <2> DEFINE m == M[i]
             b == M[i].body
  <2>1. m.kind \in ActiveKind /\ OfKind(m.kind, b) /\ ShownOf(n, M)[i] = RecordMessage(m)
    BY <1>5 DEF ShownOf
  <2>2. CASE m.kind = "tool_call"
    <3>1. RecordMessage(m) \in PriorMessage
      BY <2>1, <2>2, CallBodySays
    <3> QED BY <2>1, <2>2, <3>1 DEF Substance
  <2>3. CASE m.kind # "tool_call"
    <3> DEFINE t == Texts(b)
               r == RecordMessage(m)
    <3>1. m.kind \in {"agent_output", "agent_reasoning"} /\ t \in Seq(Chunk)
      BY <2>1, <2>3, TextsTyped DEF ActiveKind
    <3>2. r = [type |-> m.kind, text |-> t]
      BY <2>3 DEF RecordMessage, Texts
    <3> HIDE DEF t, r
    <3>3. r \in PriorMessage /\ (Proper(r) => t # Stub)
      BY <3>1, <3>2 DEF PriorMessage, Proper, TextType
    <3> QED BY <2>1, <3>3 DEF Substance, t, r
  <2> QED BY <2>2, <2>3
<1>7. RecordedInputs(in) \in Seq(PriorMessage)
  BY <1>1, RecordedType
<1>8. ShownOf(n, M) \in Seq(PriorMessage) /\ Len(ShownOf(n, M)) = n
  <2> DEFINE s == ShownOf(n, M)
  <2>1. s = [i \in 1..n |-> s[i]]
    BY DEF ShownOf
  <2>2. \A i \in 1..n : s[i] \in PriorMessage
    BY <1>6
  <2> HIDE DEF s
  <2>3. s \in [1..n -> PriorMessage]
    BY <2>1, <2>2
  <2>4. s \in Seq(PriorMessage) /\ Len(s) = n
    BY <1>2, <2>3, SeqDef
  <2> QED BY <2>4 DEF s
<1> DEFINE r == RecordedInputs(in)
           s == ShownOf(n, M)
<1> HIDE DEF r, s
<1>9. Unstubbed(Append(task_context, r \o s)) /\ task_context \in Seq(Seq(PriorMessage))
  BY <1>4 DEF RecordSays, TypeOK, r, s
<1>10. Unstubbed(task_context) /\ AllProper(r) /\ AllProper(s)
  <2>1. r \in Seq(PriorMessage) /\ s \in Seq(PriorMessage)
    BY <1>7, <1>8 DEF r, s
  <2>2. r \o s \in Seq(PriorMessage) /\ (AllProper(r \o s) <=> AllProper(r) /\ AllProper(s))
    BY <2>1, ProperConcat
  <2> QED BY <1>9, <2>2, TaskAppended
<1>11. Held(n, M)
  BY <1>5, <1>6, <1>8, <1>10 DEF Held, AllProper, s
<1> QED BY <1>1, <1>2, <1>4, <1>10, <1>11 DEF r, AllProper, ProperInput

-----------------------------------------------------------------------------
(* A content block is said                                                 *)

\* A part of an answer that is text.
LEMMA TextPiece ==
  ASSUME NEW c \in Chunk, c.n # 1, NEW e, e = [kind |-> "agent_output", chunk |-> c]
  PROVE  /\ Piece("agent_output", e) /\ TextContent(c) = One(e)
         /\ SaidBody("agent_output", One(e))
              = IF c.n = 0 THEN <<>> ELSE
                << [role |-> "assistant", kind |-> "text", id |-> NoId, says |-> <<c>>] >>
<1> DEFINE d == <<c>>
           t == Texts(One(e))
<1>1. e \in Content /\ e.kind = "agent_output" /\ e.chunk = c
  BY DEF Content
<1>2. TextContent(c) = One(e)
  BY DEF TextContent, One
<1>3. t = d
  BY <1>1 DEF Texts, One
<1>4. "assistant" \in Role /\ c \in Seq(Chunk) \cup Chunk /\ d \in Seq(Chunk)
  BY DEF Role
<1>5. SaidText("assistant", d)
        = IF c.n = 0 THEN <<>> ELSE
          << [role |-> "assistant", kind |-> "text", id |-> NoId, says |-> <<c>>] >>
  BY <1>4, SaidTextRules
<1>6. SaidBody("agent_output", One(e)) = SaidText("assistant", t)
  BY DEF SaidBody
<1> QED BY <1>1, <1>2, <1>3, <1>5, <1>6 DEF Piece

\* A part of an answer that is a tool call.
LEMMA CallPiece ==
  ASSUME NEW id \in Nat, NEW d \in Seq(Chunk),
         NEW e, e = [kind |-> "tool_call", id |-> id, input |-> d]
  PROVE  /\ Piece("tool_call", e) /\ CallContent(id, d) = One(e)
         /\ SaidBody("tool_call", One(e)) = One(Calling(id, d))
<1>2. CallContent(id, d) = One(e)
  BY DEF CallContent, One
<1>3. e \in Content /\ e.kind = "tool_call" /\ e.id = id /\ e.input = d
  BY DEF Content
<1>4. OfKind("tool_call", <<>>) /\ Append(<<>>, e) = One(e) /\ Callings(Payloads(<<>>)) = <<>>
  BY DEF OfKind, One, Callings, Payloads
<1> DEFINE z == <<>>
<1>5. OfKind("tool_call", z) /\ Append(z, e) = One(e)
  BY <1>4
<1> DEFINE x == Calling(e.id, e.input)
<1>6. One(x) \in Seq({x})
  BY DEF One
<1>7. Callings(Payloads(Append(z, e))) = Callings(Payloads(z)) \o One(x)
  <2> HIDE DEF z, x
  <2>1. Callings(Payloads(Append(z, e)))
          = Callings(Payloads(z)) \o One(Calling(e.id, e.input))
    BY <1>3, <1>5, CallBodyGrows
  <2> QED BY <2>1 DEF x
<1>8. x = Calling(id, d)
  BY <1>3
<1>9. Callings(Payloads(Append(z, e))) = One(x)
  <2>1. Callings(Payloads(z)) = <<>>
    BY <1>4
  <2> HIDE DEF z, x
  <2> QED BY <1>6, <1>7, <2>1, ConcatEmptySeq
<1>10. Callings(Payloads(One(e))) = One(x)
  BY <1>5, <1>9
<1> QED BY <1>2, <1>3, <1>8, <1>10 DEF SaidBody, Piece

\* A part of an answer says, as content, what was said.
LEMMA PartSaid ==
  ASSUME parts \in Nat, NEW part \in {"text", "blank", "tool", "cut"}
  PROVE  \E e : /\ PartContent(part) = One(e) /\ Piece(PartKind(part), e)
                /\ PartKind(part) \in ActiveKind
                /\ SaidBody(PartKind(part), One(e)) = SaidPart(part)
                /\ SaidPart(part) \in Seq(Saying)
<1>1. CASE part \in {"tool", "cut"}
  <2> DEFINE d == PartInput(part)
             id == 1 + parts
             e == [kind |-> "tool_call", id |-> id, input |-> d]
             x == [role |-> "assistant", kind |-> "call", id |-> id, says |-> d]
  <2>1. d \in Seq(Chunk) /\ id \in Nat
    <3>1. FirstChunk \in Chunk /\ LastChunk \in Chunk /\ EmptyObject \in Seq(Chunk)
      BY PartChunks, EmptySeq DEF EmptyObject
    <3> QED BY <3>1 DEF PartInput
  <2>2. SaidPart(part) = One(x)
    BY <1>1 DEF SaidPart, PartInput, One
  <2>3. PartKind(part) = "tool_call" /\ PartContent(part) = CallContent(id, d)
    BY <1>1 DEF PartKind, PartContent
  <2> HIDE DEF d, id
  <2>4. /\ Piece("tool_call", e) /\ CallContent(id, d) = One(e)
        /\ SaidBody("tool_call", One(e)) = One(Calling(id, d))
    BY <2>1, CallPiece
  <2>5. Calling(id, d) = x
    BY DEF Calling
  <2>6. x \in Saying
    BY <2>1 DEF Saying
  <2> HIDE DEF e, x
  <2>7. One(x) \in Seq(Saying)
    BY <2>6 DEF One
  <2> QED BY <2>2, <2>3, <2>4, <2>5, <2>7 DEF ActiveKind
<1>2. CASE part \in {"text", "blank"}
  <2> DEFINE c == PartText(part)
             e == [kind |-> "agent_output", chunk |-> c]
  <2>1. c \in Chunk /\ c.n # 1
    BY PartChunks DEF PartText
  <2>2. /\ Piece("agent_output", e) /\ TextContent(c) = One(e)
        /\ SaidBody("agent_output", One(e))
             = IF c.n = 0 THEN <<>> ELSE
               << [role |-> "assistant", kind |-> "text", id |-> NoId, says |-> <<c>>] >>
    <3> HIDE DEF c
    <3> QED BY <2>1, TextPiece
  <2>3. PartKind(part) = "agent_output" /\ PartContent(part) = TextContent(c)
    BY <1>2 DEF PartKind, PartContent
  <2>4. CASE part = "blank"
    <3>1. c.n = 0 /\ SaidPart(part) = <<>> /\ <<>> \in Seq(Saying)
      BY <2>4, EmptySeq DEF SaidPart, PartText, Space
    <3> HIDE DEF e, c
    <3> QED BY <2>2, <2>3, <3>1 DEF ActiveKind
  <2>5. CASE part = "text"
    <3> DEFINE y == <<c>>
               x == [role |-> "assistant", kind |-> "text", id |-> NoId, says |-> y]
    <3>1. c.n # 0 /\ c = FirstChunk
      BY <2>5, PartChunks DEF PartText
    <3>2. SaidPart(part) = SaidText("assistant", <<c>>)
      BY <2>5, <3>1 DEF SaidPart
    <3> HIDE DEF c
    <3>3. y \in Seq(Chunk)
      BY <2>1
    <3>4. SaidText("assistant", y) = <<x>>
      <4>1. "assistant" \in Role /\ <<>> \in Seq(Chunk)
        BY DEF Role
      <4> QED BY <2>1, <3>1, <4>1, SaidTextRules
    <3>5. SaidBody("agent_output", One(e)) = <<x>>
      BY <2>2, <3>1
    <3>6. SaidPart(part) = <<x>>
      BY <3>2, <3>4
    <3> HIDE DEF e, y
    <3>7. x \in Saying
      BY <3>3 DEF Saying, NoId
    <3> HIDE DEF x
    <3>8. <<x>> \in Seq(Saying)
      BY <3>7
    <3> QED BY <2>2, <2>3, <3>5, <3>6, <3>8 DEF ActiveKind
  <2> QED BY <1>2, <2>4, <2>5
<1> QED BY <1>1, <1>2

-----------------------------------------------------------------------------
(* The next turn state                                                     *)

\* A value that is there.
LEMMA OneOption ==
  ASSUME NEW S, NEW x \in S
  PROVE  <<x>> \in Option(S)
<1> DEFINE u == <<x>>
<1>1. u \in Seq(S) /\ Len(u) =< 1
  OBVIOUS
<1> HIDE DEF u
<1>2. u \in Option(S)
  BY <1>1 DEF Option
<1> QED BY <1>2 DEF u

\* A turn made in step is well typed and in step.
LEMMA NextInStep ==
  ASSUME NEW g, NEW n, NEW p \in Option(0..U32Max), NEW M, InStep(g, n, M), Held(n, M),
         turn' = TurnOf(<<>>, g, n, p, M)
  PROVE  /\ IsBlocks(turn'.blocks) /\ turn'.adapter \in Adapter /\ IsClient(turn'.client)
         /\ ClientInStep'
         /\ turn'.client.messages = M /\ turn'.adapter.message_id = n
<1> DEFINE a == AdapterOf(g, n, p, M)
           c == ClientOf(g, M)
<1>1. turn' = [blocks |-> <<>>, adapter |-> a, client |-> c]
  BY DEF TurnOf
<1>2. n \in Nat /\ DOMAIN M = 1..n /\ g \in {"new", "open"} /\ (n # 0 => g = "open")
  BY DEF InStep
<1>3. ASSUME NEW i \in 1..n
      PROVE  /\ M[i] \in Message /\ M[i].kind \in ActiveKind
             /\ \A j \in 1..Len(M[i].body) : M[i].body[j].kind = M[i].kind
  BY DEF Held, OfKind, Message
<1>4. OpenKind(n, M) \in Option(ActiveKind)
  <2>1. CASE n = 0
    BY <2>1 DEF OpenKind, Option
  <2>2. CASE n # 0
    <3> DEFINE k == M[n].kind
               u == <<k>>
    <3>1. k \in ActiveKind
      BY <1>2, <1>3, <2>2
    <3> HIDE DEF k
    <3>2. u \in Option(ActiveKind)
      BY <3>1, OneOption
    <3>3. OpenKind(n, M) = u
      BY <2>2 DEF OpenKind, k
    <3> QED BY <3>2, <3>3
  <2> QED BY <2>1, <2>2
<1>5. a \in Adapter
  BY <1>2, <1>4 DEF AdapterOf, Adapter
<1>6. a.message_id = n /\ a.active_kind = OpenKind(n, M) /\ a.sent_init = (g = "open")
  BY DEF AdapterOf
<1>7. /\ c.messages = M /\ c.init = (g # "new") /\ c.task = (g = "open") /\ c.finished = <<>>
      /\ c.fault = FALSE
  BY DEF ClientOf
<1>8. IsClient(c)
  <2>1. c \in [init : BOOLEAN, task : BOOLEAN, messages : {c.messages},
               finished : Seq(ResponseEvent), fault : BOOLEAN]
    BY <1>7, EmptySeq DEF ClientOf
  <2>2. \A i \in 1..n : M[i] \in Message
    BY <1>3
  <2> QED BY <1>2, <1>7, <2>1, <2>2 DEF IsClient
<1>9. IsBlocks(<<>>)
  BY DEF IsBlocks
<1> HIDE DEF a, c
<1>10. turn'.blocks = <<>> /\ turn'.adapter = a /\ turn'.client = c
  BY <1>1
<1>11. ClientInStep'
  BY <1>1, <1>2, <1>3, <1>6, <1>7, <1>10 DEF ClientInStep, OpenKind
<1> QED BY <1>5, <1>6, <1>7, <1>8, <1>9, <1>10, <1>11

\* So is a new one.
LEMMA BegunInStep ==
  ASSUME turn' = NewTurn
  PROVE  /\ IsBlocks(turn'.blocks) /\ turn'.adapter \in Adapter /\ IsClient(turn'.client)
         /\ ClientInStep'
<1> DEFINE z == <<>>
<1>1. NewTurn = TurnOf(<<>>, "new", 0, z, z)
  BY DEF NewTurn, NewAdapter, NewClient, TurnOf, AdapterOf, ClientOf, OpenKind
<1>2. InStep("new", 0, z) /\ Held(0, z) /\ z \in Option(0..U32Max)
  BY EmptySeq DEF InStep, Held, Option
<1> HIDE DEF z
<1> QED BY <1>1, <1>2, NextInStep

-----------------------------------------------------------------------------
(* The steps                                                               *)

\* A record with the turn that has just begun.
LEMMA RecordBegun ==
  ASSUME NEW in \in Input
  PROVE  input = <<in>> => RecordWith(NewClient) = Append(task_context, RecordedInputs(in))
<1>1. input = <<in>> => input # <<>> /\ input[1] = in
  OBVIOUS
<1> QED BY <1>1, RecordNew DEF RecordWith

\* What a content block of an answer does not depend on: the types of the other variables.
LEMMA AnswerTyped ==
  ASSUME TypeOK, AnswerBlock, NEW part \in {"text", "blank", "tool", "cut", "reasoning"},
         transcript' = transcript \o SaidPart(part), SaidPart(part) \in Seq(Saying),
         calls' = IF part \in {"tool", "cut"} THEN Append(calls, 1 + parts) ELSE calls,
         IsBlocks(turn'.blocks), turn'.adapter \in Adapter, IsClient(turn'.client)
  PROVE  TypeOK'
<1>1. calls \in Seq(Nat) /\ transcript \in Seq(Saying) /\ parts \in 0..MaxParts
  BY DEF TypeOK
<1>2. MaxParts \in Nat
  BY AskAssumption
<1>3. calls' \in Seq(Nat)
  <2>1. 1 + parts \in Nat
    BY <1>1, <1>2
  <2> QED BY <1>1, <2>1, AppendProperties
<1>4. transcript' \in Seq(Saying)
  BY <1>1, ConcatProperties
<1>5. parts' \in 0..MaxParts
  BY <1>1, <1>2 DEF AnswerBlock
<1>6. UNCHANGED <<use_prompt_cache, task_context, input, sent, turns>>
  BY DEF AnswerBlock
<1>7. /\ use_prompt_cache \in BOOLEAN
      /\ task_context \in Seq(Seq(PriorMessage))
      /\ input \in Option(Input)
      /\ sent \in Seq([role : {"user", "assistant"}, content : Seq(SdkBlock)])
      /\ turns \in 0..MaxTurns
      /\ Cardinality(MarkedAt(sent)) =< 2
  BY DEF TypeOK
<1>8. Cardinality(MarkedAt(sent')) =< 2
  BY <1>6, <1>7
<1> QED BY <1>3, <1>4, <1>5, <1>6, <1>7, <1>8 DEF TypeOK

\* The turn being served, in step.
LEMMA TurnServed ==
  ASSUME ConversationInv, AnswerBlock, NEW l, l = turn.adapter.message_id,
         NEW L, L = turn.client.messages, NEW p, p = turn.adapter.pending_usage
  PROVE  /\ InStep(Stage, l, L) /\ turn = TurnOf(<<>>, Stage, l, p, L) /\ l \in Nat /\ Held(l, L)
         /\ p \in Option(0..U32Max)
<1>1. /\ InStep(Stage, l, L) /\ turn = TurnOf(<<>>, Stage, l, p, L)
  BY TurnIs DEF ConversationInv
<1>2. l \in Nat /\ Held(l, L)
  BY RecordSplits DEF ConversationInv, AnswerBlock
<1>3. p \in Option(0..U32Max)
  BY DEF ConversationInv, TypeOK, Adapter
<1> QED BY <1>1, <1>2, <1>3

\* Reasoning changes nothing that the client or the conversation has.
LEMMA ReasoningTurn ==
  ASSUME ConversationInv, AnswerBlock, turn' = FoldLeft(Pump, turn, BlockEvents("reasoning")),
         transcript' = transcript \o SaidPart("reasoning"), calls' = calls
  PROVE  turn' = turn /\ SaidPart("reasoning") = <<>> /\ TypeOK' /\ ClientInStep'
<1> DEFINE l == turn.adapter.message_id
           L == turn.client.messages
           p == turn.adapter.pending_usage
<1>1. InStep(Stage, l, L) /\ turn = TurnOf(<<>>, Stage, l, p, L)
  BY TurnServed
<1> HIDE DEF l, L, p
<1>2. PumpAll(TurnOf(<<>>, Stage, l, p, L), BlockEvents("reasoning")) = TurnOf(<<>>, Stage, l, p, L)
  BY <1>1, ReasoningLost
<1>3. turn' = turn
  BY <1>1, <1>2 DEF PumpAll
<1>4. SaidPart("reasoning") = <<>>
  BY DEF SaidPart
<1>5. SaidPart("reasoning") \in Seq(Saying)
  BY <1>4, EmptySeq
<1>6. IsBlocks(turn'.blocks) /\ turn'.adapter \in Adapter /\ IsClient(turn'.client)
  BY <1>3 DEF ConversationInv, TypeOK
<1>7. TypeOK'
  <2> DEFINE part == "reasoning"
  <2>1. /\ part \in {"text", "blank", "tool", "cut", "reasoning"}
        /\ calls' = IF part \in {"tool", "cut"} THEN Append(calls, 1 + parts) ELSE calls
        /\ transcript' = transcript \o SaidPart(part) /\ SaidPart(part) \in Seq(Saying)
    BY <1>5
  <2> HIDE DEF part
  <2>2. TypeOK
    BY DEF ConversationInv
  <2> QED BY <1>6, <2>1, <2>2, AnswerTyped
<1>8. ClientInStep'
  BY <1>3 DEF ConversationInv, ClientInStep
<1> QED BY <1>3, <1>4, <1>7, <1>8

\* A content block of an answer: what the client holds says one part more.
LEMMA AnswerTurn ==
  ASSUME ConversationInv, AnswerBlock
  PROVE  /\ TypeOK' /\ ClientInStep' /\ turn'.adapter.message_id \in Nat
         /\ Held(turn'.adapter.message_id, turn'.client.messages)
         /\ DOMAIN turn'.client.messages = 1..turn'.adapter.message_id
         /\ \E part \in Parts :
           /\ transcript' = transcript \o SaidPart(part) /\ SaidPart(part) \in Seq(Saying)
           /\ Gather(MessageSays, ShownOf(turn'.adapter.message_id, turn'.client.messages))
                = Gather(MessageSays, ShownOf(turn.adapter.message_id, turn.client.messages))
                    \o SaidPart(part)
<1> DEFINE l == turn.adapter.message_id
           L == turn.client.messages
           p == turn.adapter.pending_usage
<1>1. PICK part \in Parts :
        /\ turn' = FoldLeft(Pump, turn, BlockEvents(part))
        /\ transcript' = transcript \o SaidPart(part)
        /\ calls' = IF part \in {"tool", "cut"} THEN Append(calls, 1 + parts) ELSE calls
  BY DEF AnswerBlock
<1>2. /\ part \in {"text", "blank", "tool", "cut", "reasoning"}
      /\ parts \in Nat /\ MaxParts \in Nat
  BY AskAssumption DEF ConversationInv, TypeOK
<1>3. /\ InStep(Stage, l, L) /\ turn = TurnOf(<<>>, Stage, l, p, L) /\ l \in Nat /\ Held(l, L)
      /\ p \in Option(0..U32Max)
  BY TurnServed
<1>4. CASE part = "reasoning"
  <2>1. turn' = turn /\ SaidPart(part) = <<>> /\ TypeOK' /\ ClientInStep'
    BY <1>1, <1>4, ReasoningTurn
  <2>2. DOMAIN L = 1..l
    BY <1>3 DEF InStep
  <2>3. turn'.adapter.message_id = l /\ turn'.client.messages = L
    BY <2>1
  <2> HIDE DEF l, L
  <2> DEFINE x == Gather(MessageSays, ShownOf(l, L))
  <2>4. x \in Seq(Saying)
    BY <1>3, HeldShown, MessageSaysType, GatherType
  <2> HIDE DEF x
  <2>5. x \o SaidPart(part) = x /\ SaidPart(part) \in Seq(Saying)
    BY <2>1, <2>4, ConcatEmptySeq, EmptySeq
  <2> QED BY <1>1, <1>3, <2>1, <2>2, <2>3, <2>5 DEF x, l, L
<1>5. CASE part # "reasoning"
  <2>1. part \in {"text", "blank", "tool", "cut"}
    BY <1>2, <1>5
  <2>2. PICK e : /\ PartContent(part) = One(e) /\ Piece(PartKind(part), e)
                 /\ PartKind(part) \in ActiveKind
                 /\ SaidBody(PartKind(part), One(e)) = SaidPart(part)
                 /\ SaidPart(part) \in Seq(Saying)
    BY <1>2, <2>1, PartSaid
  <2> DEFINE kind == PartKind(part)
             n == NextId(l, L, kind)
             M == NextMessages(l, L, kind, One(e))
  <2> HIDE DEF l, L, p, kind
  <2>3. kind \in ActiveKind /\ Piece(kind, e)
    BY <2>2 DEF kind
  <2>4. turn' = TurnOf(<<>>, "open", n, p, M)
    <3>1. PumpAll(TurnOf(<<>>, Stage, l, p, L), BlockEvents(part))
            = TurnOf(<<>>, "open", n, p, M)
      BY <1>2, <1>3, <2>1, <2>2, PartPumped DEF kind
    <3> QED BY <1>1, <1>3, <3>1 DEF PumpAll
  <2>5. /\ n \in Nat /\ n # 0 /\ DOMAIN M = 1..n /\ Held(n, M)
        /\ Gather(MessageSays, ShownOf(n, M))
             = Gather(MessageSays, ShownOf(l, L)) \o SaidBody(kind, One(e))
    <3>1. n \in Nat /\ n # 0
      BY <1>3, <2>3, HeldGrows
    <3>2. DOMAIN M = 1..n
      BY <1>3, <2>3, HeldGrows
    <3>3. Held(n, M)
      BY <1>3, <2>3, HeldGrows
    <3>4. Gather(MessageSays, ShownOf(n, M))
             = Gather(MessageSays, ShownOf(l, L)) \o SaidBody(kind, One(e))
      BY <1>3, <2>3, HeldGrows
    <3> QED BY <3>1, <3>2, <3>3, <3>4
  <2> HIDE DEF n, M
  <2>6. InStep("open", n, M)
    BY <2>5 DEF InStep
  <2>7. /\ IsBlocks(turn'.blocks) /\ turn'.adapter \in Adapter /\ IsClient(turn'.client)
        /\ ClientInStep'
        /\ turn'.client.messages = M /\ turn'.adapter.message_id = n
    BY <1>3, <2>4, <2>5, <2>6, NextInStep
  <2>8. TypeOK'
    <3>1. TypeOK
      BY DEF ConversationInv
    <3> QED BY <1>1, <1>2, <2>2, <2>7, <3>1, AnswerTyped
  <2>9. Gather(MessageSays, ShownOf(n, M)) = Gather(MessageSays, ShownOf(l, L)) \o SaidPart(part)
    BY <2>2, <2>5 DEF kind
  <2> QED BY <1>1, <2>2, <2>5, <2>7, <2>8, <2>9 DEF l, L
<1> QED BY <1>4, <1>5

\* A content block of an answer preserves the invariant.
LEMMA AnswerStep ==
  ASSUME ConversationInv, AnswerBlock
  PROVE  ConversationInv'
<1> DEFINE in == input[1]
           l == turn.adapter.message_id
           L == turn.client.messages
           n == turn'.adapter.message_id
           M == turn'.client.messages
<1>1. input # <<>> /\ input' = input /\ task_context' = task_context /\ sent' = sent /\ turns' = turns
  BY DEF AnswerBlock
<1>14. TypeOK' /\ ClientInStep' /\ n \in Nat /\ Held(n, M) /\ DOMAIN M = 1..n
  BY AnswerTurn
<1>15. turn'.client.messages = M
  OBVIOUS
<1>2. PICK part \in Parts :
        /\ transcript' = transcript \o SaidPart(part) /\ SaidPart(part) \in Seq(Saying)
        /\ Gather(MessageSays, ShownOf(n, M))
             = Gather(MessageSays, ShownOf(l, L)) \o SaidPart(part)
  BY AnswerTurn
<1>3. /\ in \in Input /\ input = <<in>> /\ l \in Nat
      /\ RecordWith(turn.client) = Append(task_context, RecordedInputs(in) \o ShownOf(l, L))
      /\ Unstubbed(task_context) /\ ProperInput(in) /\ Held(l, L)
      /\ task_context \in Seq(Seq(PriorMessage))
  BY <1>1, RecordSplits DEF ConversationInv, TypeOK
<1>4. transcript = Says(Rebuilt(RecordWith(turn.client)))
  BY DEF ConversationInv, RecordSays
<1> HIDE DEF in, l, L, n, M
<1>5. (RecordWith(turn.client))' = Append(task_context, RecordedInputs(in) \o ShownOf(n, M))
  <2>1. Record(in, turn'.client) = RecordedInputs(in) \o Shown(turn'.client, n)
    BY <1>14, <1>15, RecordIs
  <2>2. Shown(turn'.client, n) = ShownOf(n, M)
    BY <1>15 DEF Shown, ShownOf
  <2> QED BY <1>1, <2>1, <2>2 DEF RecordWith, in
<1> DEFINE v == RecordedInputs(in) \o ShownOf(l, L)
           w == RecordedInputs(in) \o ShownOf(n, M)
<1>16. Says(Rebuilt(Append(task_context, w)))
         = Says(Rebuilt(Append(task_context, RecordedInputs(in))))
             \o Gather(MessageSays, ShownOf(n, M))
  <2> HIDE DEF w
  <2>1. w = RecordedInputs(in) \o ShownOf(n, M)
    BY DEF w
  <2>2. TurnRecord(task_context, in, n, M, w)
    BY <1>14, <1>3, <2>1 DEF TurnRecord
  <2> QED BY <2>2, TurnRecorded DEF SaysTurn
<1>17. Says(Rebuilt(Append(task_context, v)))
         = Says(Rebuilt(Append(task_context, RecordedInputs(in))))
             \o Gather(MessageSays, ShownOf(l, L))
  <2> HIDE DEF v
  <2>1. v = RecordedInputs(in) \o ShownOf(l, L)
    BY DEF v
  <2>2. TurnRecord(task_context, in, l, L, v)
    BY <1>3, <2>1 DEF TurnRecord
  <2> QED BY <2>2, TurnRecorded DEF SaysTurn
<1> DEFINE b == Says(Rebuilt(Append(task_context, RecordedInputs(in))))
           x == Gather(MessageSays, ShownOf(l, L))
           y == Gather(MessageSays, ShownOf(n, M))
<1>6. /\ Append(task_context, w) \in Seq(Seq(PriorMessage)) /\ Unstubbed(Append(task_context, w))
      /\ Says(Rebuilt(Append(task_context, w))) = b \o y
  <2> HIDE DEF w
  <2>1. w = RecordedInputs(in) \o ShownOf(n, M)
    BY DEF w
  <2>2. Append(task_context, w) \in Seq(Seq(PriorMessage)) /\ Unstubbed(Append(task_context, w))
    <3>1. TurnRecord(task_context, in, n, M, w)
      BY <1>14, <1>3, <2>1 DEF TurnRecord
    <3> QED BY <3>1, TurnRecorded
  <2>3. Says(Rebuilt(Append(task_context, w))) = b \o y
    BY <1>16
  <2> QED BY <2>2, <2>3
<1>7. Says(Rebuilt(Append(task_context, v))) = b \o x
  BY <1>17
<1>8. b \in Seq(Saying) /\ x \in Seq(Saying)
  <2>1. RecordedInputs(in) \in Seq(PriorMessage) /\ ShownOf(l, L) \in Seq(PriorMessage)
    BY <1>3, RecordedType, HeldShown
  <2>2. Append(task_context, RecordedInputs(in)) \in Seq(Seq(PriorMessage))
    BY <1>3, <2>1, TaskAppended
  <2>3. b \in Seq(Saying)
    BY <2>1, <2>2, RebuiltSays
  <2> QED BY <2>1, <2>3, MessageSaysType, GatherType
<1>10. transcript' = Says(Rebuilt(Append(task_context, w)))
  <2> DEFINE z == SaidPart(part)
  <2>1. transcript = b \o x /\ transcript' = transcript \o z /\ y = x \o z
    BY <1>2, <1>3, <1>4, <1>7
  <2>2. z \in Seq(Saying)
    BY <1>2
  <2> HIDE DEF b, x, y, z
  <2>3. (b \o x) \o z = b \o (x \o z)
    BY <1>8, <2>2, ConcatAssociative, SMTT(60)
  <2> QED BY <1>6, <2>1, <2>3
<1>11. RecordSays'
  BY <1>5, <1>6, <1>10 DEF RecordSays
<1>12. SentRecorded'
  <2>1. (RecordWith(NewClient))' = RecordWith(NewClient)
    BY <1>1 DEF RecordWith
  <2>2. Unstubbing' = Unstubbing
    BY <1>1 DEF Unstubbing
  <2> QED BY <1>1, <2>1, <2>2 DEF ConversationInv, SentRecorded
<1>13. StubAlone'
  BY <1>1 DEF ConversationInv, StubAlone
<1> QED BY <1>14, <1>11, <1>12, <1>13 DEF ConversationInv

-----------------------------------------------------------------------------
(* The end of a turn                                                       *)

\* What the client has does not change with the last frame.
LEMMA EndKeepsMessages ==
  ASSUME TypeOK, ClientInStep, NEW ev, ev = [type |-> "message_stop", reason |-> "end_turn"]
  PROVE  Pump(turn, ev).client.messages = turn.client.messages
<1> DEFINE n == turn.adapter.message_id
           p == turn.adapter.pending_usage
           M == turn.client.messages
           x == [type |-> "Done", reason |-> "end_turn"]
<1>1. InStep(Stage, n, M) /\ turn = TurnOf(<<>>, Stage, n, p, M)
  BY TurnIs
<1>2. Stage \in {"new", "open"}
  BY DEF Stage
<1> HIDE DEF n, p, M
<1>3. HandleFrames(<<>>, ev) = One(x) /\ HandleBlocks(<<>>, ev) = <<>> /\ x.type = "Done"
  BY DEF HandleFrames, HandleBlocks, One
<1> HIDE DEF x
<1>4. Pump(turn, ev) = Flush(TurnOf(HandleBlocks(<<>>, ev), Stage, n, p, M), x)
  BY <1>1, <1>3, PumpOne
<1>5. Flush(TurnOf(HandleBlocks(<<>>, ev), Stage, n, p, M), x).client.messages = M
  BY <1>2, <1>3, FlushDone
<1> QED BY <1>4, <1>5 DEF M

\* One sequence begins with another.
LEMMA PrefixIs ==
  ASSUME NEW S, NEW s \in Seq(S), NEW T, NEW t \in Seq(T)
  PROVE  IsPrefix(s, t) <=> Len(s) =< Len(t) /\ \A i \in 1..Len(s) : s[i] = t[i]
<1> DEFINE n == Len(s)
           k == Len(t)
           R == S \cup T
<1>1. n \in Nat /\ k \in Nat /\ s \in Seq(R) /\ t \in Seq(R)
  BY LenProperties, SeqMonotonic
<1> SUFFICES ASSUME n =< k
             PROVE  SubSeq(s, 1, n) = SubSeq(t, 1, n) <=> \A i \in 1..n : s[i] = t[i]
  BY DEF IsPrefix
<1> DEFINE u == SubSeq(s, 1, n)
           v == SubSeq(t, 1, n)
<1>2. u = [i \in 1..n |-> s[i]] /\ v = [i \in 1..n |-> t[i]]
  BY <1>1
<1> HIDE DEF u, v
<1> SUFFICES u = v <=> \A i \in 1..n : s[i] = t[i]
  BY DEF u, v
<1>3. \A i \in 1..n : u[i] = s[i] /\ v[i] = t[i]
  BY <1>2
<1> QED BY <1>2, <1>3

\* A record that grows is rebuilt as what it was, and more.
LEMMA RebuiltIs ==
  ASSUME NEW tasks \in Seq(Seq(PriorMessage))
  PROVE  /\ Rebuilt(tasks) = [i \in 1..Len(WalkPriorMessages(tasks)) |-> SdkOf(WalkPriorMessages(tasks)[i])]
         /\ Rebuilt(tasks) \in Seq({ SdkOf(m) : m \in PlainMessage })
         /\ Len(Rebuilt(tasks)) = Len(WalkPriorMessages(tasks))
<1> DEFINE w == WalkPriorMessages(tasks)
           s == Rebuilt(tasks)
           S == { SdkOf(m) : m \in PlainMessage }
<1>1. w \in Seq(PlainMessage)
  BY WalkRules, EmptySeq
<1>2. s = [i \in 1..Len(w) |-> SdkOf(w[i])]
  BY <1>1, SdkIs DEF Rebuilt
<1> HIDE DEF w, s
<1>3. Len(w) \in Nat /\ \A i \in 1..Len(w) : SdkOf(w[i]) \in S
  BY <1>1, ElementOfSeq, LenProperties
<1> HIDE DEF S
<1>4. s \in [1..Len(w) -> S]
  BY <1>2, <1>3
<1>5. s \in Seq(S) /\ Len(s) = Len(w)
  BY <1>3, <1>4, SeqDef, SMTT(60)
<1> QED BY <1>2, <1>5 DEF w, s, S

\* What begins the walk of one history begins what is rebuilt from it.
Continues(v, w) == \E x \in Seq(PlainMessage) : v = w \o x

\* When the walk of a history continues another's, so do the messages sent.
LEMMA RebuiltExtends ==
  ASSUME NEW tasks \in Seq(Seq(PriorMessage)), NEW more \in Seq(Seq(PriorMessage)),
         Continues(WalkPriorMessages(more), WalkPriorMessages(tasks))
  PROVE  /\ Len(Rebuilt(tasks)) =< Len(Rebuilt(more))
         /\ \A i \in 1..Len(Rebuilt(tasks)) : Rebuilt(more)[i] = Rebuilt(tasks)[i]
<1> DEFINE w == WalkPriorMessages(tasks)
           v == WalkPriorMessages(more)
           s == Rebuilt(tasks)
           t == Rebuilt(more)
<1>7. PICK x \in Seq(PlainMessage) : v = w \o x
  BY DEF Continues
<1>1. w \in Seq(PlainMessage) /\ v = w \o x
  BY <1>7, WalkRules, EmptySeq
<1>2. /\ s = [i \in 1..Len(w) |-> SdkOf(w[i])] /\ Len(s) = Len(w)
      /\ t = [i \in 1..Len(v) |-> SdkOf(v[i])] /\ Len(t) = Len(v)
  BY RebuiltIs
<1> HIDE DEF w, v, s, t
<1>3. Len(w) \in Nat /\ Len(x) \in Nat /\ Len(v) = Len(w) + Len(x)
  BY <1>1, ConcatProperties, LenProperties
<1>4. \A i \in 1..Len(w) : v[i] = w[i]
  <2> DEFINE k == Len(w)
  <2>1. \A i \in 1..(k + Len(x)) : v[i] = IF i =< k THEN w[i] ELSE x[i - k]
    BY <1>1, ConcatProperties
  <2> HIDE DEF k
  <2> QED BY <1>3, <2>1 DEF k
<1>5. \A i \in 1..Len(w) : t[i] = s[i]
  BY <1>2, <1>3, <1>4
<1>6. Len(s) =< Len(t) /\ \A i \in 1..Len(s) : t[i] = s[i]
  <2>1. Len(s) = Len(w) /\ Len(t) = Len(v)
    BY <1>2
  <2>2. Len(w) =< Len(v)
    BY <1>3
  <2>3. Len(s) =< Len(t)
    BY <2>1, <2>2
  <2>4. \A i \in 1..Len(s) : t[i] = s[i]
    BY <1>5, <2>1
  <2> QED BY <2>3, <2>4
<1> QED BY <1>6 DEF s, t

\* The walk of a history with one more turn continues the walk without it.
LEMMA WalkTurn ==
  ASSUME NEW tasks \in Seq(Seq(PriorMessage)), NEW r \in Seq(PriorMessage), NEW s \in Seq(PriorMessage)
  PROVE  /\ Continues(WalkPriorMessages(Append(tasks, r)), WalkPriorMessages(tasks))
         /\ Continues(WalkPriorMessages(Append(tasks, r \o s)), WalkPriorMessages(Append(tasks, r)))
<1> DEFINE w == WalkPriorMessages(tasks)
           x == Gather(PriorReading, r)
           y == Gather(PriorReading, s)
<1>1. r \o s \in Seq(PriorMessage)
  BY ConcatProperties
<1>2. /\ w \in Seq(PlainMessage) /\ WalkPriorMessages(Append(tasks, r)) = w \o x
      /\ WalkPriorMessages(Append(tasks, r \o s)) = w \o Gather(PriorReading, r \o s)
  BY <1>1, WalkRules
<1>3. x \in Seq(PlainMessage) /\ y \in Seq(PlainMessage)
  BY PriorReadingType, GatherType
<1>4. Gather(PriorReading, r \o s) = x \o y
  BY PriorReadingType, GatherConcat
<1> HIDE DEF w, x, y
<1>5. w \o (x \o y) = (w \o x) \o y
  BY <1>2, <1>3, ConcatAssociative, SMTT(60)
<1> DEFINE u == WalkPriorMessages(Append(tasks, r))
           v == WalkPriorMessages(Append(tasks, r \o s))
<1>6. u = w \o x /\ v = u \o y
  BY <1>2, <1>4, <1>5
<1> HIDE DEF u, v
<1>7. Continues(u, w)
  BY <1>3, <1>6 DEF Continues
<1>8. Continues(v, u)
  BY <1>3, <1>6 DEF Continues
<1> QED BY <1>7, <1>8 DEF u, v, w

\* The end of a turn preserves the invariant.
LEMMA EndTurnStep ==
  ASSUME ConversationInv, EndTurn
  PROVE  ConversationInv'
<1> DEFINE in == input[1]
           n == turn.adapter.message_id
           M == turn.client.messages
           r == RecordedInputs(in)
           s == ShownOf(n, M)
           w == r \o s
           ev == [type |-> "message_stop", reason |-> "end_turn"]
<1>1. /\ input # <<>> /\ input' = <<>> /\ turn' = NewTurn
      /\ task_context' = Append(task_context, Record(in, Pump(turn, ev).client))
      /\ UNCHANGED <<use_prompt_cache, sent, calls, transcript, turns, parts>>
  BY DEF EndTurn
<1>2. TypeOK /\ ClientInStep /\ RecordSays /\ SentRecorded /\ StubAlone
  BY DEF ConversationInv
<1>3. Pump(turn, ev).client.messages = M
  BY <1>2, EndKeepsMessages
<1>4. Record(in, Pump(turn, ev).client) = Record(in, turn.client)
  <2> DEFINE c == Pump(turn, ev).client
             d == turn.client
  <2>1. c.messages = d.messages
    BY <1>3
  <2> HIDE DEF c, d
  <2>2. Record(in, c) = Record(in, d)
    BY <2>1 DEF Record
  <2> QED BY <2>2 DEF c, d
<1>5. task_context' = RecordWith(turn.client)
  BY <1>1, <1>4 DEF RecordWith
<1>6. /\ in \in Input /\ input = <<in>> /\ n \in Nat
      /\ RecordWith(turn.client) = Append(task_context, w)
      /\ Unstubbed(task_context) /\ ProperInput(in) /\ Held(n, M)
      /\ task_context \in Seq(Seq(PriorMessage))
  BY <1>1, <1>2, RecordSplits DEF TypeOK
<1> HIDE DEF in, n, M, ev
<1>7. r \in Seq(PriorMessage) /\ s \in Seq(PriorMessage)
  BY <1>6, RecordedType, HeldShown
<1>8. /\ task_context' \in Seq(Seq(PriorMessage)) /\ Unstubbed(task_context')
      /\ transcript' = Says(Rebuilt(task_context'))
  BY <1>1, <1>2, <1>5 DEF RecordSays
<1>9. TypeOK' /\ ClientInStep'
  <2>1. /\ IsBlocks(turn'.blocks) /\ turn'.adapter \in Adapter /\ IsClient(turn'.client)
        /\ ClientInStep'
    BY <1>1, BegunInStep
  <2>2. input' \in Option(Input)
    BY <1>1, EmptySeq DEF Option
  <2> QED BY <1>1, <1>2, <1>8, <2>1, <2>2 DEF TypeOK
<1>10. RecordSays'
  BY <1>1, <1>8 DEF RecordSays, RecordWith
<1>11. SentRecorded'
  <2> SUFFICES ASSUME Unstubbing PROVE IsPrefix(Unmarked(sent), Rebuilt(task_context'))
    BY <1>1 DEF SentRecorded, Unstubbing
  <2> DEFINE q == Append(task_context, r)
  <2>1. RecordWith(NewClient) = q
    BY <1>6, RecordBegun
  <2>2. Unmarked(sent) = Rebuilt(q)
    BY <1>1, <1>2, <2>1 DEF SentRecorded
  <2>3. task_context' = Append(task_context, w)
    BY <1>5, <1>6
  <2>4. q \in Seq(Seq(PriorMessage))
    BY <1>6, <1>7, TaskAppended
  <2>5. Continues(WalkPriorMessages(task_context'), WalkPriorMessages(q))
    <3> HIDE DEF r, s
    <3> QED BY <1>6, <1>7, <2>3, WalkTurn
  <2> HIDE DEF q
  <2>6. /\ Len(Rebuilt(q)) =< Len(Rebuilt(task_context'))
        /\ \A i \in 1..Len(Rebuilt(q)) : Rebuilt(task_context')[i] = Rebuilt(q)[i]
    BY <1>8, <2>4, <2>5, RebuiltExtends
  <2> DEFINE S == { SdkOf(m) : m \in PlainMessage }
  <2>7. Rebuilt(q) \in Seq(S) /\ Rebuilt(task_context') \in Seq(S)
    BY <1>8, <2>4, RebuiltIs
  <2> HIDE DEF S
  <2>8. IsPrefix(Rebuilt(q), Rebuilt(task_context'))
    BY <2>6, <2>7, PrefixIs
  <2> QED BY <2>2, <2>8
<1>12. StubAlone'
  BY <1>1, <1>2 DEF StubAlone
<1> QED BY <1>9, <1>10, <1>11, <1>12 DEF ConversationInv

-----------------------------------------------------------------------------
(* A request                                                               *)

\* What a proper input says.
LEMMA InputSaid ==
  ASSUME NEW in \in Input, ProperInput(in)
  PROVE  FlatMap(SaidInput, InputsOf(in)) \in Seq(Saying)
<1> DEFINE r == RecordedInputs(in)
           s == InputsOf(in)
<1>1. /\ r \in Seq(PriorMessage) /\ Len(r) = Len(s)
      /\ \A i \in 1..Len(s) : s[i] \in InputPiece /\ r[i] = RecordInput(s[i])
  BY RecordedType
<1>2. \A i \in 1..Len(r) : Proper(r[i])
  BY DEF ProperInput
<1>3. FlatMap(SaidInput, s) = Gather(MessageSays, r)
  BY <1>2, InputsSay DEF Proper
<1> HIDE DEF r, s
<1>4. ASSUME NEW i \in 1..Len(r) PROVE MessageSays[r[i]] \in Seq(Saying)
  <2> DEFINE ui == s[i]
             m == r[i]
  <2>1. ui \in InputPiece /\ m = RecordInput(ui) /\ m \in PriorMessage /\ Proper(m)
    BY <1>1, <1>2, ElementOfSeq
  <2> SUFFICES MessageSays[m] \in Seq(Saying)
    OBVIOUS
  <2> HIDE DEF ui, m
  <2>2. CASE ui.type = "ToolCallResult"
    <3> DEFINE x == [role |-> "user", kind |-> "result", id |-> m.tool_call_id, says |-> <<m.result>>]
    <3>1. m.type = "tool_call_result"
      BY <2>1, <2>2 DEF RecordInput
    <3>2. m.tool_call_id \in Nat /\ m.result \in Chunk
      BY <2>1, <3>1, PriorIs
    <3>3. x \in Saying
      <4> DEFINE d == <<m.result>>
      <4>1. d \in Seq(Chunk)
        <5> DEFINE c == m.result
        <5>1. c \in Chunk
          BY <3>2
        <5> HIDE DEF c
        <5>2. <<c>> \in Seq(Chunk)
          BY <5>1
        <5> QED BY <5>2 DEF c
      <4>2. x = [role |-> "user", kind |-> "result", id |-> m.tool_call_id, says |-> d]
        OBVIOUS
      <4> HIDE DEF d, x
      <4> QED BY <3>2, <4>1, <4>2 DEF Saying
    <3>4. MessageSays[m] = <<x>>
      BY <2>1, <3>1, ResultMessageSays
    <3> HIDE DEF x
    <3> QED BY <3>3, <3>4
  <2>3. CASE ui.type = "other"
    <3>1. m.type = "other"
      BY <2>1, <2>3 DEF RecordInput
    <3> QED BY <2>1, <3>1, OtherMessageSays, EmptySeq
  <2>4. CASE ui.type \notin {"ToolCallResult", "other"}
    <3>1. m.type = "user_query"
      BY <2>1, <2>4 DEF RecordInput
    <3>2. m.type \in TextType
      BY <3>1 DEF TextType
    <3>3. MessageSays[m] = SaidText(SpeakerOf(m), m.text) /\ SpeakerOf(m) = "user" /\ "user" \in Role
      BY <2>1, <3>1, <3>2, TextSays DEF SpeakerOf, Role, Proper
    <3>4. m.text \in Seq(Chunk)
      BY <2>1, <3>2, PriorIs
    <3>5. [n |-> 0, closes |-> FALSE] \in Chunk
      BY DEF Chunk
    <3>6. SaidText("user", m.text) \in Seq(Saying)
      BY <3>3, <3>4, <3>5, SaidTextRules
    <3> QED BY <3>3, <3>6
  <2> QED BY <2>2, <2>3, <2>4
<1>5. Gather(MessageSays, r) \in Seq(Saying)
  BY <1>1, <1>4, MessageSaysType, GatherWithin
<1> QED BY <1>3, <1>5 DEF s

\* What a request is made of, and what it makes.
LEMMA AskIs ==
  ASSUME ConversationInv, Ask
  PROVE  \E in : /\ in \in Input /\ ProperInput(in) /\ input' = <<in>> /\ input = <<>>
                 /\ sent' = TranslateWarpRequest(use_prompt_cache, task_context, in)
                 /\ transcript' = transcript \o FlatMap(SaidInput, InputsOf(in))
<1>1. PICK ask \in Asks :
        /\ Answerable(ask)
        /\ input' = <<InputOf(ask)>>
        /\ sent' = TranslateWarpRequest(use_prompt_cache, task_context, InputOf(ask))
        /\ transcript' = transcript \o FlatMap(SaidInput, InputsOf(InputOf(ask)))
  BY DEF Ask
<1> DEFINE in == InputOf(ask)
<1>2. in \in Input /\ ProperInput(in)
  BY <1>1, InputTyped DEF ConversationInv
<1>3. input = <<>>
  BY DEF Ask
<1> HIDE DEF in
<1>4. /\ input' = <<in>> /\ sent' = TranslateWarpRequest(use_prompt_cache, task_context, in)
      /\ transcript' = transcript \o FlatMap(SaidInput, InputsOf(in))
  BY <1>1 DEF in
<1> QED BY <1>2, <1>3, <1>4

\* Between two turns the history is all that was said.
LEMMA IdleRecord ==
  ASSUME ConversationInv, input = <<>>
  PROVE  /\ task_context \in Seq(Seq(PriorMessage)) /\ Unstubbed(task_context)
         /\ transcript = Says(Rebuilt(task_context)) /\ use_prompt_cache \in BOOLEAN
<1>1. RecordWith(turn.client) = task_context
  BY DEF RecordWith
<1> QED BY <1>1 DEF ConversationInv, RecordSays, TypeOK

\* A set of which any three elements are two at most has two at most.
LEMMA AtMostTwo ==
  ASSUME NEW S, IsFiniteSet(S),
         \A i, j, k \in S : i = j \/ j = k \/ i = k
  PROVE  Cardinality(S) =< 2
<1>1. CASE S = {}
  BY <1>1, FS_EmptySet
<1>2. CASE S # {}
  <2>1. PICK a \in S : TRUE
    BY <1>2
  <2> DEFINE T == S \ {a}
  <2>2. IsFiniteSet(T) /\ Cardinality(T) = Cardinality(S) - 1 /\ Cardinality(S) \in Nat
    BY FS_RemoveElement, FS_CardinalityType
  <2>3. CASE T = {}
    BY <2>2, <2>3, FS_EmptySet
  <2>4. CASE T # {}
    <3>1. PICK b \in T : TRUE
      BY <2>4
    <3>2. T = {b}
      BY <2>1, <3>1
    <3>3. Cardinality(T) = 1
      <4> HIDE DEF T
      <4> QED BY <3>2, FS_Singleton
    <3> QED BY <2>2, <3>3
  <2> QED BY <2>3, <2>4
<1> QED BY <1>1, <1>2

\* The messages of a request that have a cache point are two at most.
LEMMA FewMarked ==
  ASSUME NEW ms \in Seq(PlainMessage), NEW on \in BOOLEAN, NEW s, s = Marks(on, ms)
  PROVE  Cardinality(MarkedAt(s)) =< 2
<1>1. /\ Len(ms) \in Nat /\ Len(s) = Len(ms)
      /\ \A i \in 1..Len(ms) : ms[i] \in PlainMessage
  BY LenProperties, ElementOfSeq, MarksAre
<1>2. ASSUME NEW i \in MarkedAt(s)
      PROVE  i \in LastTwo(ms)
  <2> SUFFICES ASSUME i \notin LastTwo(ms) PROVE FALSE
    OBVIOUS
  <2>1. i \in 1..Len(ms) /\ Contains(s[i].content, [sdk |-> "CachePoint"])
    BY <1>1 DEF MarkedAt
  <2>2. s[i] = SdkOf(ms[i])
    BY <2>1 DEF Marks
  <2>3. ms[i].content[1] \in PlainBlock
    BY <1>1, <2>1, PlainIs
  <2>4. PICK x \in SdkBlock : BlockToContent(ms[i].content[1]) = <<x>> /\ x.sdk # "CachePoint"
    BY <2>3, ContentSdk
  <2> DEFINE d == s[i].content
  <2>5. d = <<x>>
    BY <2>2, <2>4 DEF SdkOf
  <2>6. Len(d) = 1 /\ d[1] = x
    BY <2>5
  <2> HIDE DEF d
  <2>7. PICK j \in 1..Len(d) : d[j] = [sdk |-> "CachePoint"]
    BY <2>1 DEF Contains, d
  <2>8. x = [sdk |-> "CachePoint"]
    BY <2>6, <2>7
  <2> QED BY <2>4, <2>8
<1>3. IsFiniteSet(MarkedAt(s))
  <2>1. MarkedAt(s) \subseteq 1..Len(s) /\ IsFiniteSet(1..Len(s))
    BY <1>1, FS_Interval DEF MarkedAt
  <2> QED BY <2>1, FS_Subset
<1>4. \A i, j, k \in MarkedAt(s) : i = j \/ j = k \/ i = k
  BY <1>2, AtMostTwoCachePoints
<1> QED BY <1>3, <1>4, AtMostTwo

\* A request preserves the invariant, and says all that was said.
LEMMA AskStep ==
  ASSUME ConversationInv, Ask
  PROVE  ConversationInv' /\ Says(sent') = transcript'
<1>1. PICK in : /\ in \in Input /\ ProperInput(in) /\ input' = <<in>> /\ input = <<>>
                /\ sent' = TranslateWarpRequest(use_prompt_cache, task_context, in)
                /\ transcript' = transcript \o FlatMap(SaidInput, InputsOf(in))
  BY AskIs
<1> DEFINE s == sent'
           r == RecordedInputs(in)
           w == Append(task_context, r)
<1>2. /\ task_context \in Seq(Seq(PriorMessage)) /\ Unstubbed(task_context)
      /\ transcript = Says(Rebuilt(task_context)) /\ use_prompt_cache \in BOOLEAN
  BY <1>1, IdleRecord
<1>3. /\ turn' = NewTurn /\ calls' = <<>> /\ turns' = turns + 1 /\ turns < MaxTurns
      /\ UNCHANGED <<use_prompt_cache, task_context, parts>>
  BY DEF Ask
<1>4. r \in Seq(PriorMessage) /\ AllProper(r)
  BY <1>1, RecordedType DEF ProperInput, AllProper
<1>5. w \in Seq(Seq(PriorMessage)) /\ Unstubbed(w)
  BY <1>2, <1>4, TaskAppended
<1>6. /\ s \in Seq(Sdk) /\ s # <<>>
      /\ \E ms \in Seq(PlainMessage) : s = Marks(use_prompt_cache, ms)
      /\ \A i \in 1..Len(s) : \E b \in 1..Len(s[i].content) : s[i].content[b].sdk # "CachePoint"
      /\ (\E i \in 1..Len(s) : IsStub(s[i])) => Len(s) = 1
      /\ Says(s) = Says(Rebuilt(task_context)) \o FlatMap(SaidInput, InputsOf(in))
      /\ Says(s) = Says(Rebuilt(w))
      /\ Rebuilt(w) # <<>> => Unmarked(s) = Rebuilt(w)
      /\ ~IsStub(s[1]) => Rebuilt(w) # <<>>
  <2>1. Translated(use_prompt_cache, task_context, in, s)
    <3> HIDE DEF s
    <3>1. s = TranslateWarpRequest(use_prompt_cache, task_context, in)
      BY <1>1 DEF s
    <3> QED BY <1>1, <1>2, <3>1, RequestTranslated
  <2> QED BY <2>1 DEF Translated
<1>7. Says(s) = transcript' /\ transcript' = Says(Rebuilt(w))
  BY <1>1, <1>2, <1>6
<1>8. transcript' \in Seq(Saying)
  <2>1. transcript \in Seq(Saying)
    BY DEF ConversationInv, TypeOK
  <2>2. FlatMap(SaidInput, InputsOf(in)) \in Seq(Saying)
    BY <1>1, InputSaid
  <2> QED BY <1>1, <2>1, <2>2, ConcatProperties
<1>9. /\ IsBlocks(turn'.blocks) /\ turn'.adapter \in Adapter /\ IsClient(turn'.client)
      /\ ClientInStep'
  BY <1>3, BegunInStep
<1>10. TypeOK'
  <2>1. input' \in Option(Input)
    BY <1>1, OneOption
  <2>2. turns \in 0..MaxTurns /\ parts \in 0..MaxParts /\ MaxTurns \in Nat
    BY AskAssumption DEF ConversationInv, TypeOK
  <2>3. turns' \in 0..MaxTurns
    BY <1>3, <2>2
  <2>4. sent' \in Seq([role : {"user", "assistant"}, content : Seq(SdkBlock)])
    BY <1>6 DEF Sdk, Role
  <2>5. calls' \in Seq(Nat)
    BY <1>3, EmptySeq
  <2>6. Cardinality(MarkedAt(sent')) =< 2
    <3>1. PICK ms \in Seq(PlainMessage) : s = Marks(use_prompt_cache, ms)
      BY <1>6
    <3> HIDE DEF s
    <3>2. Cardinality(MarkedAt(s)) =< 2
      BY <1>2, <3>1, FewMarked
    <3> QED BY <3>2 DEF s
  <2> QED BY <1>2, <1>3, <1>8, <1>9, <2>1, <2>2, <2>3, <2>4, <2>5, <2>6 DEF TypeOK
<1>11. (RecordWith(turn.client))' = w /\ (RecordWith(NewClient))' = w
  <2>1. input' # <<>> /\ input'[1] = in
    BY <1>1
  <2>2. Record(in, NewClient) = r
    BY <1>1, RecordNew
  <2>3. turn'.client = NewClient
    BY <1>3 DEF NewTurn
  <2> QED BY <1>3, <2>1, <2>2, <2>3 DEF RecordWith
<1>12. RecordSays'
  BY <1>5, <1>7, <1>11 DEF RecordSays
<1>13. SentRecorded'
  <2>1. input' # <<>>
    BY <1>1
  <2> QED BY <1>6, <1>11, <2>1 DEF SentRecorded, Unstubbing
<1>14. StubAlone'
  BY <1>6 DEF StubAlone
<1> QED BY <1>7, <1>10, <1>9, <1>12, <1>13, <1>14 DEF ConversationInv

-----------------------------------------------------------------------------
(* The invariant                                                           *)

\* The invariant holds before the first turn.
LEMMA InitInv ==
  ASSUME Init
  PROVE  ConversationInv
<1>1. PICK h \in Histories : task_context = h.tasks /\ transcript = h.transcript
  BY DEF Init
<1>2. /\ task_context \in Seq(Seq(PriorMessage)) /\ Unstubbed(task_context)
      /\ transcript \in Seq(Saying) /\ transcript = Says(Rebuilt(task_context))
  BY <1>1, HistoriesAssumption, RecordRead
<1>3. /\ use_prompt_cache \in BOOLEAN /\ input = <<>> /\ turn = NewTurn /\ sent = <<>>
      /\ calls = <<>> /\ turns = 0 /\ parts = 0
  BY DEF Init
<1>4. /\ IsBlocks(turn.blocks) /\ turn.adapter \in Adapter /\ IsClient(turn.client)
      /\ turn = [blocks |-> <<>>, adapter |-> NewAdapter, client |-> NewClient]
  BY <1>3, NewTurnTyped
<1>5. TypeOK
  <2>1. input \in Option(Input) /\ sent \in Seq([role : {"user", "assistant"}, content : Seq(SdkBlock)])
        /\ calls \in Seq(Nat)
    BY <1>3, EmptySeq DEF Option
  <2>2. 0 \in 0..MaxTurns /\ 0 \in 0..MaxParts
    BY AskAssumption
  <2>3. Cardinality(MarkedAt(sent)) =< 2
    <3>1. MarkedAt(sent) = {}
      BY <1>3 DEF MarkedAt
    <3> QED BY <3>1, FS_EmptySet
  <2> QED BY <1>2, <1>3, <1>4, <2>1, <2>2, <2>3 DEF TypeOK
<1>6. ClientInStep
  <2>1. /\ turn.adapter = NewAdapter /\ turn.client = NewClient
        /\ turn = [blocks |-> <<>>, adapter |-> turn.adapter, client |-> turn.client]
    BY <1>4
  <2>2. /\ NewAdapter.message_id = 0 /\ NewAdapter.sent_init = FALSE /\ NewAdapter.active_kind = <<>>
        /\ NewClient.init = FALSE /\ NewClient.task = FALSE /\ NewClient.messages = <<>>
        /\ NewClient.finished = <<>> /\ NewClient.fault = FALSE
    BY DEF NewAdapter, NewClient
  <2>3. DOMAIN NewClient.messages = 1..0
    BY <2>2
  <2> DEFINE a == turn.adapter
             c == turn.client
  <2>4. /\ a.message_id = 0 /\ a.sent_init = FALSE /\ a.active_kind = <<>>
        /\ c.init = FALSE /\ c.task = FALSE /\ c.finished = <<>> /\ c.fault = FALSE
        /\ DOMAIN c.messages = 1..a.message_id
    BY <2>1, <2>2, <2>3
  <2>5. turn = [blocks |-> <<>>, adapter |-> a, client |-> c]
    BY <2>1
  <2> HIDE DEF a, c
  <2>6. \A id \in 1..a.message_id : \A i \in 1..Len(c.messages[id].body) :
           c.messages[id].body[i].kind = c.messages[id].kind
    BY <2>4
  <2> QED BY <2>4, <2>5, <2>6 DEF ClientInStep, a, c
<1>7. RecordSays
  BY <1>2, <1>3 DEF RecordSays, RecordWith
<1>8. SentRecorded
  BY <1>3 DEF SentRecorded, Unstubbing
<1>9. StubAlone
  BY <1>3 DEF StubAlone
<1> QED BY <1>5, <1>6, <1>7, <1>8, <1>9 DEF ConversationInv

\* It depends on the variables alone.
LEMMA StutterInv ==
  ASSUME ConversationInv, UNCHANGED vars
  PROVE  ConversationInv'
  BY DEF ConversationInv, vars, TypeOK, ClientInStep, RecordSays, SentRecorded, StubAlone,
         RecordWith, Unstubbing

\* The invariant: between two content blocks the client has what the adapter believes it
\* has, its record says what was said, and what was sent is a beginning of it (the round
\* trip of stream_accumulator.rs, ui_adapter.rs and translator.rs).
THEOREM ConversationKept == Spec => []ConversationInv
<1>1. Init => ConversationInv
  BY InitInv
<1>2. ConversationInv /\ [Next]_vars => ConversationInv'
  BY AskStep, AnswerStep, EndTurnStep, StutterInv DEF Next
<1> QED BY <1>1, <1>2, PTL DEF Spec

\* In every conversation the state is well typed, and no request has more than the two
\* cache points Bedrock's caching is used with (cache.rs:3-4, 43-51).
THEOREM TypeCorrect == Spec => []TypeOK
<1>1. ConversationInv => TypeOK
  BY DEF ConversationInv
<1> QED BY <1>1, ConversationKept, PTL

\* In every conversation no request is empty or has an empty message, and the diagnostic
\* stub is never sent beside a real message (translator.rs:102-111, 324-325).
THEOREM StubIsAlone == Spec => []StubAlone
<1>1. ConversationInv => StubAlone
  BY DEF ConversationInv
<1> QED BY <1>1, ConversationKept, PTL

\* Only a request begins a turn.
LEMMA AskedIs ==
  ASSUME ConversationInv, [Next]_vars, Asked
  PROVE  Ask
  BY DEF Asked, Next, AnswerBlock, EndTurn, vars

\* In every conversation, however long it is and its answers are, a request says again
\* every text, the payload of every tool call and every result under its call's id, once,
\* in order and under its role (translator.rs:99-137).  Reasoning, which the client never
\* gets, and the tool_use block's own id and name are no part of what is said.
THEOREM TextsAndPayloadsAreKept == Spec => TextsAndPayloadsKept
<1>1. ConversationInv /\ [Next]_vars => [Asked => Says(sent') = transcript']_vars
  BY AskedIs, AskStep
<1> QED BY <1>1, ConversationKept, PTL DEF Spec, TextsAndPayloadsKept

-----------------------------------------------------------------------------
(* A request begins with the one before                                    *)

\* Without its cache points a request has the same messages, under the same roles.
LEMMA UnmarkedTyped ==
  ASSUME NEW s \in Seq(Sdk)
  PROVE  /\ \E S : Unmarked(s) \in Seq(S)
         /\ Len(Unmarked(s)) = Len(s)
         /\ \A i \in 1..Len(s) : Unmarked(s)[i].role = s[i].role
<1> DEFINE n == Len(s)
           u == Unmarked(s)
           S == { u[i] : i \in 1..n }
           f(m) == [m EXCEPT !.content =
                      FlatMap(LAMBDA b : IF b.sdk = "CachePoint" THEN <<>> ELSE <<b>>, @)]
<1>1. n \in Nat /\ \A i \in 1..n : s[i] \in Sdk
  BY ElementOfSeq, LenProperties
<1>2. u = [i \in 1..n |-> f(s[i])]
  BY DEF Unmarked
<1>3. \A m \in Sdk : f(m).role = m.role
  BY DEF Sdk
<1>4. \A i \in 1..n : u[i] \in S
  OBVIOUS
<1> HIDE DEF n, u, S, f
<1>5. \A i \in 1..n : u[i].role = s[i].role
  BY <1>1, <1>2, <1>3
<1>6. u = [i \in 1..n |-> u[i]]
  BY <1>2
<1>7. u \in [1..n -> S]
  BY <1>4, <1>6
<1>8. u \in Seq(S) /\ Len(u) = n
  BY <1>1, <1>7, SeqDef
<1> QED BY <1>5, <1>8 DEF n, u

\* A request continues the one before, message by message.
LEMMA SentExtends ==
  ASSUME ConversationInv, Ask, Unstubbing
  PROVE  /\ sent' \in Seq(Sdk) /\ Len(sent) =< Len(sent')
         /\ \A i \in 1..Len(sent) : Unmarked(sent')[i] = Unmarked(sent)[i]
         /\ \E ms \in Seq(PlainMessage) : sent' = Marks(use_prompt_cache, ms)
<1>1. PICK in : /\ in \in Input /\ ProperInput(in) /\ input' = <<in>> /\ input = <<>>
                /\ sent' = TranslateWarpRequest(use_prompt_cache, task_context, in)
                /\ transcript' = transcript \o FlatMap(SaidInput, InputsOf(in))
  BY AskIs
<1> DEFINE r == RecordedInputs(in)
           w == Append(task_context, r)
           old == Rebuilt(task_context)
           new == Rebuilt(w)
           s == sent'
           u == Unmarked(sent)
<1>2. /\ task_context \in Seq(Seq(PriorMessage)) /\ Unstubbed(task_context)
      /\ use_prompt_cache \in BOOLEAN
  BY <1>1, IdleRecord
<1>3. r \in Seq(PriorMessage) /\ <<>> \in Seq(PriorMessage)
  BY <1>1, RecordedType, EmptySeq
<1>4. w \in Seq(Seq(PriorMessage))
  BY <1>2, <1>3, TaskAppended
<1>5. Continues(WalkPriorMessages(w), WalkPriorMessages(task_context))
  <2> HIDE DEF r
  <2> QED BY <1>2, <1>3, WalkTurn
<1>6. IsPrefix(u, old)
  BY <1>1 DEF ConversationInv, SentRecorded
<1>7. sent \in Seq(Sdk) /\ Len(sent) # 0
  <2>1. sent \in Seq(Sdk) /\ sent # <<>>
    BY DEF ConversationInv, TypeOK, Unstubbing, Sdk, Role
  <2> QED BY <2>1, EmptySeq
<1>8. Len(u) = Len(sent) /\ Len(sent) \in Nat
  BY <1>7, UnmarkedTyped, LenProperties
<1>9. PICK S : u \in Seq(S)
  BY <1>7, UnmarkedTyped
<1>10. Translated(use_prompt_cache, task_context, in, s)
  <2> HIDE DEF s
  <2>1. s = TranslateWarpRequest(use_prompt_cache, task_context, in)
    BY <1>1 DEF s
  <2> QED BY <1>1, <1>2, <2>1, RequestTranslated
<1>11. /\ s \in Seq(Sdk)
       /\ new # <<>> => /\ s = Marks(use_prompt_cache, Built(task_context, in))
                        /\ Unmarked(s) = new
  BY <1>10 DEF Translated
<1> HIDE DEF w
<1>12. /\ Len(old) =< Len(new) /\ \A i \in 1..Len(old) : new[i] = old[i]
  BY <1>2, <1>4, <1>5, RebuiltExtends
<1> DEFINE T == { SdkOf(m) : m \in PlainMessage }
<1>13. old \in Seq(T) /\ new \in Seq(T)
  BY <1>2, <1>4, RebuiltIs
<1> HIDE DEF T, old, new, u
<1>14. Len(u) =< Len(old) /\ \A i \in 1..Len(u) : u[i] = old[i]
  BY <1>6, <1>9, <1>13, PrefixIs
<1>15. Len(old) \in Nat /\ Len(new) \in Nat
  BY <1>13, LenProperties
<1>16. new # <<>>
  <2>1. Len(new) # 0
    BY <1>7, <1>8, <1>12, <1>14, <1>15
  <2> QED BY <2>1, EmptySeq
<1>17. Unmarked(s) = new /\ s = Marks(use_prompt_cache, Built(task_context, in))
  BY <1>11, <1>16
<1>18. Len(new) = Len(s)
  BY <1>11, <1>17, UnmarkedTyped
<1>19. Len(sent) =< Len(s)
  BY <1>8, <1>12, <1>14, <1>15, <1>18
<1>20. \A i \in 1..Len(sent) : Unmarked(s)[i] = u[i]
  <2> SUFFICES ASSUME NEW i \in 1..Len(sent) PROVE new[i] = u[i]
    BY <1>17
  <2>1. i \in 1..Len(u) /\ i \in 1..Len(old)
    BY <1>8, <1>14, <1>15
  <2> QED BY <1>12, <1>14, <2>1
<1>21. Built(task_context, in) \in Seq(PlainMessage)
  BY <1>1, <1>2, BuiltIs
<1> QED BY <1>11, <1>17, <1>19, <1>20, <1>21 DEF u

\* In every conversation a request begins with the one before it, cache points aside: the
\* walk of the history yields again what the walk of the input yielded, so Bedrock can
\* find the cached prefix (translator.rs:99-137, cache.rs:3-4).
THEOREM PrefixIsStable == Spec => PrefixStable
<1>1. ASSUME ConversationInv, [Next]_vars, Asked, Unstubbing
      PROVE  IsPrefix(Unmarked(sent), Unmarked(sent'))
  <2>1. Ask
    BY <1>1, AskedIs
  <2>2. /\ sent' \in Seq(Sdk) /\ Len(sent) =< Len(sent')
        /\ \A i \in 1..Len(sent) : Unmarked(sent')[i] = Unmarked(sent)[i]
    BY <1>1, <2>1, SentExtends
  <2>3. sent \in Seq(Sdk)
    BY <1>1 DEF ConversationInv, TypeOK, Sdk, Role
  <2> DEFINE u == Unmarked(sent)
             v == Unmarked(sent')
  <2>4. Len(u) = Len(sent) /\ Len(v) = Len(sent')
    BY <2>2, <2>3, UnmarkedTyped
  <2>5. PICK S : u \in Seq(S)
    BY <2>3, UnmarkedTyped
  <2>6. PICK T : v \in Seq(T)
    BY <2>2, UnmarkedTyped
  <2>7. Len(u) =< Len(v) /\ \A i \in 1..Len(u) : u[i] = v[i]
    BY <2>2, <2>4
  <2> HIDE DEF u, v
  <2>8. IsPrefix(u, v)
    BY <2>5, <2>6, <2>7, PrefixIs
  <2> QED BY <2>8 DEF u, v
<1>2. ConversationInv /\ [Next]_vars
        => [Asked /\ sent # <<>> /\ ~IsStub(sent[1])
              => IsPrefix(Unmarked(sent), Unmarked(sent'))]_vars
  BY <1>1 DEF Unstubbing
<1> QED BY <1>2, ConversationKept, PTL DEF Spec, PrefixStable

-----------------------------------------------------------------------------
(* A prefix that was cached is marked again                                *)

\* Of a set that is larger by one at most, one element at most is new.
LEMMA OneMore ==
  ASSUME NEW A, NEW B, IsFiniteSet(B), A \subseteq B, Cardinality(B) =< Cardinality(A) + 1,
         NEW p \in B \ A, NEW q \in B \ A
  PROVE  p = q
<1> SUFFICES ASSUME p # q PROVE FALSE
  OBVIOUS
<1>1. IsFiniteSet(A) /\ Cardinality(A) \in Nat
  BY FS_Subset, FS_CardinalityType
<1>2. IsFiniteSet(A \cup {p}) /\ Cardinality(A \cup {p}) = Cardinality(A) + 1
  BY <1>1, FS_AddElement
<1> DEFINE D == A \cup {p}
           C == D \cup {q}
<1>3. q \notin D /\ C \subseteq B
  OBVIOUS
<1>4. IsFiniteSet(C) /\ Cardinality(C) = Cardinality(A) + 2
  <2>1. IsFiniteSet(D) /\ Cardinality(D) = Cardinality(A) + 1
    BY <1>2
  <2> HIDE DEF D
  <2>2. IsFiniteSet(C) /\ Cardinality(C) = Cardinality(D) + 1
    BY <1>3, <2>1, FS_AddElement
  <2> QED BY <1>1, <2>1, <2>2
<1> HIDE DEF C
<1>5. Cardinality(C) =< Cardinality(B) /\ Cardinality(B) \in Nat
  BY <1>3, FS_Subset, FS_CardinalityType
<1> QED BY <1>1, <1>4, <1>5

\* With caching on, the last two user messages of a request are marked.
LEMMA MarkedIs ==
  ASSUME NEW ms \in Seq(PlainMessage), NEW on \in BOOLEAN, on, NEW s, s = Marks(on, ms)
  PROVE  /\ Len(s) = Len(ms) /\ \A i \in 1..Len(s) : s[i].role = ms[i].role
         /\ LastTwo(s) \subseteq MarkedAt(s)
<1>1. s = [i \in 1..Len(ms) |-> IF i \in LastTwo(ms) THEN MarkedOf(ms[i]) ELSE SdkOf(ms[i])]
  BY DEF Marks
<1>2. Len(ms) \in Nat /\ Len(s) = Len(ms)
  BY LenProperties, MarksAre
<1>3. \A m : SdkOf(m).role = m.role /\ MarkedOf(m).role = m.role
  BY DEF SdkOf, MarkedOf
<1>4. \A i \in 1..Len(ms) : s[i].role = ms[i].role
  BY <1>1, <1>3
<1>5. LastTwo(s) = LastTwo(ms)
  <2> DEFINE n == Len(ms)
  <2>1. n \in Nat /\ Len(s) = n /\ \A i \in 1..n : s[i].role = ms[i].role
    BY <1>2, <1>4
  <2>2. Len(ms) = n
    OBVIOUS
  <2> HIDE DEF n
  <2>3. ASSUME NEW i \in 1..n
        PROVE  i \in LastTwo(s) <=> i \in LastTwo(ms)
    <3>1. \A j \in (i + 1)..n : j \in 1..n
      BY <2>1
    <3>2. \A j \in (i + 1)..n : s[j].role = ms[j].role
      BY <2>1, <3>1
    <3>3. s[i].role = ms[i].role
      BY <2>1
    <3>4. i \in LastTwo(s)
            <=> /\ s[i].role = "user"
                /\ \A j, k \in (i + 1)..n : s[j].role = "user" /\ s[k].role = "user" => j = k
      BY <2>1, Zenon DEF LastTwo
    <3>5. i \in LastTwo(ms)
            <=> /\ ms[i].role = "user"
                /\ \A j, k \in (i + 1)..n : ms[j].role = "user" /\ ms[k].role = "user" => j = k
      BY <2>2, Zenon DEF LastTwo
    <3> QED BY <3>2, <3>3, <3>4, <3>5, ZenonT(60)
  <2>4. LastTwo(s) \subseteq 1..n /\ LastTwo(ms) \subseteq 1..n
    BY <2>1, <2>2 DEF LastTwo
  <2> QED BY <2>3, <2>4
<1>6. ASSUME NEW i \in LastTwo(s) PROVE i \in MarkedAt(s)
  <2>1. i \in 1..Len(ms) /\ s[i] = MarkedOf(ms[i])
    BY <1>1, <1>5, <1>6 DEF LastTwo
  <2>2. ms[i].content[1] \in PlainBlock
    BY <2>1, ElementOfSeq, PlainIs
  <2>3. PICK x \in SdkBlock : BlockToContent(ms[i].content[1]) = <<x>>
    BY <2>2, ContentSdk
  <2> DEFINE c == <<x>> \o <<Point>>
  <2>4. s[i].content = c
    <3> DEFINE d == BlockToContent(ms[i].content[1])
    <3>1. MarkedOf(ms[i]).content = d \o <<Point>>
      BY DEF MarkedOf
    <3>2. d = <<x>>
      BY <2>3
    <3> HIDE DEF d
    <3> QED BY <2>1, <3>1, <3>2
  <2>5. 2 \in 1..Len(c) /\ c[2] = Point
    OBVIOUS
  <2>6. Contains(s[i].content, [sdk |-> "CachePoint"])
    BY <2>4, <2>5 DEF Contains, Point
  <2> QED BY <1>2, <2>1, <2>6 DEF MarkedAt
<1> QED BY <1>2, <1>4, <1>6

\* In every conversation with caching on, the prefix one request marked last is marked
\* again by the next, if that adds one user message at most (cache.rs:3-4, 43-51).
THEOREM CacheIsReusable == Spec => CacheReusable
<1>1. ASSUME ConversationInv, Ask, Unstubbing, use_prompt_cache,
             Cardinality(UsersAt(sent')) =< Cardinality(UsersAt(sent)) + 1,
             NEW i \in UsersAt(sent), \A j \in UsersAt(sent) : j =< i
      PROVE  i \in MarkedAt(sent')
  <2> DEFINE s == sent'
  <2>1. /\ s \in Seq(Sdk) /\ Len(sent) =< Len(s)
        /\ \A k \in 1..Len(sent) : Unmarked(s)[k] = Unmarked(sent)[k]
    BY <1>1, SentExtends
  <2>2. PICK ms \in Seq(PlainMessage) : s = Marks(use_prompt_cache, ms)
    BY <1>1, SentExtends
  <2>3. sent \in Seq(Sdk) /\ use_prompt_cache \in BOOLEAN
    BY <1>1 DEF ConversationInv, TypeOK, Sdk, Role
  <2>4. Len(sent) \in Nat /\ Len(s) \in Nat
    BY <2>1, <2>3, LenProperties
  <2>5. Cardinality(UsersAt(s)) =< Cardinality(UsersAt(sent)) + 1
    BY <1>1
  <2> HIDE DEF s
  <2>6. LastTwo(s) \subseteq MarkedAt(s)
    BY <1>1, <2>2, <2>3, MarkedIs
  <2>7. \A k \in 1..Len(sent) : s[k].role = sent[k].role
    <3> SUFFICES ASSUME NEW k \in 1..Len(sent) PROVE s[k].role = sent[k].role
      OBVIOUS
    <3>1. k \in 1..Len(s)
      BY <2>1, <2>4
    <3>2. Unmarked(s)[k].role = s[k].role /\ Unmarked(sent)[k].role = sent[k].role
      BY <2>1, <2>3, <3>1, UnmarkedTyped
    <3> QED BY <2>1, <3>2
  <2>8. UsersAt(sent) \subseteq UsersAt(s)
    BY <2>1, <2>4, <2>7 DEF UsersAt
  <2>9. IsFiniteSet(UsersAt(s))
    <3>1. UsersAt(s) \subseteq 1..Len(s) /\ IsFiniteSet(1..Len(s))
      BY <2>4, FS_Interval DEF UsersAt
    <3> QED BY <3>1, FS_Subset
  <2>10. ASSUME NEW p \in (Len(sent) + 1)..Len(s), NEW q \in (Len(sent) + 1)..Len(s),
                s[p].role = "user", s[q].role = "user"
         PROVE  p = q
    <3>1. p \in UsersAt(s) \ UsersAt(sent) /\ q \in UsersAt(s) \ UsersAt(sent)
      BY <2>4, <2>10 DEF UsersAt
    <3> QED BY <2>5, <2>8, <2>9, <3>1, OneMore
  <2>11. i \in 1..Len(sent) /\ sent[i].role = "user"
    BY <1>1 DEF UsersAt
  <2>12. \A p \in (i + 1)..Len(sent) : sent[p].role # "user"
    BY <1>1, <2>4, <2>11 DEF UsersAt
  <2>13. i \in LastTwo(s)
    BY <2>1, <2>3, <2>7, <2>10, <2>11, <2>12, LastMarkSurvives
  <2> QED BY <2>6, <2>13 DEF s
<1>2. ConversationInv /\ [Next]_vars
        => [ Asked /\ sent # <<>> /\ ~IsStub(sent[1]) /\ use_prompt_cache
               /\ Cardinality(UsersAt(sent')) =< Cardinality(UsersAt(sent)) + 1
               => \A i \in UsersAt(sent) :
                    (\A j \in UsersAt(sent) : j =< i) => i \in MarkedAt(sent') ]_vars
  BY <1>1, AskedIs DEF Unstubbing
<1> QED BY <1>2, ConversationKept, PTL DEF Spec, CacheReusable

=============================================================================
