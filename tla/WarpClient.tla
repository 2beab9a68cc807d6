------------------------------ MODULE WarpClient ------------------------------
(***************************************************************************)
(* The Warp client at the other end of the SSE body, as far as the         *)
(* repository describes it (the comments of src/src/ui_adapter.rs:95-113   *)
(* and 223-230, src/docs/upstream-warp-audit-2026-05.md): a fold of the    *)
(* ResponseEvents it receives.  An append lands only in a message that is  *)
(* registered and whose oneof is of the masked kind; otherwise it is a     *)
(* fault, which the client answers with MessageNotFound or a silent no-op. *)
(***************************************************************************)
EXTENDS Integers, Sequences, UiAdapter

NewClient == [init     |-> FALSE,     \* StreamInit was received
              task     |-> FALSE,     \* the task is registered
              messages |-> <<>>,      \* message id -> [kind, body]
              finished |-> <<>>,      \* the StreamFinished events received
              fault    |-> FALSE]     \* some event could not be applied

Message == [kind : ActiveKind, body : Seq(Content)]

IsClient(client) ==
  /\ client \in [init : BOOLEAN, task : BOOLEAN, messages : {client.messages},
                 finished : Seq(ResponseEvent), fault : BOOLEAN]
  /\ DOMAIN client.messages \subseteq Nat
  /\ \A i \in DOMAIN client.messages : client.messages[i] \in Message

Lands(client, event) ==
  CASE event.type = "StreamInit"             -> ~client.init
    [] event.type = "CreateTask"             -> client.init /\ ~client.task
    [] event.type = "AddMessagesToTask"      ->
         client.task /\ event.id \notin DOMAIN client.messages
    [] event.type = "AppendToMessageContent" ->
         /\ event.id \in DOMAIN client.messages
         /\ client.messages[event.id].kind = event.kind
    [] OTHER                                 -> client.init

Register(messages, id, kind) ==
  [i \in DOMAIN messages \cup {id} |->
     IF i = id THEN [kind |-> kind, body |-> <<>>] ELSE messages[i]]

Extend(messages, id, content) ==
  [messages EXCEPT ![id] = [kind |-> @.kind, body |-> @.body \o content]]

Applied(client, event) ==
  CASE event.type = "StreamInit"             -> [client EXCEPT !.init = TRUE]
    [] event.type = "CreateTask"             -> [client EXCEPT !.task = TRUE]
    [] event.type = "AddMessagesToTask"      ->
         [client EXCEPT !.messages = Register(@, event.id, event.kind)]
    [] event.type = "AppendToMessageContent" ->
         [client EXCEPT !.messages = Extend(@, event.id, event.content)]
    [] OTHER                                 -> [client EXCEPT !.finished = Append(@, event)]

Receive(client, event) ==
  IF Lands(client, event) THEN Applied(client, event) ELSE [client EXCEPT !.fault = TRUE]

=============================================================================
