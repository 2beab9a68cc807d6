-------------------------------- MODULE Server --------------------------------
(***************************************************************************)
(* The HTTPS server of src/src/server.rs and its owner (run_server in      *)
(* src/src/main.rs, or a test): the accept loop, one detached task per     *)
(* connection, the dispatch of each request, and the two ways down, the    *)
(* ShutdownTx and the end of the runtime.                                  *)
(*                                                                         *)
(* A streaming response is one step here, from its head to the end of its  *)
(* body: Turn is the detail of it, and TurnContract what it promises.      *)
(* HTTP/1.1 serves the requests of one connection in order (hyper).        *)
(***************************************************************************)
EXTENDS Integers, Sequences, FiniteSets

CONSTANTS Conns,       \* the connections clients may open
          Stalled,     \* those whose client may stop talking and reading for good
          MaxOpen,     \* the connections the process has file descriptors for
          MaxRequests, \* bound on the requests of each connection
          StubWarpApi  \* cfg.proxy.stub_warp_api

ASSUME ServerAssumption ==
  /\ IsFiniteSet(Conns) /\ Stalled \subseteq Conns
  /\ MaxOpen \in Nat \ {0} /\ MaxRequests \in [Conns -> Nat] /\ StubWarpApi \in BOOLEAN

VARIABLES
  wired,     \* the server was started by spawn, not by spawn_test_server
  shutdown,  \* the ShutdownTx: "held" by its owner, "sent", "dropped"
  acceptor,  \* the accept loop: "listening", "closed"
  runtime,   \* the tokio runtime: "up", "down"
  backlog,   \* the connections the kernel holds for accept()
  conn,      \* the state of each connection's task
  requests,  \* the requests that arrived on each connection
  answers    \* the responses that were sent in full

vars == <<wired, shutdown, acceptor, runtime, backlog, conn, requests, answers>>

Route == {"multi_agent", "health", "warp_stub", "other"}
Status == {200, 404, 500, 501}

\* "left": the client closed it, or broke HTTP on it; "failed": its TLS handshake
\* did, and the server closed it; "refused": the listener was gone before it was
\* accepted; "cut": it was accepted, and the end of the runtime closed it.
ConnState == {"none", "backlog", "handshake", "idle", "handling", "streaming",
              "left", "failed", "refused", "cut"}
Open == {"handshake", "idle", "handling", "streaming"}

Init ==
  /\ wired \in BOOLEAN
  /\ shutdown = "held" /\ acceptor = "listening" /\ runtime = "up"
  /\ backlog = <<>>
  /\ conn = [c \in Conns |-> "none"]
  /\ requests = [c \in Conns |-> <<>>] /\ answers = [c \in Conns |-> <<>>]

-----------------------------------------------------------------------------
(* Clients                                                                 *)

Connect(c) ==
  /\ conn[c] = "none" /\ acceptor = "listening"
  /\ conn' = [conn EXCEPT ![c] = "backlog"]
  /\ backlog' = Append(backlog, c)
  /\ UNCHANGED <<wired, shutdown, acceptor, runtime, requests, answers>>

\* A request arrives whole; it may do so while an earlier one is served.
Ask(c) ==
  /\ conn[c] \in {"idle", "handling", "streaming"} /\ Len(requests[c]) < MaxRequests[c]
  /\ \E route \in Route : requests' = [requests EXCEPT ![c] = Append(@, route)]
  /\ UNCHANGED <<wired, shutdown, acceptor, runtime, backlog, conn, answers>>

\* The client closes, or what it sends is not HTTP: the connection's future ends,
\* with the handler's in it.  One that was not accepted yet stays in the queue.
Leave(c) ==
  /\ conn[c] \in Open \cup {"backlog"}
  /\ conn' = [conn EXCEPT ![c] = "left"]
  /\ UNCHANGED <<wired, shutdown, acceptor, runtime, backlog, requests, answers>>

-----------------------------------------------------------------------------
(* The accept loop                                                         *)

\* A file descriptor is left for one more connection.
Free == Cardinality({c \in Conns : conn[c] \in Open}) < MaxOpen

\* Mutation: the handshake is awaited in the accept loop.
AcceptInline ==
  /\ acceptor = "listening" /\ backlog # <<>>
  /\ Free /\ conn[Head(backlog)] = "backlog"
  /\ \A c \in Conns : conn[c] # "handshake"
  /\ conn' = [conn EXCEPT ![Head(backlog)] = "handshake"]
  /\ backlog' = Tail(backlog)
  /\ UNCHANGED <<wired, shutdown, acceptor, runtime, requests, answers>>

\* accept() returns a connection; a task is spawned for it.
Accept ==
  /\ acceptor = "listening" /\ backlog # <<>>
  /\ Free /\ conn[Head(backlog)] = "backlog"
  /\ conn' = [conn EXCEPT ![Head(backlog)] = "handshake"]
  /\ backlog' = Tail(backlog)
  /\ UNCHANGED <<wired, shutdown, acceptor, runtime, requests, answers>>

\* The client at the head of the queue is gone: accept() fails, or the handshake
\* does at once, and the loop continues.
AcceptAborted ==
  /\ acceptor = "listening" /\ backlog # <<>>
  /\ conn[Head(backlog)] = "left"
  /\ backlog' = Tail(backlog)
  /\ UNCHANGED <<wired, shutdown, acceptor, runtime, conn, requests, answers>>

-----------------------------------------------------------------------------
(* The end of the accept loop                                              *)

\* What closing the listener leaves of the connections.
Refused == [c \in Conns |-> IF conn[c] = "backlog" THEN "refused" ELSE conn[c]]

\* Mutation: `break` where the code says `continue`.
AcceptExhaustedBreak ==
  /\ acceptor = "listening" /\ backlog # <<>> /\ ~Free
  /\ acceptor' = "closed"
  /\ conn' = Refused /\ backlog' = <<>>
  /\ UNCHANGED <<wired, shutdown, runtime, requests, answers>>

\* accept() fails for want of a file descriptor (EMFILE): the connection stays in
\* the queue, and the loop asks again, at once and as long as none is free.
AcceptExhausted ==
  /\ acceptor = "listening" /\ backlog # <<>> /\ ~Free
  /\ UNCHANGED vars

\* Mutation: the connections are waited for before the loop is left.
StopAcceptingDrained ==
  /\ acceptor = "listening" /\ shutdown # "held"
  /\ \A c \in Conns : conn[c] \notin Open
  /\ acceptor' = "closed"
  /\ conn' = Refused /\ backlog' = <<>>
  /\ UNCHANGED <<wired, shutdown, runtime, requests, answers>>

\* select! returns when rx resolves, by a value or because the sender is gone:
\* the listener is dropped, the tasks of accepted connections are not.
StopAccepting ==
  /\ acceptor = "listening" /\ shutdown # "held"
  /\ acceptor' = "closed"
  /\ conn' = Refused /\ backlog' = <<>>
  /\ UNCHANGED <<wired, shutdown, runtime, requests, answers>>

-----------------------------------------------------------------------------
(* A connection's task: handshake, then one request after the other        *)

Handshake(c) ==
  /\ conn[c] = "handshake"
  /\ conn' = [conn EXCEPT ![c] = "idle"]
  /\ UNCHANGED <<wired, shutdown, acceptor, runtime, backlog, requests, answers>>

\* The task returns and drops the stream; nothing else hears of it.
HandshakeFails(c) ==
  /\ conn[c] = "handshake"
  /\ conn' = [conn EXCEPT ![c] = "failed"]
  /\ UNCHANGED <<wired, shutdown, acceptor, runtime, backlog, requests, answers>>

Waiting(c) == Len(answers[c]) < Len(requests[c])
Current(c) == requests[c][Len(answers[c]) + 1]

\* The answer to a route that is not piped into a turn.
StaticStatus(route) ==
  CASE route = "health"                                -> 200
    [] route = "multi_agent"                           -> 501
    [] route = "warp_stub" /\ wired /\ StubWarpApi     -> 200
    [] OTHER                                           -> 404

Answer(c, status) == answers' = [answers EXCEPT ![c] = Append(@, status)]

\* Mutation: spawn serves /ai/multi-agent with the handler of spawn_test_server.
ServeStaticLegacy(c) ==
  /\ conn[c] = "idle" /\ Waiting(c)
  /\ Answer(c, StaticStatus(Current(c)))
  /\ UNCHANGED <<wired, shutdown, acceptor, runtime, backlog, conn, requests>>

ServeStatic(c) ==
  /\ conn[c] = "idle" /\ Waiting(c)
  /\ ~(Current(c) = "multi_agent" /\ wired)
  /\ Answer(c, StaticStatus(Current(c)))
  /\ UNCHANGED <<wired, shutdown, acceptor, runtime, backlog, conn, requests>>

\* Mutation: turns are served one at a time.
ServeTurnExclusive(c) ==
  /\ conn[c] = "idle" /\ Waiting(c)
  /\ Current(c) = "multi_agent" /\ wired
  /\ \A d \in Conns : conn[d] \notin {"handling", "streaming"}
  /\ conn' = [conn EXCEPT ![c] = "handling"]
  /\ UNCHANGED <<wired, shutdown, acceptor, runtime, backlog, requests, answers>>

\* route_multi_agent::handle is awaited.
ServeTurn(c) ==
  /\ conn[c] = "idle" /\ Waiting(c)
  /\ Current(c) = "multi_agent" /\ wired
  /\ conn' = [conn EXCEPT ![c] = "handling"]
  /\ UNCHANGED <<wired, shutdown, acceptor, runtime, backlog, requests, answers>>

\* It fails: the error becomes a 500, and the connection goes on.
TurnFails(c) ==
  /\ conn[c] = "handling"
  /\ conn' = [conn EXCEPT ![c] = "idle"]
  /\ Answer(c, 500)
  /\ UNCHANGED <<wired, shutdown, acceptor, runtime, backlog, requests>>

TurnStreams(c) ==
  /\ conn[c] = "handling"
  /\ conn' = [conn EXCEPT ![c] = "streaming"]
  /\ UNCHANGED <<wired, shutdown, acceptor, runtime, backlog, requests, answers>>

\* The body of the streaming response ends.
TurnEnds(c) ==
  /\ conn[c] = "streaming"
  /\ conn' = [conn EXCEPT ![c] = "idle"]
  /\ Answer(c, 200)
  /\ UNCHANGED <<wired, shutdown, acceptor, runtime, backlog, requests>>

-----------------------------------------------------------------------------
(* The owner                                                               *)

\* Ctrl-C in run_server; ShutdownTx::send in a test.
SendShutdown ==
  /\ shutdown = "held"
  /\ shutdown' = "sent"
  /\ UNCHANGED <<wired, acceptor, runtime, backlog, conn, requests, answers>>

DropShutdown ==
  /\ shutdown = "held"
  /\ shutdown' = "dropped"
  /\ UNCHANGED <<wired, acceptor, runtime, backlog, conn, requests, answers>>

\* run_server returns and drops its runtime: every task is cancelled where it
\* stands, the accept loop included if it had not noticed the signal yet.
DropRuntime ==
  /\ shutdown # "held" /\ runtime = "up"
  /\ runtime' = "down"
  /\ acceptor' = "closed"
  /\ conn' = [c \in Conns |-> IF Refused[c] \in Open THEN "cut" ELSE Refused[c]]
  /\ backlog' = <<>>
  /\ UNCHANGED <<wired, shutdown, requests, answers>>

-----------------------------------------------------------------------------

Client(c) == Connect(c) \/ Ask(c) \/ Leave(c)
AcceptLoop == Accept \/ AcceptAborted \/ AcceptExhausted \/ StopAccepting
Serve(c) == ServeStatic(c) \/ ServeTurn(c) \/ TurnFails(c) \/ TurnStreams(c) \/ TurnEnds(c)
Connection(c) == Handshake(c) \/ HandshakeFails(c) \/ Serve(c)
Owner == SendShutdown \/ DropShutdown \/ DropRuntime

Next == \/ \E c \in Conns : Client(c) \/ Connection(c)
        \/ AcceptLoop \/ Owner
        \/ runtime = "down" /\ UNCHANGED vars

Spec == Init /\ [][Next]_vars

\* Every ready task is polled, the accept loop also while it fails: tokio's budget
\* makes it yield.  A turn whose client reads makes progress
\* (TurnProperties!BodyEnds).  Nothing is assumed of a stalled client.
FairSpec ==
  /\ Spec
  /\ WF_vars(Accept \/ AcceptAborted) /\ WF_vars(StopAccepting)
  /\ \A c \in Conns \ Stalled : WF_vars(Connection(c))

=============================================================================
