--------------------------- MODULE ServerProperties ---------------------------
(***************************************************************************)
(* What the server owes its clients and its owner.                         *)
(***************************************************************************)
EXTENDS Server

\* Types; a task that serves has a request to serve; and only the owner's word
\* closes the listener, not an accept that fails.
TypeOK ==
  /\ wired \in BOOLEAN
  /\ shutdown \in {"held", "sent", "dropped"}
  /\ acceptor \in {"listening", "closed"} /\ runtime \in {"up", "down"}
  /\ backlog \in Seq(Conns)
  /\ conn \in [Conns -> ConnState]
  /\ requests \in [Conns -> Seq(Route)] /\ answers \in [Conns -> Seq(Status)]
  /\ \A c \in Conns : /\ Len(answers[c]) =< Len(requests[c])
                      /\ conn[c] \in {"handling", "streaming"} => Waiting(c)
  /\ acceptor = "closed" => shutdown # "held"

-----------------------------------------------------------------------------

\* What each route may be answered.
Fitting == [multi_agent |-> IF wired THEN {200, 500} ELSE {501},
            health      |-> {200},
            warp_stub   |-> IF wired /\ StubWarpApi THEN {200} ELSE {404},
            other       |-> {404}]

\* On a connection that carries several requests, some of them turns that fail or
\* stream, the i-th answer is one to the i-th request: a turn's is its stream or a
\* 500 (server.rs:199-210), the 501 of the test server never (server.rs:266-273).
AnswersFit ==
  \A c \in Conns : \A i \in 1..Len(answers[c]) :
    answers[c][i] \in Fitting[requests[c][i]]

\* Accepting waits for nobody: a client that stalls in its handshake or in the
\* middle of a turn keeps no other out, while a file descriptor is free and the
\* owner does not stop the server.
AcceptNotBlocked ==
  \A c \in Conns : conn[c] = "backlog" /\ Free ~>
    conn[c] \notin {"backlog", "refused"} \/ ~Free \/ shutdown # "held"

\* A request is answered in full, on its connection, unless its client leaves or
\* the runtime goes down: a handler that fails does not close the connection
\* (server.rs:187-189), and neither other clients' stalls nor the end of the
\* accept loop matter.
Answered ==
  \A c \in Conns \ Stalled : conn[c] = "idle" /\ Waiting(c) ~>
    conn[c] = "left" \/ runtime = "down" \/ (conn[c] = "idle" /\ ~Waiting(c))

\* ShutdownTx::send stops the accept loop, whatever its connections do: a client
\* that stalls in its handshake or in a turn does not delay it, nor do accepts
\* that fail one after the other.
ShutdownStops == shutdown = "sent" ~> acceptor = "closed"

-----------------------------------------------------------------------------
(* What the documentation says and the code does not do                    *)

\* src/src/server.rs:33-35: "Dropping this handle does NOT shut down the server
\* ... the accept loop continues running".
DropKeepsServing == shutdown = "dropped" /\ runtime = "up" => acceptor = "listening"

=============================================================================
