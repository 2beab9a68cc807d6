---------------------------- MODULE Server_proofs ----------------------------
(***************************************************************************)
(* The server's safety for any number of connections and of requests.      *)
(***************************************************************************)
EXTENDS ServerProperties, TLAPS

\* Appending to one connection's sequence.
LEMMA AppendType ==
  ASSUME NEW S, NEW f \in [Conns -> Seq(S)], NEW c \in Conns, NEW x \in S,
         NEW g, g = [f EXCEPT ![c] = Append(@, x)]
  PROVE  /\ g \in [Conns -> Seq(S)]
         /\ Len(g[c]) = Len(f[c]) + 1
         /\ \A d \in Conns \ {c} : g[d] = f[d]
  OBVIOUS

\* The elements of a sequence that got one more.
LEMMA AppendElements ==
  ASSUME NEW S, NEW s \in Seq(S), NEW x \in S
  PROVE  /\ Len(s) \in Nat
         /\ Append(s, x) \in Seq(S)
         /\ Len(Append(s, x)) = Len(s) + 1
         /\ Append(s, x)[Len(s) + 1] = x
         /\ \A i \in 1..Len(s) : Append(s, x)[i] = s[i]
  OBVIOUS

\* The status of a static answer is one of the server's.
LEMMA StaticStatusType == \A route \in Route : StaticStatus(route) \in Status
  BY DEF StaticStatus, Status

\* Closing the listener keeps the states of connections what they are.
LEMMA RefusedType ==
  ASSUME conn \in [Conns -> ConnState]
  PROVE  /\ Refused \in [Conns -> ConnState]
         /\ \A c \in Conns : Refused[c] \in {conn[c], "refused"}
  BY DEF Refused, ConnState

-----------------------------------------------------------------------------
(* Type correctness                                                        *)

\* What the server's theorems need of its start.
LEMMA ServerInit == Init => TypeOK
  BY DEF Init, TypeOK, ConnState

\* A client's action.
LEMMA ClientType ==
  ASSUME TypeOK, NEW c \in Conns, Client(c)
  PROVE  TypeOK'
<1>1. CASE Connect(c)
  BY <1>1 DEF Connect, TypeOK, ConnState, Waiting
<1>2. CASE Ask(c)
  <2>1. PICK route \in Route : requests' = [requests EXCEPT ![c] = Append(@, route)]
    BY <1>2 DEF Ask
  <2>2. /\ requests' \in [Conns -> Seq(Route)]
        /\ Len(requests'[c]) = Len(requests[c]) + 1
        /\ \A d \in Conns \ {c} : requests'[d] = requests[d]
    BY <2>1, AppendType DEF TypeOK
  <2>3. \A d \in Conns : Len(answers[d]) \in Nat /\ Len(requests[d]) \in Nat
    BY DEF TypeOK
  <2>4. \A d \in Conns : Len(requests[d]) =< Len(requests'[d])
    BY <2>2, <2>3
  <2>5. \A d \in Conns : Len(requests'[d]) \in Nat
    BY <2>2
  <2> QED BY <1>2, <2>2, <2>3, <2>4, <2>5 DEF Ask, TypeOK, Waiting
<1>3. CASE Leave(c)
  BY <1>3 DEF Leave, TypeOK, ConnState, Waiting
<1> QED BY <1>1, <1>2, <1>3 DEF Client

\* The answer that ends a request.
LEMMA AnswerType ==
  ASSUME TypeOK, NEW c \in Conns, Waiting(c), NEW status \in Status, Answer(c, status),
         conn' \in [Conns -> ConnState], conn'[c] = "idle",
         \A d \in Conns \ {c} : conn'[d] = conn[d],
         UNCHANGED <<wired, shutdown, acceptor, runtime, backlog, requests>>
  PROVE  TypeOK'
<1>1. /\ answers' \in [Conns -> Seq(Status)]
      /\ Len(answers'[c]) = Len(answers[c]) + 1
      /\ \A d \in Conns \ {c} : answers'[d] = answers[d]
  BY AppendType DEF Answer, TypeOK
<1>2. Len(answers[c]) \in Nat /\ Len(requests[c]) \in Nat
  BY DEF TypeOK
<1>3. Len(answers'[c]) =< Len(requests'[c])
  BY <1>1, <1>2 DEF Waiting
<1> QED BY <1>1, <1>3 DEF TypeOK, Waiting

\* A connection's action.
LEMMA ConnectionType ==
  ASSUME TypeOK, NEW c \in Conns, Connection(c)
  PROVE  TypeOK'
<1>1. CASE Handshake(c) \/ HandshakeFails(c)
  BY <1>1 DEF Handshake, HandshakeFails, TypeOK, ConnState, Waiting
<1>2. CASE ServeStatic(c)
  <2>1. Current(c) \in Route
    BY <1>2 DEF ServeStatic, Current, Waiting, TypeOK
  <2> QED BY <1>2, <2>1, StaticStatusType, AnswerType DEF ServeStatic, TypeOK
<1>3. CASE ServeTurn(c) \/ TurnStreams(c)
  BY <1>3 DEF ServeTurn, TurnStreams, TypeOK, ConnState, Waiting
<1>4. CASE TurnFails(c) \/ TurnEnds(c)
  <2>1. Waiting(c)
    BY <1>4 DEF TurnFails, TurnEnds, TypeOK
  <2>2. /\ conn' \in [Conns -> ConnState] /\ conn'[c] = "idle"
        /\ \A d \in Conns \ {c} : conn'[d] = conn[d]
    BY <1>4 DEF TurnFails, TurnEnds, TypeOK, ConnState
  <2>3. 200 \in Status /\ 500 \in Status
    BY DEF Status
  <2> QED BY <1>4, <2>1, <2>2, <2>3, AnswerType DEF TurnFails, TurnEnds
<1> QED BY <1>1, <1>2, <1>3, <1>4 DEF Connection, Serve

\* An action of the accept loop or of the owner.
LEMMA LoopType ==
  ASSUME TypeOK, AcceptLoop \/ Owner
  PROVE  TypeOK'
<1>1. CASE Accept \/ AcceptAborted
  <2>1. Head(backlog) \in Conns /\ Tail(backlog) \in Seq(Conns)
    BY <1>1 DEF Accept, AcceptAborted, TypeOK
  <2>2. conn' = conn \/ conn' = [conn EXCEPT ![Head(backlog)] = "handshake"]
    BY <1>1 DEF Accept, AcceptAborted
  <2>3. /\ conn' \in [Conns -> ConnState]
        /\ \A c \in Conns : conn'[c] \in {conn[c], "handshake"}
    BY <2>1, <2>2 DEF TypeOK, ConnState
  <2> QED BY <1>1, <2>1, <2>3 DEF Accept, AcceptAborted, TypeOK, Waiting
<1>2. CASE AcceptExhausted
  BY <1>2 DEF AcceptExhausted, vars, TypeOK, Waiting
<1>3. CASE StopAccepting
  <2>1. conn' = Refused
    BY <1>3 DEF StopAccepting
  <2> QED BY <1>3, <2>1, RefusedType DEF StopAccepting, TypeOK, Waiting
<1>4. CASE SendShutdown \/ DropShutdown
  BY <1>4 DEF SendShutdown, DropShutdown, TypeOK, Waiting
<1>5. CASE DropRuntime
  <2>1. /\ Refused \in [Conns -> ConnState]
        /\ \A c \in Conns : Refused[c] \in {conn[c], "refused"}
    BY RefusedType DEF TypeOK
  <2>2. conn' = [c \in Conns |-> IF Refused[c] \in Open THEN "cut" ELSE Refused[c]]
    BY <1>5 DEF DropRuntime
  <2>3. conn' \in [Conns -> ConnState]
    BY <2>1, <2>2 DEF ConnState
  <2>4. \A c \in Conns : conn'[c] \in {conn[c], "refused", "cut"}
    BY <2>1, <2>2
  <2>5. /\ UNCHANGED <<wired, shutdown, requests, answers>> /\ shutdown # "held"
        /\ runtime' = "down" /\ acceptor' = "closed" /\ backlog' \in Seq(Conns)
    BY <1>5 DEF DropRuntime
  <2> QED BY <2>3, <2>4, <2>5 DEF TypeOK, Waiting
<1> QED BY <1>1, <1>3, <1>4, <1>5, <1>2 DEF AcceptLoop, Owner

\* Every step keeps the types.
LEMMA ServerTypeStep == TypeOK /\ [Next]_vars => TypeOK'
<1> SUFFICES ASSUME TypeOK, [Next]_vars PROVE TypeOK'
  OBVIOUS
<1>1. CASE UNCHANGED vars
  BY <1>1 DEF vars, TypeOK, Waiting
<1> QED BY <1>1, ClientType, ConnectionType, LoopType DEF Next

\* Every variable keeps its type, a task that serves has a request to serve, and the
\* listener closes at the owner's word only, whatever fails and in whatever order.
THEOREM ServerTypeCorrect == Spec => []TypeOK
<1> QED BY ServerInit, ServerTypeStep, PTL DEF Spec

-----------------------------------------------------------------------------
(* Answers fit their requests                                              *)

\* A connection that serves a turn has been asked for one.
ServesTurn ==
  \A c \in Conns : conn[c] \in {"handling", "streaming"} =>
    wired /\ Current(c) = "multi_agent"

\* The two hold at the start.
LEMMA FitInit == Init => AnswersFit /\ ServesTurn
  BY DEF Init, AnswersFit, ServesTurn

\* What the static routes answer fits them.
LEMMA StaticFits ==
  ASSUME NEW route \in Route, ~(route = "multi_agent" /\ wired), wired \in BOOLEAN
  PROVE  StaticStatus(route) \in Fitting[route]
  BY DEF StaticStatus, Fitting, Route

\* What fits does not change, since a server stays what it was started as.
LEMMA FittingStays == wired' = wired => Fitting' = Fitting
  BY DEF Fitting

\* One more answer, that fits the request it is for, keeps both facts.
LEMMA AnswerFits ==
  ASSUME TypeOK, AnswersFit, ServesTurn,
         NEW c \in Conns, Waiting(c), NEW status \in Status, Answer(c, status),
         status \in Fitting[Current(c)],
         conn'[c] = "idle", \A d \in Conns \ {c} : conn'[d] = conn[d],
         UNCHANGED <<wired, requests>>
  PROVE  AnswersFit' /\ ServesTurn'
<1> DEFINE before == answers[c]
<1>1. /\ before \in Seq(Status) /\ answers'[c] = Append(before, status)
      /\ \A d \in Conns \ {c} : answers'[d] = answers[d]
  BY DEF Answer, TypeOK
<1>2. status \in Fitting[requests[c][Len(before) + 1]]
  BY DEF Current
<1>3. \A i \in 1..Len(before) : before[i] \in Fitting[requests[c][i]]
  BY DEF AnswersFit
<1> HIDE DEF before
<1>4. ASSUME NEW i \in 1..Len(answers'[c]) PROVE answers'[c][i] \in Fitting[requests[c][i]]
  <2>1. /\ Len(before) \in Nat /\ Len(answers'[c]) = Len(before) + 1
        /\ answers'[c][Len(before) + 1] = status
        /\ \A j \in 1..Len(before) : answers'[c][j] = before[j]
    BY <1>1, AppendElements
  <2>2. i = Len(before) + 1 \/ i \in 1..Len(before)
    BY <2>1
  <2> QED BY <1>2, <1>3, <2>1, <2>2
<1>5. AnswersFit'
  <2> SUFFICES ASSUME NEW d \in Conns, NEW i \in 1..Len(answers'[d])
               PROVE  answers'[d][i] \in Fitting[requests'[d][i]]
    BY FittingStays DEF AnswersFit
  <2>1. answers'[d][i] \in Fitting[requests[d][i]]
    BY <1>1, <1>4 DEF AnswersFit
  <2> QED BY <2>1, FittingStays
<1>6. ServesTurn'
  BY <1>1 DEF ServesTurn, Current
<1> QED BY <1>5, <1>6

\* A step that answers nothing and starts no turn keeps both facts.
LEMMA SilentFits ==
  ASSUME TypeOK, AnswersFit, ServesTurn, UNCHANGED <<wired, requests, answers>>,
         \A d \in Conns : conn'[d] \in {"handling", "streaming"} =>
           conn[d] \in {"handling", "streaming"} \/ (wired /\ Current(d) = "multi_agent")
  PROVE  AnswersFit' /\ ServesTurn'
<1>1. AnswersFit'
  BY FittingStays DEF AnswersFit
<1>2. ServesTurn'
  BY DEF ServesTurn, Current
<1> QED BY <1>1, <1>2

\* A request that arrives is none of those answered.
LEMMA AskFits ==
  ASSUME TypeOK, AnswersFit, ServesTurn, NEW c \in Conns, Ask(c)
  PROVE  AnswersFit' /\ ServesTurn'
<1>1. PICK route \in Route : requests' = [requests EXCEPT ![c] = Append(@, route)]
  BY DEF Ask
<1>2. /\ requests[c] \in Seq(Route) /\ requests'[c] = Append(requests[c], route)
      /\ \A d \in Conns \ {c} : requests'[d] = requests[d]
  BY <1>1 DEF TypeOK
<1>3. \A d \in Conns : /\ Len(answers[d]) \in Nat /\ Len(requests[d]) \in Nat
                       /\ Len(answers[d]) =< Len(requests[d])
  BY DEF TypeOK
<1>4. \A d \in Conns : \A i \in 1..Len(requests[d]) : requests'[d][i] = requests[d][i]
  BY <1>2, AppendElements
<1>5. UNCHANGED <<wired, conn, answers>>
  BY DEF Ask
<1>6. AnswersFit'
  <2> SUFFICES ASSUME NEW d \in Conns, NEW i \in 1..Len(answers[d])
               PROVE  answers[d][i] \in Fitting[requests'[d][i]]
    BY <1>5, FittingStays DEF AnswersFit
  <2>1. i \in 1..Len(requests[d])
    BY <1>3
  <2>2. answers[d][i] \in Fitting[requests'[d][i]]
    BY <1>4, <2>1 DEF AnswersFit
  <2> QED BY <1>5, <2>2, FittingStays
<1>7. ServesTurn'
  <2> SUFFICES ASSUME NEW d \in Conns, conn[d] \in {"handling", "streaming"}
               PROVE  wired /\ requests'[d][Len(answers[d]) + 1] = "multi_agent"
    BY <1>5 DEF ServesTurn, Current
  <2>1. Len(answers[d]) < Len(requests[d])
    BY DEF TypeOK, Waiting
  <2>2. Len(answers[d]) + 1 \in 1..Len(requests[d])
    BY <1>3, <2>1
  <2> QED BY <1>4, <2>2 DEF ServesTurn, Current
<1> QED BY <1>6, <1>7

\* Every step keeps both facts.
LEMMA FitStep == TypeOK /\ AnswersFit /\ ServesTurn /\ [Next]_vars => AnswersFit' /\ ServesTurn'
<1> SUFFICES ASSUME TypeOK, AnswersFit, ServesTurn, [Next]_vars
             PROVE  AnswersFit' /\ ServesTurn'
  OBVIOUS
<1>1. CASE \E c \in Conns : Connect(c) \/ Leave(c) \/ Handshake(c) \/ HandshakeFails(c)
  BY <1>1, SilentFits DEF Connect, Leave, Handshake, HandshakeFails, TypeOK
<1>2. CASE \E c \in Conns : ServeTurn(c) \/ TurnStreams(c)
  <2>1. PICK c \in Conns : ServeTurn(c) \/ TurnStreams(c)
    BY <1>2
  <2>2. /\ UNCHANGED <<wired, requests, answers>>
        /\ \A d \in Conns \ {c} : conn'[d] = conn[d]
        /\ wired /\ Current(c) = "multi_agent"
    BY <2>1 DEF ServeTurn, TurnStreams, TypeOK, ServesTurn
  <2> QED BY <2>2, SilentFits
<1>3. CASE \E c \in Conns : Ask(c)
  BY <1>3, AskFits
<1>4. CASE \E c \in Conns : ServeStatic(c)
  <2>1. PICK c \in Conns : ServeStatic(c)
    BY <1>4
  <2>2. Current(c) \in Route
    BY <2>1 DEF ServeStatic, Current, Waiting, TypeOK
  <2>3. /\ StaticStatus(Current(c)) \in Fitting[Current(c)]
        /\ StaticStatus(Current(c)) \in Status
    BY <2>1, <2>2, StaticFits, StaticStatusType DEF ServeStatic, TypeOK
  <2> QED BY <2>1, <2>3, AnswerFits DEF ServeStatic
<1>5. CASE \E c \in Conns : TurnFails(c) \/ TurnEnds(c)
  <2>1. PICK c \in Conns : TurnFails(c) \/ TurnEnds(c)
    BY <1>5
  <2>2. Waiting(c) /\ wired /\ Current(c) = "multi_agent"
    BY <2>1 DEF TurnFails, TurnEnds, TypeOK, ServesTurn
  <2>3. PICK status \in {200, 500} : Answer(c, status)
    BY <2>1 DEF TurnFails, TurnEnds
  <2>4. status \in Status /\ status \in Fitting[Current(c)]
    BY <2>2 DEF Status, Fitting
  <2>5. /\ conn'[c] = "idle" /\ \A d \in Conns \ {c} : conn'[d] = conn[d]
        /\ UNCHANGED <<wired, requests>>
    BY <2>1 DEF TurnFails, TurnEnds, TypeOK
  <2> QED BY <2>2, <2>3, <2>4, <2>5, AnswerFits
<1>6. CASE AcceptLoop
  <2>1. /\ UNCHANGED <<wired, requests, answers>>
        /\ \A d \in Conns : conn'[d] \in {conn[d], "handshake", "refused"}
    BY <1>6, RefusedType DEF AcceptLoop, Accept, AcceptAborted, AcceptExhausted, StopAccepting,
                             vars, TypeOK
  <2> QED BY <2>1, SilentFits
<1>7. CASE Owner
  <2>1. /\ UNCHANGED <<wired, requests, answers>>
        /\ \A d \in Conns : conn'[d] \in {conn[d], "refused", "cut"}
    BY <1>7, RefusedType DEF Owner, SendShutdown, DropShutdown, DropRuntime, TypeOK
  <2> QED BY <2>1, SilentFits
<1>8. CASE UNCHANGED vars
  BY <1>8, SilentFits DEF vars
<1> QED BY <1>1, <1>2, <1>3, <1>4, <1>5, <1>6, <1>7, <1>8
        DEF Next, Client, Connection, Serve

\* On any number of connections with any number of requests, whatever stalls, fails or
\* is shut down: the i-th answer of a connection is one to its i-th request.
THEOREM EveryAnswerFits == Spec => []AnswersFit
<1> QED BY ServerInit, ServerTypeStep, FitInit, FitStep, PTL DEF Spec

=============================================================================
