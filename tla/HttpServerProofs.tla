-------------------------- MODULE HttpServerProofs --------------------------
(***************************************************************************)
(* Proofs about HttpServer, for any connections, requests and limits: what *)
(* the handler gets is the body the client sent, however it was cut into   *)
(* pieces, and no connection is closed without an answer but for the three *)
(* reasons the code has.                                                   *)
(***************************************************************************)
EXTENDS HttpServer, RoutingProofs

\* What is assumed of a request, and of the answer to it.
LEMMA RequestFacts ==
    ASSUME NEW r \in Requests
    PROVE  /\ r.header \in Nat
           /\ r.length \in Nat
           /\ r # Null
BY ServerAssumption, NullAssumption

\* An answer says how many units of the body its handler was given.
LEMMA AnswerFacts ==
    ASSUME NEW r \in Requests, NEW n \in 0..r.length
    PROVE  /\ Answer(r, n) \in Answers
           /\ Answer(r, n) # Null
           /\ Answer(r, n).body = n
<1>1. Answer(r, n) \in Answers
  BY DEF Answers
<1>2. Answer(r, n).body = n
  BY DEF Answer
<1> QED
  BY <1>1, <1>2, NullAssumption

\* The invariant, connection by connection.
ConnSafe(c) ==
    /\ ConnInv(c)
    /\ answer[c] # Null =>
        /\ answer[c].body <= request[c].length
        /\ client[c] = "open" => answer[c].body = request[c].length
        /\ client[c] = "closed" =>
             answer[c].body = Shorter(request[c].length, sent[c] - request[c].header)
    /\ pc[c] = "closed" /\ answer[c] = Null =>
        client[c] # "open" \/ got[c] > HeaderLimit \/ listener = "dead"

\* The invariant, connection by connection.
LEMMA InvByConnection ==
    /\ ServerInv <=> TypeOK /\ \A c \in Conns : ConnSafe(c)
    /\ ServerInv' <=> TypeOK' /\ \A c \in Conns : ConnSafe(c)'
BY DEF ServerInv, ConnSafe, BodyAsSent, NoSilentClose

\* A step that leaves a connection and its wire alone, and does not bring a dead
\* process back, keeps what is known of the connection.
LEMMA OtherConnection ==
    ASSUME NEW c \in Conns, ConnSafe(c),
           pc'[c] = pc[c], request'[c] = request[c], got'[c] = got[c], answer'[c] = answer[c],
           sent'[c] = sent[c], client'[c] = client[c],
           listener = "dead" => listener' = "dead"
    PROVE  ConnSafe(c)'
BY DEF ConnSafe, ConnInv

-----------------------------------------------------------------------------
\* The steps of listen() and stop() do not touch connections.
LEMMA ServerStep ==
    ASSUME ServerInv,
           Register \/ Socket \/ Bind \/ Run \/ Check \/ AcceptFails \/ AcceptError
             \/ Stop \/ StopClose
    PROVE  ServerInv'
<1>1. TypeOK /\ \A c \in Conns : ConnSafe(c)
  BY InvByConnection
<1>2. UNCHANGED <<pc, request, got, answer, sent, client>>
  BY DEF Register, Socket, Bind, Run, Check, AcceptFails, AcceptError, AfterError, Stop,
         StopClose, conn, wire
<1>3. listener # "dead" \/ listener' = listener
  BY DEF Register, Socket, Bind, Run, Check, AcceptFails, AcceptError, AfterError, Stop, StopClose
<1>4. TypeOK'
  <2>1. /\ listener' \in {"register", "socket", "bind", "run", "check", "accept",
                          "returned", "threw", "dead"}
        /\ stopper' \in {"out", "close", "done"}
        /\ running_' \in BOOLEAN
        /\ listen_fd_' \in {"none", "open"}
    BY <1>1 DEF TypeOK, Register, Socket, Bind, Run, Check, AcceptFails, AcceptError,
                AfterError, Stop, StopClose
  <2> QED
    BY <1>1, <1>2, <2>1 DEF TypeOK
<1>5. \A c \in Conns : ConnSafe(c)'
  BY <1>1, <1>2, <1>3, OtherConnection
<1> QED
  BY <1>4, <1>5, InvByConnection

\* The units that one more recv may have brought.
LEMMA AvailableFacts ==
    ASSUME TypeOK, NEW c \in Conns, NEW n \in Available(c)
    PROVE  n \in Nat /\ got[c] < n /\ n <= sent[c]
BY DEF TypeOK, Available

\* The step of one connection's thread or client changes nothing of the others.
LEMMA OneConnection ==
    ASSUME ServerInv, NEW c \in Conns,
           TypeOK', ConnSafe(c)',
           listener = "dead" => listener' = "dead",
           \A k \in Conns \ {c} :
             /\ pc'[k] = pc[k] /\ request'[k] = request[k] /\ got'[k] = got[k]
             /\ answer'[k] = answer[k] /\ sent'[k] = sent[k] /\ client'[k] = client[k]
    PROVE  ServerInv'
<1>1. \A k \in Conns : ConnSafe(k)
  BY InvByConnection
<1>2. \A k \in Conns \ {c} : ConnSafe(k)'
  BY <1>1, OtherConnection
<1>3. \A k \in Conns : ConnSafe(k)'
  BY <1>2
<1> QED
  BY <1>3, InvByConnection

-----------------------------------------------------------------------------
\* The steps of connections and clients.

\* A thread of its own begins for a connection.
LEMMA AcceptStep ==
    ASSUME ServerInv, NEW c \in Conns, Accept(c)
    PROVE  ServerInv'
<1>1. TypeOK /\ ConnSafe(c)
  BY InvByConnection
<1>2. /\ listener = "accept" /\ listener' = "check" /\ pc[c] = "queued"
      /\ pc' = [pc EXCEPT ![c] = "headers"]
      /\ UNCHANGED <<stopper, running_, listen_fd_, request, got, answer, sent, client>>
  BY DEF Accept, wire
<1>3. TypeOK'
  BY <1>1, <1>2 DEF TypeOK, Serving
<1>4. ConnSafe(c)'
  BY <1>1, <1>2 DEF TypeOK, ConnSafe, ConnInv
<1> QED
  BY <1>1, <1>2, <1>3, <1>4, OneConnection DEF TypeOK

\* A recv of the header loop.
LEMMA RecvHeadersStep ==
    ASSUME ServerInv, NEW c \in Conns, RecvHeaders(c)
    PROVE  ServerInv'
<1>1. TypeOK /\ ConnSafe(c)
  BY InvByConnection
<1>2. PICK n \in Available(c) :
        /\ got' = [got EXCEPT ![c] = n]
        /\ pc' = [pc EXCEPT ![c] = IF n > HeaderLimit THEN "closed"
                                   ELSE IF n >= request[c].header THEN "body" ELSE @]
  BY DEF RecvHeaders
<1>3. pc[c] = "headers" /\ UNCHANGED <<listener, stopper, running_, listen_fd_, request,
                                       answer, sent, client>>
  BY DEF RecvHeaders, server, wire
<1>4. n \in Nat /\ got[c] < n /\ n <= sent[c]
  BY <1>1, AvailableFacts
<1>5. TypeOK'
  BY <1>1, <1>2, <1>3, <1>4 DEF TypeOK, Serving
<1>6. ConnSafe(c)'
  BY <1>1, <1>2, <1>3, <1>4 DEF TypeOK, ConnSafe, ConnInv
<1> QED
  BY <1>1, <1>2, <1>3, <1>5, <1>6, OneConnection DEF TypeOK

\* The client ends before its headers are complete.
LEMMA HeadersEndStep ==
    ASSUME ServerInv, NEW c \in Conns, HeadersEnd(c)
    PROVE  ServerInv'
<1>1. TypeOK /\ ConnSafe(c)
  BY InvByConnection
<1>2. /\ pc[c] = "headers" /\ client[c] # "open"
      /\ pc' = [pc EXCEPT ![c] = "closed"]
      /\ UNCHANGED <<listener, stopper, running_, listen_fd_, request, got, answer, sent, client>>
  BY DEF HeadersEnd, RecvEnded, server, wire
<1>3. TypeOK'
  BY <1>1, <1>2 DEF TypeOK
<1>4. ConnSafe(c)'
  BY <1>1, <1>2 DEF TypeOK, ConnSafe, ConnInv
<1> QED
  BY <1>1, <1>2, <1>3, <1>4, OneConnection DEF TypeOK

\* A recv of the body loop.
LEMMA RecvBodyStep ==
    ASSUME ServerInv, NEW c \in Conns, RecvBody(c)
    PROVE  ServerInv'
<1>1. TypeOK /\ ConnSafe(c)
  BY InvByConnection
<1>2. PICK n \in Available(c) : got' = [got EXCEPT ![c] = n]
  BY DEF RecvBody
<1>3. pc[c] = "body" /\ UNCHANGED <<listener, stopper, running_, listen_fd_, pc, request,
                                    answer, sent, client>>
  BY DEF RecvBody, server, wire
<1>4. n \in Nat /\ got[c] < n /\ n <= sent[c] /\ request[c].header \in Nat
  BY <1>1, <1>3, AvailableFacts, RequestFacts DEF ConnSafe, ConnInv
<1>5. TypeOK'
  BY <1>1, <1>2, <1>3, <1>4 DEF TypeOK
<1>6. ConnSafe(c)'
  BY <1>1, <1>2, <1>3, <1>4 DEF TypeOK, ConnSafe, ConnInv
<1> QED
  BY <1>1, <1>2, <1>3, <1>5, <1>6, OneConnection DEF TypeOK

\* The body is complete, or the client has ended and everything it sent has
\* been read unless the connection was reset.
LEMMA HandleStep ==
    ASSUME ServerInv, NEW c \in Conns, Handle(c)
    PROVE  ServerInv'
<1>1. TypeOK /\ ConnSafe(c)
  BY InvByConnection
<1> DEFINE r == request[c]
           to == IF Decision[r].route # 0 THEN "handler" ELSE "respond"
<1>2. /\ pc[c] = "body"
      /\ answer' = [answer EXCEPT ![c] = Answer(r, Body(c))]
      /\ pc' = [pc EXCEPT ![c] = to]
      /\ UNCHANGED <<listener, stopper, running_, listen_fd_, request, got, sent, client>>
  BY DEF Handle, server, wire
<1>3. to \in {"handler", "respond"}
  OBVIOUS
<1>4. /\ r \in Requests /\ r.header \in Nat /\ r.length \in Nat
      /\ got[c] \in Nat /\ sent[c] \in Nat /\ r.header <= got[c] /\ got[c] <= sent[c]
  BY <1>1, <1>2, RequestFacts DEF ConnSafe, ConnInv, TypeOK
<1>5. \/ got[c] - r.header >= r.length
      \/ client[c] = "closed" /\ got[c] = sent[c]
      \/ client[c] = "reset"
  BY DEF Handle, BodyComplete, Received, RecvEnded
<1>6. Body(c) = Shorter(got[c] - r.header, r.length)
  BY DEF Body, Received
<1> HIDE DEF r, to
<1>7. Body(c) \in 0..r.length
  BY <1>4, <1>6 DEF Shorter
<1>8. /\ Answer(r, Body(c)) \in Answers
      /\ Answer(r, Body(c)) # Null
      /\ Answer(r, Body(c)).body = Body(c)
  BY <1>4, <1>7, AnswerFacts
<1>9. TypeOK'
  BY <1>1, <1>2, <1>3, <1>8 DEF TypeOK, Serving
<1>10. /\ pc'[c] = to /\ answer'[c] = Answer(r, Body(c)) /\ request'[c] = r
       /\ got'[c] = got[c] /\ sent'[c] = sent[c] /\ client'[c] = client[c]
  BY <1>1, <1>2 DEF TypeOK, r
<1>11. /\ Body(c) <= r.length
       /\ client[c] = "open" => Body(c) = r.length /\ sent[c] - r.header >= r.length
       /\ client[c] = "closed" => Body(c) = Shorter(r.length, sent[c] - r.header)
  BY <1>4, <1>5, <1>6, <1>7 DEF Shorter
<1>12. ConnSafe(c)'
  <2>1. ConnInv(c)'
    BY <1>3, <1>4, <1>8, <1>10, <1>11 DEF ConnInv
  <2> QED
    BY <1>3, <1>8, <1>10, <1>11, <2>1 DEF ConnSafe
<1> QED
  BY <1>1, <1>2, <1>9, <1>12, OneConnection DEF TypeOK

\* The handler returns, or its answer is written.
LEMMA AnsweredStep ==
    ASSUME ServerInv, NEW c \in Conns, HandlerReturns(c) \/ Respond(c)
    PROVE  ServerInv'
<1>1. TypeOK /\ ConnSafe(c)
  BY InvByConnection
<1>2. PICK to \in {"respond", "closed"} : pc' = [pc EXCEPT ![c] = to]
  BY DEF HandlerReturns, Respond
<1>3. /\ pc[c] \in {"handler", "respond"}
      /\ UNCHANGED <<listener, stopper, running_, listen_fd_, request, got, answer, sent, client>>
  BY DEF HandlerReturns, Respond, server, wire
<1>4. TypeOK'
  BY <1>1, <1>2, <1>3 DEF TypeOK, Serving
<1>5. ConnSafe(c)'
  BY <1>1, <1>2, <1>3 DEF TypeOK, ConnSafe, ConnInv
<1> QED
  BY <1>1, <1>2, <1>3, <1>4, <1>5, OneConnection DEF TypeOK

\* An exception or a signal ends the process, and with it every connection.
LEMMA ThrowsStep ==
    ASSUME ServerInv, NEW c \in Conns, Throws(c) \/ SendKills(c)
    PROVE  ServerInv'
<1>1. TypeOK /\ \A k \in Conns : ConnSafe(k)
  BY InvByConnection
<1>2. /\ listener' = "dead" /\ stopper' = "done" /\ listen_fd_' = "none"
      /\ pc' = [k \in Conns |-> IF pc[k] = "out" THEN "out" ELSE "closed"]
      /\ UNCHANGED <<running_, request, got, answer, sent, client>>
  BY DEF Throws, SendKills, Die, wire
<1>3. TypeOK'
  BY <1>1, <1>2 DEF TypeOK
<1>4. \A k \in Conns : ConnSafe(k)'
  BY <1>1, <1>2 DEF ConnSafe, ConnInv
<1> QED
  BY <1>3, <1>4, InvByConnection

\* A client connects.
LEMMA ConnectStep ==
    ASSUME ServerInv, NEW c \in Conns, Connect(c)
    PROVE  ServerInv'
<1>1. TypeOK /\ ConnSafe(c)
  BY InvByConnection
<1>2. PICK r \in Requests : request' = [request EXCEPT ![c] = r]
  BY DEF Connect
<1>3. /\ pc[c] = "out" /\ pc' = [pc EXCEPT ![c] = "queued"]
      /\ UNCHANGED <<listener, stopper, running_, listen_fd_, got, answer, sent, client>>
  BY DEF Connect, server, wire
<1>4. TypeOK'
  BY <1>1, <1>2, <1>3 DEF TypeOK
<1>5. ConnSafe(c)'
  BY <1>1, <1>2, <1>3 DEF TypeOK, ConnSafe, ConnInv
<1> QED
  BY <1>1, <1>2, <1>3, <1>4, <1>5, OneConnection DEF TypeOK

\* More units arrive, also after the answer: it had all of the body by then.
LEMMA ClientSendsStep ==
    ASSUME ServerInv, NEW c \in Conns, ClientSends(c)
    PROVE  ServerInv'
<1>1. TypeOK /\ ConnSafe(c)
  BY InvByConnection
<1>2. /\ pc[c] \in {"queued"} \cup Serving /\ client[c] = "open"
      /\ sent' = [sent EXCEPT ![c] = @ + 1]
      /\ UNCHANGED <<listener, stopper, running_, listen_fd_, pc, request, got, answer, client>>
  BY DEF ClientSends, server, conn
<1>3. TypeOK'
  BY <1>1, <1>2 DEF TypeOK
<1>4. request[c] \in Requests
  BY <1>1, <1>2 DEF ConnSafe, ConnInv, Serving
<1>5. request[c].header \in Nat /\ request[c].length \in Nat /\ got[c] \in Nat /\ sent[c] \in Nat
  BY <1>1, <1>4, RequestFacts DEF TypeOK
<1>6. ConnSafe(c)'
  BY <1>1, <1>2, <1>5 DEF TypeOK, ConnSafe, ConnInv, Serving
<1> QED
  BY <1>1, <1>2, <1>3, <1>6, OneConnection DEF TypeOK

\* A client closes or resets.
LEMMA ClientEndsStep ==
    ASSUME ServerInv, NEW c \in Conns, ClientEnds(c)
    PROVE  ServerInv'
<1>1. TypeOK /\ ConnSafe(c)
  BY InvByConnection
<1>2. PICK how \in {"closed", "reset"} : client' = [client EXCEPT ![c] = how]
  BY DEF ClientEnds
<1>3. /\ pc[c] \in {"queued"} \cup Serving /\ client[c] = "open"
      /\ UNCHANGED <<listener, stopper, running_, listen_fd_, pc, request, got, answer, sent>>
  BY DEF ClientEnds, server, conn
<1>4. TypeOK'
  BY <1>1, <1>2, <1>3 DEF TypeOK
<1>5. request[c] \in Requests
  BY <1>1, <1>3 DEF ConnSafe, ConnInv, Serving
<1>6. request[c].header \in Nat /\ request[c].length \in Nat /\ sent[c] \in Nat
  BY <1>1, <1>5, RequestFacts DEF TypeOK
<1>7. ConnSafe(c)'
  BY <1>1, <1>2, <1>3, <1>6 DEF TypeOK, ConnSafe, ConnInv, Serving, Shorter
<1> QED
  BY <1>1, <1>2, <1>3, <1>4, <1>7, OneConnection DEF TypeOK

-----------------------------------------------------------------------------
LEMMA ServerInit == Init => ServerInv
<1> SUFFICES ASSUME Init PROVE ServerInv
  OBVIOUS
<1>1. TypeOK
  BY DEF Init, TypeOK
<1>2. \A c \in Conns : ConnSafe(c)
  BY DEF Init, ConnSafe, ConnInv
<1> QED
  BY <1>1, <1>2, InvByConnection

\* Every step keeps the invariant.
LEMMA ServerNext == ServerInv /\ [Next]_vars => ServerInv'
<1> SUFFICES ASSUME ServerInv, [Next]_vars PROVE ServerInv'
  OBVIOUS
<1>1. CASE Next
  BY <1>1, ServerStep, AcceptStep, RecvHeadersStep, HeadersEndStep, RecvBodyStep, HandleStep,
     AnsweredStep, ThrowsStep, ConnectStep, ClientSendsStep, ClientEndsStep
     DEF Next, Listener, Thread
<1>2. CASE UNCHANGED vars
  BY <1>2 DEF vars, server, conn, wire, ServerInv, TypeOK, BodyAsSent, NoSilentClose, ConnInv
<1> QED
  BY <1>1, <1>2

\* The invariant holds in every reachable state of the server, for any number
\* of connections and any requests, limits and clients.
THEOREM ServerInvariant == Spec => []ServerInv
<1> QED
  BY ServerInit, ServerNext, PTL DEF Spec

\* The handler gets the body the client sent, whatever the recv calls of
\* read_headers and of the loop after it returned, and whenever the client
\* went on sending, closed or reset.
THEOREM BodiesAsSent == Spec => []BodyAsSent
<1>1. ServerInv => BodyAsSent
  BY DEF ServerInv
<1> QED
  BY <1>1, ServerInvariant, PTL

\* handle_connection closes without an answer only when the client ended within
\* its headers, the headers were too long, or the process ended.
THEOREM NoneClosedSilently == Spec => []NoSilentClose
<1>1. ServerInv => NoSilentClose
  BY DEF ServerInv
<1> QED
  BY <1>1, ServerInvariant, PTL

\* From the moment main.cpp has registered its routes on, dispatch() answers by
\* them alone: for any set of words and any length of a path, a request goes to
\* the one route whose pattern becomes its path, and the others get 405 or 404.
THEOREM RoutesAreFollowed == Spec => []RoutesAgree
<1>1. RoutesAgree
  BY RoutesFollowPatterns DEF RoutesAgree
<1> QED
  BY <1>1, PTL
=============================================================================
