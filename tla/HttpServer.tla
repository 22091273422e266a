----------------------------- MODULE HttpServer -----------------------------
(***************************************************************************)
(* faas_http::Server (common/src/http_server.cpp): the accept loop, stop()  *)
(* and the detached thread that serves each connection.                    *)
(*                                                                         *)
(* Bytes are counted in units.  A client sends its header block and then   *)
(* body units, in pieces and at its own pace, and may close or reset the   *)
(* connection at any moment or stay silent for ever: the server sets no    *)
(* timeout on its sockets.                                                 *)
(***************************************************************************)
EXTENDS Routing

CONSTANTS Conns,        \* connections that clients may open
          Requests,     \* requests: method, path, units of headers, Content-Length
                        \* (0 without one) and whether it is a number
          HeaderLimit,  \* units of the 1 MiB a header block may have
          MaxExtra,     \* bound: units a client sends beyond Content-Length
          Null

ASSUME ServerAssumption ==
    /\ HeaderLimit \in Nat
    /\ MaxExtra \in Nat
    /\ \A r \in Requests : /\ r.header \in Nat \ {0}
                           /\ r.length \in Nat
                           /\ r.numeric \in BOOLEAN
                           /\ r.method \in Methods

VARIABLES
    listener,   \* where the thread in listen() is
    stopper,    \* where the thread in stop() is
    running_,
    listen_fd_, \* "open", or "none" for -1
    pc,         \* where the thread of each connection is
    request,    \* what the client of each connection asks for, Null before
    got,        \* units the server has read
    answer,     \* what handle_connection came to, Null before
    sent,       \* units the client has sent
    client      \* the client's end: "open", "closed" (orderly) or "reset"

server == <<listener, stopper, running_, listen_fd_>>
conn   == <<pc, request, got, answer>>
wire   == <<sent, client>>
vars   == <<server, conn, wire>>

Serving == {"headers", "body", "handler", "respond"}

\* The loop over routes_ for each request.
Decision == [r \in Requests |-> Dispatch(r.method, r.path)]

\* What handle_connection comes to for a request; body is what the handler gets.
Answer(r, body) ==
    [status |-> Decision[r].status, route |-> Decision[r].route,
     params |-> Decision[r].params, body |-> body]

Answers == UNION {{Answer(r, n) : n \in 0..r.length} : r \in Requests}

ASSUME NullAssumption == Null \notin Requests /\ Null \notin Answers

Init ==
    /\ listener = "register"
    /\ stopper = "out"
    /\ running_ = FALSE
    /\ listen_fd_ = "none"
    /\ pc = [c \in Conns |-> "out"]
    /\ request = [c \in Conns |-> Null]
    /\ got = [c \in Conns |-> 0]
    /\ answer = [c \in Conns |-> Null]
    /\ sent = [c \in Conns |-> 0]
    /\ client = [c \in Conns |-> "open"]

-----------------------------------------------------------------------------
\* main registers its routes, all before it calls listen().

Register ==
    /\ listener = "register"
    /\ listener' = "socket"
    /\ UNCHANGED <<stopper, running_, listen_fd_, conn, wire>>

\* listen().

Socket ==
    /\ listener = "socket"
    /\ \/ listener' = "threw" /\ UNCHANGED listen_fd_
       \/ listener' = "bind" /\ listen_fd_' = "open"
    /\ UNCHANGED <<stopper, running_, conn, wire>>

\* bind and ::listen, which also fail if stop() has closed the socket.
Bind ==
    /\ listener = "bind"
    /\ \/ listener' = "threw"
       \/ listener' = "run" /\ listen_fd_ = "open"
    /\ UNCHANGED <<stopper, running_, listen_fd_, conn, wire>>

Run ==
    /\ listener = "run"
    /\ running_' = TRUE
    /\ listener' = "check"
    /\ UNCHANGED <<stopper, listen_fd_, conn, wire>>

Check ==
    /\ listener = "check"
    /\ listener' = IF running_ THEN "accept" ELSE "returned"
    /\ UNCHANGED <<stopper, running_, listen_fd_, conn, wire>>

\* A connection gets a thread of its own.
Accept(c) ==
    /\ listener = "accept"
    /\ listen_fd_ = "open"
    /\ pc[c] = "queued"
    /\ pc' = [pc EXCEPT ![c] = "headers"]
    /\ listener' = "check"
    /\ UNCHANGED <<stopper, running_, listen_fd_, request, got, answer, wire>>

AfterError ==
    /\ listener' = IF running_ THEN "check" ELSE "returned"
    /\ UNCHANGED <<stopper, running_, listen_fd_, conn, wire>>

\* accept fails because the socket is gone, also while it was waiting on it.
AcceptFails ==
    /\ listener = "accept"
    /\ listen_fd_ = "none"
    /\ AfterError

\* accept fails for another reason: no descriptors, an aborted connection.
AcceptError ==
    /\ listener = "accept"
    /\ listen_fd_ = "open"
    /\ AfterError

-----------------------------------------------------------------------------
\* stop(), called once and at any moment.  shutdown wakes a waiting accept and
\* close follows it at once; the two are one step.

Stop ==
    /\ stopper = "out"
    /\ running_' = FALSE
    /\ stopper' = "close"
    /\ UNCHANGED <<listener, listen_fd_, conn, wire>>

StopClose_Leaves ==
    /\ stopper = "close"
    /\ stopper' = "done"
    /\ UNCHANGED <<listener, running_, listen_fd_, conn, wire>>

StopClose ==
    /\ stopper = "close"
    /\ listen_fd_' = "none"
    /\ stopper' = "done"
    /\ UNCHANGED <<listener, running_, conn, wire>>

-----------------------------------------------------------------------------
\* handle_connection.

\* recv has nothing to return but an end of stream or an error.
RecvEnded(c) == (client[c] = "closed" /\ got[c] = sent[c]) \/ client[c] = "reset"

Available(c) == (got[c] + 1)..sent[c]

RecvHeaders_ShortIsEnd(c) ==
    /\ pc[c] = "headers"
    /\ \E n \in Available(c) :
        /\ got' = [got EXCEPT ![c] = n]
        /\ pc' = [pc EXCEPT ![c] = IF n < request[c].header THEN "closed" ELSE "body"]
    /\ UNCHANGED <<server, request, answer, wire>>

\* The size is looked at before the terminator, and counts body units that
\* came with it.
RecvHeaders(c) ==
    /\ pc[c] = "headers"
    /\ \E n \in Available(c) :
        /\ got' = [got EXCEPT ![c] = n]
        /\ pc' = [pc EXCEPT ![c] = IF n > HeaderLimit THEN "closed"
                                   ELSE IF n >= request[c].header THEN "body" ELSE @]
    /\ UNCHANGED <<server, request, answer, wire>>

HeadersEnd(c) ==
    /\ pc[c] = "headers"
    /\ RecvEnded(c)
    /\ pc' = [pc EXCEPT ![c] = "closed"]
    /\ UNCHANGED <<server, request, got, answer, wire>>

Received(c) == got[c] - request[c].header

\* What came with the headers counts for the body.
BodyComplete_OffByOne(c) == Received(c) > request[c].length

BodyComplete(c) == Received(c) >= request[c].length

RecvBody_AppendsAll(c) ==
    /\ pc[c] = "body"
    /\ request[c].numeric
    /\ ~BodyComplete(c)
    /\ Available(c) # {}
    /\ got' = [got EXCEPT ![c] = @ + sent[c]]
    /\ UNCHANGED <<server, pc, request, answer, wire>>

RecvBody(c) ==
    /\ pc[c] = "body"
    /\ request[c].numeric
    /\ ~BodyComplete(c)
    /\ \E n \in Available(c) : got' = [got EXCEPT ![c] = n]
    /\ UNCHANGED <<server, pc, request, answer, wire>>

Shorter(a, b) == IF a < b THEN a ELSE b

Body_NotCut(c) == Received(c)

\* No more than Content-Length, and less if the client ended early.
Body(c) == Shorter(Received(c), request[c].length)

\* The handler is called, or the answer is 404 or 405.
Handle(c) ==
    /\ pc[c] = "body"
    /\ request[c].numeric
    /\ BodyComplete(c) \/ RecvEnded(c)
    /\ answer' = [answer EXCEPT ![c] = Answer(request[c], Body(c))]
    /\ pc' = [pc EXCEPT ![c] = IF Decision[request[c]].route # 0 THEN "handler" ELSE "respond"]
    /\ UNCHANGED <<server, request, got, wire>>

HandlerReturns(c) ==
    /\ pc[c] = "handler"
    /\ pc' = [pc EXCEPT ![c] = "respond"]
    /\ UNCHANGED <<server, request, got, answer, wire>>

\* One send, whose result is not looked at, and close.  The send waits while
\* the client does not take the response, for ever if need be.
Respond(c) ==
    /\ pc[c] = "respond"
    /\ pc' = [pc EXCEPT ![c] = "closed"]
    /\ UNCHANGED <<server, request, got, answer, wire>>

\* The process ends, with every thread and connection.
Die ==
    /\ listener' = "dead"
    /\ stopper' = "done"
    /\ listen_fd_' = "none"
    /\ pc' = [k \in Conns |-> IF pc[k] = "out" THEN "out" ELSE "closed"]
    /\ UNCHANGED <<running_, request, got, answer, wire>>

\* Nothing catches an exception of a detached thread: stoul on a malformed
\* Content-Length or a throwing handler.
Throws(c) ==
    /\ \/ pc[c] = "body" /\ ~request[c].numeric
       \/ pc[c] = "handler"
    /\ Die

\* A send to a client that is gone may raise SIGPIPE, which nobody ignores.
SendKills(c) ==
    /\ pc[c] = "respond"
    /\ client[c] # "open"
    /\ Die

-----------------------------------------------------------------------------
\* Clients.

Connect(c) ==
    /\ listen_fd_ = "open"
    /\ listener \in {"run", "check", "accept"}
    /\ pc[c] = "out"
    /\ \E r \in Requests : request' = [request EXCEPT ![c] = r]
    /\ pc' = [pc EXCEPT ![c] = "queued"]
    /\ UNCHANGED <<server, got, answer, wire>>

ClientSends(c) ==
    /\ pc[c] \in {"queued"} \cup Serving
    /\ client[c] = "open"
    /\ sent[c] < request[c].header + request[c].length + MaxExtra
    /\ sent' = [sent EXCEPT ![c] = @ + 1]
    /\ UNCHANGED <<server, conn, client>>

ClientEnds(c) ==
    /\ pc[c] \in {"queued"} \cup Serving
    /\ client[c] = "open"
    /\ \E how \in {"closed", "reset"} : client' = [client EXCEPT ![c] = how]
    /\ UNCHANGED <<server, conn, sent>>

-----------------------------------------------------------------------------
\* The listening thread's own steps.
Listener == Register \/ Socket \/ Bind \/ Run \/ Check \/ AcceptFails

Thread(c) == RecvHeaders(c) \/ HeadersEnd(c) \/ RecvBody(c) \/ Handle(c)
             \/ HandlerReturns(c) \/ Respond(c) \/ Throws(c) \/ SendKills(c)

\* Clients may stay silent and nobody need ever call stop().
Next ==
    \/ Listener \/ AcceptError \/ Stop \/ StopClose
    \/ \E c \in Conns : Accept(c) \/ Thread(c) \/ Connect(c) \/ ClientSends(c) \/ ClientEnds(c)

Spec == Init /\ [][Next]_vars

InvokeRoute == route("POST", <<"/", "functions", "/", Param, "/", "invoke">>)

\* The thread waits for what nothing bounds: a function that may have no
\* timeout, or a client that does not take its response.
Unbounded(c) ==
    \/ pc[c] = "handler" /\ routes_[answer[c].route] = InvokeRoute
    \/ pc[c] = "respond" /\ client[c] # "reset"

\* Threads that can go on do.  A handler other than invoke's returns, because
\* the calls it makes end (HandlersReply in ControlPlane); nothing is assumed
\* of clients.
LiveSpec == /\ Spec
            /\ WF_vars(Listener)
            /\ WF_vars(StopClose)
            /\ \A c \in Conns : WF_vars(~Unbounded(c) /\ Thread(c))

-----------------------------------------------------------------------------
\* Properties.

TypeOK ==
    /\ listener \in {"register", "socket", "bind", "run", "check", "accept",
                     "returned", "threw", "dead"}
    /\ stopper \in {"out", "close", "done"}
    /\ running_ \in BOOLEAN
    /\ listen_fd_ \in {"none", "open"}
    /\ pc \in [Conns -> {"out", "queued", "closed"} \cup Serving]
    /\ request \in [Conns -> Requests \cup {Null}]
    /\ got \in [Conns -> Nat]
    /\ answer \in [Conns -> Answers \cup {Null}]
    /\ sent \in [Conns -> Nat]
    /\ client \in [Conns -> {"open", "closed", "reset"}]

\* The routes a server listens with are sound: every path goes to the one route
\* it is an instance of, with the words that were filled in, whatever query or
\* slashes follow; it gives 405 when only other methods have such a route and
\* 404 when none has.  No path belongs to two routes of one method, so the
\* order of registration does not matter.
RoutesAgree == listener # "register" => TableAgrees

\* The handler gets the body the client sent: all of Content-Length unless the
\* client ended first, then everything that arrived before an orderly end, and
\* never a unit beyond it, however the units were split over recv calls.
BodyAsSent ==
    \A c \in Conns : answer[c] # Null =>
        /\ answer[c].body <= request[c].length
        /\ client[c] = "open" => answer[c].body = request[c].length
        /\ client[c] = "closed" =>
             answer[c].body = Shorter(request[c].length, sent[c] - request[c].header)

\* A connection is closed without a response only if the client ended before
\* its headers were complete, the headers are too long, or the process died.
NoSilentClose ==
    \A c \in Conns : pc[c] = "closed" /\ answer[c] = Null =>
        client[c] # "open" \/ got[c] > HeaderLimit \/ listener = "dead"

\* A client that has sent what it announced, or has ended, is released, unless
\* the function it invokes does not return or it does not take the response:
\* its thread never waits for a unit that will not come.
ConnectionsEnd ==
    \A c \in Conns :
        (/\ pc[c] \in Serving
         /\ \/ client[c] # "open"
            \/ sent[c] >= request[c].header + request[c].length)
        ~> (pc[c] = "closed" \/ Unbounded(c))

\* Once stop() has been called on a server in its loop, listen() returns, also
\* when no client ever connects again.
ListenReturns ==
    (listener \in {"check", "accept"} /\ ~running_) ~> (listener \in {"returned", "dead"})

-----------------------------------------------------------------------------
\* The inductive invariant behind BodyAsSent and NoSilentClose.

\* What the server has of a connection at each location: the whole header block
\* before it looks at the body, and an answer to this request, and no other,
\* from the handler on.  While the client is open an answer had all of the body.
ConnInv(c) ==
    /\ got[c] <= sent[c]
    /\ pc[c] # "out" => request[c] \in Requests
    /\ pc[c] = "body" => got[c] >= request[c].header
    /\ pc[c] \in {"out", "queued", "headers", "body"} => answer[c] = Null
    /\ pc[c] \in {"handler", "respond"} => answer[c] # Null
    /\ answer[c] # Null =>
        /\ answer[c] = Answer(request[c], answer[c].body)
        /\ got[c] >= request[c].header
        /\ client[c] = "open" => sent[c] - request[c].header >= request[c].length

ServerInv == TypeOK /\ BodyAsSent /\ NoSilentClose /\ \A c \in Conns : ConnInv(c)
=============================================================================
