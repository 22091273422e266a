----------------------------- MODULE HttpClient -----------------------------
(***************************************************************************)
(* One request of faas_http::Client (common/src/http_client.cpp) against a *)
(* peer that may answer, stall, close or reset at any point.  The runtime  *)
(* manager's retries and teardowns hang on how the outcome is classified.  *)
(*                                                                         *)
(* Bytes are counted in units: a request of RequestSize, a response whose  *)
(* first HeaderSize units hold the status line and the headers.            *)
(***************************************************************************)
EXTENDS Naturals

CONSTANTS RequestSize, HeaderSize, ResponseSize,
          Timeouts  \* values of timeout_ms; 0 blocks indefinitely

ASSUME HttpClientAssumption ==
    /\ RequestSize \in Nat \ {0}
    /\ HeaderSize \in Nat \ {0}
    /\ ResponseSize \in Nat
    /\ HeaderSize <= ResponseSize
    /\ Timeouts \subseteq Nat

VARIABLES
    timeout_ms, \* the argument
    pc,         \* the socket call the client is in
    sent,       \* units of the request that left
    data,       \* units of the response that were read
    waited,     \* how long the current socket call has been blocked
    expired,    \* history: a socket call was blocked for timeout_ms
    result,     \* the ClientResponse
    peer,       \* the peer's end: "open", "closed" (orderly) or "reset"
    reply       \* units of the response the peer has sent

vars == <<timeout_ms, pc, sent, data, waited, expired, result, peer, reply>>

Errors == {"none", "connect", "send", "empty", "malformed", "timeout"}

NoResult == [ok |-> FALSE, timed_out |-> FALSE, error |-> "none", body |-> 0]

Init ==
    /\ timeout_ms \in Timeouts
    /\ pc = "connect"
    /\ sent = 0
    /\ data = 0
    /\ waited = 0
    /\ expired = FALSE
    /\ result = NoResult
    /\ peer = "open"
    /\ reply = 0

\* The receive and send timeouts are set only when timeout_ms > 0.
Elapsed_Unset == FALSE

Elapsed == timeout_ms > 0 /\ waited >= timeout_ms

\* Return with an error before anything was read.
Fail(why) ==
    /\ pc' = "done"
    /\ result' = [NoResult EXCEPT !.error = why]
    /\ UNCHANGED <<timeout_ms, sent, data, waited, peer, reply>>

\* No socket, no address, or nobody listens.
ConnectFails ==
    /\ pc = "connect"
    /\ Fail("connect")
    /\ UNCHANGED expired

\* SO_SNDTIMEO also bounds connect(), which then fails like any other time.
ConnectTimesOut ==
    /\ pc = "connect"
    /\ Elapsed
    /\ Fail("connect")
    /\ expired' = TRUE

Connect ==
    /\ pc = "connect"
    /\ pc' = "send"
    /\ waited' = 0
    /\ UNCHANGED <<timeout_ms, sent, data, expired, result, peer, reply>>

\* One call of send; what it returns is only compared with 0.
Send ==
    /\ pc = "send"
    /\ peer # "reset"
    /\ \E k \in 1..RequestSize :
        /\ k < RequestSize => Elapsed
        /\ sent' = k
        /\ expired' = (expired \/ k < RequestSize)
    /\ pc' = "recv"
    /\ waited' = 0
    /\ UNCHANGED <<timeout_ms, data, result, peer, reply>>

SendFails ==
    /\ pc = "send"
    /\ peer = "reset"
    /\ Fail("send")
    /\ UNCHANGED expired

\* A send to a peer that is gone may raise SIGPIPE, which ends the process.
SendKills ==
    /\ pc = "send"
    /\ peer = "reset"
    /\ pc' = "killed"
    /\ UNCHANGED <<timeout_ms, sent, data, waited, expired, result, peer, reply>>

SendTimesOut ==
    /\ pc = "send"
    /\ Elapsed
    /\ Fail("send")
    /\ expired' = TRUE

\* A recv that returns some of what has arrived.
Recv_AppendsAgain ==
    /\ pc = "recv"
    /\ data < reply
    /\ data' = data + reply
    /\ waited' = 0
    /\ UNCHANGED <<timeout_ms, pc, sent, expired, result, peer, reply>>

Recv ==
    /\ pc = "recv"
    /\ data' \in (data + 1)..reply
    /\ waited' = 0
    /\ UNCHANGED <<timeout_ms, pc, sent, expired, result, peer, reply>>

\* The parse of what was read: no terminator of the headers is an error;
\* otherwise whatever follows it is the body.
Parsed ==
    IF data = 0 THEN [NoResult EXCEPT !.error = "empty"]
    ELSE IF data < HeaderSize THEN [NoResult EXCEPT !.error = "malformed"]
    ELSE [NoResult EXCEPT !.ok = TRUE, !.body = data - HeaderSize]

\* recv returns 0, or an error other than a timeout: the loop ends the same way.
\* A reset may discard what has arrived and was not read.
RecvEnds_Early ==
    /\ pc = "recv"
    /\ peer = "closed" \/ peer = "reset"
    /\ pc' = "done"
    /\ result' = Parsed
    /\ UNCHANGED <<timeout_ms, sent, data, waited, expired, peer, reply>>

RecvEnds ==
    /\ pc = "recv"
    /\ (peer = "closed" /\ data = reply) \/ peer = "reset"
    /\ pc' = "done"
    /\ result' = Parsed
    /\ UNCHANGED <<timeout_ms, sent, data, waited, expired, peer, reply>>

RecvTimesOut_Parses ==
    /\ pc = "recv"
    /\ peer = "open" /\ data = reply
    /\ Elapsed
    /\ pc' = "done"
    /\ result' = [Parsed EXCEPT !.timed_out = TRUE]
    /\ expired' = TRUE
    /\ UNCHANGED <<timeout_ms, sent, data, waited, peer, reply>>

RecvTimesOut ==
    /\ pc = "recv"
    /\ peer = "open" /\ data = reply
    /\ Elapsed
    /\ pc' = "done"
    /\ result' = [NoResult EXCEPT !.timed_out = TRUE, !.error = "timeout"]
    /\ expired' = TRUE
    /\ UNCHANGED <<timeout_ms, sent, data, waited, peer, reply>>

-----------------------------------------------------------------------------
\* The peer and time.

PeerSends ==
    /\ pc = "recv"
    /\ peer = "open"
    /\ reply < ResponseSize
    /\ reply' = reply + 1
    /\ UNCHANGED <<timeout_ms, pc, sent, data, waited, expired, result, peer>>

PeerEnds ==
    /\ pc \in {"send", "recv"}
    /\ peer = "open"
    /\ peer' \in {"closed", "reset"}
    /\ UNCHANGED <<timeout_ms, pc, sent, data, waited, expired, result, reply>>

\* Time passes while the client is blocked.
Tick ==
    /\ pc \in {"connect", "send"} \/ (pc = "recv" /\ data = reply /\ peer = "open")
    /\ waited < timeout_ms
    /\ waited' = waited + 1
    /\ UNCHANGED <<timeout_ms, pc, sent, data, expired, result, peer, reply>>

Client == ConnectFails \/ ConnectTimesOut \/ Connect \/ Send \/ SendFails \/ SendKills
          \/ SendTimesOut \/ Recv \/ RecvEnds \/ RecvTimesOut

Done == pc \in {"done", "killed"} /\ UNCHANGED vars

Next == Client \/ PeerSends \/ PeerEnds \/ Tick \/ Done

Spec == Init /\ [][Next]_vars

\* The kernel completes or times out the client's calls, and time passes;
\* nothing is assumed of the peer.
LiveSpec == Spec /\ WF_vars(Client) /\ WF_vars(Tick)

-----------------------------------------------------------------------------
\* Properties.

TypeOK ==
    /\ timeout_ms \in Timeouts
    /\ pc \in {"connect", "send", "recv", "done", "killed"}
    /\ sent \in 0..RequestSize
    /\ data \in 0..ResponseSize
    /\ waited \in Nat
    /\ expired \in BOOLEAN
    /\ result \in [ok : BOOLEAN, timed_out : BOOLEAN, error : Errors, body : Nat]
    /\ peer \in {"open", "closed", "reset"}
    /\ reply \in 0..ResponseSize

\* The three outcomes try_invoke tells apart exclude each other and none is
\* forged: a timeout or an error never carries a response, a timeout is
\* reported only if one elapsed, and a call with timeout_ms = 0 never times out.
OutcomesExclusive ==
    pc = "done" =>
        /\ ~(result.ok /\ result.timed_out)
        /\ result.ok <=> result.error = "none"
        /\ result.timed_out => expired /\ timeout_ms > 0

\* A whole response that the peer closes in order is never lost: when the
\* client gets as far as reading and no timeout elapses, it is delivered whole.
WholeResponseDelivered ==
    pc = "done" /\ reply = ResponseSize /\ peer = "closed" /\ ~expired =>
        result.ok /\ result.body = ResponseSize - HeaderSize

\* A request with a timeout ends whatever the peer does, if only with the
\* process: a response that trickles in only restarts the wait, and it is finite.
RequestEnds == (timeout_ms > 0) ~> (pc \in {"done", "killed"})

\* The inductive invariant behind the two: nothing is classified before the
\* end, what was read was sent, and the outcome fits the way the call ended.
ClientInv ==
    /\ TypeOK
    /\ pc # "done" => result = NoResult
    /\ data <= reply
    /\ pc \in {"connect", "send"} => reply = 0
    /\ pc = "connect" => peer = "open"
    /\ OutcomesExclusive
    /\ WholeResponseDelivered
=============================================================================
