-------------------------- MODULE HttpClientProofs --------------------------
(***************************************************************************)
(* The classification of outcomes by HttpClient, for every size of request *)
(* and response and every timeout.                                         *)
(***************************************************************************)
EXTENDS HttpClient, TLAPS

\* Nothing has happened before the first socket call.
LEMMA InitClient == Init => ClientInv
<1>. SUFFICES ASSUME Init PROVE ClientInv
  OBVIOUS
<1>1. NoResult \in [ok : BOOLEAN, timed_out : BOOLEAN, error : Errors, body : Nat]
  BY DEF NoResult, Errors
<1>2. 0 \in 0..RequestSize /\ 0 \in 0..ResponseSize /\ 0 \in Nat
  BY HttpClientAssumption
<1>3. TypeOK
  BY <1>1, <1>2, Zenon DEF Init, TypeOK
<1>. QED
  BY <1>3 DEF Init, ClientInv, OutcomesExclusive, WholeResponseDelivered

\* The outcomes of the calls before recv: an error, and no response.
LEMMA FailClient ==
    ASSUME ClientInv, NEW why \in {"connect", "send"}, Fail(why),
           pc \in {"connect", "send"}, expired' \in BOOLEAN
    PROVE  ClientInv'
<1>1. result' = [ok |-> FALSE, timed_out |-> FALSE, error |-> why, body |-> 0]
  BY DEF Fail, NoResult
<1>2. TypeOK'
  BY <1>1 DEF Fail, ClientInv, TypeOK, Errors
<1>3. reply' = 0 /\ 0 < ResponseSize
  BY HttpClientAssumption DEF Fail, ClientInv
<1>. QED
  BY <1>1, <1>2, <1>3 DEF Fail, ClientInv, OutcomesExclusive, WholeResponseDelivered

\* A connection is made, and the request or a part of it leaves.
LEMMA ProgressClient ==
    ASSUME ClientInv, Connect \/ Send \/ Recv
    PROVE  ClientInv'
<1>1. CASE Connect
  BY <1>1 DEF Connect, ClientInv, TypeOK, OutcomesExclusive, WholeResponseDelivered
<1>2. CASE Send
  BY <1>2, HttpClientAssumption
  DEF Send, ClientInv, TypeOK, OutcomesExclusive, WholeResponseDelivered
<1>3. CASE Recv
  BY <1>3, HttpClientAssumption
  DEF Recv, ClientInv, TypeOK, OutcomesExclusive, WholeResponseDelivered
<1>. QED
  BY <1>1, <1>2, <1>3

\* The receive loop ends without a timeout and what was read is parsed.
LEMMA ParseClient ==
    ASSUME ClientInv, RecvEnds
    PROVE  ClientInv'
<1>1. /\ data \in Nat /\ HeaderSize \in Nat /\ ResponseSize \in Nat
      /\ 0 < HeaderSize /\ HeaderSize <= ResponseSize
  BY HttpClientAssumption DEF ClientInv, TypeOK
<1>2. \/ /\ data < HeaderSize
         /\ \E why \in {"empty", "malformed"} :
              Parsed = [ok |-> FALSE, timed_out |-> FALSE, error |-> why, body |-> 0]
      \/ /\ data >= HeaderSize
         /\ Parsed = [ok |-> TRUE, timed_out |-> FALSE, error |-> "none", body |-> data - HeaderSize]
  <2>1. CASE data = 0
    BY <1>1, <2>1 DEF Parsed, NoResult
  <2>2. CASE data # 0 /\ data < HeaderSize
    BY <1>1, <2>2 DEF Parsed, NoResult
  <2>3. CASE data >= HeaderSize
    BY <1>1, <2>3 DEF Parsed, NoResult
  <2>. QED
    BY <1>1, <2>1, <2>2, <2>3
<1>3. TypeOK'
  <2>1. Parsed \in [ok : BOOLEAN, timed_out : BOOLEAN, error : Errors, body : Nat]
    <3>1. CASE data < HeaderSize
      <4>1. PICK why \in {"empty", "malformed"} :
              Parsed = [ok |-> FALSE, timed_out |-> FALSE, error |-> why, body |-> 0]
        BY <1>1, <1>2, <3>1
      <4>2. why \in Errors /\ 0 \in Nat
        BY <4>1 DEF Errors
      <4>. QED
        BY <4>1, <4>2
    <3>2. CASE data >= HeaderSize
      <4>1. data - HeaderSize \in Nat
        BY <1>1, <3>2
      <4>2. Parsed = [ok |-> TRUE, timed_out |-> FALSE, error |-> "none", body |-> data - HeaderSize]
        BY <1>1, <1>2, <3>2
      <4>. QED
        BY <4>1, <4>2 DEF Errors
    <3>. QED
      BY <1>1, <3>1, <3>2
  <2>. QED
    BY <2>1 DEF RecvEnds, ClientInv, TypeOK
<1>4. OutcomesExclusive'
  BY <1>2 DEF RecvEnds, OutcomesExclusive
<1>5. WholeResponseDelivered'
  BY <1>1, <1>2 DEF RecvEnds, WholeResponseDelivered
<1>. QED
  BY <1>3, <1>4, <1>5 DEF RecvEnds, ClientInv

\* The receive timeout elapses.
LEMMA TimeoutClient ==
    ASSUME ClientInv, RecvTimesOut
    PROVE  ClientInv'
<1>1. result' = [ok |-> FALSE, timed_out |-> TRUE, error |-> "timeout", body |-> 0]
  BY DEF RecvTimesOut, NoResult
<1>2. /\ pc' = "done" /\ peer' = "open" /\ expired' = TRUE /\ timeout_ms' > 0
      /\ UNCHANGED <<timeout_ms, sent, data, waited, peer, reply>>
  BY DEF RecvTimesOut, Elapsed
<1>3. TypeOK'
  <2>1. result' \in [ok : BOOLEAN, timed_out : BOOLEAN, error : Errors, body : Nat]
    BY <1>1 DEF Errors
  <2>. QED
    BY <1>2, <2>1 DEF ClientInv, TypeOK
<1>4. OutcomesExclusive' /\ WholeResponseDelivered'
  BY <1>1, <1>2 DEF OutcomesExclusive, WholeResponseDelivered
<1>. QED
  BY <1>2, <1>3, <1>4 DEF ClientInv

\* The peer and time.
LEMMA EnvironmentClient ==
    ASSUME ClientInv, PeerSends \/ PeerEnds \/ Tick \/ UNCHANGED vars
    PROVE  ClientInv'
<1>1. CASE PeerSends
  BY <1>1, HttpClientAssumption
  DEF PeerSends, ClientInv, TypeOK, OutcomesExclusive, WholeResponseDelivered
<1>2. CASE PeerEnds
  BY <1>2 DEF PeerEnds, ClientInv, TypeOK, OutcomesExclusive, WholeResponseDelivered
<1>3. CASE Tick
  BY <1>3 DEF Tick, ClientInv, TypeOK, OutcomesExclusive, WholeResponseDelivered
<1>4. CASE UNCHANGED vars
  BY <1>4 DEF vars, ClientInv, TypeOK, OutcomesExclusive, WholeResponseDelivered
<1>. QED
  BY <1>1, <1>2, <1>3, <1>4

\* The outcome fits the exchange in every behaviour.
THEOREM ClientInvariance == Spec => []ClientInv
<1>1. ClientInv /\ [Next]_vars => ClientInv'
  <2>. SUFFICES ASSUME ClientInv, [Next]_vars PROVE ClientInv'
    OBVIOUS
  <2>1. CASE ConnectFails \/ ConnectTimesOut \/ SendFails \/ SendTimesOut
    BY <2>1, FailClient
    DEF ConnectFails, ConnectTimesOut, SendFails, SendTimesOut, ClientInv, TypeOK
  <2>2. CASE SendKills
    BY <2>2 DEF SendKills, ClientInv, TypeOK, OutcomesExclusive, WholeResponseDelivered
  <2>. QED
    BY <2>1, <2>2, ProgressClient, ParseClient, TimeoutClient, EnvironmentClient DEF Next, Client, Done
<1>. QED
  BY InitClient, <1>1, PTL DEF Spec

\* Success, failure and timeout exclude each other, and no timeout is forged.
THEOREM OutcomesAreExclusive == Spec => []OutcomesExclusive
<1>1. ClientInv => OutcomesExclusive
  BY DEF ClientInv
<1>. QED
  BY <1>1, ClientInvariance, PTL

\* A response that arrives whole and in time is delivered whole.
THEOREM ResponsesAreDelivered == Spec => []WholeResponseDelivered
<1>1. ClientInv => WholeResponseDelivered
  BY DEF ClientInv
<1>. QED
  BY <1>1, ClientInvariance, PTL

=============================================================================
