----------------------- MODULE RuntimeManagerProofs -----------------------
(***************************************************************************)
(* Proofs about RuntimeManager, for any number of functions, threads,      *)
(* containers and ports, any spec values and any number of health polls.   *)
(***************************************************************************)
EXTENDS RuntimeManager, TLAPS, FiniteSetTheorems

-----------------------------------------------------------------------------
\* Facts used throughout.

\* A thread inside invoke() has typed locals, with a typed spec in them.
LEMMA CallTyped ==
    ASSUME TypeOK, ControlInv, NEW t \in Threads, pc[t] # "out"
    PROVE  /\ call[t] \in Call
           /\ call[t].spec \in Specs
           /\ call[t].spec.name \in Names
           /\ call[t].spec.image \in Images
           /\ call[t].spec.idle_timeout_ms \in Nat
BY SpecsAssumption DEF TypeOK, ControlInv, Call, Images

\* Removing containers changes statuses to "removed" and nothing else, and what
\* is not removed is recorded as lost.
LEMMA RemoveEffect ==
    ASSUME NEW S \in SUBSET ContainerIds, RemoveContainers(S), TypeOK
    PROVE  /\ containers' \in [ContainerIds -> Container]
           /\ lost' \in SUBSET ContainerIds
           /\ lost \subseteq lost'
           /\ lost' \subseteq lost \cup S
           /\ \A c \in ContainerIds :
                /\ c \notin S => containers'[c] = containers[c]
                /\ c \in S /\ c \notin lost' => containers'[c].status = "removed"
                /\ containers'[c].status \in {containers[c].status, "removed"}
                /\ containers'[c].port = containers[c].port
                /\ containers'[c].image = containers[c].image
<1>1. PICK stuck \in SUBSET S :
        /\ containers' = [c \in ContainerIds |->
                            IF c \in S \ stuck
                            THEN [containers[c] EXCEPT !.status = "removed"]
                            ELSE containers[c]]
        /\ lost' = lost \cup stuck
  BY DEF RemoveContainers
<1>2. \A c \in ContainerIds : containers[c] \in Container
  BY DEF TypeOK
<1>3. \A c \in ContainerIds : [containers[c] EXCEPT !.status = "removed"] \in Container
  BY <1>2 DEF Container
<1>. QED BY <1>1, <1>2, <1>3 DEF TypeOK, Container

\* A move changes the location and the locals of one thread.
LEMMA MoveEffect ==
    ASSUME TypeOK, NEW t \in Threads, NEW to \in Locations,
           NEW locals \in Call \cup {Null}, Move(t, to, locals)
    PROVE  /\ pc' \in [Threads -> Locations]
           /\ call' \in [Threads -> Call \cup {Null}]
           /\ pc'[t] = to
           /\ call'[t] = locals
           /\ \A u \in Threads \ {t} : pc'[u] = pc[u] /\ call'[u] = call[u]
BY DEF TypeOK, Move

-----------------------------------------------------------------------------
\* Steps of one thread that change neither the table nor the containers.

\* Thread t moves to location to and does not pretend to own anything it did
\* not own: a start keeps its container, a call in flight keeps its id and
\* port, a second attempt keeps the id of the first.
QuietStep(t, to, locals) ==
    /\ Move(t, to, locals)
    /\ UNCHANGED <<runtimes, containers, lost, created, terminated>>
    /\ invocations' \in [BOOLEAN -> Nat]
    /\ requests' \in 0..MaxRequests
    /\ mutex' \in Threads \cup {Null}
    /\ \A u \in Threads : mutex' = u <=> pc'[u] \in Starting
    /\ to # "out" => locals \in Call
    /\ to \in Starting => ~Tracked(locals.spec.name)
    /\ to = "health" => locals.host_port \in Ports
    /\ to \in {"port", "health"} <=> pc[t] \in {"port", "health"}
    /\ to \in {"port", "health"} => locals.container_id = call[t].container_id
    /\ to \in InFlight <=> pc[t] \in InFlight
    /\ to \in InFlight => /\ locals.spec = call[t].spec
                          /\ locals.container_id = call[t].container_id
                          /\ locals.host_port = call[t].host_port
    /\ to # "out" /\ locals.attempt = 2 => /\ pc[t] # "out"
                                           /\ call[t].attempt = 2
                                           /\ locals.spec = call[t].spec
                                           /\ locals.failed_id = call[t].failed_id

IsQuiet(t) ==
    \E to \in Locations, locals \in Call \cup {Null} : QuietStep(t, to, locals)

\* A quiet step changes no container's owner and preserves the invariant.
LEMMA QuietStepInv ==
    ASSUME IndInv, NEW t \in Threads, IsQuiet(t)
    PROVE  /\ IndInv'
           /\ \A c \in ContainerIds, u \in Threads : StartedBy(c, u)' <=> StartedBy(c, u)
<1>. PICK to \in Locations, locals \in Call \cup {Null} : QuietStep(t, to, locals)
  BY DEF IsQuiet
<1>1. /\ pc' \in [Threads -> Locations]
      /\ call' \in [Threads -> Call \cup {Null}]
      /\ pc'[t] = to
      /\ call'[t] = locals
      /\ \A u \in Threads \ {t} : pc'[u] = pc[u] /\ call'[u] = call[u]
  BY MoveEffect DEF IndInv, QuietStep
<1>2. TypeOK' /\ ControlInv' /\ ContainersInv'
  BY <1>1, NullAssumption DEF QuietStep, IndInv, TypeOK, ControlInv, ContainersInv
<1>3. ASSUME NEW c, NEW u \in Threads
      PROVE  StartedBy(c, u)' <=> StartedBy(c, u)
  BY <1>1 DEF QuietStep, StartedBy
<1>4. ASSUME NEW c, NEW f \in Names
      PROVE  TrackedBy(c, f)' <=> TrackedBy(c, f)
  BY DEF QuietStep, TrackedBy, Tracked
<1>5. StartInv'
  BY <1>1, <1>4 DEF QuietStep, IndInv, StartInv, Starting, Tracked, Present
<1>6. CallInv'
  BY <1>1, <1>3, <1>4 DEF QuietStep, IndInv, CallInv, Old
<1>7. TableIsLive'
  BY DEF QuietStep, IndInv, TableIsLive, TrackedBy, Tracked, Present
<1>8. NoUntracked'
  BY <1>3, <1>4 DEF QuietStep, IndInv, NoUntracked, Present
<1>9. BusyHasCaller'
  BY <1>1 DEF QuietStep, IndInv, BusyHasCaller, Tracked
<1>10. RetryElsewhere'
  BY <1>1 DEF QuietStep, IndInv, RetryElsewhere, InFlight
<1>. QED
  BY <1>2, <1>3, <1>5, <1>6, <1>7, <1>8, <1>9, <1>10 DEF IndInv

\* What the lock invariant becomes when only thread t moves: mutex_ keeps its
\* owner if t stays on the same side of the lock.
LEMMA LockKept ==
    ASSUME IndInv, NEW t \in Threads, NEW to \in Locations,
           NEW locals \in Call \cup {Null}, Move(t, to, locals), mutex' = mutex,
           to \in Starting <=> pc[t] \in Starting
    PROVE  /\ mutex' \in Threads \cup {Null}
           /\ \A u \in Threads : mutex' = u <=> pc'[u] \in Starting
BY MoveEffect DEF IndInv, TypeOK, ControlInv

\* invoke() gets its locals and touches nothing shared.
LEMMA InvokeIsQuiet ==
    ASSUME IndInv, NEW t \in Threads, NEW s \in Specs, Invoke(t, s)
    PROVE  IsQuiet(t)
<1>1. /\ NewCall(s) \in Call
      /\ NewCall(s).attempt = 1
  BY DEF NewCall, Call, Responses
<1>2. "enter" \in Locations
  BY DEF Locations
<1>3. /\ mutex' \in Threads \cup {Null}
      /\ \A u \in Threads : mutex' = u <=> pc'[u] \in Starting
  BY <1>1, <1>2, LockKept DEF Invoke, Starting
<1>4. requests' \in 0..MaxRequests
  BY ConstantsAssumption DEF Invoke, IndInv, TypeOK
<1>5. QuietStep(t, "enter", NewCall(s))
  BY <1>1, <1>3, <1>4 DEF Invoke, QuietStep, IndInv, TypeOK, metrics, Starting, InFlight
<1>. QED
  BY <1>1, <1>2, <1>5 DEF IsQuiet

\* A cold start takes mutex_ and has no container yet.
LEMMA BeginStartIsQuiet ==
    ASSUME IndInv, NEW t \in Threads, BeginStart(t)
    PROVE  IsQuiet(t)
<1>1. call[t] \in Call
  BY CallTyped DEF BeginStart, IndInv
<1>2. "run" \in Locations
  BY DEF Locations
<1>3. \A u \in Threads : mutex' = u <=> pc'[u] \in Starting
  BY <1>1, <1>2, MoveEffect, NullAssumption DEF BeginStart, IndInv, ControlInv, Starting
<1>4. QuietStep(t, "run", call[t])
  BY <1>1, <1>3 DEF BeginStart, QuietStep, IndInv, TypeOK, metrics, InFlight
<1>. QED
  BY <1>1, <1>2, <1>4 DEF IsQuiet

\* run_container fails: the lock is released and nothing was created.
LEMMA RunFailsIsQuiet ==
    ASSUME IndInv, NEW t \in Threads, RunFails(t)
    PROVE  IsQuiet(t)
<1>. DEFINE l == [call[t] EXCEPT !.response = "not_started"]
<1>1. call[t] \in Call
  BY CallTyped DEF RunFails, IndInv
<1>2. /\ l \in Call
      /\ l.spec = call[t].spec
      /\ l.attempt = call[t].attempt
      /\ l.failed_id = call[t].failed_id
  BY <1>1 DEF Call, Responses
<1>3. Move(t, "record", l) /\ "record" \in Locations
  BY DEF RunFails, FailStart, Locations
<1>. HIDE DEF l
<1>4. \A u \in Threads : mutex' = u <=> pc'[u] \in Starting
  BY <1>2, <1>3, MoveEffect, NullAssumption
  DEF RunFails, FailStart, IndInv, ControlInv, Starting
<1>5. QuietStep(t, "record", l)
  BY <1>2, <1>3, <1>4
  DEF RunFails, FailStart, QuietStep, IndInv, TypeOK, metrics, InFlight, Starting
<1>. QED
  BY <1>2, <1>3, <1>5 DEF IsQuiet

\* get_host_port reads the port; the start keeps its container.
LEMMA GetHostPortIsQuiet ==
    ASSUME IndInv, NEW t \in Threads, GetHostPort(t)
    PROVE  IsQuiet(t)
<1>. DEFINE l == [call[t] EXCEPT !.host_port = containers[call[t].container_id].port,
                                 !.polls = 0]
<1>1. call[t] \in Call
  BY CallTyped DEF GetHostPort, IndInv
<1>2. containers[call[t].container_id].port \in Ports /\ ~Tracked(call[t].spec.name)
  BY DEF GetHostPort, IndInv, StartInv, ContainersInv, Starting
<1>3. /\ l \in Call
      /\ l.spec = call[t].spec
      /\ l.attempt = call[t].attempt
      /\ l.failed_id = call[t].failed_id
      /\ l.container_id = call[t].container_id
      /\ l.host_port \in Ports
  BY <1>1, <1>2 DEF Call
<1>4. Move(t, "health", l) /\ "health" \in Locations
  BY DEF GetHostPort, Locations
<1>. HIDE DEF l
<1>5. /\ mutex' \in Threads \cup {Null}
      /\ \A u \in Threads : mutex' = u <=> pc'[u] \in Starting
  BY <1>3, <1>4, LockKept DEF GetHostPort, Starting
<1>6. QuietStep(t, "health", l)
  BY <1>2, <1>3, <1>4, <1>5 DEF GetHostPort, QuietStep, IndInv, TypeOK, metrics, InFlight
<1>. QED
  BY <1>3, <1>4, <1>6 DEF IsQuiet

\* An unhealthy poll only counts.
LEMMA PollUnhealthyIsQuiet ==
    ASSUME IndInv, NEW t \in Threads, PollUnhealthy(t)
    PROVE  IsQuiet(t)
<1>. DEFINE l == [call[t] EXCEPT !.polls = @ + 1]
<1>1. call[t] \in Call
  BY CallTyped DEF PollUnhealthy, IndInv
<1>2. call[t].host_port \in Ports /\ ~Tracked(call[t].spec.name)
  BY DEF PollUnhealthy, IndInv, StartInv, Starting
<1>3. /\ l \in Call
      /\ l.spec = call[t].spec
      /\ l.attempt = call[t].attempt
      /\ l.failed_id = call[t].failed_id
      /\ l.container_id = call[t].container_id
      /\ l.host_port = call[t].host_port
  BY <1>1 DEF Call
<1>4. Move(t, "health", l) /\ "health" \in Locations
  BY DEF PollUnhealthy, Locations
<1>. HIDE DEF l
<1>5. /\ mutex' \in Threads \cup {Null}
      /\ \A u \in Threads : mutex' = u <=> pc'[u] \in Starting
  BY <1>3, <1>4, LockKept DEF PollUnhealthy, Starting
<1>6. QuietStep(t, "health", l)
  BY <1>2, <1>3, <1>4, <1>5 DEF PollUnhealthy, QuietStep, IndInv, TypeOK, metrics, InFlight
<1>. QED
  BY <1>3, <1>4, <1>6 DEF IsQuiet

\* Post, PostFails and Respond: a call in flight stays in flight.
LEMMA InFlightIsQuiet ==
    ASSUME IndInv, NEW t \in Threads, NEW to \in InFlight, pc[t] \in InFlight,
           NEW C \in SUBSET ContainerIds, NEW r \in Responses,
           Move(t, to, [call[t] EXCEPT !.reached = C, !.response = r]),
           UNCHANGED <<runtimes, mutex, containers, metrics, requests, lost>>
    PROVE  IsQuiet(t)
<1>. DEFINE l == [call[t] EXCEPT !.reached = C, !.response = r]
<1>1. call[t] \in Call
  BY CallTyped DEF IndInv, InFlight
<1>2. /\ l \in Call
      /\ l.spec = call[t].spec
      /\ l.attempt = call[t].attempt
      /\ l.failed_id = call[t].failed_id
      /\ l.container_id = call[t].container_id
      /\ l.host_port = call[t].host_port
  BY <1>1 DEF Call
<1>3. Move(t, to, l) /\ to \in Locations
  BY DEF Locations, InFlight
<1>. HIDE DEF l
<1>4. /\ mutex' \in Threads \cup {Null}
      /\ \A u \in Threads : mutex' = u <=> pc'[u] \in Starting
  BY <1>2, <1>3, LockKept DEF Starting, InFlight
<1>5. QuietStep(t, to, l)
  BY <1>2, <1>3, <1>4 DEF QuietStep, IndInv, TypeOK, metrics, InFlight, Starting
<1>. QED
  BY <1>2, <1>3, <1>5 DEF IsQuiet

\* The POST changes only the locals of the thread that sends it.
LEMMA ExchangeIsQuiet ==
    ASSUME IndInv, NEW t \in Threads, Post(t) \/ PostFails(t) \/ Respond(t)
    PROVE  IsQuiet(t)
<1>1. call[t] \in Call /\ pc[t] \in InFlight
  BY CallTyped DEF Post, PostFails, Respond, IndInv, InFlight
<1>2. UNCHANGED <<runtimes, mutex, containers, metrics, requests, lost>>
  BY DEF Post, PostFails, Respond
<1>3. PICK to \in InFlight, C \in SUBSET ContainerIds, r \in Responses :
        Move(t, to, [call[t] EXCEPT !.reached = C, !.response = r])
  <2>1. CASE Post(t)
    <3>1. PICK c \in ContainerIds : Move(t, "wait", [call[t] EXCEPT !.reached = @ \cup {c}])
      BY <2>1 DEF Post
    <3>2. [call[t] EXCEPT !.reached = @ \cup {c}]
            = [call[t] EXCEPT !.reached = call[t].reached \cup {c}, !.response = call[t].response]
      BY <1>1 DEF Call
    <3>3. call[t].reached \cup {c} \in SUBSET ContainerIds /\ call[t].response \in Responses
      BY <1>1 DEF Call
    <3>. QED
      BY <3>1, <3>2, <3>3 DEF InFlight
  <2>2. CASE PostFails(t) \/ Respond(t)
    <3>1. PICK r \in Responses : Move(t, "settle", [call[t] EXCEPT !.response = r])
      BY <2>2 DEF PostFails, Respond, Responses
    <3>2. [call[t] EXCEPT !.response = r]
            = [call[t] EXCEPT !.reached = call[t].reached, !.response = r]
      BY <1>1 DEF Call
    <3>3. call[t].reached \in SUBSET ContainerIds
      BY <1>1 DEF Call
    <3>. QED
      BY <3>1, <3>2, <3>3 DEF InFlight
  <2>. QED
    BY <2>1, <2>2
<1>. QED
  BY <1>1, <1>2, <1>3, InFlightIsQuiet

\* The return from invoke() drops the locals.
LEMMA RecordIsQuiet ==
    ASSUME IndInv, NEW t \in Threads, Record(t)
    PROVE  IsQuiet(t)
<1>1. call[t] \in Call
  BY CallTyped DEF Record, IndInv
<1>2. invocations' \in [BOOLEAN -> Nat]
  BY <1>1 DEF Record, IndInv, TypeOK, Call
<1>3. "out" \in Locations /\ Move(t, "out", Null)
  BY DEF Record, Locations
<1>4. /\ mutex' \in Threads \cup {Null}
      /\ \A u \in Threads : mutex' = u <=> pc'[u] \in Starting
  BY <1>3, LockKept DEF Record, Starting
<1>5. QuietStep(t, "out", Null)
  BY <1>2, <1>3, <1>4 DEF Record, QuietStep, IndInv, TypeOK, InFlight, Starting
<1>. QED
  BY <1>3, <1>5 DEF IsQuiet

-----------------------------------------------------------------------------
\* Steps that change the table or the containers.

\* Warm reuse makes the entry BUSY and the thread its caller.
LEMMA ReuseRuntimeInv ==
    ASSUME IndInv, NEW t \in Threads, ReuseRuntime(t)
    PROVE  IndInv'
<1>. DEFINE f == call[t].spec.name
            rt == runtimes[f]
            l == [call[t] EXCEPT !.cold_start = FALSE, !.container_id = rt.container_id,
                                 !.host_port = rt.host_port]
<1>1. /\ pc[t] = "enter"
      /\ Tracked(f)
      /\ runtimes' = [runtimes EXCEPT ![f] = Acquire(rt)]
      /\ Move(t, "post", l)
      /\ UNCHANGED <<mutex, containers, metrics, requests, lost>>
  BY DEF ReuseRuntime
<1>2. call[t] \in Call /\ f \in Names
  BY <1>1, CallTyped DEF IndInv
<1>3. rt \in Runtime
  BY <1>1, <1>2 DEF IndInv, TypeOK, Tracked
<1>4. Acquire(rt) \in Runtime /\ Acquire(rt).container_id = rt.container_id
  BY <1>3 DEF Acquire, Runtime
<1>5. /\ l \in Call
      /\ l.spec = call[t].spec
      /\ l.attempt = call[t].attempt
      /\ l.failed_id = call[t].failed_id
      /\ l.container_id = rt.container_id
      /\ l.host_port \in Ports
      /\ rt.container_id \in ContainerIds
  BY <1>2, <1>3 DEF Call, Runtime
<1>. HIDE DEF l
<1>6. /\ pc' \in [Threads -> Locations]
      /\ call' \in [Threads -> Call \cup {Null}]
      /\ pc'[t] = "post"
      /\ call'[t] = l
      /\ \A u \in Threads \ {t} : pc'[u] = pc[u] /\ call'[u] = call[u]
  BY <1>1, <1>5, MoveEffect DEF IndInv, Locations
<1>7. /\ runtimes' \in [Names -> Runtime \cup {Null}]
      /\ runtimes'[f] # Null
      /\ runtimes'[f].container_id = rt.container_id
      /\ \A g \in Names \ {f} : runtimes'[g] = runtimes[g]
  BY <1>1, <1>2, <1>4, NullAssumption DEF IndInv, TypeOK
<1>8. ASSUME NEW c, NEW g \in Names
      PROVE  TrackedBy(c, g)' <=> TrackedBy(c, g)
  BY <1>1, <1>7 DEF TrackedBy, Tracked
<1>9. ASSUME NEW c, NEW u \in Threads
      PROVE  StartedBy(c, u)' <=> StartedBy(c, u)
  BY <1>1, <1>6 DEF StartedBy
<1>10. TypeOK' /\ ControlInv' /\ ContainersInv'
  BY <1>1, <1>5, <1>6, <1>7, NullAssumption
  DEF IndInv, TypeOK, ControlInv, ContainersInv, metrics, Starting
<1>11. StartInv'
  BY <1>1, <1>6, <1>7, <1>8, CallTyped DEF IndInv, StartInv, Starting, Tracked, Present
<1>12. CallInv'
  <2>1. /\ Present(rt.container_id)
        /\ \A g \in Names : TrackedBy(rt.container_id, g) => g = f
        /\ \A u \in Threads : ~StartedBy(rt.container_id, u)
    BY <1>1, <1>2 DEF IndInv, TableIsLive, StartInv, TrackedBy, StartedBy
  <2>2. Old(rt.container_id, f)
    BY <1>5, <2>1 DEF Old, Present
  <2>3. ASSUME NEW c, NEW g \in Names, Old(c, g)
        PROVE  Old(c, g)'
    BY <1>1, <1>8, <1>9, <2>3 DEF Old
  <2>4. ASSUME NEW u \in Threads, pc'[u] \in InFlight
        PROVE  Old(call[u].container_id, call[u].spec.name)' /\ call'[u].host_port \in Ports
    <3>1. CASE u = t
      BY <1>2, <1>5, <1>6, <2>2, <2>3, <3>1
    <3>2. CASE u # t
      BY <1>6, <2>3, <2>4, <3>2, CallTyped DEF IndInv, CallInv, InFlight
    <3>. QED
      BY <3>1, <3>2
  <2>5. ASSUME NEW u \in Threads, pc'[u] # "out", call'[u].attempt = 2
        PROVE  /\ Old(call[u].failed_id, call[u].spec.name)'
               /\ \A g \in Names : ~TrackedBy(call[u].failed_id, g)'
    BY <1>1, <1>5, <1>6, <1>8, <2>3, <2>5, CallTyped DEF IndInv, CallInv
  <2>. QED
    BY <2>4, <2>5 DEF CallInv
<1>13. TableIsLive'
  BY <1>1, <1>7, <1>8 DEF IndInv, TableIsLive, Tracked, Present
<1>14. NoUntracked'
  BY <1>1, <1>8, <1>9 DEF IndInv, NoUntracked, Present
<1>15. BusyHasCaller'
  BY <1>1, <1>5, <1>6, <1>7 DEF IndInv, BusyHasCaller, Tracked, InFlight
<1>16. RetryElsewhere'
  BY <1>1, <1>2, <1>5, <1>6 DEF IndInv, RetryElsewhere, CallInv, TrackedBy, InFlight
<1>. QED
  BY <1>10, <1>11, <1>12, <1>13, <1>14, <1>15, <1>16 DEF IndInv

\* A reply releases the entry only if it is the one that was called.
LEMMA SettleReplyInv ==
    ASSUME IndInv, NEW t \in Threads, SettleReply(t)
    PROVE  IndInv'
<1>. DEFINE f == call[t].spec.name
<1>1. /\ pc[t] = "settle"
      /\ Move(t, "record", call[t])
      /\ runtimes' = IF StillTracked(t)
                     THEN [runtimes EXCEPT ![f] = Release(@)]
                     ELSE runtimes
      /\ UNCHANGED <<mutex, containers, metrics, requests, lost>>
  BY DEF SettleReply
<1>2. call[t] \in Call /\ f \in Names
  BY <1>1, CallTyped DEF IndInv
<1>3. /\ pc' \in [Threads -> Locations]
      /\ call' = call
      /\ pc'[t] = "record"
      /\ \A u \in Threads \ {t} : pc'[u] = pc[u]
  BY <1>1, <1>2, MoveEffect DEF IndInv, TypeOK, Locations, Move
<1>4. StillTracked(t) =>
        /\ Release(runtimes[f]) \in Runtime
        /\ Release(runtimes[f]).container_id = runtimes[f].container_id
        /\ Release(runtimes[f]).state = "IDLE"
        /\ runtimes[f] \in Runtime
  BY <1>2 DEF IndInv, TypeOK, StillTracked, Release, Runtime
<1>5. /\ runtimes' \in [Names -> Runtime \cup {Null}]
      /\ \A g \in Names : /\ runtimes'[g] = Null <=> runtimes[g] = Null
                          /\ runtimes'[g].container_id = runtimes[g].container_id
                          /\ runtimes'[g].state = "BUSY" => runtimes[g].state = "BUSY"
      /\ StillTracked(t) => runtimes'[f].state = "IDLE"
  BY <1>1, <1>2, <1>4, NullAssumption DEF IndInv, TypeOK
<1>6. ASSUME NEW c, NEW g \in Names
      PROVE  TrackedBy(c, g)' <=> TrackedBy(c, g)
  BY <1>5 DEF TrackedBy, Tracked
<1>7. ASSUME NEW c, NEW u \in Threads
      PROVE  StartedBy(c, u)' <=> StartedBy(c, u)
  BY <1>1, <1>3 DEF StartedBy
<1>8. TypeOK' /\ ControlInv' /\ ContainersInv'
  BY <1>1, <1>3, <1>5 DEF IndInv, TypeOK, ControlInv, ContainersInv, metrics, Starting
<1>9. StartInv'
  BY <1>1, <1>3, <1>5, <1>6, CallTyped DEF IndInv, StartInv, Starting, Tracked, Present
<1>10. CallInv'
  BY <1>1, <1>3, <1>6, <1>7 DEF IndInv, CallInv, Old, InFlight
<1>11. TableIsLive'
  BY <1>1, <1>5, <1>6 DEF IndInv, TableIsLive, Tracked, Present
<1>12. NoUntracked'
  BY <1>1, <1>6, <1>7 DEF IndInv, NoUntracked, Present
<1>13. BusyHasCaller'
  BY <1>1, <1>3, <1>5 DEF IndInv, BusyHasCaller, Tracked, StillTracked, InFlight
<1>14. RetryElsewhere'
  BY <1>1, <1>3 DEF IndInv, RetryElsewhere, InFlight
<1>. QED
  BY <1>8, <1>9, <1>10, <1>11, <1>12, <1>13, <1>14 DEF IndInv

\* run_container adds a container that belongs to the start alone.
LEMMA RunContainerInv ==
    ASSUME IndInv, NEW t \in Threads, RunContainer(t)
    PROVE  IndInv'
<1>1. pc[t] # "out"
  BY DEF RunContainer
<1>2. /\ call[t] \in Call
      /\ call[t].spec.name \in Names
      /\ call[t].spec.image \in Images
  BY <1>1, CallTyped DEF IndInv
<1>3. PICK c \in ContainerIds, p \in Ports :
        /\ containers[c].status = "unused"
        /\ containers' = [containers EXCEPT ![c] =
                            [status |-> "up", image |-> call[t].spec.image, port |-> p]]
        /\ Move(t, "port", [call[t] EXCEPT !.container_id = c])
  BY DEF RunContainer
<1>4. [call[t] EXCEPT !.container_id = c] \in Call
  BY <1>2 DEF Call
<1>5. /\ pc' \in [Threads -> Locations]
      /\ call' \in [Threads -> Call \cup {Null}]
      /\ pc'[t] = "port"
      /\ call'[t] = [call[t] EXCEPT !.container_id = c]
      /\ \A u \in Threads \ {t} : pc'[u] = pc[u] /\ call'[u] = call[u]
  BY <1>3, <1>4, MoveEffect DEF IndInv, Locations
<1>6. /\ call'[t] # Null
      /\ call'[t].spec = call[t].spec
      /\ call'[t].attempt = call[t].attempt
      /\ call'[t].failed_id = call[t].failed_id
      /\ call'[t].container_id = c
  BY <1>2, <1>4, <1>5, NullAssumption DEF Call
<1>7. /\ pc' \in [Threads -> Locations]
      /\ call' \in [Threads -> Call \cup {Null}]
      /\ pc[t] = "run"
      /\ pc'[t] = "port"
      /\ \A u \in Threads \ {t} : pc'[u] = pc[u] /\ call'[u] = call[u]
      /\ UNCHANGED <<runtimes, mutex, metrics, requests, lost>>
  BY <1>5 DEF RunContainer
<1>8. /\ containers' \in [ContainerIds -> Container]
      /\ containers[c].status = "unused"
      /\ containers'[c].status = "up"
      /\ containers'[c].port \in Ports
      /\ \A d \in ContainerIds \ {c} : containers'[d] = containers[d]
  BY <1>2, <1>3 DEF IndInv, TypeOK, Container
<1>9. \A f \in Names : ~TrackedBy(c, f)
  BY <1>8 DEF IndInv, TableIsLive, TrackedBy, Tracked, Present
<1>10. TypeOK' /\ ControlInv' /\ ContainersInv'
  BY <1>6, <1>7, <1>8 DEF IndInv, TypeOK, ControlInv, ContainersInv, metrics, Starting
<1>11. StartInv'
  BY <1>6, <1>7, <1>8, <1>9 DEF IndInv, ContainersInv, StartInv, Starting, TrackedBy, Tracked, Present
<1>12. CallInv'
  BY <1>6, <1>7, <1>8 DEF IndInv, CallInv, Old, StartedBy, TrackedBy, Tracked, InFlight
<1>13. TableIsLive'
  BY <1>7, <1>8 DEF IndInv, TypeOK, TableIsLive, TrackedBy, Tracked, Present, Runtime
<1>14. NoUntracked'
  <2>. SUFFICES ASSUME NEW d \in ContainerIds, Present(d)', d \notin lost'
                PROVE  \/ \E f \in Names : TrackedBy(d, f)'
                       \/ \E u \in Threads : StartedBy(d, u)'
    BY DEF NoUntracked
  <2>1. CASE d = c
    BY <1>6, <1>7, <2>1 DEF StartedBy
  <2>2. CASE d # c
    <3>1. Present(d) /\ d \notin lost
      BY <1>7, <1>8, <2>2 DEF Present
    <3>2. CASE \E f \in Names : TrackedBy(d, f)
      BY <1>7, <3>2 DEF TrackedBy, Tracked
    <3>3. CASE \E u \in Threads : StartedBy(d, u)
      BY <1>7, <3>3 DEF StartedBy
    <3>. QED
      BY <3>1, <3>2, <3>3 DEF IndInv, NoUntracked
  <2>. QED
    BY <2>1, <2>2
<1>15. BusyHasCaller' /\ RetryElsewhere'
  BY <1>7 DEF IndInv, BusyHasCaller, RetryElsewhere, Tracked, InFlight
<1>. QED
  BY <1>10, <1>11, <1>12, <1>13, <1>14, <1>15 DEF IndInv

\* A container that run_container leaves behind is lost at once: it belongs to
\* no start, no function and no call.
LEMMA RunLeavesInv ==
    ASSUME IndInv, NEW t \in Threads, RunLeaves(t)
    PROVE  IndInv'
<1>. DEFINE l == [call[t] EXCEPT !.response = "not_started"]
<1>1. call[t] \in Call /\ call[t].spec.image \in Images
  BY CallTyped DEF RunLeaves, IndInv
<1>2. PICK c \in ContainerIds, p \in Ports :
        /\ containers[c].status = "unused"
        /\ containers' = [containers EXCEPT ![c] =
                            [status |-> "up", image |-> call[t].spec.image, port |-> p]]
        /\ lost' = lost \cup {c}
  BY DEF RunLeaves
<1>3. /\ l \in Call
      /\ l.spec = call[t].spec
      /\ l.attempt = call[t].attempt
      /\ l.failed_id = call[t].failed_id
  BY <1>1 DEF Call, Responses
<1>4. /\ pc[t] = "run"
      /\ Move(t, "record", l)
      /\ mutex' = Null
      /\ UNCHANGED <<runtimes, metrics, requests>>
  BY DEF RunLeaves, FailStart
<1>. HIDE DEF l
<1>5. /\ pc' \in [Threads -> Locations]
      /\ call' \in [Threads -> Call \cup {Null}]
      /\ pc'[t] = "record"
      /\ call'[t] = l
      /\ \A u \in Threads \ {t} : pc'[u] = pc[u] /\ call'[u] = call[u]
  BY <1>3, <1>4, MoveEffect DEF IndInv, Locations
<1>6. /\ containers' \in [ContainerIds -> Container]
      /\ containers'[c].status = "up"
      /\ containers'[c].port \in Ports
      /\ \A d \in ContainerIds \ {c} : containers'[d] = containers[d]
  BY <1>1, <1>2 DEF IndInv, TypeOK, Container
<1>7. \A u \in Threads : u # t => pc[u] \notin Starting
  BY <1>4 DEF IndInv, ControlInv, Starting
<1>8. \A f \in Names : ~TrackedBy(c, f)
  BY <1>2 DEF IndInv, TableIsLive, TrackedBy, Tracked, Present
<1>9. TypeOK'
  BY <1>2, <1>4, <1>5, <1>6 DEF IndInv, TypeOK, metrics
<1>10. ControlInv'
  BY <1>3, <1>4, <1>5, <1>7, NullAssumption DEF IndInv, ControlInv, Starting
<1>11. ContainersInv'
  BY <1>2, <1>6 DEF IndInv, ContainersInv
<1>12. StartInv'
  BY <1>5, <1>7 DEF StartInv, Starting
<1>13. CallInv'
  BY <1>2, <1>3, <1>4, <1>5, <1>6, <1>7
  DEF IndInv, CallInv, Old, StartedBy, TrackedBy, Tracked, InFlight, Starting
<1>14. TableIsLive'
  BY <1>2, <1>4, <1>6, <1>8 DEF IndInv, TypeOK, TableIsLive, TrackedBy, Tracked, Present, Runtime
<1>15. NoUntracked'
  <2>. SUFFICES ASSUME NEW d \in ContainerIds, Present(d)', d \notin lost'
                PROVE  \E f \in Names : TrackedBy(d, f)'
    BY DEF NoUntracked
  <2>1. d # c /\ Present(d) /\ d \notin lost
    BY <1>2, <1>6 DEF Present
  <2>2. ~ \E u \in Threads : StartedBy(d, u)
    BY <1>4, <1>7 DEF StartedBy, Starting
  <2>. QED
    BY <1>4, <2>1, <2>2 DEF IndInv, NoUntracked, TrackedBy, Tracked
<1>16. BusyHasCaller' /\ RetryElsewhere'
  BY <1>4, <1>5 DEF IndInv, BusyHasCaller, RetryElsewhere, Tracked, InFlight
<1>. QED
  BY <1>9, <1>10, <1>11, <1>12, <1>13, <1>14, <1>15, <1>16 DEF IndInv

\* A healthy poll moves the container from the start into the table.
LEMMA PollHealthyInv ==
    ASSUME IndInv, NEW t \in Threads, PollHealthy(t)
    PROVE  IndInv'
<1>. DEFINE f == call[t].spec.name
            fresh == [container_id |-> call[t].container_id,
                      host_port |-> call[t].host_port,
                      state |-> "STARTING", idle_ms |-> 0,
                      idle_timeout_ms |-> call[t].spec.idle_timeout_ms]
            l == [call[t] EXCEPT !.cold_start = TRUE,
                                 !.container_id = fresh.container_id,
                                 !.host_port = fresh.host_port, !.polls = 0]
<1>1. pc[t] = "health"
  BY DEF PollHealthy
<1>2. /\ call[t] \in Call
      /\ f \in Names
      /\ call[t].spec.idle_timeout_ms \in Nat
  BY <1>1, CallTyped DEF IndInv
<1>3. /\ ~Tracked(f)
      /\ call[t].host_port \in Ports
      /\ call[t].container_id \in ContainerIds \ lost
      /\ Present(call[t].container_id)
      /\ \A g \in Names : ~TrackedBy(call[t].container_id, g)
  BY <1>1 DEF IndInv, StartInv, Starting
<1>4. /\ runtimes' = [runtimes EXCEPT ![f] = Acquire(fresh)]
      /\ Move(t, "post", l)
      /\ mutex' = Null
      /\ created' = created + 1
      /\ UNCHANGED <<containers, terminated, invocations, requests, lost>>
  BY <1>3 DEF PollHealthy
<1>5. /\ Acquire(fresh) \in Runtime
      /\ Acquire(fresh).container_id = call[t].container_id
  BY <1>2, <1>3 DEF Acquire, Runtime
<1>6. /\ l \in Call
      /\ l.spec = call[t].spec
      /\ l.attempt = call[t].attempt
      /\ l.failed_id = call[t].failed_id
      /\ l.container_id = call[t].container_id
      /\ l.host_port = call[t].host_port
  BY <1>2, <1>3 DEF Call
<1>. HIDE DEF l
<1>7. /\ pc' \in [Threads -> Locations]
      /\ call' \in [Threads -> Call \cup {Null}]
      /\ pc'[t] = "post"
      /\ call'[t] = l
      /\ \A u \in Threads \ {t} : pc'[u] = pc[u] /\ call'[u] = call[u]
  BY <1>4, <1>6, MoveEffect DEF IndInv, Locations
<1>8. /\ runtimes' \in [Names -> Runtime \cup {Null}]
      /\ runtimes'[f] # Null
      /\ runtimes'[f].container_id = call[t].container_id
      /\ \A g \in Names \ {f} : runtimes'[g] = runtimes[g]
  BY <1>2, <1>4, <1>5, NullAssumption DEF IndInv, TypeOK
<1>. HIDE DEF fresh
<1>9. \A u \in Threads : u # t => pc[u] \notin Starting
  BY <1>1 DEF IndInv, ControlInv, Starting
<1>10. TypeOK'
  BY <1>4, <1>7, <1>8 DEF IndInv, TypeOK
<1>11. ControlInv' /\ ContainersInv'
  BY <1>4, <1>6, <1>7, <1>9, NullAssumption DEF IndInv, ControlInv, ContainersInv, Starting
<1>12. StartInv'
  BY <1>7, <1>9 DEF StartInv, Starting
<1>13. CallInv'
  <2>1. \A c : \A g \in Names : c # call[t].container_id => (TrackedBy(c, g)' <=> TrackedBy(c, g))
    BY <1>3, <1>8 DEF TrackedBy, Tracked
  <2>2. \A u \in Threads : pc'[u] \notin {"port", "health"}
    BY <1>7, <1>9 DEF Starting
  <2>3. ASSUME NEW c, NEW g, c = call[t].container_id, g = f
        PROVE  Old(c, g)'
    BY <1>3, <1>4, <1>8, <2>2, <2>3 DEF Old, StartedBy, Present, TrackedBy, Tracked
  <2>4. ASSUME NEW c, NEW g \in Names, Old(c, g)
        PROVE  Old(c, g)' /\ c # call[t].container_id
    <3>1. c # call[t].container_id
      BY <1>1, <2>4 DEF Old, StartedBy
    <3>. QED
      BY <1>4, <2>1, <2>2, <2>4, <3>1 DEF Old, StartedBy
  <2>5. ASSUME NEW u \in Threads, pc'[u] \in InFlight
        PROVE  Old(call[u].container_id, call[u].spec.name)' /\ call'[u].host_port \in Ports
    <3>1. CASE u = t
      BY <1>3, <1>6, <1>7, <2>3, <3>1
    <3>2. CASE u # t
      BY <1>7, <2>4, <2>5, <3>2, CallTyped DEF IndInv, CallInv, InFlight
    <3>. QED
      BY <3>1, <3>2
  <2>6. ASSUME NEW u \in Threads, pc'[u] # "out", call'[u].attempt = 2
        PROVE  /\ Old(call[u].failed_id, call[u].spec.name)'
               /\ \A g \in Names : ~TrackedBy(call[u].failed_id, g)'
    <3>1. /\ pc[u] # "out" /\ call[u].attempt = 2
          /\ call'[u].failed_id = call[u].failed_id
          /\ call'[u].spec = call[u].spec
      BY <1>1, <1>6, <1>7, <2>6
    <3>2. /\ Old(call[u].failed_id, call[u].spec.name)
          /\ \A g \in Names : ~TrackedBy(call[u].failed_id, g)
          /\ call[u].spec.name \in Names
      BY <3>1, CallTyped DEF IndInv, CallInv
    <3>. QED
      BY <2>1, <2>4, <3>1, <3>2
  <2>. QED
    BY <2>5, <2>6 DEF CallInv
<1>14. TableIsLive'
  BY <1>3, <1>4, <1>8 DEF IndInv, TypeOK, TableIsLive, TrackedBy, Tracked, Present, Runtime
<1>15. NoUntracked'
  <2>. SUFFICES ASSUME NEW c \in ContainerIds, Present(c), c \notin lost
                PROVE  \E g \in Names : TrackedBy(c, g)'
    BY <1>4 DEF NoUntracked, Present
  <2>1. CASE c = call[t].container_id
    BY <1>2, <1>8, <2>1 DEF TrackedBy, Tracked
  <2>2. CASE c # call[t].container_id
    BY <1>3, <1>8, <1>9, <2>2 DEF IndInv, NoUntracked, StartedBy, Starting, TrackedBy, Tracked
  <2>. QED
    BY <2>1, <2>2
<1>16. BusyHasCaller'
  BY <1>1, <1>6, <1>7, <1>8 DEF IndInv, BusyHasCaller, Tracked, InFlight
<1>17. RetryElsewhere'
  BY <1>1, <1>6, <1>7 DEF IndInv, RetryElsewhere, CallInv, Old, StartedBy, InFlight
<1>. QED
  BY <1>10, <1>11, <1>12, <1>13, <1>14, <1>15, <1>16, <1>17 DEF IndInv

\* A start that fails after its container exists removes that container, which
\* nobody else has.
LEMMA AbortStartInv ==
    ASSUME IndInv, NEW t \in Threads, pc[t] \in {"port", "health"},
           FailStart(t), RemoveContainers({call[t].container_id})
    PROVE  IndInv'
<1>. DEFINE d == call[t].container_id
            l == [call[t] EXCEPT !.response = "not_started"]
<1>1. call[t] \in Call /\ call[t].spec.name \in Names
  BY CallTyped DEF IndInv
<1>2. d \in ContainerIds \ lost /\ Present(d) /\ \A f \in Names : ~TrackedBy(d, f)
  BY DEF IndInv, StartInv
<1>3. /\ l \in Call
      /\ l.spec = call[t].spec
      /\ l.attempt = call[t].attempt
      /\ l.failed_id = call[t].failed_id
  BY <1>1 DEF Call, Responses
<1>4. Move(t, "record", l) /\ mutex' = Null /\ UNCHANGED <<runtimes, metrics, requests>>
  BY DEF FailStart
<1>. HIDE DEF l
<1>5. /\ pc' \in [Threads -> Locations]
      /\ call' \in [Threads -> Call \cup {Null}]
      /\ pc'[t] = "record"
      /\ call'[t] = l
      /\ \A u \in Threads \ {t} : pc'[u] = pc[u] /\ call'[u] = call[u]
  BY <1>3, <1>4, MoveEffect DEF IndInv, Locations
<1>6. /\ containers' \in [ContainerIds -> Container]
      /\ lost' \in SUBSET ContainerIds
      /\ lost \subseteq lost'
      /\ lost' \subseteq lost \cup {d}
      /\ \A c \in ContainerIds :
            /\ c # d => containers'[c] = containers[c]
            /\ c = d /\ c \notin lost' => containers'[c].status = "removed"
            /\ containers'[c].status \in {containers[c].status, "removed"}
            /\ containers'[c].port = containers[c].port
  BY <1>2, RemoveEffect DEF IndInv
<1>7. \A u \in Threads : u # t => pc[u] \notin Starting
  BY DEF IndInv, ControlInv, Starting
<1>. HIDE DEF d
<1>8. TypeOK'
  BY <1>4, <1>5, <1>6 DEF IndInv, TypeOK, metrics
<1>9. ControlInv'
  BY <1>3, <1>4, <1>5, <1>7, NullAssumption DEF IndInv, ControlInv, Starting
<1>10. ContainersInv'
  BY <1>2, <1>6 DEF IndInv, ContainersInv, Present
<1>11. StartInv'
  BY <1>5, <1>7 DEF StartInv, Starting
<1>12. CallInv'
  BY <1>3, <1>4, <1>5, <1>6, <1>7
  DEF IndInv, CallInv, Old, StartedBy, TrackedBy, Tracked, InFlight, Starting
<1>13. TableIsLive'
  BY <1>2, <1>4, <1>6 DEF IndInv, TypeOK, TableIsLive, TrackedBy, Tracked, Present, Runtime
<1>14. NoUntracked'
  <2>. SUFFICES ASSUME NEW c \in ContainerIds, Present(c)', c \notin lost'
                PROVE  \E f \in Names : TrackedBy(c, f)'
    BY DEF NoUntracked
  <2>1. c # d /\ Present(c) /\ c \notin lost
    BY <1>6 DEF Present
  <2>2. ~ \E u \in Threads : StartedBy(c, u)
    BY <1>7, <2>1 DEF StartedBy, Starting, d
  <2>. QED
    BY <1>4, <2>1, <2>2 DEF IndInv, NoUntracked, TrackedBy, Tracked
<1>15. BusyHasCaller' /\ RetryElsewhere'
  BY <1>4, <1>5 DEF IndInv, BusyHasCaller, RetryElsewhere, Tracked, InFlight
<1>. QED
  BY <1>8, <1>9, <1>10, <1>11, <1>12, <1>13, <1>14, <1>15 DEF IndInv

-----------------------------------------------------------------------------
\* Retiring runtimes.

\* What is true after the runtimes of F, with containers S, were retired: the
\* table and the containers are consistent, every other container untouched.
Retired(F, S) ==
    /\ runtimes' \in [Names -> Runtime \cup {Null}]
    /\ \A f \in Names : runtimes'[f] = IF f \in F THEN Null ELSE runtimes[f]
    /\ terminated' = terminated + Cardinality(F)
    /\ terminated' \in Nat
    /\ containers' \in [ContainerIds -> Container]
    /\ lost' \in SUBSET ContainerIds
    /\ \A c \in ContainerIds :
        /\ c \notin S => /\ containers'[c] = containers[c]
                         /\ c \in lost' <=> c \in lost
        /\ c \in S => c \in lost' \/ ~Present(c)'
        /\ containers'[c].status = "unused" <=> containers[c].status = "unused"
    /\ ContainersInv'
    /\ TableIsLive'

\* Retiring runtimes with their own containers has that effect.
LEMMA RetireEffect ==
    ASSUME IndInv, NEW F \in SUBSET TrackedNames, NEW S,
           S = {runtimes[f].container_id : f \in F}, Retire(F, S)
    PROVE  Retired(F, S)
<1>1. /\ S \in SUBSET ContainerIds
      /\ \A c \in S : Present(c)
  BY DEF IndInv, TypeOK, TrackedNames, Tracked, Runtime, TableIsLive
<1>2. /\ RemoveContainers(S)
      /\ runtimes' = [f \in Names |-> IF f \in F THEN Null ELSE runtimes[f]]
      /\ terminated' = terminated + Cardinality(F)
  BY DEF Retire
<1>3. /\ runtimes' \in [Names -> Runtime \cup {Null}]
      /\ \A f \in Names : runtimes'[f] = IF f \in F THEN Null ELSE runtimes[f]
  BY <1>2 DEF IndInv, TypeOK
<1>4. terminated' \in Nat
  <2>1. IsFiniteSet(F)
    BY ConstantsAssumption, FS_Subset DEF TrackedNames
  <2>. QED
    BY <1>2, <2>1, FS_CardinalityType DEF IndInv, TypeOK
<1>5. /\ containers' \in [ContainerIds -> Container]
      /\ lost' \in SUBSET ContainerIds
      /\ lost \subseteq lost'
      /\ lost' \subseteq lost \cup S
      /\ \A c \in ContainerIds :
            /\ c \notin S => containers'[c] = containers[c]
            /\ c \in S /\ c \notin lost' => containers'[c].status = "removed"
            /\ containers'[c].status \in {containers[c].status, "removed"}
            /\ containers'[c].port = containers[c].port
  BY <1>1, <1>2, RemoveEffect DEF IndInv
<1>6. \A c \in ContainerIds :
        /\ c \notin S => /\ containers'[c] = containers[c]
                         /\ c \in lost' <=> c \in lost
        /\ c \in S => c \in lost' \/ ~Present(c)'
        /\ containers'[c].status = "unused" <=> containers[c].status = "unused"
  BY <1>1, <1>5 DEF Present
<1>7. ContainersInv'
  BY <1>1, <1>5, <1>6 DEF IndInv, ContainersInv, Present
<1>8. TableIsLive'
  <2>. SUFFICES ASSUME NEW f \in Names, Tracked(f)'
                PROVE  /\ Present(runtimes[f].container_id)'
                       /\ runtimes'[f].container_id \notin lost'
                       /\ \A g \in Names \ {f} : ~TrackedBy(runtimes[f].container_id, g)'
    BY DEF TableIsLive
  <2>1. f \notin F /\ Tracked(f) /\ runtimes'[f] = runtimes[f]
    BY <1>3 DEF Tracked
  <2>2. /\ Present(runtimes[f].container_id)
        /\ runtimes[f].container_id \in ContainerIds \ lost
        /\ \A g \in Names \ {f} : ~TrackedBy(runtimes[f].container_id, g)
    BY <2>1 DEF IndInv, TypeOK, TableIsLive, Tracked, Runtime
  <2>3. runtimes[f].container_id \notin S
    BY <2>1, <2>2 DEF TrackedNames, TrackedBy
  <2>. QED
    BY <1>3, <1>6, <2>1, <2>2, <2>3 DEF Present, TrackedBy, Tracked
<1>. QED
  BY <1>2, <1>3, <1>4, <1>5, <1>6, <1>7, <1>8 DEF Retired

\* terminate() and a reaper pass retire runtimes and touch no thread.
LEMMA RetireInv ==
    ASSUME IndInv, NEW F \in SUBSET TrackedNames,
           Retire(F, {runtimes[f].container_id : f \in F}),
           UNCHANGED <<mutex, pc, call, created, invocations, requests>>
    PROVE  IndInv'
<1>. DEFINE S == {runtimes[f].container_id : f \in F}
<1>1. Retired(F, S)
  BY RetireEffect
<1>2. \A c \in S : \E f \in Names : TrackedBy(c, f)
  BY DEF TrackedNames, TrackedBy
<1>3. ASSUME NEW c, NEW f \in Names
      PROVE  TrackedBy(c, f)' <=> TrackedBy(c, f) /\ f \notin F
  BY <1>1 DEF TrackedBy, Tracked, Retired
<1>4. ASSUME NEW c, c \notin S, NEW f \in Names
      PROVE  TrackedBy(c, f)' <=> TrackedBy(c, f)
  BY <1>3, <1>4 DEF TrackedBy
<1>. HIDE DEF S
<1>5. TypeOK' /\ ControlInv'
  BY <1>1 DEF IndInv, TypeOK, ControlInv, Retired
<1>6. StartInv'
  BY <1>1, <1>2, <1>3, CallTyped DEF IndInv, StartInv, Tracked, Present, Starting, Retired
<1>7. CallInv'
  BY <1>1, <1>3 DEF IndInv, CallInv, Old, StartedBy, Retired
<1>8. NoUntracked'
  <2>. SUFFICES ASSUME NEW c \in ContainerIds, Present(c)', c \notin lost'
                PROVE  \/ \E f \in Names : TrackedBy(c, f)'
                       \/ \E t \in Threads : StartedBy(c, t)'
    BY DEF NoUntracked
  <2>1. c \notin S /\ Present(c) /\ c \notin lost
    BY <1>1 DEF Present, Retired
  <2>. QED
    BY <1>4, <2>1 DEF IndInv, NoUntracked, StartedBy
<1>9. BusyHasCaller'
  BY <1>1 DEF IndInv, BusyHasCaller, Tracked, Retired
<1>10. RetryElsewhere'
  BY DEF IndInv, RetryElsewhere
<1>. QED
  BY <1>1, <1>5, <1>6, <1>7, <1>8, <1>9, <1>10 DEF IndInv, Retired

\* terminate() retires one runtime.
LEMMA TerminateInv ==
    ASSUME IndInv, NEW f \in Names, Terminate(f)
    PROVE  IndInv'
<1>1. {f} \in SUBSET TrackedNames
  BY DEF Terminate, TrackedNames
<1>2. {runtimes[f].container_id} = {runtimes[g].container_id : g \in {f}}
  OBVIOUS
<1>. QED
  BY <1>1, <1>2, RetireInv DEF Terminate

\* A reaper pass retires the expired runtimes.
LEMMA ReapInv ==
    ASSUME IndInv, Reap
    PROVE  IndInv'
<1>. DEFINE F == {f \in Names : Expired(f)}
<1>1. F \in SUBSET TrackedNames
  BY DEF Expired, TrackedNames
<1>2. /\ Retire(F, {runtimes[f].container_id : f \in F})
      /\ UNCHANGED <<mutex, pc, call, created, invocations, requests>>
  BY DEF Reap
<1>. QED
  BY <1>1, <1>2, RetireInv

\* still_tracked holds of at most the invoked function, so the end of a failed
\* attempt retires exactly the functions served by the container it called.
LEMMA SettleRetires ==
    ASSUME IndInv, NEW t \in Threads, pc[t] = "settle", RetireIfTracked(t)
    PROVE  \E F \in SUBSET TrackedNames :
                /\ Retire(F, {runtimes[f].container_id : f \in F})
                /\ \A f \in Names : f \in F <=> TrackedBy(call[t].container_id, f)
<1>1. call[t].spec.name \in Names
  BY CallTyped DEF IndInv
<1>2. \A f \in Names : TrackedBy(call[t].container_id, f) => f = call[t].spec.name
  BY DEF IndInv, CallInv, Old, InFlight
<1>3. CASE StillTracked(t)
  <2>. DEFINE F == {call[t].spec.name}
  <2>1. /\ F \in SUBSET TrackedNames
        /\ {runtimes[f].container_id : f \in F} = {call[t].container_id}
        /\ \A f \in Names : f \in F <=> TrackedBy(call[t].container_id, f)
    BY <1>1, <1>2, <1>3 DEF StillTracked, TrackedNames, TrackedBy, Tracked
  <2>2. Retire(F, {runtimes[f].container_id : f \in F})
    BY <1>3, <2>1 DEF RetireIfTracked
  <2>. QED
    BY <2>1, <2>2
<1>4. CASE ~StillTracked(t)
  <2>1. UNCHANGED <<containers, lost, runtimes, terminated>>
    BY <1>4 DEF RetireIfTracked
  <2>2. containers' = [c \in ContainerIds |-> containers[c]] /\ lost' = lost \cup {}
    BY <2>1 DEF IndInv, TypeOK
  <2>3. RemoveContainers({})
    BY <2>2 DEF RemoveContainers
  <2>4. runtimes' = [f \in Names |-> IF f \in {} THEN Null ELSE runtimes[f]]
    BY <2>1 DEF IndInv, TypeOK
  <2>5. terminated' = terminated + Cardinality({})
    BY <2>1, FS_EmptySet DEF IndInv, TypeOK
  <2>6. Retire({}, {})
    BY <2>3, <2>4, <2>5 DEF Retire
  <2>7. {runtimes[f].container_id : f \in {}} = {}
    OBVIOUS
  <2>8. \A f \in Names : ~TrackedBy(call[t].container_id, f)
    BY <1>2, <1>4 DEF StillTracked, TrackedBy, Tracked
  <2>. QED
    BY <2>6, <2>7, <2>8
<1>. QED
  BY <1>3, <1>4

\* The end of an attempt that timed out or failed: the runtime is retired if it
\* still is the one that was called, and the thread leaves the call.
LEMMA EndAttemptInv ==
    ASSUME IndInv, NEW t \in Threads, pc[t] = "settle", mutex = Null,
           NEW to \in {"record", "enter"}, NEW locals \in Call,
           Move(t, to, locals), RetireIfTracked(t),
           locals.spec = call[t].spec,
           \/ locals.attempt = call[t].attempt /\ locals.failed_id = call[t].failed_id
           \/ locals.attempt = 2 /\ locals.failed_id = call[t].container_id,
           UNCHANGED <<mutex, created, invocations, requests>>
    PROVE  IndInv'
<1>1. call[t] \in Call /\ call[t].spec.name \in Names
  BY CallTyped DEF IndInv
<1>2. PICK F \in SUBSET TrackedNames :
        /\ Retire(F, {runtimes[f].container_id : f \in F})
        /\ \A f \in Names : f \in F <=> TrackedBy(call[t].container_id, f)
  BY SettleRetires
<1>. DEFINE S == {runtimes[f].container_id : f \in F}
<1>3. Retire(F, S) /\ S = {runtimes[f].container_id : f \in F}
  BY <1>2
<1>. HIDE DEF S
<1>4. Retired(F, S)
  BY <1>2, <1>3, RetireEffect
<1>5. /\ pc' \in [Threads -> Locations]
      /\ call' \in [Threads -> Call \cup {Null}]
      /\ pc'[t] = to
      /\ call'[t] = locals
      /\ \A u \in Threads \ {t} : pc'[u] = pc[u] /\ call'[u] = call[u]
  BY MoveEffect DEF IndInv, Locations
<1>6. \A c \in S : \E f \in Names : TrackedBy(c, f)
  BY <1>3 DEF TrackedBy, TrackedNames
<1>7. ASSUME NEW c, NEW f \in Names
      PROVE  TrackedBy(c, f)' <=> TrackedBy(c, f) /\ f \notin F
  BY <1>4 DEF TrackedBy, Tracked, Retired
<1>8. ASSUME NEW c, NEW u \in Threads
      PROVE  StartedBy(c, u)' <=> StartedBy(c, u)
  BY <1>5 DEF StartedBy
<1>9. TypeOK' /\ ControlInv'
  BY <1>4, <1>5, NullAssumption DEF IndInv, TypeOK, ControlInv, Starting, Retired
<1>10. StartInv'
  BY <1>4, <1>5, <1>6, <1>7, CallTyped DEF IndInv, StartInv, Tracked, Present, Starting, Retired
<1>11. CallInv'
  <2>1. ASSUME NEW c, NEW f \in Names, Old(c, f)
        PROVE  Old(c, f)'
    BY <1>4, <1>7, <1>8, <2>1 DEF Old, Retired
  <2>2. ASSUME NEW u \in Threads, pc'[u] \in InFlight
        PROVE  Old(call[u].container_id, call[u].spec.name)' /\ call'[u].host_port \in Ports
    BY <1>5, <2>1, <2>2, CallTyped DEF IndInv, CallInv, InFlight
  <2>3. ASSUME NEW u \in Threads, pc'[u] # "out", call'[u].attempt = 2
        PROVE  /\ Old(call[u].failed_id, call[u].spec.name)'
               /\ \A g \in Names : ~TrackedBy(call[u].failed_id, g)'
    <3>1. /\ Old(call'[u].failed_id, call[u].spec.name)
          /\ call'[u].spec = call[u].spec
          /\ call[u].spec.name \in Names
      BY <1>1, <1>5, <2>3, CallTyped DEF IndInv, CallInv, InFlight
    <3>2. \A g \in Names : TrackedBy(call'[u].failed_id, g) => g \in F
      BY <1>2, <1>5, <2>3 DEF IndInv, CallInv
    <3>. QED
      BY <1>7, <2>1, <3>1, <3>2
  <2>. QED
    BY <2>2, <2>3 DEF CallInv
<1>12. NoUntracked'
  <2>. SUFFICES ASSUME NEW c \in ContainerIds, Present(c)', c \notin lost'
                PROVE  \/ \E f \in Names : TrackedBy(c, f)'
                       \/ \E u \in Threads : StartedBy(c, u)'
    BY DEF NoUntracked
  <2>1. c \notin S /\ Present(c) /\ c \notin lost
    BY <1>4 DEF Present, Retired
  <2>2. \A f \in Names : TrackedBy(c, f) => f \notin F
    BY <1>3, <2>1 DEF TrackedBy
  <2>. QED
    BY <1>7, <1>8, <2>1, <2>2 DEF IndInv, NoUntracked
<1>13. BusyHasCaller'
  <2>. SUFFICES ASSUME NEW f \in Names, Tracked(f)', runtimes'[f].state = "BUSY"
                PROVE  \E u \in Threads : /\ pc'[u] \in InFlight
                                          /\ call'[u].spec.name = f
                                          /\ call'[u].container_id = runtimes'[f].container_id
    BY DEF BusyHasCaller
  <2>1. f \notin F /\ Tracked(f) /\ runtimes'[f] = runtimes[f]
    BY <1>4 DEF Tracked, Retired
  <2>2. PICK u \in Threads : /\ pc[u] \in InFlight
                             /\ call[u].spec.name = f
                             /\ call[u].container_id = runtimes[f].container_id
    BY <2>1 DEF IndInv, BusyHasCaller
  <2>3. u # t
    BY <1>2, <2>1, <2>2 DEF TrackedBy
  <2>. QED
    BY <1>5, <2>1, <2>2, <2>3
<1>14. RetryElsewhere'
  BY <1>5 DEF IndInv, RetryElsewhere, InFlight
<1>. QED
  BY <1>4, <1>9, <1>10, <1>11, <1>12, <1>13, <1>14 DEF IndInv, Retired

\* A timeout ends the call and retires the runtime that was called.
LEMMA SettleTimeoutInv ==
    ASSUME IndInv, NEW t \in Threads, SettleTimeout(t)
    PROVE  IndInv'
<1>1. call[t] \in Call
  BY CallTyped DEF SettleTimeout, IndInv
<1>. QED
  BY <1>1, EndAttemptInv DEF SettleTimeout

\* A failed connection does the same, and may start a second attempt.
LEMMA SettleFailureInv ==
    ASSUME IndInv, NEW t \in Threads, SettleFailure(t)
    PROVE  IndInv'
<1>1. call[t] \in Call
  BY CallTyped DEF SettleFailure, IndInv
<1>2. /\ pc[t] = "settle"
      /\ mutex = Null
      /\ RetireIfTracked(t)
      /\ UNCHANGED <<mutex, created, invocations, requests>>
  BY DEF SettleFailure
<1>3. CASE Retries(t)
  <2>. DEFINE l == [call[t] EXCEPT !.attempt = 2, !.response = "none",
                                   !.failed_id = call[t].container_id,
                                   !.container_id = Null, !.host_port = Null]
  <2>1. l \in Call /\ l.spec = call[t].spec /\ l.attempt = 2 /\ l.failed_id = call[t].container_id
    BY <1>1 DEF Call, Responses
  <2>2. Move(t, "enter", l)
    BY <1>3 DEF SettleFailure
  <2>. HIDE DEF l
  <2>. QED
    BY <1>2, <2>1, <2>2, EndAttemptInv
<1>4. CASE ~Retries(t)
  <2>1. Move(t, "record", call[t])
    BY <1>4 DEF SettleFailure
  <2>. QED
    BY <1>1, <1>2, <2>1, EndAttemptInv
<1>. QED
  BY <1>3, <1>4

-----------------------------------------------------------------------------
\* Environment.

\* Time changes only idle_ms.
LEMMA TickInv ==
    ASSUME IndInv, Tick
    PROVE  IndInv'
<1>1. /\ UNCHANGED <<mutex, containers, pc, call, metrics, requests, lost>>
      /\ \A f \in Names :
            runtimes'[f] = IF Tracked(f) /\ runtimes[f].idle_ms < runtimes[f].idle_timeout_ms
                           THEN [runtimes[f] EXCEPT !.idle_ms = @ + 1]
                           ELSE runtimes[f]
  BY DEF Tick
<1>2. \A f \in Names : /\ runtimes'[f] \in Runtime \cup {Null}
                       /\ runtimes'[f] = Null <=> runtimes[f] = Null
                       /\ runtimes'[f] # Null =>
                            /\ runtimes'[f].container_id = runtimes[f].container_id
                            /\ runtimes'[f].state = runtimes[f].state
  <2>1. TAKE f \in Names
  <2>2. runtimes[f] \in Runtime \cup {Null}
    BY DEF IndInv, TypeOK
  <2>3. CASE Tracked(f) /\ runtimes[f].idle_ms < runtimes[f].idle_timeout_ms
    <3>1. /\ runtimes[f] \in Runtime
          /\ runtimes'[f] = [runtimes[f] EXCEPT !.idle_ms = @ + 1]
      BY <1>1, <2>2, <2>3 DEF Tracked
    <3>2. /\ runtimes'[f] \in Runtime
          /\ runtimes'[f].container_id = runtimes[f].container_id
          /\ runtimes'[f].state = runtimes[f].state
      BY <3>1 DEF Runtime
    <3>. QED
      BY <2>3, <3>2, NullAssumption DEF Tracked
  <2>4. CASE ~(Tracked(f) /\ runtimes[f].idle_ms < runtimes[f].idle_timeout_ms)
    BY <1>1, <2>2, <2>4
  <2>. QED
    BY <2>3, <2>4
<1>3. runtimes' \in [Names -> Runtime \cup {Null}]
  BY <1>2 DEF Tick
<1>4. \A c, f : f \in Names => (TrackedBy(c, f)' <=> TrackedBy(c, f))
  BY <1>2 DEF TrackedBy, Tracked
<1>5. TypeOK' /\ ControlInv' /\ ContainersInv'
  BY <1>1, <1>3 DEF IndInv, TypeOK, ControlInv, ContainersInv, metrics
<1>6. StartInv'
  BY <1>1, <1>2, <1>4, CallTyped DEF IndInv, StartInv, Tracked, Present, Starting
<1>7. CallInv'
  BY <1>1, <1>4 DEF IndInv, CallInv, Old, StartedBy
<1>8. TableIsLive'
  BY <1>1, <1>2, <1>4 DEF IndInv, TableIsLive, Tracked, Present
<1>9. NoUntracked'
  BY <1>1, <1>4 DEF IndInv, NoUntracked, StartedBy, Present
<1>10. BusyHasCaller' /\ RetryElsewhere'
  BY <1>1, <1>2 DEF IndInv, BusyHasCaller, RetryElsewhere, Tracked
<1>. QED
  BY <1>5, <1>6, <1>7, <1>8, <1>9, <1>10 DEF IndInv

\* A container that dies is still there to be removed.
LEMMA ContainerDiesInv ==
    ASSUME IndInv, NEW c \in ContainerIds, ContainerDies(c)
    PROVE  IndInv'
<1>1. /\ containers[c] \in Container
      /\ containers[c].status = "up"
      /\ UNCHANGED <<runtimes, mutex, pc, call, metrics, requests, lost>>
  BY DEF ContainerDies, IndInv, TypeOK
<1>2. /\ containers' \in [ContainerIds -> Container]
      /\ \A d \in ContainerIds : /\ Present(d)' <=> Present(d)
                                 /\ containers'[d].status = "unused" <=> containers[d].status = "unused"
                                 /\ containers'[d].port = containers[d].port
  BY <1>1 DEF ContainerDies, IndInv, TypeOK, Container, Present
<1>3. TypeOK' /\ ControlInv' /\ ContainersInv'
  BY <1>1, <1>2 DEF IndInv, TypeOK, ControlInv, ContainersInv, metrics
<1>4. StartInv'
  BY <1>1, <1>2 DEF IndInv, StartInv, Tracked, TrackedBy
<1>5. CallInv'
  BY <1>1, <1>2 DEF IndInv, CallInv, Old, StartedBy, Tracked, TrackedBy
<1>6. TableIsLive'
  BY <1>1, <1>2 DEF IndInv, TypeOK, TableIsLive, Tracked, TrackedBy, Runtime
<1>7. NoUntracked'
  BY <1>1, <1>2 DEF IndInv, NoUntracked, StartedBy, Tracked, TrackedBy
<1>8. BusyHasCaller' /\ RetryElsewhere'
  BY <1>1 DEF IndInv, BusyHasCaller, RetryElsewhere, Tracked
<1>. QED
  BY <1>3, <1>4, <1>5, <1>6, <1>7, <1>8 DEF IndInv

\* After a restart the table is empty and what ran before is lost.
LEMMA RestartInv ==
    ASSUME IndInv, Restart
    PROVE  IndInv'
<1>1. /\ \A f \in Names : ~Tracked(f)'
      /\ \A t \in Threads : pc'[t] = "out"
      /\ mutex' = Null
      /\ UNCHANGED containers
      /\ lost' = lost \cup {c \in ContainerIds : Present(c)}
  BY DEF Restart, Tracked
<1>2. TypeOK'
  BY ConstantsAssumption DEF Restart, IndInv, TypeOK, Locations
<1>3. ControlInv' /\ StartInv' /\ CallInv' /\ BusyHasCaller' /\ RetryElsewhere' /\ TableIsLive'
  BY <1>1, NullAssumption
  DEF ControlInv, StartInv, CallInv, BusyHasCaller, RetryElsewhere, TableIsLive, Starting, InFlight
<1>4. ContainersInv' /\ NoUntracked'
  BY <1>1 DEF IndInv, ContainersInv, NoUntracked, Present
<1>. QED
  BY <1>2, <1>3, <1>4 DEF IndInv

-----------------------------------------------------------------------------
\* The theorems.

\* The empty manager satisfies the invariant.
LEMMA InitInv == Init => IndInv
<1>. SUFFICES ASSUME Init PROVE IndInv
  OBVIOUS
<1>1. TypeOK
  BY ConstantsAssumption DEF Init, TypeOK, Container, Locations
<1>2. ControlInv /\ ContainersInv /\ StartInv /\ CallInv
  BY NullAssumption DEF Init, ControlInv, ContainersInv, StartInv, CallInv, Starting, InFlight
<1>3. TableIsLive /\ NoUntracked /\ BusyHasCaller /\ RetryElsewhere
  BY DEF Init, TableIsLive, NoUntracked, BusyHasCaller, RetryElsewhere, Tracked, Present, InFlight
<1>. QED
  BY <1>1, <1>2, <1>3 DEF IndInv

\* Every step preserves the invariant.
LEMMA NextInv == IndInv /\ [Next]_vars => IndInv'
<1>. SUFFICES ASSUME IndInv, [Next]_vars PROVE IndInv'
  OBVIOUS
<1>1. CASE UNCHANGED vars
  BY <1>1 DEF vars, metrics, IndInv, TypeOK, ControlInv, ContainersInv, StartInv, CallInv,
     TableIsLive, NoUntracked, BusyHasCaller, RetryElsewhere, Old, StartedBy, TrackedBy,
     Tracked, Present
<1>2. ASSUME NEW t \in Threads, NEW s \in Specs, Invoke(t, s) PROVE IndInv'
  BY <1>2, InvokeIsQuiet, QuietStepInv
<1>3. ASSUME NEW t \in Threads, Enter(t) PROVE IndInv'
  BY <1>3, ReuseRuntimeInv, BeginStartIsQuiet, QuietStepInv DEF Enter
<1>4. ASSUME NEW t \in Threads, Start(t) PROVE IndInv'
  <2>1. CASE GetHostPortFails(t) \/ GiveUpStart(t)
    BY <2>1, AbortStartInv DEF GetHostPortFails, GiveUpStart
  <2>. QED
    BY <1>4, <2>1, RunContainerInv, RunLeavesInv, PollHealthyInv, RunFailsIsQuiet, GetHostPortIsQuiet,
       PollUnhealthyIsQuiet, QuietStepInv
    DEF Start
<1>5. ASSUME NEW t \in Threads, Post(t) \/ PostFails(t) \/ Respond(t) \/ Record(t) PROVE IndInv'
  BY <1>5, ExchangeIsQuiet, RecordIsQuiet, QuietStepInv
<1>6. ASSUME NEW t \in Threads, Settle(t) PROVE IndInv'
  BY <1>6, SettleTimeoutInv, SettleFailureInv, SettleReplyInv DEF Settle
<1>7. CASE \E f \in Names : Terminate(f)
  BY <1>7, TerminateInv
<1>8. CASE Reap \/ Tick \/ Restart
  BY <1>8, ReapInv, TickInv, RestartInv
<1>9. CASE \E c \in ContainerIds : ContainerDies(c)
  BY <1>9, ContainerDiesInv
<1>. QED
  BY <1>1, <1>2, <1>3, <1>4, <1>5, <1>6, <1>7, <1>8, <1>9 DEF Next, Step

\* The conjunction of the type invariant and the lock, container, start, call
\* and table invariants is inductive and holds in every behaviour.
THEOREM Invariance == Spec => []IndInv
BY InitInv, NextInv, PTL DEF Spec

\* Every variable keeps its type: in particular no STARTING entry is visible.
THEOREM TypeCorrect == Spec => []TypeOK
<1>1. IndInv => TypeOK
  BY DEF IndInv
<1>. QED
  BY <1>1, Invariance, PTL

\* No container is forgotten.
THEOREM NothingForgotten == Spec => []NoUntracked
<1>1. IndInv => NoUntracked
  BY DEF IndInv
<1>. QED
  BY <1>1, Invariance, PTL

\* The table only points at containers that exist, each at its own.
THEOREM TableSound == Spec => []TableIsLive
<1>1. IndInv => TableIsLive
  BY DEF IndInv
<1>. QED
  BY <1>1, Invariance, PTL

\* Cold starts exclude each other and find their function without a runtime.
THEOREM StartsExclusive == Spec => []SingleStart
<1>1. IndInv => SingleStart
  BY DEF IndInv, ControlInv, StartInv, SingleStart
<1>. QED
  BY <1>1, Invariance, PTL

\* A BUSY runtime always has a caller that will settle it.
THEOREM BusySettles == Spec => []BusyHasCaller
<1>1. IndInv => BusyHasCaller
  BY DEF IndInv
<1>. QED
  BY <1>1, Invariance, PTL

\* A second attempt goes to another container than the first.
THEOREM RetriesElsewhere == Spec => []RetryElsewhere
<1>1. IndInv => RetryElsewhere
  BY DEF IndInv
<1>. QED
  BY <1>1, Invariance, PTL

-----------------------------------------------------------------------------
\* Ports.

\* p is the port that the container id was given.
Right(id, p) ==
    /\ id \in ContainerIds
    /\ containers[id].status # "unused"
    /\ p = containers[id].port

\* All copies of ports are right.
LEMMA CopiesRight ==
    ASSUME IndInv, PortInv
    PROVE  /\ \A f \in Names : Tracked(f) =>
                Right(runtimes[f].container_id, runtimes[f].host_port)
           /\ \A t \in Threads : pc[t] \in InFlight \cup {"health"} =>
                Right(call[t].container_id, call[t].host_port)
<1>1. \A f \in Names : Tracked(f) => runtimes[f].container_id \in ContainerIds
  BY DEF IndInv, TypeOK, Tracked, Runtime
<1>. QED
  BY <1>1 DEF IndInv, PortInv, Right, TableIsLive, CallInv, StartInv, Old, Present

\* A container keeps its port; no two that are up share one.
LEMMA PortsFixed ==
    ASSUME IndInv, PortInv, [Next]_vars
    PROVE  /\ \A c \in ContainerIds : containers[c].status # "unused" =>
                /\ containers'[c].status # "unused"
                /\ containers'[c].port = containers[c].port
           /\ \A c, d \in ContainerIds :
                /\ containers'[c].status = "up" /\ containers'[d].status = "up"
                /\ containers'[c].port = containers'[d].port
                => c = d
<1>. DEFINE Older == \A c \in ContainerIds :
                        /\ containers'[c].port = containers[c].port
                        /\ containers'[c].status = "up" => containers[c].status = "up"
                        /\ containers[c].status # "unused" => containers'[c].status # "unused"
            Newer == \E c \in ContainerIds, p \in Ports :
                        /\ containers[c].status = "unused"
                        /\ FreePort(p)
                        /\ containers'[c].port = p
                        /\ \A d \in ContainerIds \ {c} : containers'[d] = containers[d]
<1>1. ASSUME NEW S \in SUBSET ContainerIds, RemoveContainers(S) PROVE Older
  BY <1>1, RemoveEffect DEF IndInv
<1>2. ASSUME UNCHANGED containers PROVE Older
  BY <1>2
<1>3. ASSUME NEW t \in Threads, RunContainer(t) \/ RunLeaves(t) PROVE Newer
  <2>1. PICK c \in ContainerIds, p \in Ports :
            /\ containers[c].status = "unused"
            /\ FreePort(p)
            /\ containers' = [containers EXCEPT ![c] =
                                [status |-> "up", image |-> call[t].spec.image, port |-> p]]
    BY <1>3 DEF RunContainer, RunLeaves
  <2>. QED
    BY <2>1 DEF IndInv, TypeOK
<1>4. ASSUME NEW t \in Threads, GetHostPortFails(t) \/ GiveUpStart(t) PROVE Older
  <2>1. {call[t].container_id} \in SUBSET ContainerIds
    BY <1>4 DEF GetHostPortFails, GiveUpStart, IndInv, StartInv
  <2>. QED
    BY <1>1, <1>4, <2>1 DEF GetHostPortFails, GiveUpStart
<1>5. ASSUME NEW t \in Threads, SettleTimeout(t) \/ SettleFailure(t) PROVE Older
  <2>1. {call[t].container_id} \in SUBSET ContainerIds
    BY <1>5 DEF SettleTimeout, SettleFailure, IndInv, CallInv, Old, InFlight
  <2>2. RemoveContainers({call[t].container_id}) \/ UNCHANGED containers
    BY <1>5 DEF SettleTimeout, SettleFailure, RetireIfTracked, Retire
  <2>. QED
    BY <1>1, <1>2, <2>1, <2>2
<1>6. ASSUME NEW F \in SUBSET TrackedNames, NEW S,
             S = {runtimes[f].container_id : f \in F}, Retire(F, S)
      PROVE  Older
  <2>1. S \in SUBSET ContainerIds
    BY <1>6 DEF IndInv, TypeOK, TrackedNames, Tracked, Runtime
  <2>. QED
    BY <1>1, <1>6, <2>1 DEF Retire
<1>7. ASSUME NEW f \in Names, Terminate(f) PROVE Older
  <2>1. {f} \in SUBSET TrackedNames /\ {runtimes[f].container_id} = {runtimes[g].container_id : g \in {f}}
    BY <1>7 DEF Terminate, TrackedNames
  <2>. QED
    BY <1>6, <1>7, <2>1 DEF Terminate
<1>8. ASSUME Reap PROVE Older
  <2>1. {f \in Names : Expired(f)} \in SUBSET TrackedNames
    BY DEF Expired, TrackedNames
  <2>. QED
    BY <1>6, <1>8, <2>1 DEF Reap
<1>9. ASSUME NEW c \in ContainerIds, ContainerDies(c) PROVE Older
  BY <1>9 DEF ContainerDies, IndInv, TypeOK, Container
<1>10. Older \/ Newer
  <2>. HIDE DEF Older, Newer
  <2>1. ASSUME NEW t \in Threads, NEW s \in Specs, Invoke(t, s) PROVE Older
    BY <1>2, <2>1 DEF Invoke
  <2>2. ASSUME NEW t \in Threads,
               \/ Enter(t) \/ RunFails(t) \/ GetHostPort(t) \/ PollHealthy(t) \/ PollUnhealthy(t)
               \/ Post(t) \/ PostFails(t) \/ Respond(t) \/ SettleReply(t) \/ Record(t)
        PROVE  Older
    BY <1>2, <2>2 DEF Enter, ReuseRuntime, BeginStart, RunFails, GetHostPort, PollHealthy,
       PollUnhealthy, Post, PostFails, Respond, SettleReply, Record
  <2>3. Tick \/ Restart \/ UNCHANGED vars => Older
    BY <1>2 DEF Tick, Restart, vars
  <2>. QED
    BY <1>3, <1>4, <1>5, <1>7, <1>8, <1>9, <2>1, <2>2, <2>3 DEF Next, Step, Start, Settle
<1>11. CASE Older
  BY <1>11 DEF PortInv, Listening
<1>12. CASE Newer
  <2>1. PICK c \in ContainerIds, p \in Ports :
          /\ containers[c].status = "unused"
          /\ FreePort(p)
          /\ containers'[c].port = p
          /\ \A d \in ContainerIds \ {c} : containers'[d] = containers[d]
    BY <1>12
  <2>. QED
    BY <2>1 DEF PortInv, FreePort, Listening
<1>. QED
  BY <1>10, <1>11, <1>12

\* The copies that a step makes are right.
LEMMA CopiesStayRight ==
    ASSUME IndInv, PortInv, [Next]_vars
    PROVE  /\ \A f \in Names : Tracked(f)' =>
                Right(runtimes'[f].container_id, runtimes'[f].host_port)
           /\ \A t \in Threads : pc'[t] \in InFlight \cup {"health"} =>
                Right(call'[t].container_id, call'[t].host_port)
<1>. DEFINE Table == \A f \in Names : Tracked(f)' =>
                        Right(runtimes'[f].container_id, runtimes'[f].host_port)
            Locals == \A t \in Threads : pc'[t] \in InFlight \cup {"health"} =>
                        Right(call'[t].container_id, call'[t].host_port)
<1>. HIDE DEF Right
<1>1. ASSUME \A f \in Names : \/ runtimes'[f] = Null
                              \/ /\ Tracked(f)
                                 /\ runtimes'[f].container_id = runtimes[f].container_id
                                 /\ runtimes'[f].host_port = runtimes[f].host_port
      PROVE  Table
  BY <1>1, CopiesRight DEF Tracked
<1>2. ASSUME UNCHANGED <<pc, call>> PROVE Locals
  BY <1>2, CopiesRight
<1>3. ASSUME NEW t \in Threads, NEW to, NEW l, Move(t, to, l),
             to \in InFlight \cup {"health"} => Right(l.container_id, l.host_port)
      PROVE  Locals
  <2>1. /\ pc'[t] = to
        /\ call'[t] = l
        /\ \A u \in Threads \ {t} : pc'[u] = pc[u] /\ call'[u] = call[u]
    BY <1>3 DEF Move, IndInv, TypeOK
  <2>. QED
    BY <1>3, <2>1, CopiesRight
<1>4. ASSUME UNCHANGED runtimes PROVE Table
  BY <1>1, <1>4 DEF Tracked
<1>5. ASSUME NEW F, NEW S, Retire(F, S) PROVE Table
  BY <1>1, <1>5 DEF Retire, Tracked
<1>6. ASSUME NEW t \in Threads, RetireIfTracked(t) PROVE Table
  BY <1>4, <1>5, <1>6 DEF RetireIfTracked
<1>. HIDE DEF Table, Locals
<1>7. ASSUME NEW t \in Threads,
             \/ \E s \in Specs : Invoke(t, s)
             \/ BeginStart(t) \/ RunContainer(t) \/ RunFails(t) \/ RunLeaves(t)
             \/ GetHostPortFails(t) \/ GiveUpStart(t) \/ Record(t)
      PROVE  Table /\ Locals
  <2>1. PICK to \in {"enter", "run", "port", "record", "out"} : \E l : Move(t, to, l)
    BY <1>7 DEF Invoke, BeginStart, RunContainer, RunFails, RunLeaves, GetHostPortFails,
       GiveUpStart, FailStart, Record
  <2>2. Locals
    BY <1>3, <2>1 DEF InFlight
  <2>3. UNCHANGED runtimes
    BY <1>7 DEF Invoke, BeginStart, RunContainer, RunFails, RunLeaves, GetHostPortFails,
       GiveUpStart, FailStart, Record
  <2>. QED
    BY <1>4, <2>2, <2>3
<1>8. ASSUME NEW t \in Threads, ReuseRuntime(t) PROVE Table /\ Locals
  <2>. DEFINE f == call[t].spec.name
              l == [call[t] EXCEPT !.cold_start = FALSE,
                                   !.container_id = runtimes[f].container_id,
                                   !.host_port = runtimes[f].host_port]
  <2>1. call[t] \in Call /\ f \in Names /\ Tracked(f)
    BY <1>8, CallTyped DEF ReuseRuntime, IndInv
  <2>2. /\ runtimes[f] \in Runtime
        /\ Acquire(runtimes[f]).container_id = runtimes[f].container_id
        /\ Acquire(runtimes[f]).host_port = runtimes[f].host_port
    BY <2>1 DEF Acquire, IndInv, TypeOK, Tracked, Runtime
  <2>3. Table
    BY <1>1, <1>8, <2>1, <2>2 DEF ReuseRuntime, IndInv, TypeOK, Tracked
  <2>4. /\ l.container_id = runtimes[f].container_id
        /\ l.host_port = runtimes[f].host_port
    BY <2>1 DEF Call
  <2>5. Move(t, "post", l)
    BY <1>8 DEF ReuseRuntime
  <2>6. Right(l.container_id, l.host_port)
    BY <2>1, <2>4, CopiesRight
  <2>. HIDE DEF l
  <2>. QED
    BY <1>3, <2>3, <2>5, <2>6
<1>9. ASSUME NEW t \in Threads, GetHostPort(t) PROVE Table /\ Locals
  <2>. DEFINE l == [call[t] EXCEPT !.host_port = containers[call[t].container_id].port,
                                   !.polls = 0]
  <2>1. call[t] \in Call
    BY <1>9, CallTyped DEF GetHostPort, IndInv
  <2>2. /\ l.container_id = call[t].container_id
        /\ l.host_port = containers[call[t].container_id].port
    BY <2>1 DEF Call
  <2>3. Move(t, "health", l)
    BY <1>9 DEF GetHostPort
  <2>. HIDE DEF l
  <2>4. Right(l.container_id, l.host_port)
    BY <1>9, <2>2 DEF GetHostPort, Right, IndInv, StartInv
  <2>. QED
    BY <1>3, <1>4, <1>9, <2>3, <2>4 DEF GetHostPort
<1>10. ASSUME NEW t \in Threads, PollHealthy(t) PROVE Table /\ Locals
  <2>. DEFINE f == call[t].spec.name
              fresh == [container_id |-> call[t].container_id, host_port |-> call[t].host_port,
                        state |-> "STARTING", idle_ms |-> 0,
                        idle_timeout_ms |-> call[t].spec.idle_timeout_ms]
              l == [call[t] EXCEPT !.cold_start = TRUE,
                                   !.container_id = fresh.container_id,
                                   !.host_port = fresh.host_port, !.polls = 0]
  <2>1. pc[t] = "health" /\ call[t] \in Call /\ f \in Names
    BY <1>10, CallTyped DEF PollHealthy, IndInv
  <2>2. ~Tracked(f) /\ Right(call[t].container_id, call[t].host_port)
    BY <2>1, CopiesRight DEF IndInv, StartInv, Starting
  <2>3. runtimes' = [runtimes EXCEPT ![f] = Acquire(fresh)] /\ Move(t, "post", l)
    BY <1>10, <2>2 DEF PollHealthy
  <2>4. /\ Acquire(fresh).container_id = call[t].container_id
        /\ Acquire(fresh).host_port = call[t].host_port
        /\ l.container_id = call[t].container_id
        /\ l.host_port = call[t].host_port
    BY <2>1 DEF Acquire, Call
  <2>. HIDE DEF fresh, l
  <2>5. Locals
    BY <1>3, <2>2, <2>3, <2>4
  <2>6. \A g \in Names : runtimes'[g] = IF g = f THEN Acquire(fresh) ELSE runtimes[g]
    BY <2>1, <2>3 DEF IndInv, TypeOK
  <2>7. Table
    BY <2>2, <2>4, <2>6, CopiesRight DEF Table, Tracked
  <2>. QED
    BY <2>5, <2>7
<1>11. ASSUME NEW t \in Threads, PollUnhealthy(t) \/ Post(t) \/ PostFails(t) \/ Respond(t)
       PROVE  Table /\ Locals
  <2>1. call[t] \in Call /\ pc[t] \in InFlight \cup {"health"}
    BY <1>11, CallTyped DEF PollUnhealthy, Post, PostFails, Respond, IndInv, InFlight
  <2>2. PICK to, l : /\ Move(t, to, l)
                     /\ l.container_id = call[t].container_id
                     /\ l.host_port = call[t].host_port
    <3>1. CASE PollUnhealthy(t)
      <4>1. Move(t, "health", [call[t] EXCEPT !.polls = @ + 1])
        BY <3>1 DEF PollUnhealthy
      <4>2. /\ [call[t] EXCEPT !.polls = @ + 1].container_id = call[t].container_id
            /\ [call[t] EXCEPT !.polls = @ + 1].host_port = call[t].host_port
        BY <2>1 DEF Call
      <4>. QED
        BY <4>1, <4>2
    <3>2. CASE Post(t)
      <4>1. PICK c \in ContainerIds : Move(t, "wait", [call[t] EXCEPT !.reached = @ \cup {c}])
        BY <3>2 DEF Post
      <4>2. /\ [call[t] EXCEPT !.reached = @ \cup {c}].container_id = call[t].container_id
            /\ [call[t] EXCEPT !.reached = @ \cup {c}].host_port = call[t].host_port
        BY <2>1 DEF Call
      <4>. QED
        BY <4>1, <4>2
    <3>3. CASE PostFails(t) \/ Respond(t)
      <4>1. PICK r : Move(t, "settle", [call[t] EXCEPT !.response = r])
        BY <3>3 DEF PostFails, Respond
      <4>2. /\ [call[t] EXCEPT !.response = r].container_id = call[t].container_id
            /\ [call[t] EXCEPT !.response = r].host_port = call[t].host_port
        BY <2>1 DEF Call
      <4>. QED
        BY <4>1, <4>2
    <3>. QED
      BY <1>11, <3>1, <3>2, <3>3
  <2>3. UNCHANGED runtimes
    BY <1>11 DEF PollUnhealthy, Post, PostFails, Respond
  <2>. QED
    BY <1>3, <1>4, <2>1, <2>2, <2>3, CopiesRight
<1>12. ASSUME NEW t \in Threads, SettleTimeout(t) \/ SettleFailure(t) PROVE Table /\ Locals
  <2>1. PICK to \in {"enter", "record"} : \E l : Move(t, to, l)
    BY <1>12 DEF SettleTimeout, SettleFailure
  <2>2. Locals
    BY <1>3, <2>1 DEF InFlight
  <2>. QED
    BY <1>6, <1>12, <2>2 DEF SettleTimeout, SettleFailure
<1>13. ASSUME NEW t \in Threads, SettleReply(t) PROVE Table /\ Locals
  <2>. DEFINE f == call[t].spec.name
  <2>1. Move(t, "record", call[t]) /\ f \in Names
    BY <1>13, CallTyped DEF SettleReply, IndInv
  <2>2. Locals
    BY <1>3, <2>1 DEF InFlight
  <2>3. CASE StillTracked(t)
    <3>1. Tracked(f) /\ runtimes[f] \in Runtime
      BY <2>1, <2>3 DEF StillTracked, Tracked, IndInv, TypeOK
    <3>2. /\ Release(runtimes[f]).container_id = runtimes[f].container_id
          /\ Release(runtimes[f]).host_port = runtimes[f].host_port
      BY <3>1 DEF Release, Runtime
    <3>3. \A g \in Names : runtimes'[g] = IF g = f THEN Release(runtimes[f]) ELSE runtimes[g]
      BY <1>13, <2>1, <2>3 DEF SettleReply, IndInv, TypeOK
    <3>. QED
      BY <1>1, <2>2, <3>1, <3>2, <3>3 DEF Tracked
  <2>4. CASE ~StillTracked(t)
    BY <1>4, <1>13, <2>2, <2>4 DEF SettleReply
  <2>. QED
    BY <2>3, <2>4
<1>14. ASSUME NEW f \in Names, Terminate(f) PROVE Table /\ Locals
  BY <1>2, <1>5, <1>14 DEF Terminate
<1>15. ASSUME Reap PROVE Table /\ Locals
  BY <1>2, <1>5, <1>15 DEF Reap
<1>16. ASSUME Tick PROVE Table /\ Locals
  <2>1. \A f \in Names : Tracked(f) => runtimes[f] \in Runtime
    BY DEF IndInv, TypeOK, Tracked
  <2>2. \A rt \in Runtime : /\ [rt EXCEPT !.idle_ms = @ + 1].container_id = rt.container_id
                           /\ [rt EXCEPT !.idle_ms = @ + 1].host_port = rt.host_port
    BY DEF Runtime
  <2>3. Table
    BY <1>1, <1>16, <2>1, <2>2 DEF Tick, Tracked
  <2>. QED
    BY <1>2, <1>16, <2>3 DEF Tick
<1>17. ASSUME Restart PROVE Table /\ Locals
  <2>1. Table
    BY <1>1, <1>17 DEF Restart
  <2>. QED
    BY <1>17, <2>1 DEF Restart, Locals, InFlight
<1>18. ASSUME NEW c \in ContainerIds, ContainerDies(c) PROVE Table /\ Locals
  BY <1>2, <1>4, <1>18 DEF ContainerDies
<1>19. ASSUME UNCHANGED vars PROVE Table /\ Locals
  BY <1>2, <1>4, <1>19 DEF vars
<1>20. Table /\ Locals
  BY <1>7, <1>8, <1>9, <1>10, <1>11, <1>12, <1>13, <1>14, <1>15, <1>16, <1>17, <1>18, <1>19
  DEF Next, Step, Enter, Start, Settle
<1>. QED
  BY <1>20 DEF Table, Locals

\* Entries, copies and starts keep agreeing with the backend about the ports.
LEMMA PortNext == IndInv /\ PortInv /\ [Next]_vars => PortInv'
<1>. SUFFICES ASSUME IndInv, PortInv, [Next]_vars PROVE PortInv'
  OBVIOUS
<1>. QED
  BY PortsFixed, CopiesStayRight DEF PortInv, Right, Listening, Tracked

\* A POST reaches no container but the one that was acquired while that is up.
THEOREM PostsStayHome == Spec => []PostsReachOwn
<1>1. Init => PortInv
  BY DEF Init, PortInv, Tracked, InFlight, Listening
<1>2. IndInv /\ PortInv => PostsReachOwn
  BY CopiesRight DEF PortInv, PostsReachOwn, Right
<1>. QED
  BY <1>1, <1>2, PortNext, Invariance, PTL DEF Spec

-----------------------------------------------------------------------------
(***************************************************************************)
(* RuntimeManager implements RuntimePool, and its metrics agree with its   *)
(* table.  Both rest on one classification of the steps: what a step does  *)
(* to the leases, to the spent containers and to the two runtime counters. *)
(* The number of cold invocations agrees with the runtimes created because *)
(* only the end of a start makes a call cold.                              *)
(***************************************************************************)

counters == <<created, terminated>>

Hidden == Lease' = Lease /\ Spent' = Spent /\ UNCHANGED counters

Granted(f, c) ==
    /\ Lease[f] = Null
    /\ c \notin Spent
    /\ Lease' = [Lease EXCEPT ![f] = c]
    /\ Spent' = Spent \cup {c}
    /\ created' = created + 1
    /\ terminated' = terminated

Wasted(c) ==
    /\ Lease' = Lease
    /\ Spent' = Spent \cup {c}
    /\ UNCHANGED counters

Ended(F) ==
    /\ Lease' = [f \in Names |-> IF f \in F THEN Null ELSE Lease[f]]
    /\ Spent' = Spent
    /\ created' = created
    /\ terminated' = terminated + Cardinality(F)

Forgotten ==
    /\ Lease' = [f \in Names |-> Null]
    /\ Spent' \in SUBSET ContainerIds
    /\ Spent \subseteq Spent'
    /\ created' = 0
    /\ terminated' = 0

\* The functions with a lease are the tracked ones.
LEMMA LeaseTracked ==
    ASSUME TypeOK
    PROVE  /\ TrackedNames = {f \in Names : Lease[f] # Null}
           /\ \A f \in Names : Tracked(f) <=> Lease[f] # Null
BY NullAssumption DEF TypeOK, TrackedNames, Tracked, Lease, Runtime

\* Steps that keep the ids in the table and the owners of containers are hidden.
LEMMA HiddenStep ==
    ASSUME \A f \in Names : /\ Tracked(f)' <=> Tracked(f)
                            /\ Tracked(f) => runtimes'[f].container_id = runtimes[f].container_id,
           \A c \in ContainerIds :
                containers'[c].status = "unused" <=> containers[c].status = "unused",
           \A c \in ContainerIds, u \in Threads : StartedBy(c, u)' <=> StartedBy(c, u),
           UNCHANGED counters
    PROVE  Hidden
<1>1. Lease' = Lease
  BY DEF Lease
<1>2. Spent' = Spent
  BY DEF Spent
<1>. QED
  BY <1>1, <1>2 DEF Hidden

\* A quiet step is hidden.
LEMMA QuietHidden ==
    ASSUME IndInv, NEW t \in Threads, IsQuiet(t)
    PROVE  Hidden
<1>1. UNCHANGED <<runtimes, containers, created, terminated>>
  BY DEF IsQuiet, QuietStep
<1>2. \A c \in ContainerIds, u \in Threads : StartedBy(c, u)' <=> StartedBy(c, u)
  BY QuietStepInv
<1>. QED
  BY <1>1, <1>2, HiddenStep DEF Tracked, counters

\* Warm reuse and a reply change an entry's state, never its id.
LEMMA TouchHidden ==
    ASSUME IndInv, NEW t \in Threads, ReuseRuntime(t) \/ SettleReply(t)
    PROVE  Hidden
<1>1. /\ pc[t] \in {"enter", "settle"}
      /\ pc' = [pc EXCEPT ![t] = pc'[t]]
      /\ call' = [call EXCEPT ![t] = call'[t]]
      /\ pc'[t] \in {"post", "record"}
      /\ UNCHANGED <<containers, created, terminated>>
  BY DEF ReuseRuntime, SettleReply, Move, metrics, IndInv, TypeOK
<1>2. \A c \in ContainerIds, u \in Threads : StartedBy(c, u)' <=> StartedBy(c, u)
  BY <1>1 DEF StartedBy, IndInv, TypeOK
<1>3. call[t].spec.name \in Names
  BY <1>1, CallTyped DEF IndInv
<1>4. \A f \in Names : /\ Tracked(f)' <=> Tracked(f)
                       /\ Tracked(f) => runtimes'[f].container_id = runtimes[f].container_id
  <2>1. CASE ReuseRuntime(t)
    <3>1. /\ Tracked(call[t].spec.name)
          /\ runtimes' = [runtimes EXCEPT ![call[t].spec.name] = Acquire(runtimes[call[t].spec.name])]
      BY <2>1 DEF ReuseRuntime
    <3>2. runtimes[call[t].spec.name] \in Runtime
      BY <1>3, <3>1 DEF IndInv, TypeOK, Tracked
    <3>3. /\ Acquire(runtimes[call[t].spec.name]) \in Runtime
          /\ Acquire(runtimes[call[t].spec.name]).container_id = runtimes[call[t].spec.name].container_id
      BY <3>2 DEF Acquire, Runtime
    <3>. QED
      BY <1>3, <3>1, <3>3, NullAssumption DEF Tracked, IndInv, TypeOK
  <2>2. CASE SettleReply(t)
    <3>1. runtimes' = IF StillTracked(t)
                      THEN [runtimes EXCEPT ![call[t].spec.name] = Release(runtimes[call[t].spec.name])]
                      ELSE runtimes
      BY <2>2 DEF SettleReply
    <3>2. StillTracked(t) => runtimes[call[t].spec.name] \in Runtime
      BY <1>3 DEF IndInv, TypeOK, StillTracked
    <3>3. StillTracked(t) =>
            /\ Release(runtimes[call[t].spec.name]) \in Runtime
            /\ Release(runtimes[call[t].spec.name]).container_id = runtimes[call[t].spec.name].container_id
      BY <3>2 DEF Release, Runtime
    <3>. QED
      BY <1>3, <3>1, <3>2, <3>3, NullAssumption DEF Tracked, IndInv, TypeOK
  <2>. QED
    BY <2>1, <2>2
<1>. QED
  BY <1>1, <1>2, <1>4, HiddenStep DEF counters

\* Time and dying containers are hidden.
LEMMA EnvironmentHidden ==
    ASSUME IndInv, Tick \/ \E c \in ContainerIds : ContainerDies(c)
    PROVE  Hidden
<1>1. UNCHANGED <<pc, call, created, terminated>>
  BY DEF Tick, ContainerDies, metrics
<1>2. \A c \in ContainerIds, u \in Threads : StartedBy(c, u)' <=> StartedBy(c, u)
  BY <1>1 DEF StartedBy
<1>3. CASE Tick
  <2>1. UNCHANGED containers
    BY <1>3 DEF Tick
  <2>2. ASSUME NEW f \in Names
        PROVE  /\ Tracked(f)' <=> Tracked(f)
               /\ Tracked(f) => runtimes'[f].container_id = runtimes[f].container_id
    <3>1. runtimes[f] \in Runtime \cup {Null}
      BY DEF IndInv, TypeOK
    <3>2. Tracked(f) => /\ runtimes[f] \in Runtime
                        /\ [runtimes[f] EXCEPT !.idle_ms = @ + 1] \in Runtime
                        /\ [runtimes[f] EXCEPT !.idle_ms = @ + 1].container_id
                             = runtimes[f].container_id
      BY <3>1 DEF Tracked, Runtime
    <3>3. runtimes'[f] = IF Tracked(f) /\ runtimes[f].idle_ms < runtimes[f].idle_timeout_ms
                         THEN [runtimes[f] EXCEPT !.idle_ms = @ + 1]
                         ELSE runtimes[f]
      BY <1>3 DEF Tick
    <3>. QED
      BY <3>1, <3>2, <3>3, NullAssumption DEF Tracked
  <2>. QED
    BY <1>1, <1>2, <2>1, <2>2, HiddenStep DEF counters
<1>4. CASE \E c \in ContainerIds : ContainerDies(c)
  <2>1. /\ UNCHANGED runtimes
        /\ \A c \in ContainerIds :
             containers'[c].status = "unused" <=> containers[c].status = "unused"
    BY <1>4 DEF ContainerDies, IndInv, TypeOK, Container
  <2>. QED
    BY <1>1, <1>2, <2>1, HiddenStep DEF Tracked, counters
<1>. QED
  BY <1>3, <1>4

\* run_container: the new container belongs to the start, so it is not spent.
LEMMA RunContainerHidden ==
    ASSUME IndInv, NEW t \in Threads, RunContainer(t)
    PROVE  Hidden
<1>1. call[t] \in Call
  BY CallTyped DEF RunContainer, IndInv
<1>2. PICK c \in ContainerIds, p \in Ports :
        /\ containers[c].status = "unused"
        /\ containers' = [containers EXCEPT ![c] =
                            [status |-> "up", image |-> call[t].spec.image, port |-> p]]
        /\ Move(t, "port", [call[t] EXCEPT !.container_id = c])
  BY DEF RunContainer
<1>3. [call[t] EXCEPT !.container_id = c].container_id = c
  BY <1>1 DEF Call
<1>4. /\ pc[t] = "run"
      /\ pc'[t] = "port"
      /\ call'[t].container_id = c
      /\ \A u \in Threads \ {t} : pc'[u] = pc[u] /\ call'[u] = call[u]
      /\ UNCHANGED <<runtimes, created, terminated>>
  BY <1>2, <1>3 DEF RunContainer, Move, metrics, IndInv, TypeOK
<1>5. /\ containers'[c].status = "up"
      /\ \A d \in ContainerIds \ {c} : containers'[d] = containers[d]
  BY <1>2 DEF IndInv, TypeOK
<1>6. ASSUME NEW d \in ContainerIds, NEW u \in Threads
      PROVE  StartedBy(d, u)' <=> StartedBy(d, u) \/ (d = c /\ u = t)
  BY <1>4 DEF StartedBy
<1>7. c \notin Spent /\ c \notin Spent'
  BY <1>2, <1>6 DEF Spent
<1>8. Spent' = Spent
  BY <1>5, <1>6, <1>7 DEF Spent
<1>9. Lease' = Lease
  BY <1>4 DEF Lease, Tracked
<1>. QED
  BY <1>4, <1>8, <1>9 DEF Hidden, counters

\* A healthy poll grants the container of the start to its function.
LEMMA PollHealthyGrants ==
    ASSUME IndInv, NEW t \in Threads, PollHealthy(t)
    PROVE  \E f \in Names, c \in ContainerIds : Granted(f, c)
<1>. DEFINE f == call[t].spec.name
            c == call[t].container_id
            fresh == [container_id |-> c, host_port |-> call[t].host_port,
                      state |-> "STARTING", idle_ms |-> 0,
                      idle_timeout_ms |-> call[t].spec.idle_timeout_ms]
<1>1. pc[t] = "health"
  BY DEF PollHealthy
<1>2. f \in Names /\ call[t] \in Call /\ call[t].spec.idle_timeout_ms \in Nat
  BY <1>1, CallTyped DEF IndInv
<1>3. /\ ~Tracked(f)
      /\ c \in ContainerIds
      /\ call[t].host_port \in Ports
      /\ containers[c].status # "unused"
  BY <1>1 DEF IndInv, StartInv, Starting, Present
<1>4. /\ runtimes' = [runtimes EXCEPT ![f] = Acquire(fresh)]
      /\ pc' = [pc EXCEPT ![t] = "post"]
      /\ call' = [call EXCEPT ![t] = call'[t]]
      /\ created' = created + 1
      /\ UNCHANGED <<containers, terminated>>
  BY <1>3 DEF PollHealthy, Move, IndInv, TypeOK
<1>5. Acquire(fresh) \in Runtime /\ Acquire(fresh).container_id = c
  BY <1>2, <1>3 DEF Acquire, Runtime
<1>. HIDE DEF fresh
<1>6. \A u \in Threads : u # t => pc[u] \notin Starting
  BY <1>1 DEF IndInv, ControlInv, Starting
<1>7. ASSUME NEW d \in ContainerIds, NEW u \in Threads
      PROVE  /\ ~StartedBy(d, u)'
             /\ StartedBy(d, u) <=> u = t /\ d = c
  BY <1>1, <1>4, <1>6 DEF StartedBy, Starting, IndInv, TypeOK
<1>8. c \notin Spent
  BY <1>7 DEF Spent
<1>9. Spent' = Spent \cup {c}
  <2>1. \A d \in ContainerIds : d \in Spent' <=> containers[d].status # "unused"
    BY <1>4, <1>7 DEF Spent
  <2>2. \A d \in ContainerIds : d \in Spent <=> containers[d].status # "unused" /\ d # c
    BY <1>7 DEF Spent
  <2>3. Spent' \subseteq ContainerIds /\ Spent \subseteq ContainerIds
    BY DEF Spent
  <2>. QED
    BY <1>3, <2>1, <2>2, <2>3
<1>10. Lease[f] = Null
  BY <1>2, <1>3 DEF Lease
<1>11. Lease' = [Lease EXCEPT ![f] = c]
  <2>1. \A g \in Names : Lease'[g] = IF g = f THEN c ELSE Lease[g]
    BY <1>2, <1>4, <1>5, NullAssumption DEF Lease, Tracked, IndInv, TypeOK
  <2>. QED
    BY <1>2, <2>1 DEF Lease
<1>12. Granted(f, c)
  BY <1>4, <1>8, <1>9, <1>10, <1>11 DEF Granted
<1>. QED
  BY <1>2, <1>3, <1>12

\* A start that fails after run_container wastes its container.
LEMMA AbortStartWastes ==
    ASSUME IndInv, NEW t \in Threads, pc[t] \in {"port", "health"},
           FailStart(t), RemoveContainers({call[t].container_id})
    PROVE  \E c \in ContainerIds : Wasted(c)
<1>1. PICK c \in ContainerIds : c = call[t].container_id /\ Present(c)
  BY DEF IndInv, StartInv
<1>2. /\ pc' = [pc EXCEPT ![t] = "record"]
      /\ call' = [call EXCEPT ![t] = call'[t]]
      /\ UNCHANGED <<runtimes, created, terminated>>
  BY DEF FailStart, Move, metrics, IndInv, TypeOK
<1>3. \A d \in ContainerIds :
        containers'[d].status = "unused" <=> containers[d].status = "unused"
  BY <1>1, RemoveEffect DEF IndInv, Present
<1>4. \A u \in Threads : u # t => pc[u] \notin Starting
  BY DEF IndInv, ControlInv, Starting
<1>5. ASSUME NEW d \in ContainerIds, NEW u \in Threads
      PROVE  /\ ~StartedBy(d, u)'
             /\ StartedBy(d, u) <=> u = t /\ d = c
  BY <1>1, <1>2, <1>4 DEF StartedBy, Starting, IndInv, TypeOK
<1>6. Spent' = Spent \cup {c}
  <2>1. \A d \in ContainerIds : d \in Spent' <=> containers[d].status # "unused"
    BY <1>3, <1>5 DEF Spent
  <2>2. \A d \in ContainerIds : d \in Spent <=> containers[d].status # "unused" /\ d # c
    BY <1>5 DEF Spent
  <2>3. Spent' \subseteq ContainerIds /\ Spent \subseteq ContainerIds
    BY DEF Spent
  <2>. QED
    BY <1>1, <2>1, <2>2, <2>3 DEF Present
<1>7. Lease' = Lease
  BY <1>2 DEF Lease, Tracked
<1>8. Wasted(c)
  BY <1>2, <1>6, <1>7 DEF Wasted, counters
<1>. QED
  BY <1>8

\* A container that a failed run leaves behind is wasted.
LEMMA RunLeavesWastes ==
    ASSUME IndInv, NEW t \in Threads, RunLeaves(t)
    PROVE  \E c \in ContainerIds : Wasted(c)
<1>1. PICK c \in ContainerIds, p \in Ports :
        /\ containers[c].status = "unused"
        /\ containers' = [containers EXCEPT ![c] =
                            [status |-> "up", image |-> call[t].spec.image, port |-> p]]
  BY DEF RunLeaves
<1>2. /\ pc[t] = "run"
      /\ pc' = [pc EXCEPT ![t] = "record"]
      /\ call' = [call EXCEPT ![t] = call'[t]]
      /\ UNCHANGED <<runtimes, created, terminated>>
  BY DEF RunLeaves, FailStart, Move, metrics, IndInv, TypeOK
<1>3. \A u \in Threads : u # t => pc[u] \notin Starting
  BY <1>2 DEF IndInv, ControlInv, Starting
<1>4. ASSUME NEW d \in ContainerIds, NEW u \in Threads
      PROVE  ~StartedBy(d, u)' /\ ~StartedBy(d, u)
  BY <1>2, <1>3 DEF StartedBy, Starting, IndInv, TypeOK
<1>5. Spent' = Spent \cup {c}
  <2>1. \A d \in ContainerIds : d \in Spent' <=> containers'[d].status # "unused"
    BY <1>4 DEF Spent
  <2>2. \A d \in ContainerIds : d \in Spent <=> containers[d].status # "unused"
    BY <1>4 DEF Spent
  <2>3. Spent' \subseteq ContainerIds /\ Spent \subseteq ContainerIds
    BY DEF Spent
  <2>4. /\ containers'[c].status = "up"
        /\ \A d \in ContainerIds \ {c} : containers'[d] = containers[d]
    BY <1>1 DEF IndInv, TypeOK
  <2>. QED
    BY <2>1, <2>2, <2>3, <2>4
<1>6. Lease' = Lease
  BY <1>2 DEF Lease, Tracked
<1>. QED
  BY <1>2, <1>5, <1>6 DEF Wasted, counters

\* Retiring runtimes ends their leases.
LEMMA RetireEnds ==
    ASSUME IndInv, NEW F \in SUBSET TrackedNames,
           Retire(F, {runtimes[f].container_id : f \in F}), created' = created,
           \A c \in ContainerIds, u \in Threads : StartedBy(c, u)' <=> StartedBy(c, u)
    PROVE  Ended(F)
<1>1. PICK S : S = {runtimes[f].container_id : f \in F} /\ Retire(F, S)
  OBVIOUS
<1>2. Retired(F, S)
  BY <1>1, RetireEffect
<1>3. Spent' = Spent
  BY <1>2 DEF Retired, Spent
<1>4. Lease' = [f \in Names |-> IF f \in F THEN Null ELSE Lease[f]]
  BY <1>2 DEF Retired, Lease, Tracked
<1>. QED
  BY <1>2, <1>3, <1>4 DEF Retired, Ended

\* The end of an attempt ends a lease only if it is the one that was used.
LEMMA SettleEnds ==
    ASSUME IndInv, NEW t \in Threads, SettleTimeout(t) \/ SettleFailure(t)
    PROVE  \E F \in SUBSET TrackedNames : Ended(F)
<1>1. /\ pc[t] = "settle"
      /\ RetireIfTracked(t)
      /\ created' = created
      /\ pc'[t] \in {"record", "enter"}
      /\ \A u \in Threads \ {t} : pc'[u] = pc[u] /\ call'[u] = call[u]
  BY DEF SettleTimeout, SettleFailure, Move, IndInv, TypeOK
<1>2. \A c \in ContainerIds, u \in Threads : StartedBy(c, u)' <=> StartedBy(c, u)
  BY <1>1 DEF StartedBy
<1>. QED
  BY <1>1, <1>2, SettleRetires, RetireEnds

\* terminate() and a reaper pass end leases.
LEMMA SweepEnds ==
    ASSUME IndInv, Reap \/ \E f \in Names : Terminate(f)
    PROVE  \E F \in SUBSET TrackedNames : Ended(F)
<1>1. created' = created /\ UNCHANGED <<pc, call>>
  BY DEF Reap, Terminate
<1>2. \A c \in ContainerIds, u \in Threads : StartedBy(c, u)' <=> StartedBy(c, u)
  BY <1>1 DEF StartedBy
<1>3. \E F \in SUBSET TrackedNames : Retire(F, {runtimes[f].container_id : f \in F})
  <2>1. CASE Reap
    <3>1. {f \in Names : Expired(f)} \in SUBSET TrackedNames
      BY DEF Expired, TrackedNames
    <3>. QED
      BY <2>1, <3>1 DEF Reap
  <2>2. CASE \E f \in Names : Terminate(f)
    <3>1. PICK f \in Names : Terminate(f)
      BY <2>2
    <3>2. /\ {f} \in SUBSET TrackedNames
          /\ {runtimes[g].container_id : g \in {f}} = {runtimes[f].container_id}
      BY <3>1 DEF Terminate, TrackedNames
    <3>. QED
      BY <3>1, <3>2 DEF Terminate
  <2>. QED
    BY <2>1, <2>2
<1>. QED
  BY <1>1, <1>2, <1>3, RetireEnds

\* A restart ends all leases and resets the counters.
LEMMA RestartForgets ==
    ASSUME IndInv, Restart
    PROVE  Forgotten
<1>1. Lease' = [f \in Names |-> Null]
  BY DEF Restart, Lease, Tracked
<1>2. Spent' \in SUBSET ContainerIds /\ Spent \subseteq Spent'
  BY DEF Restart, Spent, StartedBy
<1>. QED
  BY <1>1, <1>2 DEF Restart, Forgotten

\* The classification of all steps.
LEMMA StepEffect ==
    ASSUME IndInv, [Next]_vars
    PROVE  \/ Hidden
           \/ \E f \in Names, c \in ContainerIds : Granted(f, c)
           \/ \E c \in ContainerIds : Wasted(c)
           \/ \E F \in SUBSET TrackedNames : Ended(F)
           \/ Forgotten
<1>1. CASE UNCHANGED vars
  BY <1>1, HiddenStep DEF vars, metrics, Tracked, StartedBy, counters
<1>2. ASSUME NEW t \in Threads,
             \/ \E s \in Specs : Invoke(t, s)
             \/ BeginStart(t) \/ RunFails(t) \/ GetHostPort(t) \/ PollUnhealthy(t)
             \/ Post(t) \/ PostFails(t) \/ Respond(t) \/ Record(t)
      PROVE  Hidden
  BY <1>2, QuietHidden, InvokeIsQuiet, BeginStartIsQuiet, RunFailsIsQuiet, GetHostPortIsQuiet,
     PollUnhealthyIsQuiet, ExchangeIsQuiet, RecordIsQuiet
<1>3. ASSUME NEW t \in Threads, GetHostPortFails(t) \/ GiveUpStart(t) \/ RunLeaves(t)
      PROVE  \E c \in ContainerIds : Wasted(c)
  BY <1>3, AbortStartWastes, RunLeavesWastes DEF GetHostPortFails, GiveUpStart
<1>4. CASE \E t \in Threads : Enter(t) \/ Start(t) \/ Settle(t)
  BY <1>2, <1>3, <1>4, TouchHidden, RunContainerHidden, PollHealthyGrants, SettleEnds
  DEF Enter, Start, Settle
<1>5. CASE Reap \/ Tick \/ Restart
  BY <1>5, SweepEnds, EnvironmentHidden, RestartForgets
<1>6. CASE \E f \in Names : Terminate(f)
  BY <1>6, SweepEnds
<1>7. CASE \E c \in ContainerIds : ContainerDies(c)
  BY <1>7, EnvironmentHidden
<1>. QED
  BY <1>1, <1>2, <1>4, <1>5, <1>6, <1>7 DEF Next, Step

-----------------------------------------------------------------------------
\* The runtime manager implements the pool.
THEOREM Refinement == Spec => ImplementsPool
<1>1. Init => Pool!Init
  BY DEF Init, Pool!Init, Lease, Spent, Tracked
<1>2. IndInv /\ [Next]_vars => [Pool!Next]_(Pool!vars)
  <2>. SUFFICES ASSUME IndInv, [Next]_vars PROVE [Pool!Next]_(Pool!vars)
    OBVIOUS
  <2>1. CASE Hidden
    BY <2>1 DEF Hidden, Pool!vars
  <2>2. CASE \E f \in Names, c \in ContainerIds : Granted(f, c)
    BY <2>2 DEF Granted, Pool!Next, Pool!Grant
  <2>3. CASE \E c \in ContainerIds : Wasted(c)
    BY <2>3 DEF Wasted, Pool!Next, Pool!Waste
  <2>4. CASE \E F \in SUBSET TrackedNames : Ended(F)
    BY <2>4 DEF Ended, Pool!Next, Pool!End, TrackedNames
  <2>5. CASE Forgotten
    BY <2>5 DEF Forgotten, Pool!Next, Pool!Crash
  <2>. QED
    BY <2>1, <2>2, <2>3, <2>4, <2>5, StepEffect
<1>. QED
  BY <1>1, <1>2, Invariance, PTL DEF Spec, ImplementsPool, Pool!Spec

\* runtimes_created_total minus runtimes_terminated_total is the number of
\* active runtimes.
THEOREM MetricsAgree == Spec => []MetricsConserve
<1>1. Init => MetricsConserve
  <2>. SUFFICES ASSUME Init PROVE MetricsConserve
    OBVIOUS
  <2>1. TrackedNames = {}
    BY DEF Init, TrackedNames, Tracked
  <2>. QED
    BY <2>1, FS_EmptySet DEF Init, MetricsConserve
<1>2. IndInv /\ IndInv' /\ MetricsConserve /\ [Next]_vars => MetricsConserve'
  <2>. SUFFICES ASSUME IndInv, IndInv', MetricsConserve, [Next]_vars PROVE MetricsConserve'
    OBVIOUS
  <2>1. /\ TrackedNames = {f \in Names : Lease[f] # Null}
        /\ TrackedNames' = {f \in Names : Lease'[f] # Null}
    <3>1. TrackedNames = {f \in Names : Lease[f] # Null}
      BY LeaseTracked DEF IndInv
    <3>2. TrackedNames' = {f \in Names : Lease'[f] # Null}
      BY NullAssumption DEF IndInv, TypeOK, TrackedNames, Tracked, Lease, Runtime
    <3>. QED
      BY <3>1, <3>2
  <2>2. /\ IsFiniteSet(TrackedNames)
        /\ Cardinality(TrackedNames) \in Nat
        /\ created \in Nat /\ terminated \in Nat
    BY ConstantsAssumption, FS_Subset, FS_CardinalityType DEF TrackedNames, IndInv, TypeOK
  <2>3. CASE Hidden
    BY <2>1, <2>3 DEF Hidden, MetricsConserve, counters
  <2>4. CASE \E f \in Names, c \in ContainerIds : Granted(f, c)
    <3>1. PICK f \in Names, c \in ContainerIds : Granted(f, c)
      BY <2>4
    <3>2. TrackedNames' = TrackedNames \cup {f} /\ f \notin TrackedNames
      BY <2>1, <3>1, NullAssumption DEF Granted, Lease
    <3>3. Cardinality(TrackedNames') = Cardinality(TrackedNames) + 1
      BY <2>2, <3>2, FS_AddElement
    <3>. QED
      BY <2>2, <3>1, <3>3 DEF Granted, MetricsConserve
  <2>5. CASE \E c \in ContainerIds : Wasted(c)
    BY <2>1, <2>5 DEF Wasted, MetricsConserve, counters
  <2>6. CASE \E F \in SUBSET TrackedNames : Ended(F)
    <3>1. PICK F \in SUBSET TrackedNames : Ended(F)
      BY <2>6
    <3>2. TrackedNames' = TrackedNames \ F
      BY <2>1, <3>1 DEF Ended
    <3>3. /\ IsFiniteSet(F)
          /\ Cardinality(F) \in Nat
      BY <2>2, <3>1, FS_Subset, FS_CardinalityType
    <3>4. /\ Cardinality(TrackedNames') = Cardinality(TrackedNames) - Cardinality(TrackedNames \cap F)
          /\ TrackedNames \cap F = F
      BY <2>2, <3>1, <3>2, <3>3, FS_Difference
    <3>. QED
      BY <2>2, <3>1, <3>3, <3>4 DEF Ended, MetricsConserve
  <2>7. CASE Forgotten
    <3>1. TrackedNames' = {}
      BY <2>1, <2>7 DEF Forgotten
    <3>. QED
      BY <2>7, <3>1, FS_EmptySet DEF Forgotten, MetricsConserve
  <2>. QED
    BY <2>3, <2>4, <2>5, <2>6, <2>7, StepEffect
<1>. QED
  BY <1>1, <1>2, Invariance, PTL DEF Spec

-----------------------------------------------------------------------------
\* Cold starts, as runtimes_created_ and as invocations count them.

\* A step that leaves the two counters and the cold callers alone.
ColdKept ==
    /\ created' = created
    /\ invocations' = invocations
    /\ ColdCallers' = ColdCallers

\* A step of one thread that stays what it was, cold or warm.
LEMMA ColdMove ==
    ASSUME IndInv, ColdInv, NEW t \in Threads, NEW to \in Locations, NEW l \in Call,
           to # "out", Move(t, to, l),
           l.cold_start <=> (pc[t] # "out" /\ call[t].cold_start),
           to \in Starting \cup {"enter"} => ~l.cold_start,
           created' = created, invocations' = invocations
    PROVE  ColdKept /\ ColdInv'
<1>1. /\ pc'[t] = to /\ call'[t] = l
      /\ \A u \in Threads \ {t} : pc'[u] = pc[u] /\ call'[u] = call[u]
  BY MoveEffect DEF IndInv
<1>2. ASSUME NEW u \in Threads
      PROVE  (pc'[u] # "out" /\ call'[u].cold_start) <=> (pc[u] # "out" /\ call[u].cold_start)
  BY <1>1
<1>3. ColdCallers' = ColdCallers
  BY <1>2 DEF ColdCallers
<1>. QED
  BY <1>1, <1>3 DEF ColdKept, ColdInv

\* invoke() begins warm.
LEMMA ColdInvoke ==
    ASSUME IndInv, ColdInv, NEW t \in Threads, NEW s \in Specs, Invoke(t, s)
    PROVE  ColdKept /\ ColdInv'
<1>1. NewCall(s) \in Call /\ NewCall(s).cold_start = FALSE
  BY DEF NewCall, Call, Responses
<1>2. pc[t] = "out" /\ Move(t, "enter", NewCall(s)) /\ created' = created /\ invocations' = invocations
  BY DEF Invoke, metrics
<1>. QED
  BY <1>1, <1>2, ColdMove DEF Locations

\* The steps of a start that do not end it well: the call is warm and stays so.
LEMMA ColdStart ==
    ASSUME IndInv, ColdInv, NEW t \in Threads,
           \/ BeginStart(t) \/ RunContainer(t) \/ RunFails(t) \/ RunLeaves(t) \/ GetHostPort(t)
           \/ GetHostPortFails(t) \/ PollUnhealthy(t) \/ GiveUpStart(t)
    PROVE  ColdKept /\ ColdInv'
<1>1. /\ pc[t] \in Starting \cup {"enter"} /\ pc[t] # "out"
      /\ created' = created /\ invocations' = invocations
  BY DEF BeginStart, RunContainer, RunFails, RunLeaves, GetHostPort, GetHostPortFails,
     PollUnhealthy, GiveUpStart, FailStart, Starting, metrics
<1>2. call[t] \in Call /\ ~call[t].cold_start
  BY <1>1, CallTyped DEF IndInv, ColdInv
<1>3. ASSUME NEW c \in ContainerIds PROVE [call[t] EXCEPT !.container_id = c] \in Call
  BY <1>2 DEF Call
<1>4. [call[t] EXCEPT !.response = "not_started"] \in Call
  BY <1>2 DEF Call, Responses
<1>5. [call[t] EXCEPT !.polls = @ + 1] \in Call
  BY <1>2 DEF Call
<1>6. ASSUME NEW p \in Ports PROVE [call[t] EXCEPT !.host_port = p, !.polls = 0] \in Call
  BY <1>2 DEF Call
<1>7. PICK to \in Starting \cup {"record"}, l \in Call :
        Move(t, to, l) /\ l.cold_start = call[t].cold_start
  <2>1. CASE BeginStart(t)
    BY <1>2, <2>1 DEF BeginStart, Starting
  <2>2. CASE RunContainer(t)
    <3>1. PICK c \in ContainerIds : Move(t, "port", [call[t] EXCEPT !.container_id = c])
      BY <2>2 DEF RunContainer
    <3>2. [call[t] EXCEPT !.container_id = c].cold_start = call[t].cold_start
      BY <1>2 DEF Call
    <3>. QED
      BY <1>3, <3>1, <3>2 DEF Starting
  <2>3. CASE RunFails(t) \/ RunLeaves(t) \/ GetHostPortFails(t) \/ GiveUpStart(t)
    <3>1. Move(t, "record", [call[t] EXCEPT !.response = "not_started"])
      BY <2>3 DEF RunFails, RunLeaves, GetHostPortFails, GiveUpStart, FailStart
    <3>2. [call[t] EXCEPT !.response = "not_started"].cold_start = call[t].cold_start
      BY <1>2 DEF Call
    <3>. QED
      BY <1>4, <3>1, <3>2
  <2>4. CASE GetHostPort(t)
    <3>. DEFINE p == containers[call[t].container_id].port
    <3>1. p \in Ports
      BY <2>4 DEF GetHostPort, IndInv, StartInv, ContainersInv
    <3>2. Move(t, "health", [call[t] EXCEPT !.host_port = p, !.polls = 0])
      BY <2>4 DEF GetHostPort
    <3>3. [call[t] EXCEPT !.host_port = p, !.polls = 0].cold_start = call[t].cold_start
      BY <1>2 DEF Call
    <3>. HIDE DEF p
    <3>. QED
      BY <1>6, <3>1, <3>2, <3>3 DEF Starting
  <2>5. CASE PollUnhealthy(t)
    <3>1. Move(t, "health", [call[t] EXCEPT !.polls = @ + 1])
      BY <2>5 DEF PollUnhealthy
    <3>2. [call[t] EXCEPT !.polls = @ + 1].cold_start = call[t].cold_start
      BY <1>2 DEF Call
    <3>. QED
      BY <1>5, <3>1, <3>2 DEF Starting
  <2>. QED
    BY <2>1, <2>2, <2>3, <2>4, <2>5
<1>. QED
  BY <1>1, <1>2, <1>7, ColdMove DEF Locations, Starting

\* A warm call stays warm, on both attempts.
LEMMA ColdReuse ==
    ASSUME IndInv, ColdInv, NEW t \in Threads, ReuseRuntime(t)
    PROVE  ColdKept /\ ColdInv'
<1>. DEFINE rt == runtimes[call[t].spec.name]
            l == [call[t] EXCEPT !.cold_start = FALSE, !.container_id = rt.container_id,
                                 !.host_port = rt.host_port]
<1>1. /\ pc[t] = "enter" /\ Move(t, "post", l) /\ created' = created /\ invocations' = invocations
      /\ call[t] \in Call /\ call[t].spec.name \in Names /\ ~call[t].cold_start
  BY CallTyped DEF ReuseRuntime, metrics, IndInv, ColdInv
<1>2. rt \in Runtime
  BY <1>1 DEF ReuseRuntime, Tracked, IndInv, TypeOK
<1>3. l \in Call /\ l.cold_start = FALSE
  BY <1>1, <1>2 DEF Call, Runtime
<1>. HIDE DEF l
<1>. QED
  BY <1>1, <1>3, ColdMove DEF Locations, Starting

\* The POST and what settles it; only a warm call gets a second attempt.
LEMMA ColdExchange ==
    ASSUME IndInv, ColdInv, NEW t \in Threads,
           Post(t) \/ PostFails(t) \/ Respond(t) \/ Settle(t)
    PROVE  ColdKept /\ ColdInv'
<1>1. /\ pc[t] \in InFlight /\ pc[t] # "out" /\ created' = created /\ invocations' = invocations
  BY DEF Post, PostFails, Respond, Settle, SettleTimeout, SettleFailure, SettleReply, InFlight,
     metrics
<1>2. call[t] \in Call
  BY <1>1, CallTyped DEF IndInv
<1>3. PICK to \in InFlight \cup {"record", "enter"}, l \in Call :
        /\ Move(t, to, l)
        /\ l.cold_start = call[t].cold_start
        /\ to = "enter" => ~call[t].cold_start
  <2>1. CASE Post(t)
    <3>1. PICK c \in ContainerIds : Move(t, "wait", [call[t] EXCEPT !.reached = @ \cup {c}])
      BY <2>1 DEF Post
    <3>. DEFINE l == [call[t] EXCEPT !.reached = @ \cup {c}]
    <3>2. l \in Call /\ l.cold_start = call[t].cold_start
      BY <1>2 DEF Call
    <3>3. \E to \in InFlight : Move(t, to, l)
      BY <3>1 DEF InFlight
    <3>. HIDE DEF l
    <3>. QED
      BY <3>2, <3>3 DEF InFlight
  <2>2. CASE PostFails(t) \/ Respond(t)
    <3>1. PICK r \in Responses : Move(t, "settle", [call[t] EXCEPT !.response = r])
      BY <2>2 DEF PostFails, Respond, Responses
    <3>. DEFINE l == [call[t] EXCEPT !.response = r]
    <3>2. l \in Call /\ l.cold_start = call[t].cold_start
      BY <1>2 DEF Call
    <3>3. \E to \in InFlight : Move(t, to, l)
      BY <3>1 DEF InFlight
    <3>. HIDE DEF l
    <3>. QED
      BY <3>2, <3>3 DEF InFlight
  <2>3. CASE Move(t, "record", call[t])
    BY <1>2, <2>3
  <2>4. CASE SettleFailure(t) /\ Retries(t)
    <3>. DEFINE l == [call[t] EXCEPT !.attempt = 2, !.response = "none",
                                     !.failed_id = call[t].container_id,
                                     !.container_id = Null, !.host_port = Null]
    <3>1. Move(t, "enter", l) /\ ~call[t].cold_start
      BY <2>4 DEF SettleFailure, Retries
    <3>2. l \in Call /\ l.cold_start = call[t].cold_start
      BY <1>2 DEF Call, Responses
    <3>. HIDE DEF l
    <3>. QED
      BY <3>1, <3>2
  <2>. QED
    BY <2>1, <2>2, <2>3, <2>4 DEF Settle, SettleTimeout, SettleFailure, SettleReply
<1>. QED
  BY <1>1, <1>2, <1>3, ColdMove DEF Locations, Starting, InFlight

\* Steps that move no invocation.
LEMMA ColdElsewhere ==
    ASSUME ColdInv,
           \/ \E f \in Names : Terminate(f)
           \/ Reap \/ Tick
           \/ \E c \in ContainerIds : ContainerDies(c)
           \/ UNCHANGED vars
    PROVE  ColdKept /\ ColdInv'
<1>1. UNCHANGED <<pc, call, created, invocations>>
  BY DEF Terminate, Reap, Tick, ContainerDies, vars, metrics
<1>. QED
  BY <1>1 DEF ColdKept, ColdInv, ColdCallers

\* The end of a start makes one warm call cold and counts one runtime.
LEMMA ColdCreated ==
    ASSUME IndInv, ColdInv, NEW t \in Threads, PollHealthy(t)
    PROVE  /\ created' = created + 1 /\ invocations' = invocations
           /\ t \notin ColdCallers /\ ColdCallers' = ColdCallers \cup {t}
           /\ ColdInv'
<1>1. /\ pc[t] = "health" /\ created' = created + 1 /\ invocations' = invocations
      /\ call[t] \in Call /\ ~call[t].cold_start
  BY CallTyped DEF PollHealthy, IndInv, ColdInv, Starting
<1>2. PICK l : Move(t, "post", l) /\ l.cold_start = TRUE
  <2>. DEFINE f == call[t].spec.name
              rt == IF Tracked(f) THEN runtimes[f]
                    ELSE [container_id |-> call[t].container_id,
                          host_port |-> call[t].host_port,
                          state |-> "STARTING", idle_ms |-> 0,
                          idle_timeout_ms |-> call[t].spec.idle_timeout_ms]
              l == [call[t] EXCEPT !.cold_start = TRUE, !.container_id = rt.container_id,
                                   !.host_port = rt.host_port, !.polls = 0]
  <2>1. Move(t, "post", l)
    BY DEF PollHealthy
  <2>2. l.cold_start = TRUE
    <3>. HIDE DEF rt
    <3>. QED
      BY <1>1 DEF Call
  <2>. HIDE DEF l
  <2>. QED
    BY <2>1, <2>2
<1>3. /\ pc'[t] = "post" /\ call'[t] = l
      /\ \A u \in Threads \ {t} : pc'[u] = pc[u] /\ call'[u] = call[u]
  BY <1>2 DEF Move, IndInv, TypeOK
<1>4. t \notin ColdCallers /\ ColdCallers' = ColdCallers \cup {t}
  BY <1>1, <1>2, <1>3 DEF ColdCallers
<1>5. ColdInv'
  BY <1>3 DEF ColdInv, Starting
<1>. QED
  BY <1>1, <1>4, <1>5

\* The return of invoke() takes one caller out and reports it as what it was.
LEMMA ColdRecorded ==
    ASSUME IndInv, ColdInv, NEW t \in Threads, Record(t)
    PROVE  /\ created' = created
           /\ t \in ColdCallers => invocations'[TRUE] = invocations[TRUE] + 1
           /\ t \notin ColdCallers => invocations'[TRUE] = invocations[TRUE]
           /\ ColdCallers' = ColdCallers \ {t}
           /\ ColdInv'
<1>1. /\ pc[t] = "record" /\ created' = created /\ Move(t, "out", Null)
      /\ call[t] \in Call /\ call[t].cold_start \in BOOLEAN
      /\ invocations' = [invocations EXCEPT ![call[t].cold_start] = @ + 1]
      /\ invocations \in [BOOLEAN -> Nat]
  BY CallTyped DEF Record, IndInv, TypeOK, Call
<1>2. /\ pc'[t] = "out"
      /\ \A u \in Threads \ {t} : pc'[u] = pc[u] /\ call'[u] = call[u]
  BY <1>1 DEF Move, IndInv, TypeOK
<1>3. ColdCallers' = ColdCallers \ {t} /\ (t \in ColdCallers <=> call[t].cold_start)
  BY <1>1, <1>2 DEF ColdCallers
<1>4. ColdInv'
  BY <1>2 DEF ColdInv, Starting
<1>5. /\ call[t].cold_start => call[t].cold_start = TRUE
      /\ ~call[t].cold_start => call[t].cold_start = FALSE
  BY <1>1
<1>6. /\ call[t].cold_start = TRUE => invocations'[TRUE] = invocations[TRUE] + 1
      /\ call[t].cold_start = FALSE => invocations'[TRUE] = invocations[TRUE]
  BY <1>1
<1>. QED
  BY <1>1, <1>3, <1>4, <1>5, <1>6

\* The reports and the pending reports of cold calls count the created runtimes.
LEMMA ColdCounted == Spec => []ColdCount
<1>1. Init => ColdInv /\ ColdCount
  <2>. SUFFICES ASSUME Init PROVE ColdInv /\ ColdCount
    OBVIOUS
  <2>1. ColdCallers = {} /\ ColdInv
    BY DEF Init, ColdCallers, ColdInv, Starting
  <2>2. invocations[TRUE] = 0
    BY DEF Init
  <2>. QED
    BY <2>1, <2>2, FS_EmptySet DEF Init, ColdCount
<1>2. IndInv /\ ColdInv /\ ColdCount /\ [Next]_vars => ColdInv' /\ ColdCount'
  <2>. SUFFICES ASSUME IndInv, ColdInv, ColdCount, [Next]_vars
                PROVE  ColdInv' /\ ColdCount'
    OBVIOUS
  <2>. DEFINE n == invocations[TRUE]
              m == Cardinality(ColdCallers)
  <2>1. /\ IsFiniteSet(ColdCallers) /\ m \in Nat /\ n \in Nat /\ created \in Nat
        /\ created = n + m
    BY ConstantsAssumption, FS_Subset, FS_CardinalityType
    DEF ColdCallers, ColdCount, IndInv, TypeOK
  <2>2. CASE ColdKept /\ ColdInv'
    BY <2>2 DEF ColdKept, ColdCount
  <2>3. ASSUME NEW t \in Threads, PollHealthy(t) PROVE ColdInv' /\ ColdCount'
    <3>1. n' = n /\ created' = created + 1 /\ ColdInv' /\ m' = m + 1
      BY <2>1, <2>3, ColdCreated, FS_AddElement
    <3>2. created' = n' + m'
      <4>. HIDE DEF n, m
      <4>. QED
        BY <2>1, <3>1
    <3>. QED
      BY <3>1, <3>2 DEF ColdCount
  <2>4. ASSUME NEW t \in Threads, Record(t) PROVE ColdInv' /\ ColdCount'
    <3>1. created' = created /\ ColdInv' /\ ColdCallers' = ColdCallers \ {t}
      BY <2>4, ColdRecorded
    <3>2. \/ n' = n + 1 /\ m' = m - 1
          \/ n' = n /\ m' = m
      <4>1. CASE t \in ColdCallers
        BY <2>1, <2>4, <3>1, <4>1, ColdRecorded, FS_RemoveElement
      <4>2. CASE t \notin ColdCallers
        <5>1. ColdCallers' = ColdCallers
          BY <3>1, <4>2
        <5>. QED
          BY <2>4, <4>2, <5>1, ColdRecorded
      <4>. QED
        BY <4>1, <4>2
    <3>3. created' = n' + m'
      <4>. HIDE DEF n, m
      <4>. QED
        BY <2>1, <3>1, <3>2
    <3>. QED
      BY <3>1, <3>3 DEF ColdCount
  <2>5. ASSUME Restart PROVE ColdInv' /\ ColdCount'
    <3>1. created' = 0 /\ ColdCallers' = {} /\ ColdInv' /\ invocations'[TRUE] = 0
      BY <2>5 DEF Restart, ColdCallers, ColdInv, Starting
    <3>. QED
      BY <3>1, FS_EmptySet DEF ColdCount
  <2>. QED
    BY <2>2, <2>3, <2>4, <2>5, ColdInvoke, ColdStart, ColdReuse, ColdExchange, ColdElsewhere
    DEF Next, Step, Enter, Start
<1>. QED
  BY <1>1, <1>2, Invariance, PTL DEF Spec

\* Every runtime the manager created was reported, or will be, as a cold start
\* by an invocation of its own.
THEOREM ColdStartsAgree == Spec => []ColdStartsReported
<1>1. IndInv /\ ColdCount => ColdStartsReported
  <2>. SUFFICES ASSUME IndInv, ColdCount PROVE ColdStartsReported
    OBVIOUS
  <2>1. created \in Nat
    BY DEF IndInv, TypeOK
  <2>2. created <= created
    BY <2>1
  <2>. QED
    BY <2>2, Zenon DEF ColdCount, ColdStartsReported
<1>. QED
  BY <1>1, ColdCounted, Invariance, PTL
=============================================================================
