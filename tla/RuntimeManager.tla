-------------------------- MODULE RuntimeManager --------------------------
(***************************************************************************)
(* The runtime manager of the control plane                                *)
(* (control-plane/src/runtime_manager.cpp): the table from function name   *)
(* to the one runtime that serves it, the request threads that invoke      *)
(* functions through it, the reaper thread, and the container backend and  *)
(* the HTTP calls as far as the manager can see them.                      *)
(*                                                                         *)
(* mutex_ is held from a cold start's first look at the table to the end   *)
(* of the start, across several slow backend calls, so a start is a        *)
(* sequence of steps with mutex = t.  Every other critical section (warm   *)
(* reuse, the look after the POST, terminate, a reaper pass) is a single   *)
(* step enabled when mutex is free: nothing it reads or writes is visible  *)
(* to anyone before it unlocks, except containers that die, which may      *)
(* equally well die just before or just after it.                          *)
(***************************************************************************)
EXTENDS Naturals, FiniteSets

CONSTANTS Names,              \* function names
          Specs,              \* the FunctionSpecs that may be invoked
          Threads,            \* request threads
          ContainerIds,       \* ids the backend can hand out, each once
          Ports,              \* host ports
          kReadinessAttempts, \* health polls of one start
          MaxRequests,        \* bound: invocations between two restarts
          Null                \* absent entry, owner, id, port or call

Images == {s.image : s \in Specs}

ASSUME SpecsAssumption ==
    \A s \in Specs : /\ s.name \in Names
                     /\ s.timeout_ms \in Nat
                     /\ s.idle_timeout_ms \in Nat

ASSUME ConstantsAssumption ==
    /\ IsFiniteSet(Names)
    /\ IsFiniteSet(Threads)
    /\ kReadinessAttempts \in Nat \ {0}
    /\ MaxRequests \in Nat

VARIABLES
    runtimes,    \* runtimes_: function name -> Runtime, or Null when not in the map
    mutex,       \* owner of mutex_, or Null
    containers,  \* what the backend runs: id -> status, image and host port
    pc,          \* where each request thread is
    call,        \* the locals of each thread's invoke(), Null when it has none
    created,     \* metrics: runtimes_created_
    terminated,  \* metrics: runtimes_terminated_, all reasons together
    invocations, \* metrics: invocation_counts_ by cold_start, all statuses together
    requests,    \* invocations begun since the last restart
    lost         \* history: containers nobody knows of or could not remove

vars == <<runtimes, mutex, containers, pc, call, created, terminated,
          invocations, requests, lost>>

metrics == <<created, terminated, invocations>>

-----------------------------------------------------------------------------
\* Types.

\* idle_ms stands for now - last_used_at.  It stops at idle_timeout_ms: the
\* reaper only asks whether it has got there.
Runtime == [container_id : ContainerIds, host_port : Ports,
            state : {"BUSY", "IDLE"}, idle_ms : Nat, idle_timeout_ms : Nat]

Container == [status : {"unused", "up", "down", "removed"},
              image : Images \cup {Null}, port : Ports \cup {Null}]

\* "none" until the POST has ended; "not_started" when there was no POST.
Responses == {"none", "not_started", "2xx", "non2xx", "failed", "timed_out"}

\* attempt counts the calls of try_invoke.  Two fields are history that the
\* code does not keep: failed_id, the container the first attempt gave up on,
\* and reached, the containers that accepted this invocation's POST.
Call == [spec : Specs, attempt : {1, 2}, cold_start : BOOLEAN,
         container_id : ContainerIds \cup {Null}, host_port : Ports \cup {Null},
         polls : Nat, response : Responses,
         failed_id : ContainerIds \cup {Null}, reached : SUBSET ContainerIds]

Locations == {"out", "enter", "run", "port", "health", "post", "wait",
              "settle", "record"}

ASSUME NullAssumption ==
    /\ Null \notin Threads
    /\ Null \notin ContainerIds
    /\ Null \notin Ports
    /\ Null \notin Runtime
    /\ Null \notin Call

-----------------------------------------------------------------------------
\* Helpers.

Starting == {"run", "port", "health"}   \* inside start_runtime, mutex held
InFlight == {"post", "wait", "settle"}  \* between the unlock and the second lock

Tracked(f) == runtimes[f] # Null
TrackedNames == {f \in Names : Tracked(f)}
Present(c) == containers[c].status \in {"up", "down"}

\* A container listens on its host port while it is up.
Listening(c, p) == containers[c].status = "up" /\ containers[c].port = p
FreePort(p) == \A c \in ContainerIds : ~Listening(c, p)

NewCall(s) == [spec |-> s, attempt |-> 1, cold_start |-> FALSE,
               container_id |-> Null, host_port |-> Null, polls |-> 0,
               response |-> "none", failed_id |-> Null, reached |-> {}]

\* Thread t goes on to location to with new locals.
Move(t, to, locals) ==
    /\ pc' = [pc EXCEPT ![t] = to]
    /\ call' = [call EXCEPT ![t] = locals]

\* backend_->remove_container on each id of S.  The manager ignores the
\* result, so a container whose removal fails stays and is nobody's.
RemoveContainers(S) ==
    \E stuck \in SUBSET S :
        /\ containers' = [c \in ContainerIds |->
                            IF c \in S \ stuck
                            THEN [containers[c] EXCEPT !.status = "removed"]
                            ELSE containers[c]]
        /\ lost' = lost \cup stuck

\* Remove the containers of S, erase the entries of F and count them.
Retire_KeepsEntry(F, S) ==
    /\ RemoveContainers(S)
    /\ terminated' = terminated + Cardinality(F)
    /\ UNCHANGED runtimes

Retire(F, S) ==
    /\ RemoveContainers(S)
    /\ runtimes' = [f \in Names |-> IF f \in F THEN Null ELSE runtimes[f]]
    /\ terminated' = terminated + Cardinality(F)

\* What both a cold and a warm call do to the entry before they unlock.
Acquire_KeepsState(rt) == [rt EXCEPT !.idle_ms = 0]

Acquire(rt) == [rt EXCEPT !.state = "BUSY", !.idle_ms = 0]

\* What any response does to the entry.
Release_KeepsState(rt) == [rt EXCEPT !.idle_ms = 0]

Release(rt) == [rt EXCEPT !.state = "IDLE", !.idle_ms = 0]

-----------------------------------------------------------------------------
Init ==
    /\ runtimes = [f \in Names |-> Null]
    /\ mutex = Null
    /\ containers = [c \in ContainerIds |->
                        [status |-> "unused", image |-> Null, port |-> Null]]
    /\ pc = [t \in Threads |-> "out"]
    /\ call = [t \in Threads |-> Null]
    /\ created = 0
    /\ terminated = 0
    /\ invocations = [b \in BOOLEAN |-> 0]
    /\ requests = 0
    /\ lost = {}

\* A request thread calls invoke() with the spec it read from the registry.
Invoke(t, s) ==
    /\ pc[t] = "out"
    /\ requests < MaxRequests
    /\ Move(t, "enter", NewCall(s))
    /\ requests' = requests + 1
    /\ UNCHANGED <<runtimes, mutex, containers, metrics, lost>>

\* try_invoke, warm: mark the runtime BUSY, copy its id and port, unlock.
ReuseRuntime(t) ==
    LET f  == call[t].spec.name
        rt == runtimes[f]
    IN  /\ pc[t] = "enter"
        /\ mutex = Null
        /\ Tracked(f)
        /\ runtimes' = [runtimes EXCEPT ![f] = Acquire(rt)]
        /\ Move(t, "post",
                [call[t] EXCEPT !.cold_start = FALSE,
                                !.container_id = rt.container_id,
                                !.host_port = rt.host_port])
        /\ UNCHANGED <<mutex, containers, metrics, requests, lost>>

\* try_invoke, cold: keep the lock and enter start_runtime.
BeginStart_Unlocked(t) ==
    /\ pc[t] = "enter"
    /\ mutex = Null
    /\ ~Tracked(call[t].spec.name)
    /\ Move(t, "run", call[t])
    /\ UNCHANGED <<runtimes, mutex, containers, metrics, requests, lost>>

BeginStart(t) ==
    /\ pc[t] = "enter"
    /\ mutex = Null
    /\ ~Tracked(call[t].spec.name)
    /\ mutex' = t
    /\ Move(t, "run", call[t])
    /\ UNCHANGED <<runtimes, containers, metrics, requests, lost>>

\* run_container succeeds: a new id, and a host port nothing listens on.
RunContainer(t) ==
    /\ pc[t] = "run"
    /\ \E c \in ContainerIds, p \in Ports :
        /\ containers[c].status = "unused"
        /\ FreePort(p)
        /\ containers' = [containers EXCEPT ![c] =
                            [status |-> "up", image |-> call[t].spec.image, port |-> p]]
        /\ Move(t, "port", [call[t] EXCEPT !.container_id = c])
    /\ UNCHANGED <<runtimes, mutex, metrics, requests, lost>>

\* start_runtime returned false: unlock, report infra_error, no retry.
FailStart(t) ==
    /\ mutex' = Null
    /\ Move(t, "record", [call[t] EXCEPT !.response = "not_started"])
    /\ UNCHANGED <<runtimes, metrics, requests>>

RunFails(t) ==
    /\ pc[t] = "run"
    /\ FailStart(t)
    /\ UNCHANGED <<containers, lost>>

\* run_container reports a failure although its container is up: the backend
\* lost the answer of a command or could not undo what it had done.
RunLeaves(t) ==
    /\ pc[t] = "run"
    /\ \E c \in ContainerIds, p \in Ports :
        /\ containers[c].status = "unused"
        /\ FreePort(p)
        /\ containers' = [containers EXCEPT ![c] =
                            [status |-> "up", image |-> call[t].spec.image, port |-> p]]
        /\ lost' = lost \cup {c}
    /\ FailStart(t)

GetHostPort_AnyPort(t) ==
    /\ pc[t] = "port"
    /\ containers[call[t].container_id].status = "up"
    /\ \E p \in Ports :
        Move(t, "health", [call[t] EXCEPT !.host_port = p, !.polls = 0])
    /\ UNCHANGED <<runtimes, mutex, containers, metrics, requests, lost>>

\* get_host_port knows the port of a container that is up.
GetHostPort(t) ==
    /\ pc[t] = "port"
    /\ containers[call[t].container_id].status = "up"
    /\ Move(t, "health",
            [call[t] EXCEPT !.host_port = containers[call[t].container_id].port,
                            !.polls = 0])
    /\ UNCHANGED <<runtimes, mutex, containers, metrics, requests, lost>>

GetHostPortFails(t) ==
    /\ pc[t] = "port"
    /\ FailStart(t)
    /\ RemoveContainers({call[t].container_id})

\* A health poll succeeds: emplace the runtime, which keeps an entry that is
\* already there, then go on with the entry as a warm call does.
PollHealthy(t) ==
    LET f     == call[t].spec.name
        fresh == [container_id |-> call[t].container_id,
                  host_port |-> call[t].host_port,
                  state |-> "STARTING", idle_ms |-> 0,
                  idle_timeout_ms |-> call[t].spec.idle_timeout_ms]
        rt    == IF Tracked(f) THEN runtimes[f] ELSE fresh
    IN  /\ pc[t] = "health"
        /\ \E c \in ContainerIds : Listening(c, call[t].host_port)
        /\ runtimes' = [runtimes EXCEPT ![f] = Acquire(rt)]
        /\ created' = created + 1
        /\ mutex' = Null
        /\ Move(t, "post",
                [call[t] EXCEPT !.cold_start = TRUE,
                                !.container_id = rt.container_id,
                                !.host_port = rt.host_port, !.polls = 0])
        /\ UNCHANGED <<containers, terminated, invocations, requests, lost>>

PollUnhealthy_NotCounted(t) ==
    /\ pc[t] = "health"
    /\ call[t].polls + 1 < kReadinessAttempts
    /\ UNCHANGED vars

PollUnhealthy(t) ==
    /\ pc[t] = "health"
    /\ call[t].polls + 1 < kReadinessAttempts
    /\ Move(t, "health", [call[t] EXCEPT !.polls = @ + 1])
    /\ UNCHANGED <<runtimes, mutex, containers, metrics, requests, lost>>

GiveUpStart(t) ==
    /\ pc[t] = "health"
    /\ call[t].polls + 1 >= kReadinessAttempts
    /\ FailStart(t)
    /\ RemoveContainers({call[t].container_id})

-----------------------------------------------------------------------------
\* The POST, with the lock released: only the copied host_port is used.

Post(t) ==
    /\ pc[t] = "post"
    /\ \E c \in ContainerIds :
        /\ Listening(c, call[t].host_port)
        /\ Move(t, "wait", [call[t] EXCEPT !.reached = @ \cup {c}])
    /\ UNCHANGED <<runtimes, mutex, containers, metrics, requests, lost>>

PostFails(t) ==
    /\ pc[t] = "post"
    /\ Move(t, "settle", [call[t] EXCEPT !.response = "failed"])
    /\ UNCHANGED <<runtimes, mutex, containers, metrics, requests, lost>>

\* The exchange ends: a response, a connection that closes without one, or,
\* when the spec has a timeout, the receive timeout.
Respond(t) ==
    /\ pc[t] = "wait"
    /\ \E r \in {"2xx", "non2xx", "failed", "timed_out"} :
        /\ r = "timed_out" => call[t].spec.timeout_ms > 0
        /\ Move(t, "settle", [call[t] EXCEPT !.response = r])
    /\ UNCHANGED <<runtimes, mutex, containers, metrics, requests, lost>>

-----------------------------------------------------------------------------
\* try_invoke after the POST: lock, look the function up again, and touch the
\* entry only if it still is the runtime that was called.

StillTracked_NameOnly(t) == runtimes[call[t].spec.name] # Null

StillTracked(t) ==
    LET rt == runtimes[call[t].spec.name]
    IN  rt # Null /\ rt.container_id = call[t].container_id

RetireIfTracked_Never(t) == UNCHANGED <<containers, lost, runtimes, terminated>>

RetireIfTracked_CountsAnyway(t) ==
    IF StillTracked(t) THEN Retire({call[t].spec.name}, {call[t].container_id})
    ELSE /\ terminated' = terminated + 1
         /\ UNCHANGED <<containers, lost, runtimes>>

RetireIfTracked(t) ==
    IF StillTracked(t) THEN Retire({call[t].spec.name}, {call[t].container_id})
    ELSE UNCHANGED <<containers, lost, runtimes, terminated>>

SettleTimeout(t) ==
    /\ pc[t] = "settle"
    /\ mutex = Null
    /\ call[t].response = "timed_out"
    /\ Move(t, "record", call[t])
    /\ RetireIfTracked(t)
    /\ UNCHANGED <<mutex, created, invocations, requests>>

\* A failed connection: retire the runtime; invoke() then tries once more
\* unless the runtime was created by this very call.
Retries_AfterColdStart(t) == call[t].attempt = 1

Retries(t) == ~call[t].cold_start /\ call[t].attempt = 1

SettleFailure(t) ==
    /\ pc[t] = "settle"
    /\ mutex = Null
    /\ call[t].response = "failed"
    /\ IF Retries(t)
       THEN Move(t, "enter",
                 [call[t] EXCEPT !.attempt = 2, !.response = "none",
                                 !.failed_id = call[t].container_id,
                                 !.container_id = Null, !.host_port = Null])
       ELSE Move(t, "record", call[t])
    /\ RetireIfTracked(t)
    /\ UNCHANGED <<mutex, created, invocations, requests>>

\* Any response leaves the runtime warm.
SettleReply_Reinserts(t) ==
    LET f == call[t].spec.name
    IN  /\ pc[t] = "settle"
        /\ mutex = Null
        /\ call[t].response \in {"2xx", "non2xx"}
        /\ Move(t, "record", call[t])
        /\ runtimes' = [runtimes EXCEPT ![f] =
                [container_id |-> call[t].container_id, host_port |-> call[t].host_port,
                 state |-> "IDLE", idle_ms |-> 0,
                 idle_timeout_ms |-> call[t].spec.idle_timeout_ms]]
        /\ UNCHANGED <<mutex, containers, metrics, requests, lost>>

SettleReply(t) ==
    LET f == call[t].spec.name
    IN  /\ pc[t] = "settle"
        /\ mutex = Null
        /\ call[t].response \in {"2xx", "non2xx"}
        /\ Move(t, "record", call[t])
        /\ runtimes' = IF StillTracked(t)
                       THEN [runtimes EXCEPT ![f] = Release(@)]
                       ELSE runtimes
        /\ UNCHANGED <<mutex, containers, metrics, requests, lost>>

\* metrics_.record_invocation and the return of invoke().
Record(t) ==
    /\ pc[t] = "record"
    /\ Move(t, "out", Null)
    /\ invocations' = [invocations EXCEPT ![call[t].cold_start] = @ + 1]
    /\ UNCHANGED <<runtimes, mutex, containers, created, terminated, requests, lost>>

-----------------------------------------------------------------------------
\* terminate(), called when a function is deleted.
Terminate(f) ==
    /\ mutex = Null
    /\ Tracked(f)
    /\ Retire({f}, {runtimes[f].container_id})
    /\ UNCHANGED <<mutex, pc, call, created, invocations, requests>>

Expired(f) ==
    /\ Tracked(f)
    /\ runtimes[f].state = "IDLE"
    /\ runtimes[f].idle_ms >= runtimes[f].idle_timeout_ms

\* One pass of reap_idle_runtimes.
Reap ==
    /\ mutex = Null
    /\ LET F == {f \in Names : Expired(f)}
       IN  Retire(F, {runtimes[f].container_id : f \in F})
    /\ UNCHANGED <<mutex, pc, call, created, invocations, requests>>

-----------------------------------------------------------------------------
\* Environment.

Tick ==
    /\ runtimes' = [f \in Names |->
                        IF Tracked(f) /\ runtimes[f].idle_ms < runtimes[f].idle_timeout_ms
                        THEN [runtimes[f] EXCEPT !.idle_ms = @ + 1]
                        ELSE runtimes[f]]
    /\ UNCHANGED <<mutex, containers, pc, call, metrics, requests, lost>>

\* A container crashes, is killed, or is removed behind the manager's back.
ContainerDies(c) ==
    /\ containers[c].status = "up"
    /\ containers' = [containers EXCEPT ![c].status = "down"]
    /\ UNCHANGED <<runtimes, mutex, pc, call, metrics, requests, lost>>

\* The control plane stops and starts again.  Runtimes and metrics are not
\* persisted, and containers left from before are not adopted.
Restart ==
    /\ runtimes' = [f \in Names |-> Null]
    /\ mutex' = Null
    /\ pc' = [t \in Threads |-> "out"]
    /\ call' = [t \in Threads |-> Null]
    /\ created' = 0
    /\ terminated' = 0
    /\ invocations' = [b \in BOOLEAN |-> 0]
    /\ requests' = 0
    /\ lost' = lost \cup {c \in ContainerIds : Present(c)}
    /\ UNCHANGED containers

-----------------------------------------------------------------------------
Start(t) == RunContainer(t) \/ RunFails(t) \/ RunLeaves(t) \/ GetHostPort(t) \/ GetHostPortFails(t)
            \/ PollHealthy(t) \/ PollUnhealthy(t) \/ GiveUpStart(t)

Settle(t) == SettleTimeout(t) \/ SettleFailure(t) \/ SettleReply(t)

Enter(t) == ReuseRuntime(t) \/ BeginStart(t)

Step ==
    \/ \E t \in Threads : \/ \E s \in Specs : Invoke(t, s)
                          \/ Enter(t)
                          \/ Start(t)
                          \/ Post(t)
                          \/ PostFails(t)
                          \/ Respond(t)
                          \/ Settle(t)
                          \/ Record(t)
    \/ \E f \in Names : Terminate(f)
    \/ Reap
    \/ Tick
    \/ \E c \in ContainerIds : ContainerDies(c)

Next == Step \/ Restart

Spec == Init /\ [][Next]_vars

\* One life of the control plane, without restarts.
StepSpec == Init /\ [][Step]_vars

\* A thread that can go on does, whatever the backend answers; a POST ends
\* when it has a timeout to end it; the reaper keeps passing; time passes.
Fairness ==
    /\ \A t \in Threads :
        /\ WF_vars(Enter(t))
        /\ WF_vars(Start(t))
        /\ WF_vars(Post(t) \/ PostFails(t))
        /\ WF_vars(call[t] # Null /\ call[t].spec.timeout_ms > 0 /\ Respond(t))
        /\ WF_vars(Settle(t))
        /\ WF_vars(Record(t))
    /\ WF_vars(Reap)
    /\ WF_vars(Tick)

LiveSpec == StepSpec /\ Fairness

-----------------------------------------------------------------------------
\* Properties.

\* Every variable has its type.  In particular no entry that another thread
\* can see is STARTING: try_invoke assigns BUSY before it unlocks.
TypeOK ==
    /\ runtimes \in [Names -> Runtime \cup {Null}]
    /\ mutex \in Threads \cup {Null}
    /\ containers \in [ContainerIds -> Container]
    /\ pc \in [Threads -> Locations]
    /\ call \in [Threads -> Call \cup {Null}]
    /\ created \in Nat
    /\ terminated \in Nat
    /\ invocations \in [BOOLEAN -> Nat]
    /\ requests \in 0..MaxRequests
    /\ lost \in SUBSET ContainerIds

\* c is the container of the start that thread t is performing.
StartedBy(c, t) == pc[t] \in {"port", "health"} /\ call[t].container_id = c

TrackedBy(c, f) == Tracked(f) /\ runtimes[f].container_id = c

\* A container that exists is accounted for: it serves a function, or a start
\* that holds the lock owns it, or its removal failed.  No order of timeouts,
\* failures, deletes, reaper passes and replies makes the manager forget one.
NoUntracked ==
    \A c \in ContainerIds : Present(c) =>
        \/ c \in lost
        \/ \E f \in Names : TrackedBy(c, f)
        \/ \E t \in Threads : StartedBy(c, t)

\* The table never points at a container the manager has removed or given
\* up, and no two functions share one: still_tracked keeps late finishers off.
TableIsLive ==
    \A f \in Names : Tracked(f) =>
        /\ Present(runtimes[f].container_id)
        /\ runtimes[f].container_id \notin lost
        /\ \A g \in Names \ {f} : ~TrackedBy(runtimes[f].container_id, g)

\* While a start runs, its function has no runtime and nothing else starts:
\* what holding mutex_ across run_container, get_host_port and the polls buys.
SingleStart ==
    \A t \in Threads : pc[t] \in Starting =>
        /\ ~Tracked(call[t].spec.name)
        /\ \A u \in Threads \ {t} : pc[u] \notin Starting

\* Runtimes created minus runtimes terminated, over all reasons, is the number
\* of active runtimes: each erase of an entry is counted once, by one thread.
MetricsConserve == created = terminated + Cardinality(TrackedNames)

ColdCallers == {t \in Threads : pc[t] # "out" /\ call[t].cold_start}

\* No cold start goes unreported: each runtime in runtimes_created_total, the
\* "cold starts" of its HELP text, has an invocation of its own that has been
\* or will be reported with cold_start = true, although calls fail and retry.
ColdStartsReported == created <= invocations[TRUE] + Cardinality(ColdCallers)

\* A BUSY runtime has a call in flight to it, which will settle its state: no
\* runtime is left BUSY, out of the reaper's reach, with nobody to release it.
BusyHasCaller ==
    \A f \in Names : Tracked(f) /\ runtimes[f].state = "BUSY" =>
        \E t \in Threads : /\ pc[t] \in InFlight
                           /\ call[t].spec.name = f
                           /\ call[t].container_id = runtimes[f].container_id

\* The second attempt never goes to the container the first one gave up on,
\* whoever else retired or replaced the runtime in between.
RetryElsewhere ==
    \A t \in Threads : pc[t] \in InFlight /\ call[t].attempt = 2 =>
        call[t].container_id # call[t].failed_id

\* A POST uses the port alone, copied before the unlock; the container may be
\* gone by then and the port another's.  While the container that was acquired
\* is up, no other can receive the input: entries, copies and starts of every
\* function agree with the backend about who has which port.
PostsReachOwn ==
    \A t \in Threads, c \in ContainerIds :
        pc[t] \in InFlight /\ Listening(c, call[t].host_port) =>
            c = call[t].container_id \/ containers[call[t].container_id].status # "up"

\* What the manager promises its callers, as an abstract specification: leases
\* of containers to functions.
Spent == {c \in ContainerIds : /\ containers[c].status # "unused"
                               /\ \A t \in Threads : ~StartedBy(c, t)}

Lease == [f \in Names |-> IF Tracked(f) THEN runtimes[f].container_id ELSE Null]

Pool == INSTANCE RuntimePool WITH lease <- Lease, spent <- Spent

\* The manager implements the pool: every step grants a new container to a
\* function without one, ends leases, wastes a failed start, or is invisible.
ImplementsPool == Pool!Spec

\* Every invocation of a function with a timeout returns, whatever fails.
CallsComplete ==
    \A t \in Threads :
        (pc[t] = "enter" /\ call[t].spec.timeout_ms > 0) ~> (pc[t] = "out")

\* Scale to zero: when requests stop coming, a function whose specs all have a
\* timeout ends up without a runtime, even if calls of others never return.
ScaleToZero ==
    \A f \in Names :
        (\A s \in Specs : s.name = f => s.timeout_ms > 0) => <>[](~Tracked(f))

-----------------------------------------------------------------------------
\* The inductive invariant behind the safety properties.

\* A thread inside invoke() has locals; mutex_ is held exactly by the thread
\* that is starting a runtime.
ControlInv ==
    \A t \in Threads :
        /\ pc[t] # "out" => call[t] # Null
        /\ mutex = t <=> pc[t] \in Starting

\* A container that was ever run has an image and a port; only such a
\* container can be lost.
ContainersInv ==
    \A c \in ContainerIds :
        /\ containers[c].status # "unused" => containers[c].port \in Ports
        /\ c \in lost => containers[c].status # "unused"

\* The container of a start belongs to that start alone.
StartInv ==
    \A t \in Threads :
        /\ pc[t] \in Starting => ~Tracked(call[t].spec.name)
        /\ pc[t] = "health" => call[t].host_port \in Ports
        /\ pc[t] \in {"port", "health"} =>
            /\ call[t].container_id \in ContainerIds \ lost
            /\ Present(call[t].container_id)
            /\ \A f \in Names : ~TrackedBy(call[t].container_id, f)

\* c has been run and can never again become the runtime of anyone but f.
Old(c, f) ==
    /\ c \in ContainerIds
    /\ containers[c].status # "unused"
    /\ \A t \in Threads : ~StartedBy(c, t)
    /\ \A g \in Names : TrackedBy(c, g) => g = f

\* A call in flight holds the id of a container that can only belong to its
\* function; a second attempt remembers a container that belongs to nobody.
CallInv ==
    \A t \in Threads :
        /\ pc[t] \in InFlight =>
            /\ Old(call[t].container_id, call[t].spec.name)
            /\ call[t].host_port \in Ports
        /\ pc[t] # "out" /\ call[t].attempt = 2 =>
            /\ Old(call[t].failed_id, call[t].spec.name)
            /\ \A g \in Names : ~TrackedBy(call[t].failed_id, g)

\* No single property above survives every step on its own: a late finisher
\* is harmless only because the id it holds is Old, and that in turn needs the
\* lock, the table and the ids of the starts to agree.
IndInv ==
    /\ TypeOK
    /\ ControlInv
    /\ ContainersInv
    /\ StartInv
    /\ CallInv
    /\ TableIsLive
    /\ NoUntracked
    /\ BusyHasCaller
    /\ RetryElsewhere

\* What PostsReachOwn needs beside IndInv: every copy of a port is the one its
\* container was given, and containers that are up have different ones.
PortInv ==
    /\ \A f \in Names : Tracked(f) =>
            runtimes[f].host_port = containers[runtimes[f].container_id].port
    /\ \A t \in Threads : pc[t] \in InFlight \cup {"health"} =>
            call[t].host_port = containers[call[t].container_id].port
    /\ \A c, d \in ContainerIds :
            Listening(c, containers[d].port) /\ containers[d].status = "up" => c = d

\* What ColdStartsReported needs beside IndInv: an invocation enters a start as
\* a warm one, on both attempts, so only the end of a start makes it cold.
ColdInv ==
    \A t \in Threads : pc[t] \in Starting \cup {"enter"} => ~call[t].cold_start

\* The code even reports no others as cold, which is less than docs/api.md
\* promises: there a failed start (its lines 132-143) and every retry are cold
\* too.  RetryIsCold shows a retry that is not.
ColdCount == created = invocations[TRUE] + Cardinality(ColdCallers)

-----------------------------------------------------------------------------
\* What the documentation says and the code does not do.

\* runtime_manager.hpp: connection_failed is set "when the call could not reach
\* the container at all"; only such a call is retried.
RetryOnlyUnreached ==
    \A t \in Threads :
        pc[t] = "enter" /\ call[t].attempt = 2 => call[t].reached = {}

\* docs/api.md: a dead warm runtime is retried "against a freshly created
\* runtime": the response reports success, "just with cold_start: true".
RetryIsCold ==
    \A t \in Threads :
        pc[t] = "record" /\ call[t].attempt = 2 /\ call[t].response = "2xx" => call[t].cold_start
=============================================================================
