# A TLA+ model of the serverless platform's control plane

The platform (`control-plane/`, `common/`, `cli/`) runs user functions in
containers: a control plane keeps a registry of functions in SQLite, starts a
container for a function when it is first invoked, keeps it warm, forwards
invocations to it over HTTP and removes it when it has been idle for long
enough. This directory models the parts where requests, the reaper, containers
and crashes meet, checks them with TLC on small instances and proves the main
safety properties with TLAPS for every instance.

## 1. Inventory

| Component | State | Operations | What is hard | What makes it correct |
|---|---|---|---|---|
| Runtime manager (`runtime_manager.cpp`) | `runtimes_` (one runtime per function), `mutex_` | `invoke` / `try_invoke` / `start_runtime`, `terminate`, `reap_idle_runtimes`, `status`, `list_runtimes` | the lock is held across a whole cold start and released across the POST; calls, timeouts, retries, deletes and the reaper act on the same entry | no container is forgotten, none is used after it was given up, starts exclude each other, metrics add up, calls return, idle functions scale to zero |
| Request handlers (`main.cpp`) | none of their own | one lambda per route | each is a sequence of store and manager calls that other requests interleave with | answers are about the request's own work; deletes and deploys take effect |
| SQLite connection (`database.cpp`) | the two tables, the mutex, `changes()`, `last_insert_id()` | `Statement` | the last two belong to the connection, not to a statement | they are read before another statement can run |
| Function registry, invocation store | rows | upsert + select, select, delete; insert, lookup | `register_function` is two statements | verdicts and ids are the caller's own, also after crashes |
| HTTP client (`http_client.cpp`) | one socket | `request` | a peer may stall, close or reset anywhere; timeouts are per socket call | the outcome fits what happened; a timeout bounds the call |
| Metrics (`metrics.cpp`) | counters, histograms, their own mutex | `record_*`, `render` | table and counters change in two steps, and a scrape reads them at two moments | counters agree with the table; a scrape is consistent; histograms count what was recorded |
| Container backends (`docker_client.cpp`, `kubernetes_client.cpp`, `shell_exec.cpp`) | containers or pods outside the process | `run_container`, `get_host_port`, `remove_container` | each is one or several shell commands that may fail, also after they took effect; pod names can repeat | an id names nothing else; a failed operation leaves nothing behind unless its clean-up failed too |
| HTTP server (`http_server.cpp`) | routes | `route`, `listen`, `handle_connection`, `stop` | a detached thread per connection, reads that may be split anywhere, clients that stall; `stop()` against a blocked `accept` | the right handler runs once and with the body that was sent; no thread waits for nothing |
| CLI (`cli/src/main.cpp`) | none | commands, unit parsers | flags that take the next argument, `int` products, lost or cut responses, uncaught exceptions | values are what was typed; the exit code says what happened |

How they interact: the server calls a handler on a thread of its own for every
connection; handlers call the registry, the manager and the invocation store one
after the other, with no lock around the sequence; both stores share one
connection and its mutex; the manager has its own mutex and calls the backend
and the HTTP client; the reaper is the manager's second kind of thread. The
database's mutex is never held together with another one; the metrics' mutex is
taken last and only within one call. The CLI is a client of the routes.

`PROJECT.json` lists the hazards with their lines, the properties that cover
each, and every component with what is left out.

## 2. Modules

| Module | Models |
|---|---|
| `RuntimeManager` | the runtime manager in full, with the containers, ports and HTTP exchanges it sees, and restarts |
| `RuntimePool` | what the manager promises: leases of containers to functions |
| `RuntimeManagerProofs` | the proofs about the manager, and that it implements `RuntimePool` |
| `ControlPlane` | the handlers over the registry, the invocation store, the shared connection, and over `RuntimePool` in place of the manager |
| `AtomicStore` | what the registry and the invocation store promise: operations that take effect at one moment |
| `ControlPlaneProofs` | the proofs about the stores and handlers, and that they implement `AtomicStore` |
| `ContainerBackend` | what the manager relies on when it calls a backend |
| `KubernetesBackend`, `KubernetesBackendProofs` | the Kubernetes backend command by command, and the proofs about it |
| `Metrics`, `MetricsProofs` | the registry of metrics and `GET /metrics`, against the manager's threads, and the proofs about it |
| `Cli`, `CliProofs` | runs of the command line client against the routes of `Routing`, and the proofs about them |
| `HttpClient`, `HttpClientProofs` | one request of the HTTP client against an arbitrary peer, and the proofs about it |
| `Routing`, `RoutingProofs` | `split_path`, `match`, the choice of the handler, and the routes of `main.cpp`, as operators, and the proofs about them |
| `HttpServer`, `HttpServerProofs` | `listen`, `stop` and the thread of each connection, and the proofs about them |
| `MC_RuntimeManager`, `MC_ControlPlane`, `MC_HttpServer`, `MC_Kubernetes`, `MC_Metrics`, `MC_Cli` | instances for TLC |

`ControlPlane` composes the handlers with the manager at the level of
`RuntimePool`: it uses that module's `Grant`, `Waste` and `End` as the effect of
the manager's calls. That `RuntimeManager` has no other effects on its table is
what `ImplementsPool` checks and the theorem `Refinement` proves. In the other
direction `RuntimeManager` uses backends through what `ContainerBackend` allows:
a run may succeed with an id that this process has not seen, fail, or fail and
leave a container (`RunLeaves`), and a removal may fail. `ImplementsBackend` and
the theorem `KubernetesImplements` show that the Kubernetes backend keeps to
that. Docker's operations are one command each and appear directly as steps of
`RuntimeManager`.

### RuntimeManager

`mutex_` is the variable `mutex`. A cold start holds it over several steps
(`BeginStart`, `RunContainer`, `GetHostPort`, `PollHealthy` ...). Every other
critical section is one step, enabled when the mutex is free: what happens
inside it is invisible to others. Between the unlock and the second lock of
`try_invoke` a thread is at `post`, `wait` or `settle` and owns only what it has
copied, its container id and host port. The settle actions re-read the table as
the code does (`StillTracked`).

- `idle_ms` stands for `now - last_used_at` and stops counting at the timeout.
- A container is `up` (listening on its host port), `down`, or `removed`. It can
  die at any moment. A port is free for reuse as soon as nothing listens on it.
- `remove_container` may fail; the code ignores that. Such containers, and all
  that exist when the control plane restarts, are recorded in `lost`.
- `lost`, `failed_id` and `reached` are history that the code does not keep.
- Metrics are the totals over statuses and reasons; `Metrics` has the labels.

### ControlPlane

A `Statement` takes the connection's mutex when it is constructed (`Prepare`),
is stepped (`Upsert`, `Select`, `Delete`, `Insert`, `Lookup`) and releases it
when it is destroyed. For DELETE and INSERT the read of `changes()` and
`last_insert_id()` is a step of its own with the lock still held. An insert of a
function also moves `last_insert_id`. A crash, also the one a throwing statement
causes because nothing catches it on a request thread, keeps the tables and
forgets the rest. A row's `input` is the number of its request, so that rows of
different requests are told apart. Dereferencing the empty optional in
`register_function` is undefined: the request goes on with no record (`spec =
Null`) or the process crashes. A body without name or image and an id that is no
number are answered before any statement (`Refuse`).

`AtomicStore` is the abstract store: a call, one moment at which it takes effect,
a result. `Op` maps a handler to it. Once a DELETE or INSERT has been stepped, its
result there is what the connection's counter says, so a statement of another
thread that moved the counter would be a step the abstract store does not have.
`register_function` is two operations in it, because it is two in the code.

### KubernetesBackend

Pod and service of one name are two objects. Every `kubectl` command may succeed,
fail, or fail after the cluster has carried it out (`kubectl run` and `expose`);
pods terminate later than they are deleted (`--wait=false`); objects may be
removed by others; the process may end between any two commands. A name is the
clock modulo `ClockWrap` (10000000 in the code) and a counter that starts again
with the process, so names do repeat. `excused` is history: the objects that a
command which failed on them, or a crash, left behind. The manager's mutex lets
one operation run at a time. For the interface, `Used` are the names the counter
has gone past.

`RuntimeManager` never uses an id twice, not even after a restart, where the
interface allows it for an id under which nothing is left. Nothing in the new
process remembers the old id, so this is only a choice of names.

### Metrics

The manager changes table and counters with its mutex held, but in two steps
(`Emplace` and `RecordCreated`, `Erase` and `RecordTerminated`), and records an
invocation later without it. A scrape counts the table under the manager's mutex
(`ListRuntimes`), then renders under the registry's (`Render`). Each critical
section of the registry is one step. Starts and removals of containers are left to
`RuntimeManager`; here they have the outcomes that reach the metrics. `log` is
history, the reference for the histograms. `sum_ms` is left out: it is a
floating-point sum, and equal to the sum of `log` up to rounding.

### Cli

Arguments are records of what the client looks at: whether they begin with `--`,
their text as path tokens, the numbers that `stoi` and `stod` read at their
beginning (the second in tenths), the unit they end with, and the function they
describe if they are such a JSON document. Parsers and commands are operators on
them; a `Null` result is an uncaught exception, which ends the run with `Abort`.
Ints have `IntMax` as their largest value and products wrap, as the build computes
them. `IdleTimeoutEnv` is what the control plane reads from
`FAAS_IDLE_TIMEOUT_MS`. A run sends one request, which the control plane serves,
serves after the run has given up, or never; responses may be lost or cut after
the headers. The routes are `Routing`'s, the handlers their effect on the
functions table. Several runs share the table. `POST /functions` registers
whatever its body describes, also when it is the `--data` of an `invoke '?'`,
whose path ends at the `?`.
`parse_args` is a recursive function over the positions of the argument list.
`FirstWord` and `FlagValue` are the reference for it: they look at positions and
know nothing of a loop (an argument is a flag's value if an odd number of flags
stand right before it).

### HttpClient

Bytes are counted in units. The peer sends the response unit by unit and may
stop, close or reset at any point; `waited` is how long the current socket call
has been blocked, and the kernel's timeout can end it once that reaches
`timeout_ms`, in `connect` and `send` as well as in `recv`. `send` is called once
and may be short; to a peer that is gone it may also end the process, because
SIGPIPE is not blocked. A reset may or may not discard what arrived before it.

### HttpServer and Routing

Bytes are counted in units here too. The listening thread, the thread in
`stop()`, one thread per connection and its client interleave freely; a client
sends its request in pieces, may send more than it announced, stall, close or
reset. `shutdown` and `close` in `stop()` are one step: nothing can be accepted
between them. A malformed `Content-Length` and a handler that throws end the
process, since nothing catches the exception, and so may the `send` of a response
to a client that is gone (SIGPIPE). Routing is pure: a path is a
sequence of slashes, `?` and words, and `Decision` tabulates `Dispatch` for the
requests of the instance. `RoutesAgree` (through `TableAgrees`) compares it with
a reference that fills words into the patterns; the run does so for every path
of up to four words, the proof for all.

## 3. Runs

Passing runs:

| Run | Instance | Shows |
|---|---|---|
| `lifecycle` | 2 functions, 2 threads, 2 containers, 2 ports, 2 polls, 3 requests per life, restarts | `TypeOK`, `NoUntracked`, `TableIsLive`, `SingleStart`, `PostsReachOwn`, `MetricsConserve`, `ColdStartsReported`, `BusyHasCaller`, `RetryElsewhere`, the inductive invariant `IndInv` of the proofs, and `ImplementsPool` |
| `liveness` | 2 functions, one with and one without a timeout, 2 threads, 2 polls | `CallsComplete`, `ScaleToZero` |
| `handlers` | 1 function in 2 versions, with and without a timeout, 2 threads, 3 requests, crashes | `VerdictIsOwn`, `IdsStayValid`, `StoreInv`, `HandlersReply`, and `ImplementsStore` |
| `http_server` | 2 connections, requests of 1 or 2 units of headers and up to 1 of body and 1 beyond, header limit 2, `stop()` at any moment, fair scheduling; paths of up to 4 of 6 words | `BodyAsSent`, `NoSilentClose`, the invariant `ServerInv` of their proofs, `RoutesAgree`, `ConnectionsEnd`, `ListenReturns` |
| `http_client` | request of 2 units, 2 units of headers, 2 of body, timeouts 0 and 2 | `OutcomesExclusive`, `WholeResponseDelivered`, `ClientInv`, `RequestEnds` |
| `kubernetes` | 2 clock values, 2 runs per process, restarts, 3 images | `NoStrays`, `DeletesOwnPod`, `BackendInv`, and `ImplementsBackend` |
| `metrics` | 2 functions, 2 request threads that invoke, delete or scrape, the reaper, 2 buckets, 3 durations, 2 invocations | `ScrapeConsistent`, `HistogramsCumulative`, `HistogramExact`, `MetricsInv` |
| `cli` | one run with every short command line, one other run beside it, ints of 18 bits, a platform idle timeout that is not the client's | `ExitTruthful`, `DeployedAsTyped`, `AbortChangesNothing`, and the invariant `CliInv` of the proofs |

Why the bounds are enough: two threads make every pair of critical sections
overlap; three requests allow a cold call, a warm call that overlaps another,
and two retries of one dead runtime; two containers allow the one that failed and
its replacement, one of each function, or one of each life; two ports make a port be reused while a call still holds its number; in
`handlers`, three requests are a deploy, an invocation and a delete, or two of
one kind and another; in `http_server`, one connection may stall while the other
is served, and a unit may arrive with the headers, after them or beyond the
announced length; in `kubernetes`, two values of each part of a name make a
name come again after a restart and after the clock has wrapped; in `metrics`,
the durations lie on a bound, between the bounds and beyond them, and with an
invocation on one thread the other can scrape at every moment; in `cli`, three
arguments after the first ones allow a flag as a flag's value, a repeated flag
and a flag at the end, and with 18 bits `2m` fits an `int` while `200s` does not.
Runs of the client end, and a server that was stopped or died does nothing more, so
`cli` and `http_server` do not check for deadlock. Requests are counted per life
of the control plane, so restarts do not use up the bound; container ids are never reused, as with Docker. The theorems
hold without the bounds. Threads, containers and ports are symmetric.

Runs that end in a violation each check one statement of the repository's docs or
comments which the code does not keep; `PROJECT.json` quotes the lines.

| Run | What happens |
|---|---|
| `retry_only_unreached` | a container accepts the POST and dies; the call is sent again to a new one |
| `retry_is_cold` | two calls of a dead runtime are retried; the second reuses the runtime the first one made and reports a warm call |
| `registered_is_returned` | another deploy or a delete runs between the two statements of `register_function` |
| `deleted_has_no_runtime` | an invocation has its spec, a DELETE completes, the invocation cold-starts a runtime of a function that is gone |

The models also contain, without a run of their own:

- a failed start, whose 502 says `cold_start: false` (`docs/api.md:132-143` shows
  `true`);
- overlapping calls of one runtime, of which the first to end marks it IDLE under
  the others, so that the reaper may remove it (`docs/architecture.md:75-76`:
  BUSY is "currently executing an invocation");
- a connection that breaks inside the body: the result is `ok`
  (`http_client.hpp:16`: "true if a complete response was read");
- a timeout that elapses in `connect` or `send`: the result is a failure, which
  the manager retries (`http_client.hpp:17`: "true if timeout_ms elapsed waiting
  on the socket");
- a redeploy that leaves the warm runtime, which goes on serving the old image
  (`docs/api.md:31-32`: "Registering a name that already exists replaces it");
- a removal that fails, after which nobody knows the container any more;
- a POST to a port that went to another function's container, which can happen
  once the call's own container is gone (`PostsReachOwn` says: only then);
- a service whose `kubectl expose` reported a failure, and a pod whose `kubectl
  run` did: nobody removes them, and a later run that gets their name fails;
- a request that the client has given up on and that is served later: a stale
  deploy may replace a newer one although its run exited with 1;
- command lines that reach something else than they name: `delete 'f?x'` deletes
  `f`, `describe f/runtime` asks for the runtime, `invoke '?'` reaches the deploy
  route and registers the function that its `--data` describes; names with `/` can be deployed and then not be addressed;
- an empty `--idle-timeout`, which deploys 60000 ms whatever the platform's
  default is;
- values that are not what was typed: `1h` is 1 ms, `1.5s` is 1000 ms, and a
  product beyond the range of `int` wraps (undefined behaviour in C++).

Every property of a passing run has a mutant in `PROJECT.json`: a changed
definition (`Name_Change`, next to the original) that a plausible slip in the
code would produce and that violates the property.

## 4. Fairness

`RuntimeManager!LiveSpec` has no restarts and asks for weak fairness only: a
thread that may go on does, backend commands end, the reaper keeps passing and
time passes. The end of a POST is fair only for a function with `timeout_ms > 0`,
because `SO_RCVTIMEO` is set only then; `RequestEnds` in `HttpClient` is the
justification, and shares its limit: each received byte restarts the wait, so a
peer that trickles bytes for ever is excluded by the finite response. Fairness
of mutex acquisition is not assumed beyond weak fairness; it suffices because
the number of requests is bounded. A function without a timeout may hang for
ever, and `ScaleToZero` then still holds for the others.

In `ControlPlane` statements end, and a manager's call ends if its function has a
timeout: `CallsComplete` is the justification and has the same limit. A handler in
the call of a function without one is `Unbounded`; `HandlersReply` says that every
other request is answered.

In `HttpClient` nothing is assumed of the peer, and in `HttpServer` nothing of the
clients. A thread of the server takes the steps it can, with two exceptions
(`Unbounded`): in the handler of invoke, whose function may have no timeout, and in
`send`, which waits as long as a client leaves its response unread (there is no
`SO_SNDTIMEO`) unless the client has reset the connection. Other handlers return
because of `HandlersReply`. `ConnectionsEnd` therefore says: once the client has
sent what it announced, or has ended, its connection is closed or its thread is in
one of these two waits. Nobody need call `stop()`.

`KubernetesBackend`, `Metrics` and `Cli` state safety only and assume no fairness.

## 5. Proofs

Assumptions on constants are the named `ASSUME`s: names and threads are finite
sets, `kReadinessAttempts > 0`, a spec names a function, bucket bounds are
ascending numbers, sizes of a request are numbers, an `int` has room for the
default of 60000 ms, `FAAS_IDLE_TIMEOUT_MS` is a number or not used, an argument
has a text, integers or none for the numbers it begins with, a unit, and a document
or none, a word between slashes is neither `/` nor `?`
(`RoutingAssumption`), and `Null` is a fresh value (for the server: neither a
request nor an answer; for the client: no flag, argument, document, exit code, response or
command line).
TLC evaluates all of them on the instances of the runs.

Induction over data. The library's induction theorems take an operator as a
parameter and cannot be used with these provers. `RoutingProofs` therefore
derives, from the fact that `<` on `Nat` is well-founded, that every set of
naturals that is not empty has a least element (`LeastElement`), and from that
induction for sets (`SetInduction`: a set with 0 and with `n + 1` for each of
its `n` contains `Nat`). A proof by induction defines the set of positions up
to which its claim holds. This is how the two loops of the model over data of
any length, `split_path` and `parse_args`, are proved.

**Runtime manager.** None of the properties is inductive. A late finisher is
harmless only because the id it holds can no longer become the runtime of
another function, so `IndInv` adds: who has the mutex (`ControlInv`), what was
ever run or lost (`ContainersInv`), that the container of a start is nobody
else's (`StartInv`), and that ids held by calls in flight or given up by a first
attempt are `Old`: run before, not being started, and at most the runtime of the
call's own function (`CallInv`). The proof has one lemma per action. Steps that
change neither table nor containers are `Quiet` and share one argument; the four
ways to retire runtimes share `RetireEffect`.

Proved from it: `TypeOK`, `NoUntracked`, `TableIsLive`, `SingleStart`,
`BusyHasCaller`, `RetryElsewhere`. For `PostsReachOwn` a second invariant,
`PortInv`, rides on the first: every copy of a port, in the table and in a call,
is the one its container was given, and containers that are up have different
ones; `CallInv` is what keeps a copy in a call from being about a new container.
The last part of `RuntimeManagerProofs` classifies every step by its effect on leases, spent containers and counters (hidden, granted,
wasted, ended, forgotten); `Refinement` (`Spec => Pool!Spec`) and
`MetricsAgree` both follow from that classification. `ColdStartsAgree` counts
the calls that were made cold and have not returned; its extra invariant
`ColdInv` says that a call enters a start warm, also on its second attempt, so
that only the end of a start makes it cold. The code even satisfies the equality
`ColdCount`, on which the proof goes; the property asks only that no runtime is
created without a cold start being reported, because the docs report some more:
failed starts and every retry (`retry_is_cold`).

**Control plane.** `StoreInv` says that a stepped statement still has the mutex
and that the connection's counters are then its own. A step of a thread changes
rows and counters only while that thread has the mutex (`OwnStep`), so
what others know stays true (`OthersKeep`). Proved: types, `VerdictIsOwn`,
`IdsStayValid`, and the refinement `StoresAreAtomic` (`ImplementsStore`). For
the refinement, `OpAt` computes the abstract operation of a thread from where
it is, and `OthersOps` shows that a step leaves the operations of other threads
alone: their results are read from `changes` and `last_insert_id` only while
they have the mutex, which is what `StoreInv` adds. Each action is then a call,
the moment at which an operation takes effect (`Upsert`, `Select`, `Delete`,
`Insert`, `Lookup`), the end of an operation, or unseen.

**HTTP client.** `ClientInv` adds that nothing is classified before the end and
that what was read was sent. Proved: `OutcomesExclusive`,
`WholeResponseDelivered`, for all sizes and timeouts.

**Kubernetes backend.** `NoStrays` is not inductive: that a failed start deletes
its own pod, and not one an earlier process left under the same name, rests on
`OperationInv`. A pod that is being started was created by that very start
(`kubectl run` refuses a name that exists), names of held ids are below the
counter, and leftovers are exactly the excused objects. Proved for every clock
range and number of runs: `BackendInv`, `NoStrays`, `DeletesOwnPod`, and
`ImplementsBackend`, where a step changes the status of at most one id and an id
is handed out with a counter no earlier one of the process has.

**Metrics.** A page is consistent because the table and the counters agree at
every moment at which a scrape may look, which is not all moments: `TableInv`
says by how much they differ between the two steps of an emplace or an erase,
`LockInv` that the thread between them has the manager's mutex, `ColdInv` that
every runtime counted as created and not yet as a cold call belongs to a thread
on its way to record it, and `GaugeInv` that a gauge already read is bounded by
the counter, which only grows. The histograms need `CountInv` (buckets exist from
the first observation on) and the lemma `ObserveExact`, that one observation
adds one to exactly the buckets at or above it. Cardinalities are those of
`FiniteSetTheorems`. Proved for any functions, threads, requests and buckets:
`MetricsInv`, `ScrapeConsistent`, `HistogramsCumulative`, `HistogramExact`.

**HTTP server.** `BodyAsSent` is about the moment of the answer and has to
survive everything a client does later, so `ConnInv` relates what a thread has
read to what its client has sent, for each place of the thread: no more than was
sent, at least the headers once the body is being read, and, if the client is
still open, at least the announced length once there is an answer. The proof goes
connection by connection (`OtherConnection`): a step of one leaves the others'
wires alone, and the steps of `listen` and `stop` touch none. Proved for any
connections, requests, sizes and limits: `ServerInv`, `BodyAsSent`,
`NoSilentClose`.

**Routing.** `split_path` is followed position by position (`SplitAlternating`):
on a path that alternates slashes and words it leaves the words, also with
slashes or a query behind them. That gives the segments of the nine patterns,
and with them that no two routes of one method fit the same segments
(`RoutesApart`), so that the order of registration does not matter. Filling
words into a pattern and matching are the same (`FillingsAreMatches`), hence
`RoutesFollowPatterns` for every set of words and every length of path, and
`RoutesAgree` of the server from it.

**CLI.** The invariant has two layers. `ClientInv`: a request on its way is the
one its command line asks for, so what a run may still do is known from its
command (`RunInv`); an effect exists only once the request was served; `Times`
wraps, hence the table holds ints whatever was typed or sent as JSON, for the
settings that the code keeps in an `int`. `AnswerInv` rides on it:
a request that was served and not refused did what the command line names,
whether or not the run learns of it, and an outcome `success` is of an
invocation that ran. The second layer needs what the words of a command line
mean:

- `HasRead` says, for each position, that the loop of `parse_args` has collected
  the words and the flags' last values up to there; `ReadNext` is one turn, and
  `FirstWordRead` and `FlagValueRead` compare the end with the reference;
- `ConvertExact` says that a number whose product is an `int` is converted
  exactly, by the units the client knows, and `ConvertEmpty` what a flag without a
  value deploys; `BodySent` says that only deploy and invoke send a function;
- `CommandRoutes` says where the request of each command arrives: through the
  path it writes, `split_path` and the table of routes (`RP!FunctionRoutes`), with
  the name it was given if that has no `/` or `?` in it. Hence an invocation that
  registers something has such a name, and `DeployedAsTyped` says what it registers.

Proved for any runs, command lines of any length and size of `int`: `CliInv`,
`ExitTruthful`, `DeployedAsTyped`, `AbortChangesNothing`.

Every invariant and action property that a run checks is stated by a theorem.
Only model-checked are the liveness properties (`CallsComplete`, `ScaleToZero`,
`HandlersReply`, `RequestEnds`, `ConnectionsEnd`, `ListenReturns`): fairness and
`ENABLED` are outside what the prover handles.

## 6. Not modelled

- Header fields other than `Content-Length`, the text of responses, what the CLI
  prints, the layout of `/metrics` and its `sum_ms`.
- The output of `docker` and `kubectl` beyond its verdict, and images that a
  shell could misread beyond the guard `is_safe_token`.
- `/health`, `FunctionRegistry::list` (no handler calls it), the creation of the
  tables, and waiting for another process that has the database locked.
- Sample functions, benchmarks and deployment files: a function container is an
  environment that may answer, stall or die.
- `memory_mb`, `cpu`, `max_concurrency` and `version` after they are stored: the
  code does not use them. `Cli` follows them up to the table.

## 7. Plan

1. Done: the modules above, their runs and theorems; every component that keeps
   state is modelled.
2. Done: proofs of all safety properties, of the three refinements (pool, store,
   backend), and of the two loops over data (`split_path`, `parse_args`).
3. Left: the schema creation and `SQLITE_BUSY` of the connection; liveness stays
   with TLC.
