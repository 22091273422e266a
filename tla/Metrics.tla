------------------------------ MODULE Metrics ------------------------------
(***************************************************************************)
(* The metrics registry (control-plane/src/metrics.cpp) and GET /metrics   *)
(* (main.cpp) against the threads of the runtime manager that update it.   *)
(*                                                                         *)
(* The manager changes its table and the counters with its own mutex_      *)
(* held, but in two steps; an invocation is recorded later, without it.  A *)
(* scrape reads the table under mutex_ and the registry afterwards, under  *)
(* the registry's mutex only.  Each record_* and render() is one critical  *)
(* section and therefore one step.                                         *)
(***************************************************************************)
EXTENDS Naturals, Sequences, FiniteSets

CONSTANTS Names,       \* function names
          Threads,     \* request threads
          Reaper,      \* the reaper thread
          kBucketsMs,  \* upper bounds of the histogram's buckets
          Durations,   \* durations an invocation may have
          MaxRequests, \* bound: invocations
          Null

Actors == Threads \cup {Reaper}

Statuses == {"success", "error", "timeout", "infra_error"}

Reasons == {"idle_timeout", "deleted", "timeout", "dead"}

Locations == {"out", "enter", "emplaced", "post", "erased", "record", "render", "respond"}

Buckets == 1..Len(kBucketsMs)

ASSUME MetricsAssumption ==
    /\ IsFiniteSet(Names)
    /\ IsFiniteSet(Threads)
    /\ Reaper \notin Threads
    /\ Null \notin Actors
    /\ kBucketsMs \in Seq(Nat)
    /\ kBucketsMs # <<>>
    /\ \A i, j \in Buckets : i <= j => kBucketsMs[i] <= kBucketsMs[j]
    /\ Durations \subseteq Nat
    /\ MaxRequests \in Nat

VARIABLES
    runtimes,            \* names that have a runtime
    mutex,               \* owner of the manager's mutex_, or Null
    pc, call,            \* where each thread is, and its locals
    requests,            \* invocations begun
    invocation_counts,   \* invocation_counts_
    duration_histograms, \* duration_histograms_; no bucket_counts before the first use
    created,             \* runtimes_created_
    terminated,          \* runtimes_terminated_
    log                  \* history: the durations recorded, by cold_start

registry == <<invocation_counts, duration_histograms, created, terminated, log>>

vars == <<runtimes, mutex, pc, call, requests, registry>>

Histogram == [bucket_counts : [Buckets -> Nat] \cup {<<>>}, count : Nat]

\* What one scrape reports.
Page == [active : Nat, created : Nat, terminated : [Reasons -> Nat],
         invocations : [Statuses \X BOOLEAN -> Nat],
         histograms : [BOOLEAN -> Histogram]]

Call == [name : Names \cup {Null}, retried : BOOLEAN, cold_start : BOOLEAN,
         status : Statuses \cup {Null}, reason : Reasons \cup {Null},
         active : Nat, page : Page \cup {Null}]

Idle == [name |-> Null, retried |-> FALSE, cold_start |-> FALSE, status |-> Null,
         reason |-> Null, active |-> 0, page |-> Null]

Init ==
    /\ runtimes = {}
    /\ mutex = Null
    /\ pc = [a \in Actors |-> "out"]
    /\ call = [a \in Actors |-> Idle]
    /\ requests = 0
    /\ invocation_counts = [k \in Statuses \X BOOLEAN |-> 0]
    /\ duration_histograms = [b \in BOOLEAN |-> [bucket_counts |-> <<>>, count |-> 0]]
    /\ created = 0
    /\ terminated = [r \in Reasons |-> 0]
    /\ log = [b \in BOOLEAN |-> <<>>]

Move(a, to, locals) ==
    /\ pc' = [pc EXCEPT ![a] = to]
    /\ call' = [call EXCEPT ![a] = locals]

-----------------------------------------------------------------------------
\* The registry.

\* What record_invocation does to a histogram.
Observe_Reassigns(h, d) ==
    [bucket_counts |-> [i \in Buckets |-> IF d <= kBucketsMs[i] THEN 1 ELSE 0],
     count |-> h.count + 1]

Observe_FirstOnly(h, d) ==
    LET old == IF h.bucket_counts = <<>> THEN [i \in Buckets |-> 0] ELSE h.bucket_counts
    IN  [bucket_counts |-> [i \in Buckets |->
            IF d <= kBucketsMs[i] /\ (i = 1 \/ d > kBucketsMs[i - 1]) THEN old[i] + 1 ELSE old[i]],
         count |-> h.count + 1]

Observe(h, d) ==
    LET old == IF h.bucket_counts = <<>> THEN [i \in Buckets |-> 0] ELSE h.bucket_counts
    IN  [bucket_counts |-> [i \in Buckets |->
            IF d <= kBucketsMs[i] THEN old[i] + 1 ELSE old[i]],
         count |-> h.count + 1]

record_invocation(status, cold_start, d) ==
    /\ invocation_counts' = [invocation_counts EXCEPT ![<<status, cold_start>>] = @ + 1]
    /\ duration_histograms' = [duration_histograms EXCEPT ![cold_start] = Observe(@, d)]
    /\ log' = [log EXCEPT ![cold_start] = Append(@, d)]
    /\ UNCHANGED <<created, terminated>>

record_runtime_created ==
    /\ created' = created + 1
    /\ UNCHANGED <<invocation_counts, duration_histograms, terminated, log>>

record_runtime_terminated(reason) ==
    /\ terminated' = [terminated EXCEPT ![reason] = @ + 1]
    /\ UNCHANGED <<invocation_counts, duration_histograms, created, log>>

render(active_runtimes) ==
    [active |-> active_runtimes, created |-> created, terminated |-> terminated,
     invocations |-> invocation_counts, histograms |-> duration_histograms]

-----------------------------------------------------------------------------
\* invoke().

Invoke(t, f) ==
    /\ pc[t] = "out"
    /\ requests < MaxRequests
    /\ requests' = requests + 1
    /\ Move(t, "enter", [Idle EXCEPT !.name = f])
    /\ UNCHANGED <<runtimes, mutex, registry>>

\* A warm call, and a cold one whose start fails, unlock without a trace.
Reuse(t) ==
    /\ pc[t] = "enter"
    /\ mutex = Null
    /\ call[t].name \in runtimes
    /\ Move(t, "post", call[t])
    /\ UNCHANGED <<runtimes, mutex, requests, registry>>

StartFails(t) ==
    /\ pc[t] = "enter"
    /\ mutex = Null
    /\ call[t].name \notin runtimes
    /\ Move(t, "record", [call[t] EXCEPT !.status = "infra_error"])
    /\ UNCHANGED <<runtimes, mutex, requests, registry>>

\* A start that succeeds, from the lock to the emplace.
Emplace(t) ==
    /\ pc[t] = "enter"
    /\ mutex = Null
    /\ call[t].name \notin runtimes
    /\ mutex' = t
    /\ runtimes' = runtimes \cup {call[t].name}
    /\ Move(t, "emplaced", [call[t] EXCEPT !.cold_start = TRUE])
    /\ UNCHANGED <<requests, registry>>

RecordCreated_Skipped(t) ==
    /\ pc[t] = "emplaced"
    /\ mutex' = Null
    /\ Move(t, "post", call[t])
    /\ UNCHANGED <<runtimes, requests, registry>>

RecordCreated(t) ==
    /\ pc[t] = "emplaced"
    /\ record_runtime_created
    /\ mutex' = Null
    /\ Move(t, "post", call[t])
    /\ UNCHANGED <<runtimes, requests>>

Reply(t) ==
    /\ pc[t] = "post"
    /\ mutex = Null
    /\ \E s \in {"success", "error"} : Move(t, "record", [call[t] EXCEPT !.status = s])
    /\ UNCHANGED <<runtimes, mutex, requests, registry>>

\* After a timeout or a failed connection: record, or try once more.
AfterFailure(t, locals) ==
    IF locals.status = "infra_error" /\ ~locals.cold_start /\ ~locals.retried
    THEN Move(t, "enter", [Idle EXCEPT !.name = locals.name, !.retried = TRUE])
    ELSE Move(t, "record", locals)

\* Erase an entry with the lock held and go on to count it.
Erase(a, f, locals) ==
    /\ runtimes' = runtimes \ {f}
    /\ mutex' = a
    /\ Move(a, "erased", locals)
    /\ UNCHANGED <<requests, registry>>

\* The runtime is the one that was called, or it has been retired or replaced.
Fail(t) ==
    /\ pc[t] = "post"
    /\ mutex = Null
    /\ \E s \in {"timeout", "infra_error"} :
        LET locals == [call[t] EXCEPT !.status = s,
                                      !.reason = IF s = "timeout" THEN s ELSE "dead"]
        IN  \/ call[t].name \in runtimes /\ Erase(t, call[t].name, locals)
            \/ AfterFailure(t, locals) /\ UNCHANGED <<runtimes, mutex, requests, registry>>

RecordTerminated(t) ==
    /\ pc[t] = "erased"
    /\ record_runtime_terminated(call[t].reason)
    /\ mutex' = Null
    /\ IF call[t].reason = "deleted" THEN Move(t, "out", Idle) ELSE AfterFailure(t, call[t])
    /\ UNCHANGED <<runtimes, requests>>

RecordInvocation(t) ==
    /\ pc[t] = "record"
    /\ \E d \in Durations : record_invocation(call[t].status, call[t].cold_start, d)
    /\ Move(t, "out", Idle)
    /\ UNCHANGED <<runtimes, mutex, requests>>

-----------------------------------------------------------------------------
\* terminate() and a pass of reap_idle_runtimes, which keeps the lock from one
\* expired runtime to the next.

Terminate(t, f) ==
    /\ pc[t] = "out"
    /\ mutex = Null
    /\ f \in runtimes
    /\ Erase(t, f, [Idle EXCEPT !.reason = "deleted"])

Reap(f) ==
    /\ pc[Reaper] = "out"
    /\ mutex \in {Null, Reaper}
    /\ f \in runtimes
    /\ Erase(Reaper, f, [Idle EXCEPT !.reason = "idle_timeout"])

ReapRecord ==
    /\ pc[Reaper] = "erased"
    /\ record_runtime_terminated(call[Reaper].reason)
    /\ Move(Reaper, "out", Idle)
    /\ UNCHANGED <<runtimes, mutex, requests>>

ReapUnlock ==
    /\ pc[Reaper] = "out"
    /\ mutex = Reaper
    /\ mutex' = Null
    /\ UNCHANGED <<runtimes, pc, call, requests, registry>>

-----------------------------------------------------------------------------
\* GET /metrics: list_runtimes().size() under mutex_, then render(), then the
\* response.

ListRuntimes_Unlocked(t) ==
    /\ pc[t] = "out"
    /\ Move(t, "render", [Idle EXCEPT !.active = Cardinality(runtimes)])
    /\ UNCHANGED <<runtimes, mutex, requests, registry>>

ListRuntimes(t) ==
    /\ pc[t] = "out"
    /\ mutex = Null
    /\ Move(t, "render", [Idle EXCEPT !.active = Cardinality(runtimes)])
    /\ UNCHANGED <<runtimes, mutex, requests, registry>>

Render(t) ==
    /\ pc[t] = "render"
    /\ Move(t, "respond", [Idle EXCEPT !.page = render(call[t].active)])
    /\ UNCHANGED <<runtimes, mutex, requests, registry>>

Respond(t) ==
    /\ pc[t] = "respond"
    /\ Move(t, "out", Idle)
    /\ UNCHANGED <<runtimes, mutex, requests, registry>>

-----------------------------------------------------------------------------
ThreadStep(t) ==
    \/ \E f \in Names : Invoke(t, f) \/ Terminate(t, f)
    \/ Reuse(t) \/ StartFails(t) \/ Emplace(t) \/ RecordCreated(t)
    \/ Reply(t) \/ Fail(t) \/ RecordTerminated(t) \/ RecordInvocation(t)
    \/ ListRuntimes(t) \/ Render(t) \/ Respond(t)

Next ==
    \/ \E t \in Threads : ThreadStep(t)
    \/ \E f \in Names : Reap(f)
    \/ ReapRecord
    \/ ReapUnlock

Spec == Init /\ [][Next]_vars

-----------------------------------------------------------------------------
\* Properties.

TypeOK ==
    /\ runtimes \in SUBSET Names
    /\ mutex \in Actors \cup {Null}
    /\ pc \in [Actors -> Locations]
    /\ call \in [Actors -> Call]
    /\ requests \in 0..MaxRequests
    /\ invocation_counts \in [Statuses \X BOOLEAN -> Nat]
    /\ duration_histograms \in [BOOLEAN -> Histogram]
    /\ created \in Nat
    /\ terminated \in [Reasons -> Nat]
    /\ log \in [BOOLEAN -> Seq(Durations)]

\* The totals over the labels of a counter.
TerminatedTotal(c) == c["idle_timeout"] + c["deleted"] + c["timeout"] + c["dead"]

InvocationsTotal(c, b) ==
    c[<<"success", b>>] + c[<<"error", b>>] + c[<<"timeout", b>>] + c[<<"infra_error", b>>]

\* A scrape mixes values of two moments, and yet it never reports more active
\* runtimes, more terminated ones or more cold invocations than were created:
\* the gauge is read first, under the lock that covers table and counter, and
\* an invocation is recorded after the runtime it started.  A cold invocation is
\* one the code reports so: neither a failed start nor a retry served warm.
ScrapeConsistent ==
    \A t \in Threads : pc[t] = "respond" =>
        LET page == call[t].page
        IN  /\ page.active <= page.created
            /\ TerminatedTotal(page.terminated) <= page.created
            /\ InvocationsTotal(page.invocations, TRUE) <= page.created

\* Every scraped histogram keeps the contract of its format: the buckets are
\* cumulative, +Inf (count) is at least the last of them, and it equals the
\* invocations counted with the same label, however many threads record.
HistogramsCumulative ==
    \A t \in Threads, b \in BOOLEAN : pc[t] = "respond" =>
        LET page == call[t].page
            h    == page.histograms[b]
        IN  /\ h.count = InvocationsTotal(page.invocations, b)
            /\ h.count > 0 =>
                \A i, j \in Buckets : i <= j => /\ h.bucket_counts[i] <= h.bucket_counts[j]
                                                /\ h.bucket_counts[j] <= h.count

\* The reference: a bucket holds the number of recorded durations up to its
\* bound.
UpTo(durations, bound) == {k \in 1..Len(durations) : durations[k] <= bound}

HistogramExact ==
    \A b \in BOOLEAN :
        LET h == duration_histograms[b]
        IN  /\ h.count = Len(log[b])
            /\ h.count > 0 => \A i \in Buckets :
                    h.bucket_counts[i] = Cardinality(UpTo(log[b], kBucketsMs[i]))

-----------------------------------------------------------------------------
\* The inductive invariant.

\* What a request thread knows where it is.
LocalsInv(at, l) ==
    /\ at = "enter" => ~l.cold_start
    /\ at = "emplaced" => l.cold_start
    /\ at \in {"enter", "emplaced", "post"} => l.name \in Names
    /\ at = "erased" => /\ l.reason \in Reasons
                       /\ IF l.reason = "deleted" THEN ~l.cold_start
                          ELSE l.status \in Statuses /\ l.name \in Names
    /\ at = "record" => l.status \in Statuses
    /\ at = "respond" => l.page \in Page

\* Who has the lock between a change of the table and its counter.
LockInv ==
    /\ \A a \in Actors : pc[a] \in {"emplaced", "erased"} => mutex = a
    /\ \A t \in Threads : mutex = t => pc[t] \in {"emplaced", "erased"}
    /\ \A t \in Threads : LocalsInv(pc[t], call[t])
    /\ \A t \in Threads : pc[t] = "emplaced" => call[t].name \in runtimes
    /\ pc[Reaper] \in {"out", "erased"}
    /\ pc[Reaper] = "erased" => call[Reaper].reason \in Reasons

\* Table and counters agree up to the step between the two.
TableInv ==
    LET gone == TerminatedTotal(terminated) + Cardinality(runtimes)
    IN  /\ mutex = Null \/ (pc[Reaper] = "out" /\ mutex = Reaper) => created = gone
        /\ \A a \in Actors : /\ pc[a] = "emplaced" => created + 1 = gone
                             /\ pc[a] = "erased" => created = gone + 1

\* Threads whose cold start is counted as created and not yet as invoked.
ColdPending == {t \in Threads : pc[t] \in {"post", "erased", "record"} /\ call[t].cold_start}

ColdInv == created = InvocationsTotal(invocation_counts, TRUE) + Cardinality(ColdPending)

GaugeInv == \A t \in Threads : pc[t] = "render" => call[t].active <= created

\* A histogram has its buckets from the first observation on.
CountInv ==
    \A b \in BOOLEAN :
        /\ duration_histograms[b].count = InvocationsTotal(invocation_counts, b)
        /\ duration_histograms[b].count = 0 <=> duration_histograms[b].bucket_counts = <<>>

\* The three properties need the table and the counters to agree at every
\* moment at which a scrape may look.
MetricsInv ==
    /\ TypeOK /\ LockInv /\ TableInv /\ ColdInv /\ GaugeInv /\ CountInv
    /\ ScrapeConsistent /\ HistogramsCumulative /\ HistogramExact
=============================================================================
