--------------------------- MODULE MetricsProofs ---------------------------
(***************************************************************************)
(* Proofs about Metrics, for any number of functions, threads, requests    *)
(* and buckets: every scrape is consistent although it reads the table and *)
(* the registry at two moments, and every histogram holds the counts of    *)
(* the durations that were recorded.                                       *)
(***************************************************************************)
EXTENDS Metrics, FiniteSetTheorems, TLAPS

-----------------------------------------------------------------------------
\* Sets and sums.

\* The cardinality of a finite set with one element more or less.
LEMMA OneMoreOneLess ==
    ASSUME NEW S, IsFiniteSet(S), NEW x
    PROVE  /\ Cardinality(S) \in Nat
           /\ x \notin S => Cardinality(S \cup {x}) = Cardinality(S) + 1
           /\ x \in S => Cardinality(S \ {x}) = Cardinality(S) - 1 /\ Cardinality(S) > 0
<1>1. Cardinality(S) \in Nat
  BY FS_CardinalityType
<1>2. x \notin S => Cardinality(S \cup {x}) = Cardinality(S) + 1
  BY FS_AddElement
<1>3. x \in S => Cardinality(S \ {x}) = Cardinality(S) - 1
  BY FS_RemoveElement
<1>4. x \in S => Cardinality(S) > 0
  BY <1>1, FS_EmptySet
<1> QED
  BY <1>1, <1>2, <1>3, <1>4

\* The table and the set of pending cold calls are finite.
LEMMA FiniteTable ==
    ASSUME TypeOK
    PROVE  /\ IsFiniteSet(runtimes)
           /\ IsFiniteSet(ColdPending)
<1>1. ColdPending \subseteq Threads
  BY DEF ColdPending
<1> QED
  BY <1>1, FS_Subset, MetricsAssumption DEF TypeOK

\* The totals over a counter's labels are natural numbers ...
LEMMA TotalsType ==
    /\ \A c \in [Reasons -> Nat] : TerminatedTotal(c) \in Nat
    /\ \A c \in [Statuses \X BOOLEAN -> Nat], b \in BOOLEAN : InvocationsTotal(c, b) \in Nat
BY DEF TerminatedTotal, InvocationsTotal, Reasons, Statuses

\* ... and grow with their parts.
LEMMA TerminatedGrows ==
    ASSUME NEW c \in [Reasons -> Nat], NEW r \in Reasons
    PROVE  TerminatedTotal([c EXCEPT ![r] = @ + 1]) = TerminatedTotal(c) + 1
BY DEF TerminatedTotal, Reasons

-----------------------------------------------------------------------------
\* Histograms.

\* The reference count of a bucket after one more duration.
LEMMA UpToAppend ==
    ASSUME NEW s \in Seq(Durations), NEW d \in Durations, NEW bound \in Nat
    PROVE  /\ Cardinality(UpTo(s, bound)) \in Nat
           /\ Cardinality(UpTo(Append(s, d), bound)) =
                IF d <= bound THEN Cardinality(UpTo(s, bound)) + 1
                ELSE Cardinality(UpTo(s, bound))
<1> DEFINE old == UpTo(s, bound)
           new == UpTo(Append(s, d), bound)
<1>1. IsFiniteSet(1..Len(s)) /\ old \subseteq 1..Len(s)
  BY FS_Interval DEF UpTo
<1>2. IsFiniteSet(old)
  BY <1>1, FS_Subset
<1>3. Len(s) + 1 \notin old
  BY <1>1
<1>4. new = IF d <= bound THEN old \cup {Len(s) + 1} ELSE old
  <2>1. Len(Append(s, d)) = Len(s) + 1 /\ Len(s) \in Nat
    OBVIOUS
  <2>2. \A k \in 1..Len(s) : Append(s, d)[k] = s[k]
    OBVIOUS
  <2>3. Append(s, d)[Len(s) + 1] = d
    OBVIOUS
  <2> QED
    BY <2>1, <2>2, <2>3 DEF UpTo
<1> QED
  BY <1>2, <1>3, <1>4, OneMoreOneLess

\* The reference counts are cumulative and bounded by the number of durations.
LEMMA UpToMonotone ==
    ASSUME NEW s \in Seq(Durations), NEW a \in Nat, NEW b \in Nat, a <= b
    PROVE  /\ Cardinality(UpTo(s, a)) <= Cardinality(UpTo(s, b))
           /\ Cardinality(UpTo(s, b)) <= Len(s)
<1>1. IsFiniteSet(1..Len(s)) /\ Cardinality(1..Len(s)) = Len(s)
  <2>1. Len(s) \in Nat
    OBVIOUS
  <2>2. Cardinality(1..Len(s)) = IF 1 > Len(s) THEN 0 ELSE Len(s) - 1 + 1
    BY <2>1, 1 \in Int, Len(s) \in Int, FS_Interval, Zenon
  <2>3. IsFiniteSet(1..Len(s))
    BY <2>1, FS_Interval
  <2> QED
    BY <2>1, <2>2, <2>3
<1>2. UpTo(s, b) \subseteq 1..Len(s)
  BY DEF UpTo
<1>3. IsFiniteSet(UpTo(s, b)) /\ Cardinality(UpTo(s, b)) <= Len(s)
  BY <1>1, <1>2, FS_Subset
<1>4. \A k \in 1..Len(s) : s[k] \in Nat
  <2>1. Durations \subseteq Nat
    BY MetricsAssumption
  <2>2. \A k \in 1..Len(s) : s[k] \in Durations
    OBVIOUS
  <2> QED
    BY <2>1, <2>2
<1>5. UpTo(s, a) \subseteq UpTo(s, b)
  BY <1>4 DEF UpTo
<1> QED
  BY <1>3, <1>5, FS_Subset

\* What recording a duration does to a histogram whose counts were exact.
LEMMA ObserveExact ==
    ASSUME NEW h \in Histogram, NEW s \in Seq(Durations), NEW d \in Durations,
           h.count = Len(s),
           h.count = 0 <=> h.bucket_counts = <<>>,
           h.count > 0 => \A i \in Buckets :
                h.bucket_counts[i] = Cardinality(UpTo(s, kBucketsMs[i]))
    PROVE  /\ Observe(h, d) \in Histogram
           /\ Observe(h, d).count = h.count + 1
           /\ Observe(h, d).bucket_counts # <<>>
           /\ \A i \in Buckets : Observe(h, d).bucket_counts[i] =
                    Cardinality(UpTo(Append(s, d), kBucketsMs[i]))
<1> DEFINE old == IF h.bucket_counts = <<>> THEN [i \in Buckets |-> 0] ELSE h.bucket_counts
           new == [i \in Buckets |-> IF d <= kBucketsMs[i] THEN old[i] + 1 ELSE old[i]]
<1>1. old \in [Buckets -> Nat] /\ h.count \in Nat
  BY DEF Histogram
<1>2. \A i \in Buckets : kBucketsMs[i] \in Nat
  BY MetricsAssumption DEF Buckets
<1>3. \A i \in Buckets : old[i] = Cardinality(UpTo(s, kBucketsMs[i]))
  <2>1. CASE h.count = 0
    <3>1. Len(s) = 0
      BY <2>1
    <3>2. \A i \in Buckets : UpTo(s, kBucketsMs[i]) = {}
      BY <3>1 DEF UpTo
    <3>3. Cardinality({}) = 0
      BY FS_EmptySet
    <3> QED
      BY <2>1, <3>2, <3>3
  <2>2. CASE h.count > 0
    BY <2>2
  <2> QED
    BY <1>1, <2>1, <2>2
<1>4. Observe(h, d) = [bucket_counts |-> new, count |-> h.count + 1]
  BY DEF Observe
<1>5. new \in [Buckets -> Nat]
  <2> HIDE DEF old
  <2> QED
    BY <1>1
<1>6. new # <<>>
  <2>1. 1 \in DOMAIN new
    <3>1. Len(kBucketsMs) \in Nat /\ Len(kBucketsMs) # 0
      BY MetricsAssumption
    <3> QED
      BY <3>1 DEF Buckets
  <2>2. DOMAIN <<>> = {}
    OBVIOUS
  <2> HIDE DEF new
  <2> QED
    BY <2>1, <2>2
<1>7. \A i \in Buckets : new[i] = Cardinality(UpTo(Append(s, d), kBucketsMs[i]))
  <2> TAKE i \in Buckets
  <2>1. Cardinality(UpTo(Append(s, d), kBucketsMs[i])) =
            IF d <= kBucketsMs[i] THEN old[i] + 1 ELSE old[i]
    BY <1>2, <1>3, UpToAppend
  <2> HIDE DEF old
  <2> QED
    BY <2>1
<1> HIDE DEF old, new
<1> QED
  BY <1>1, <1>4, <1>5, <1>6, <1>7 DEF Histogram

-----------------------------------------------------------------------------
\* What a step of one thread does to the parts of the invariant.

\* A thread counts as pending at location at with locals l.
Pending(at, l) == at \in {"post", "erased", "record"} /\ l.cold_start

\* A move changes the location and the locals of one thread only.
LEMMA MoveFacts ==
    ASSUME TypeOK, NEW a \in Actors, NEW to \in Locations, NEW l \in Call, Move(a, to, l)
    PROVE  /\ pc' \in [Actors -> Locations]
           /\ call' \in [Actors -> Call]
           /\ pc'[a] = to
           /\ call'[a] = l
           /\ \A b \in Actors : b # a => pc'[b] = pc[b] /\ call'[b] = call[b]
BY DEF TypeOK, Move

\* The set of pending calls follows the one thread that moves.
LEMMA MovePending ==
    ASSUME TypeOK, NEW t \in Threads, NEW to \in Locations, NEW l \in Call, Move(t, to, l)
    PROVE  /\ t \in ColdPending <=> Pending(pc[t], call[t])
           /\ ColdPending' = IF Pending(to, l) THEN ColdPending \cup {t} ELSE ColdPending \ {t}
<1>1. t \in Actors
  BY DEF Actors
<1>2. /\ pc'[t] = to
      /\ call'[t] = l
      /\ \A b \in Threads : b # t => pc'[b] = pc[b] /\ call'[b] = call[b]
  BY <1>1, MoveFacts DEF Actors
<1> QED
  BY <1>2 DEF ColdPending, Pending

\* A move of the reaper leaves the pending calls alone.
LEMMA ReaperPending ==
    ASSUME TypeOK, NEW to \in Locations, NEW l \in Call, Move(Reaper, to, l)
    PROVE  ColdPending' = ColdPending
<1>1. Reaper \in Actors /\ Reaper \notin Threads
  BY MetricsAssumption DEF Actors
<1>2. \A b \in Threads : pc'[b] = pc[b] /\ call'[b] = call[b]
  BY <1>1, MoveFacts DEF Actors
<1> QED
  BY <1>2 DEF ColdPending

\* Pages that were rendered earlier do not change.
LEMMA PagesStay ==
    ASSUME TypeOK, ScrapeConsistent, HistogramsCumulative,
           NEW a \in Actors, NEW to \in Locations \ {"respond"}, NEW l \in Call, Move(a, to, l)
    PROVE  ScrapeConsistent' /\ HistogramsCumulative'
<1>1. \A t \in Threads : pc'[t] = "respond" => pc[t] = "respond" /\ call'[t] = call[t]
  BY MoveFacts DEF Actors
<1>2. ScrapeConsistent'
  BY <1>1 DEF ScrapeConsistent
<1>3. HistogramsCumulative'
  BY <1>1 DEF HistogramsCumulative
<1> QED
  BY <1>2, <1>3

\* A gauge that was read earlier stays below a counter that only grows.
LEMMA GaugesStay ==
    ASSUME TypeOK, GaugeInv, NEW a \in Actors, NEW to \in Locations \ {"render"},
           NEW l \in Call, Move(a, to, l), created' \in {created, created + 1}
    PROVE  GaugeInv'
<1>1. \A t \in Threads : pc'[t] = "render" => pc[t] = "render" /\ call'[t] = call[t]
  BY MoveFacts DEF Actors
<1>2. \A t \in Threads : call[t].active \in Nat
  BY DEF TypeOK, Call, Actors
<1> QED
  BY <1>1, <1>2 DEF GaugeInv, TypeOK

\* A step of a request thread that neither takes nor gives the lock and leaves
\* table and registry alone.
LEMMA QuietStep ==
    ASSUME MetricsInv, NEW t \in Threads, NEW to \in Locations \ {"emplaced", "erased"},
           NEW l \in Call, Move(t, to, l), pc[t] \notin {"emplaced", "erased"},
           requests' \in 0..MaxRequests, UNCHANGED <<runtimes, mutex, registry>>,
           LocalsInv(to, l),
           Pending(to, l) <=> Pending(pc[t], call[t]),
           to = "render" => l.active <= created,
           to # "respond" \/ (ScrapeConsistent' /\ HistogramsCumulative')
    PROVE  MetricsInv'
<1> USE DEF MetricsInv
<1>0. t \in Actors /\ t # Reaper /\ Reaper \in Actors
  BY MetricsAssumption DEF Actors
<1>1. /\ pc' \in [Actors -> Locations]
      /\ call' \in [Actors -> Call]
      /\ pc'[t] = to
      /\ call'[t] = l
      /\ \A b \in Actors : b # t => pc'[b] = pc[b] /\ call'[b] = call[b]
  BY <1>0, MoveFacts
<1>2. /\ runtimes' = runtimes /\ mutex' = mutex /\ created' = created
      /\ terminated' = terminated /\ invocation_counts' = invocation_counts
      /\ duration_histograms' = duration_histograms /\ log' = log
  BY DEF registry
<1>3. TypeOK'
  BY <1>1, <1>2 DEF TypeOK
<1>4. LockInv'
  <2>1. \A u \in Threads : LocalsInv(pc'[u], call'[u])
    BY <1>1 DEF LockInv, Actors
  <2>2. \A a \in Actors : pc'[a] \in {"emplaced", "erased"} => pc'[a] = pc[a] /\ call'[a] = call[a]
    BY <1>1
  <2>3. \A u \in Threads : pc[u] \in {"emplaced", "erased"} => pc'[u] = pc[u] /\ call'[u] = call[u]
    BY <1>1 DEF Actors
  <2>4. pc'[Reaper] = pc[Reaper] /\ call'[Reaper] = call[Reaper]
    BY <1>0, <1>1
  <2> QED
    BY <1>2, <2>1, <2>2, <2>3, <2>4 DEF LockInv, LocalsInv, Actors
<1>5. TableInv'
  <2>1. \A a \in Actors : pc'[a] \in {"emplaced", "erased"} => pc'[a] = pc[a]
    BY <1>1
  <2>2. pc'[Reaper] = pc[Reaper]
    BY <1>0, <1>1
  <2> QED
    BY <1>2, <2>1, <2>2 DEF TableInv
<1>6. ColdInv'
  <2>1. ColdPending' = ColdPending
    BY MovePending
  <2> QED
    BY <1>2, <2>1 DEF ColdInv
<1>7. GaugeInv'
  BY <1>1, <1>2 DEF GaugeInv, Actors
<1>8. CountInv' /\ HistogramExact'
  BY <1>2 DEF CountInv, HistogramExact
<1>9. ScrapeConsistent' /\ HistogramsCumulative'
  BY <1>0, PagesStay
<1> QED
  BY <1>3, <1>4, <1>5, <1>6, <1>7, <1>8, <1>9

\* While the lock is free, or kept by a reaper between two runtimes, nobody is
\* between the table and the counters, and the two agree.
LEMMA NobodyBetween ==
    ASSUME MetricsInv, mutex = Null \/ (mutex = Reaper /\ pc[Reaper] = "out")
    PROVE  /\ \A a \in Actors : pc[a] \notin {"emplaced", "erased"}
           /\ created = TerminatedTotal(terminated) + Cardinality(runtimes)
<1>1. ASSUME NEW a \in Actors, pc[a] \in {"emplaced", "erased"} PROVE FALSE
  <2>1. mutex = a
    BY <1>1 DEF MetricsInv, LockInv
  <2> QED
    BY <1>1, <2>1, MetricsAssumption
<1>2. created = TerminatedTotal(terminated) + Cardinality(runtimes)
  BY DEF MetricsInv, TableInv
<1> QED
  BY <1>1, <1>2

\* Only the owner of the lock is between the table and the counters.
LEMMA OnlyOwner ==
    ASSUME MetricsInv, NEW a \in Actors, pc[a] \in {"emplaced", "erased"}
    PROVE  /\ mutex = a
           /\ \A b \in Actors : b # a => pc[b] \notin {"emplaced", "erased"}
BY DEF MetricsInv, LockInv

\* An entry is erased with the lock held.
LEMMA EraseStep ==
    ASSUME MetricsInv, NEW a \in Actors, NEW f \in runtimes, NEW l \in Call, Erase(a, f, l),
           mutex = Null \/ (a = Reaper /\ mutex = Reaper /\ pc[Reaper] = "out"),
           l.reason \in Reasons,
           a \in Threads => LocalsInv("erased", l)
                            /\ (Pending("erased", l) <=> Pending(pc[a], call[a]))
    PROVE  MetricsInv'
<1> USE DEF MetricsInv
<1>0. Reaper \in Actors /\ Reaper \notin Threads /\ Null \notin Actors
      /\ Actors = Threads \cup {Reaper} /\ "erased" \in Locations
  BY MetricsAssumption DEF Actors, Locations
<1>1. /\ runtimes' = runtimes \ {f} /\ mutex' = a /\ created' = created /\ requests' = requests
      /\ terminated' = terminated /\ invocation_counts' = invocation_counts
      /\ duration_histograms' = duration_histograms /\ log' = log
      /\ Move(a, "erased", l)
  BY DEF Erase, registry
<1>2. /\ pc' \in [Actors -> Locations]
      /\ call' \in [Actors -> Call]
      /\ pc'[a] = "erased"
      /\ call'[a] = l
      /\ \A b \in Actors : b # a => pc'[b] = pc[b] /\ call'[b] = call[b]
  BY <1>0, <1>1, MoveFacts
<1>3. \A b \in Actors : b # a => pc'[b] \notin {"emplaced", "erased"}
  BY <1>2, NobodyBetween
<1>4. TypeOK'
  BY <1>1, <1>2 DEF TypeOK
<1>5. LockInv'
  <2>1. \A u \in Threads : LocalsInv(pc'[u], call'[u])
    BY <1>0, <1>2 DEF LockInv
  <2>2. \A u \in Threads : pc'[u] # "emplaced"
    BY <1>0, <1>2, <1>3
  <2>3. pc'[Reaper] \in {"out", "erased"} /\ (pc'[Reaper] = "erased" => call'[Reaper].reason \in Reasons)
    BY <1>0, <1>2 DEF LockInv
  <2> QED
    BY <1>0, <1>1, <1>2, <1>3, <2>1, <2>2, <2>3 DEF LockInv
<1>6. TableInv'
  <2>1. /\ created = TerminatedTotal(terminated) + Cardinality(runtimes)
        /\ Cardinality(runtimes') = Cardinality(runtimes) - 1
        /\ Cardinality(runtimes) \in Nat
        /\ TerminatedTotal(terminated) \in Nat
    BY <1>1, NobodyBetween, FiniteTable, OneMoreOneLess, TotalsType DEF TypeOK
  <2>2. created' = TerminatedTotal(terminated') + Cardinality(runtimes') + 1
    BY <1>1, <2>1
  <2>3. mutex' # Null /\ ~(pc'[Reaper] = "out" /\ mutex' = Reaper)
    BY <1>0, <1>1, <1>2
  <2>4. \A b \in Actors : pc'[b] # "emplaced"
    BY <1>2, <1>3
  <2> QED
    BY <2>2, <2>3, <2>4 DEF TableInv
<1>7. ColdInv'
  <2>1. ColdPending' = ColdPending
    <3>1. CASE a \in Threads
      BY <1>0, <1>1, <3>1, MovePending
    <3>2. CASE a = Reaper
      BY <1>0, <1>1, <3>2, ReaperPending
    <3> QED
      BY <1>0, <3>1, <3>2
  <2> QED
    BY <1>1, <2>1 DEF ColdInv
<1>8. GaugeInv'
  BY <1>0, <1>1, GaugesStay
<1>9. CountInv' /\ HistogramExact'
  BY <1>1 DEF CountInv, HistogramExact
<1>10. ScrapeConsistent' /\ HistogramsCumulative'
  BY <1>0, <1>1, PagesStay
<1> QED
  BY <1>4, <1>5, <1>6, <1>7, <1>8, <1>9, <1>10

\* The erased entry is counted, and the lock released unless a reaper goes on.
LEMMA CountStep ==
    ASSUME MetricsInv, NEW a \in Actors, pc[a] = "erased",
           record_runtime_terminated(call[a].reason), call[a].reason \in Reasons,
           NEW to \in {"out", "enter", "record"}, NEW l \in Call, Move(a, to, l),
           mutex' = Null \/ (a = Reaper /\ mutex' = mutex),
           UNCHANGED <<runtimes, requests>>,
           a = Reaper => to = "out",
           a \in Threads => LocalsInv(to, l)
                            /\ (Pending(to, l) <=> Pending(pc[a], call[a]))
    PROVE  MetricsInv'
<1> USE DEF MetricsInv
<1>0. Reaper \in Actors /\ Reaper \notin Threads /\ Null \notin Actors
      /\ Actors = Threads \cup {Reaper} /\ to \in Locations
  BY MetricsAssumption DEF Actors, Locations
<1>1. /\ created' = created /\ invocation_counts' = invocation_counts
      /\ duration_histograms' = duration_histograms /\ log' = log
      /\ terminated' = [terminated EXCEPT ![call[a].reason] = @ + 1]
  BY DEF record_runtime_terminated
<1>2. /\ pc' \in [Actors -> Locations]
      /\ call' \in [Actors -> Call]
      /\ pc'[a] = to
      /\ call'[a] = l
      /\ \A b \in Actors : b # a => pc'[b] = pc[b] /\ call'[b] = call[b]
  BY <1>0, MoveFacts
<1>3. mutex = a /\ \A b \in Actors : pc'[b] \notin {"emplaced", "erased"}
  BY <1>2, OnlyOwner
<1>4. terminated' \in [Reasons -> Nat]
  BY <1>1 DEF TypeOK
<1>5. TypeOK'
  BY <1>0, <1>1, <1>2, <1>3, <1>4 DEF TypeOK
<1>6. LockInv'
  <2>1. \A u \in Threads : LocalsInv(pc'[u], call'[u])
    BY <1>0, <1>2 DEF LockInv
  <2>2. pc'[Reaper] = "out"
    BY <1>0, <1>2, <1>3 DEF LockInv
  <2>3. \A u \in Threads : mutex' # u /\ pc'[u] # "emplaced"
    BY <1>0, <1>3
  <2> QED
    BY <1>3, <2>1, <2>2, <2>3 DEF LockInv
<1>7. TableInv'
  <2>1. /\ created = TerminatedTotal(terminated) + Cardinality(runtimes) + 1
        /\ TerminatedTotal(terminated') = TerminatedTotal(terminated) + 1
        /\ TerminatedTotal(terminated) \in Nat
        /\ Cardinality(runtimes) \in Nat
    BY <1>1, FiniteTable, OneMoreOneLess, TotalsType, TerminatedGrows DEF TypeOK, TableInv
  <2>2. created' = TerminatedTotal(terminated') + Cardinality(runtimes')
    BY <1>1, <2>1
  <2> QED
    BY <1>3, <2>2 DEF TableInv
<1>8. ColdInv'
  <2>1. ColdPending' = ColdPending
    <3>1. CASE a \in Threads
      BY <1>0, <3>1, MovePending
    <3>2. CASE a = Reaper
      BY <1>0, <3>2, ReaperPending
    <3> QED
      BY <1>0, <3>1, <3>2
  <2> QED
    BY <1>1, <2>1 DEF ColdInv
<1>9. GaugeInv'
  BY <1>0, <1>1, GaugesStay
<1>10. CountInv' /\ HistogramExact'
  BY <1>1 DEF CountInv, HistogramExact
<1>11. ScrapeConsistent' /\ HistogramsCumulative'
  BY <1>0, PagesStay
<1> QED
  BY <1>5, <1>6, <1>7, <1>8, <1>9, <1>10, <1>11

\* A new entry is in the table, and not yet counted.
LEMMA EmplaceStep ==
    ASSUME MetricsInv, NEW t \in Threads, Emplace(t)
    PROVE  MetricsInv'
<1> USE DEF MetricsInv
<1> DEFINE l == [call[t] EXCEPT !.cold_start = TRUE]
<1>0. Reaper \in Actors /\ Reaper \notin Threads /\ Null \notin Actors /\ t \in Actors
      /\ Actors = Threads \cup {Reaper} /\ "emplaced" \in Locations
  BY MetricsAssumption DEF Actors, Locations
<1>1. l \in Call /\ l.cold_start /\ l.name = call[t].name /\ call[t].name \in Names
  <2>1. call[t] \in Call
    BY <1>0 DEF TypeOK
  <2>2. call[t].name \in Names
    BY DEF LockInv, LocalsInv, Emplace
  <2> QED
    BY <2>1, <2>2 DEF Call
<1> HIDE DEF l
<1>2. /\ pc[t] = "enter" /\ mutex = Null /\ call[t].name \notin runtimes
      /\ runtimes' = runtimes \cup {call[t].name} /\ mutex' = t
      /\ created' = created /\ requests' = requests
      /\ terminated' = terminated /\ invocation_counts' = invocation_counts
      /\ duration_histograms' = duration_histograms /\ log' = log
      /\ Move(t, "emplaced", l)
  BY DEF Emplace, registry, l
<1>3. /\ pc' \in [Actors -> Locations]
      /\ call' \in [Actors -> Call]
      /\ pc'[t] = "emplaced"
      /\ call'[t] = l
      /\ \A b \in Actors : b # t => pc'[b] = pc[b] /\ call'[b] = call[b]
  BY <1>0, <1>1, <1>2, MoveFacts
<1>4. \A b \in Actors : b # t => pc'[b] \notin {"emplaced", "erased"}
  BY <1>2, <1>3, NobodyBetween
<1>5. TypeOK'
  BY <1>0, <1>1, <1>2, <1>3 DEF TypeOK
<1>6. LockInv'
  <2>1. LocalsInv("emplaced", l)
    BY <1>1 DEF LocalsInv
  <2>2. \A u \in Threads : LocalsInv(pc'[u], call'[u])
    BY <1>0, <1>3, <2>1 DEF LockInv
  <2>3. pc'[Reaper] = pc[Reaper] /\ call'[Reaper] = call[Reaper]
    BY <1>0, <1>3
  <2>4. \A u \in Threads : pc'[u] = "emplaced" => u = t
    BY <1>0, <1>4
  <2> QED
    BY <1>0, <1>1, <1>2, <1>3, <1>4, <2>2, <2>3, <2>4 DEF LockInv
<1>7. TableInv'
  <2>1. /\ created = TerminatedTotal(terminated) + Cardinality(runtimes)
        /\ Cardinality(runtimes') = Cardinality(runtimes) + 1
        /\ Cardinality(runtimes) \in Nat
        /\ TerminatedTotal(terminated) \in Nat
    BY <1>2, NobodyBetween, FiniteTable, OneMoreOneLess, TotalsType DEF TypeOK
  <2>2. created' + 1 = TerminatedTotal(terminated') + Cardinality(runtimes')
    BY <1>2, <2>1
  <2>3. mutex' # Null /\ mutex' # Reaper
    BY <1>0, <1>2
  <2>4. \A b \in Actors : pc'[b] # "erased"
    BY <1>3, <1>4
  <2> QED
    BY <2>2, <2>3, <2>4 DEF TableInv
<1>8. ColdInv'
  <2>1. ColdPending' = ColdPending
    BY <1>0, <1>1, <1>2, MovePending DEF Pending
  <2> QED
    BY <1>2, <2>1 DEF ColdInv
<1>9. GaugeInv'
  BY <1>0, <1>1, <1>2, GaugesStay
<1>10. CountInv' /\ HistogramExact'
  BY <1>2 DEF CountInv, HistogramExact
<1>11. ScrapeConsistent' /\ HistogramsCumulative'
  BY <1>0, <1>1, <1>2, PagesStay
<1> QED
  BY <1>5, <1>6, <1>7, <1>8, <1>9, <1>10, <1>11

\* The new entry is counted; from now on its cold call is pending.
LEMMA CreatedStep ==
    ASSUME MetricsInv, NEW t \in Threads, RecordCreated(t)
    PROVE  MetricsInv'
<1> USE DEF MetricsInv
<1> DEFINE l == call[t]
<1>0. Reaper \in Actors /\ Reaper \notin Threads /\ Null \notin Actors /\ t \in Actors
      /\ Actors = Threads \cup {Reaper} /\ "post" \in Locations
  BY MetricsAssumption DEF Actors, Locations
<1>1. l \in Call /\ l.cold_start /\ l.name \in Names
  BY <1>0 DEF TypeOK, LockInv, LocalsInv, RecordCreated
<1>2. /\ pc[t] = "emplaced" /\ mutex' = Null /\ runtimes' = runtimes
      /\ created' = created + 1 /\ requests' = requests
      /\ terminated' = terminated /\ invocation_counts' = invocation_counts
      /\ duration_histograms' = duration_histograms /\ log' = log
      /\ Move(t, "post", l)
  BY DEF RecordCreated, record_runtime_created
<1> HIDE DEF l
<1>3. /\ pc' \in [Actors -> Locations]
      /\ call' \in [Actors -> Call]
      /\ pc'[t] = "post"
      /\ call'[t] = l
      /\ \A b \in Actors : b # t => pc'[b] = pc[b] /\ call'[b] = call[b]
  BY <1>0, <1>1, <1>2, MoveFacts
<1>4. mutex = t /\ \A b \in Actors : pc'[b] \notin {"emplaced", "erased"}
  BY <1>0, <1>2, <1>3, OnlyOwner
<1>5. TypeOK'
  BY <1>0, <1>2, <1>3 DEF TypeOK
<1>6. LockInv'
  <2>1. LocalsInv("post", l)
    BY <1>1 DEF LocalsInv
  <2>2. \A u \in Threads : LocalsInv(pc'[u], call'[u])
    BY <1>0, <1>3, <2>1 DEF LockInv
  <2>3. pc'[Reaper] = pc[Reaper] /\ call'[Reaper] = call[Reaper]
    BY <1>0, <1>3
  <2>4. \A u \in Threads : mutex' # u
    BY <1>0, <1>2
  <2> QED
    BY <1>0, <1>4, <2>2, <2>3, <2>4 DEF LockInv
<1>7. TableInv'
  <2>1. created + 1 = TerminatedTotal(terminated) + Cardinality(runtimes)
    BY <1>0, <1>2 DEF TableInv
  <2> QED
    BY <1>2, <1>4, <2>1 DEF TableInv
<1>8. ColdInv'
  <2>1. ColdPending' = ColdPending \cup {t} /\ t \notin ColdPending
    BY <1>0, <1>1, <1>2, MovePending DEF Pending
  <2>2. /\ Cardinality(ColdPending') = Cardinality(ColdPending) + 1
        /\ Cardinality(ColdPending) \in Nat
        /\ InvocationsTotal(invocation_counts, TRUE) \in Nat
    BY <2>1, FiniteTable, OneMoreOneLess, TotalsType DEF TypeOK
  <2>3. created = InvocationsTotal(invocation_counts, TRUE) + Cardinality(ColdPending)
    BY DEF ColdInv
  <2> DEFINE total == InvocationsTotal(invocation_counts, TRUE)
             pending == Cardinality(ColdPending)
  <2>4. created' = created + 1 /\ created = total + pending /\ total \in Nat /\ pending \in Nat
        /\ Cardinality(ColdPending') = pending + 1
        /\ InvocationsTotal(invocation_counts', TRUE) = total
    BY <1>2, <2>2, <2>3, Zenon
  <2> HIDE DEF total, pending
  <2>5. created' = total + (pending + 1)
    BY <2>4
  <2> QED
    BY <2>4, <2>5, Zenon DEF ColdInv
<1>9. GaugeInv'
  BY <1>0, <1>1, <1>2, GaugesStay
<1>10. CountInv' /\ HistogramExact'
  BY <1>2 DEF CountInv, HistogramExact
<1>11. ScrapeConsistent' /\ HistogramsCumulative'
  BY <1>0, <1>1, <1>2, PagesStay
<1> QED
  BY <1>5, <1>6, <1>7, <1>8, <1>9, <1>10, <1>11

\* The locals of a thread that is out.
LEMMA IdleLocals ==
    /\ Idle \in Call
    /\ LocalsInv("out", Idle)
    /\ ~Pending("out", Idle)
BY DEF Idle, Call, LocalsInv, Pending

\* An invocation is recorded, by any number of threads in any order.
LEMMA InvocationStep ==
    ASSUME MetricsInv, NEW t \in Threads, RecordInvocation(t)
    PROVE  MetricsInv'
<1> USE DEF MetricsInv
<1> DEFINE s == call[t].status
           cold == call[t].cold_start
<1>0. Reaper \in Actors /\ Reaper \notin Threads /\ t \in Actors
      /\ Actors = Threads \cup {Reaper} /\ "out" \in Locations
  BY MetricsAssumption DEF Actors, Locations
<1>1. s \in Statuses /\ cold \in BOOLEAN /\ pc[t] = "record"
  BY <1>0 DEF RecordInvocation, LockInv, LocalsInv, TypeOK, Call
<1>2. PICK d \in Durations : record_invocation(s, cold, d)
  BY DEF RecordInvocation
<1>3. /\ runtimes' = runtimes /\ mutex' = mutex /\ requests' = requests
      /\ Move(t, "out", Idle)
  BY DEF RecordInvocation
<1>4. Pending(pc[t], call[t]) <=> cold
  BY <1>1 DEF Pending
<1> HIDE DEF s, cold
<1>5. /\ created' = created /\ terminated' = terminated
      /\ invocation_counts' = [invocation_counts EXCEPT ![<<s, cold>>] = @ + 1]
      /\ duration_histograms' = [duration_histograms EXCEPT ![cold] = Observe(@, d)]
      /\ log' = [log EXCEPT ![cold] = Append(@, d)]
  BY <1>2 DEF record_invocation
<1>6. /\ pc' \in [Actors -> Locations]
      /\ call' \in [Actors -> Call]
      /\ pc'[t] = "out"
      /\ call'[t] = Idle
      /\ \A b \in Actors : b # t => pc'[b] = pc[b] /\ call'[b] = call[b]
  BY <1>0, <1>3, IdleLocals, MoveFacts
<1>7. duration_histograms[cold] \in Histogram /\ log[cold] \in Seq(Durations)
  BY <1>1 DEF TypeOK
<1>8. LET h == Observe(duration_histograms[cold], d)
      IN  /\ h \in Histogram
          /\ h.count = duration_histograms[cold].count + 1
          /\ h.bucket_counts # <<>>
          /\ \A i \in Buckets : h.bucket_counts[i] =
                    Cardinality(UpTo(Append(log[cold], d), kBucketsMs[i]))
  <2>1. /\ duration_histograms[cold].count = Len(log[cold])
        /\ duration_histograms[cold].count = 0 <=> duration_histograms[cold].bucket_counts = <<>>
        /\ duration_histograms[cold].count > 0 => \A i \in Buckets :
                duration_histograms[cold].bucket_counts[i] =
                    Cardinality(UpTo(log[cold], kBucketsMs[i]))
    BY <1>1 DEF CountInv, HistogramExact
  <2> QED
    BY <1>7, <2>1, ObserveExact
<1>9. /\ duration_histograms' \in [BOOLEAN -> Histogram]
      /\ duration_histograms'[cold] = Observe(duration_histograms[cold], d)
      /\ \A b \in BOOLEAN : b # cold => duration_histograms'[b] = duration_histograms[b]
  BY <1>1, <1>5, <1>8 DEF TypeOK
<1>10. /\ log' \in [BOOLEAN -> Seq(Durations)]
       /\ log'[cold] = Append(log[cold], d)
       /\ \A b \in BOOLEAN : b # cold => log'[b] = log[b]
  BY <1>1, <1>5, <1>7 DEF TypeOK
<1>11. /\ invocation_counts' \in [Statuses \X BOOLEAN -> Nat]
       /\ \A b \in BOOLEAN : InvocationsTotal(invocation_counts', b) =
            IF b = cold THEN InvocationsTotal(invocation_counts, b) + 1
            ELSE InvocationsTotal(invocation_counts, b)
  <2>1. invocation_counts' \in [Statuses \X BOOLEAN -> Nat]
    BY <1>1, <1>5 DEF TypeOK
  <2>2. \A b \in BOOLEAN : InvocationsTotal(invocation_counts', b) =
            IF cold = b THEN InvocationsTotal(invocation_counts, b) + 1
            ELSE InvocationsTotal(invocation_counts, b)
    <3>1. TAKE b \in BOOLEAN
    <3>2. \A x \in Statuses :
            /\ invocation_counts[<<x, b>>] \in Nat
            /\ invocation_counts'[<<x, b>>] =
                IF x = s /\ b = cold THEN invocation_counts[<<x, b>>] + 1
                ELSE invocation_counts[<<x, b>>]
      BY <1>1, <1>5 DEF TypeOK
    <3> QED
      BY <1>1, <3>2 DEF InvocationsTotal, Statuses
  <2> QED
    BY <2>1, <2>2
<1>12. TypeOK'
  BY <1>3, <1>5, <1>6, <1>9, <1>10, <1>11 DEF TypeOK
<1>13. LockInv'
  <2>1. \A u \in Threads : LocalsInv(pc'[u], call'[u])
    BY <1>0, <1>6, IdleLocals DEF LockInv
  <2>2. \A a \in Actors : pc'[a] \in {"emplaced", "erased"} => pc'[a] = pc[a] /\ call'[a] = call[a]
    BY <1>6
  <2>3. \A u \in Threads : pc[u] \in {"emplaced", "erased"} => pc'[u] = pc[u]
    BY <1>0, <1>1, <1>6
  <2>4. pc'[Reaper] = pc[Reaper] /\ call'[Reaper] = call[Reaper]
    BY <1>0, <1>6
  <2> QED
    BY <1>0, <1>3, <2>1, <2>2, <2>3, <2>4 DEF LockInv
<1>14. TableInv'
  <2>1. \A a \in Actors : pc'[a] \in {"emplaced", "erased"} => pc'[a] = pc[a]
    BY <1>6
  <2>2. pc'[Reaper] = pc[Reaper]
    BY <1>0, <1>6
  <2> QED
    BY <1>3, <1>5, <2>1, <2>2 DEF TableInv
<1>15. ColdInv'
  <2>1. ColdPending' = ColdPending \ {t} /\ (t \in ColdPending <=> cold)
    BY <1>0, <1>3, <1>4, IdleLocals, MovePending
  <2>2. InvocationsTotal(invocation_counts, TRUE) \in Nat /\ Cardinality(ColdPending) \in Nat
    BY FiniteTable, OneMoreOneLess, TotalsType DEF TypeOK
  <2>3. CASE cold = TRUE
    <3>1. Cardinality(ColdPending') = Cardinality(ColdPending) - 1
      BY <2>1, <2>3, FiniteTable, OneMoreOneLess
    <3>2. InvocationsTotal(invocation_counts', TRUE) = InvocationsTotal(invocation_counts, TRUE) + 1
      BY <1>11, <2>3
    <3>3. created = InvocationsTotal(invocation_counts, TRUE) + Cardinality(ColdPending)
      BY DEF ColdInv
    <3> DEFINE total == InvocationsTotal(invocation_counts, TRUE)
               pending == Cardinality(ColdPending)
    <3>4. created' = created /\ created = total + pending /\ total \in Nat /\ pending \in Nat
          /\ Cardinality(ColdPending') = pending - 1
          /\ InvocationsTotal(invocation_counts', TRUE) = total + 1
      BY <1>5, <2>2, <3>1, <3>2, <3>3, Zenon
    <3> HIDE DEF total, pending
    <3>5. created' = (total + 1) + (pending - 1)
      BY <3>4
    <3> QED
      BY <3>4, <3>5, Zenon DEF ColdInv
  <2>4. CASE cold = FALSE
    <3>1. ColdPending' = ColdPending
      BY <2>1, <2>4
    <3>2. InvocationsTotal(invocation_counts', TRUE) = InvocationsTotal(invocation_counts, TRUE)
      BY <1>11, <2>4
    <3> QED
      BY <1>5, <3>1, <3>2 DEF ColdInv
  <2> QED
    BY <1>1, <2>3, <2>4
<1>16. GaugeInv'
  BY <1>0, <1>3, <1>5, IdleLocals, GaugesStay
<1>17. CountInv'
  <2> SUFFICES ASSUME NEW b \in BOOLEAN
               PROVE  /\ duration_histograms'[b].count = InvocationsTotal(invocation_counts', b)
                      /\ duration_histograms'[b].count = 0
                            <=> duration_histograms'[b].bucket_counts = <<>>
    BY DEF CountInv
  <2>1. duration_histograms[b].count \in Nat
    BY DEF TypeOK, Histogram
  <2> QED
    BY <1>1, <1>8, <1>9, <1>11, <2>1 DEF CountInv
<1>18. HistogramExact'
  <2> SUFFICES ASSUME NEW b \in BOOLEAN
               PROVE  /\ duration_histograms'[b].count = Len(log'[b])
                      /\ duration_histograms'[b].count > 0 => \A i \in Buckets :
                            duration_histograms'[b].bucket_counts[i] =
                                Cardinality(UpTo(log'[b], kBucketsMs[i]))
    BY DEF HistogramExact
  <2>1. CASE b = cold
    <3>1. Len(Append(log[cold], d)) = Len(log[cold]) + 1
      BY <1>7
    <3> QED
      BY <1>8, <1>9, <1>10, <2>1, <3>1 DEF HistogramExact
  <2>2. CASE b # cold
    BY <1>9, <1>10, <2>2 DEF HistogramExact
  <2> QED
    BY <2>1, <2>2
<1>19. ScrapeConsistent' /\ HistogramsCumulative'
  BY <1>0, <1>3, IdleLocals, PagesStay
<1> QED
  BY <1>12, <1>13, <1>14, <1>15, <1>16, <1>17, <1>18, <1>19

\* The locals with which a failed call goes on.
LEMMA AfterFailureLocals ==
    ASSUME NEW t, NEW locals \in Call, AfterFailure(t, locals),
           locals.name \in Names, locals.status \in Statuses
    PROVE  \E to \in {"enter", "record"}, l \in Call :
                /\ Move(t, to, l)
                /\ LocalsInv(to, l)
                /\ Pending(to, l) <=> locals.cold_start
<1> DEFINE again == [Idle EXCEPT !.name = locals.name, !.retried = TRUE]
<1>1. again \in Call /\ again.name \in Names /\ ~again.cold_start
  BY DEF Idle, Call
<1>2. LocalsInv("enter", again) /\ ~Pending("enter", again)
  BY <1>1 DEF LocalsInv, Pending
<1>3. LocalsInv("record", locals) /\ (Pending("record", locals) <=> locals.cold_start)
  BY DEF LocalsInv, Pending
<1>4. \/ Move(t, "enter", again) /\ ~locals.cold_start
      \/ Move(t, "record", locals)
  BY DEF AfterFailure
<1> HIDE DEF again
<1> QED
  BY <1>1, <1>2, <1>3, <1>4

\* A call that timed out or could not connect.
LEMMA FailStep ==
    ASSUME MetricsInv, NEW t \in Threads, Fail(t)
    PROVE  MetricsInv'
<1>0. t \in Actors /\ call[t] \in Call /\ call[t].name \in Names /\ pc[t] = "post"
      /\ mutex = Null
  BY DEF MetricsInv, TypeOK, Actors, LockInv, LocalsInv, Fail
<1>1. PICK s \in {"timeout", "infra_error"} :
        LET locals == [call[t] EXCEPT !.status = s,
                                      !.reason = IF s = "timeout" THEN s ELSE "dead"]
        IN  \/ call[t].name \in runtimes /\ Erase(t, call[t].name, locals)
            \/ AfterFailure(t, locals) /\ UNCHANGED <<runtimes, mutex, requests, registry>>
  BY DEF Fail
<1> DEFINE locals == [call[t] EXCEPT !.status = s,
                                     !.reason = IF s = "timeout" THEN s ELSE "dead"]
<1>2. /\ locals \in Call /\ locals.name = call[t].name
      /\ locals.status \in Statuses
      /\ locals.cold_start = call[t].cold_start
      /\ locals.reason \in Reasons /\ locals.reason # "deleted"
  BY <1>0 DEF Call, Statuses, Reasons
<1>3. \/ call[t].name \in runtimes /\ Erase(t, call[t].name, locals)
      \/ AfterFailure(t, locals) /\ UNCHANGED <<runtimes, mutex, requests, registry>>
  BY <1>1
<1> HIDE DEF locals
<1>4. CASE call[t].name \in runtimes /\ Erase(t, call[t].name, locals)
  <2>1. LocalsInv("erased", locals)
    BY <1>0, <1>2 DEF LocalsInv
  <2>2. Pending("erased", locals) <=> Pending(pc[t], call[t])
    BY <1>0, <1>2 DEF Pending
  <2> QED
    BY <1>0, <1>2, <1>4, <2>1, <2>2, EraseStep
<1>5. CASE AfterFailure(t, locals) /\ UNCHANGED <<runtimes, mutex, requests, registry>>
  <2>1. PICK to \in {"enter", "record"}, l \in Call :
            Move(t, to, l) /\ LocalsInv(to, l) /\ (Pending(to, l) <=> locals.cold_start)
    BY <1>0, <1>2, <1>5, AfterFailureLocals
  <2>2. Pending(pc[t], call[t]) <=> locals.cold_start
    BY <1>0, <1>2 DEF Pending
  <2>3. to \in Locations \ {"emplaced", "erased"}
    BY DEF Locations
  <2>4. requests' \in 0..MaxRequests
    BY <1>5 DEF MetricsInv, TypeOK
  <2> QED
    BY <1>0, <1>5, <2>1, <2>2, <2>3, <2>4, QuietStep
<1> QED
  BY <1>3, <1>4, <1>5

\* The gauge is read under the lock: it is at most the counter of that moment.
LEMMA GaugeStep ==
    ASSUME MetricsInv, NEW t \in Threads, ListRuntimes(t)
    PROVE  MetricsInv'
<1> DEFINE l == [Idle EXCEPT !.active = Cardinality(runtimes)]
<1>1. Cardinality(runtimes) \in Nat
  BY FiniteTable, OneMoreOneLess DEF MetricsInv
<1>2. l \in Call /\ l.active = Cardinality(runtimes)
  BY <1>1 DEF Idle, Call
<1>3. pc[t] = "out" /\ mutex = Null /\ Move(t, "render", l)
      /\ UNCHANGED <<runtimes, mutex, requests, registry>>
  BY DEF ListRuntimes
<1> HIDE DEF l
<1>4. Cardinality(runtimes) <= created
  <2>1. created = TerminatedTotal(terminated) + Cardinality(runtimes)
    BY <1>3, NobodyBetween
  <2>2. TerminatedTotal(terminated) \in Nat
    BY TotalsType DEF MetricsInv, TypeOK
  <2> QED
    BY <1>1, <2>1, <2>2
<1>5. LocalsInv("render", l) /\ ~Pending("render", l) /\ ~Pending(pc[t], call[t])
  BY <1>3 DEF LocalsInv, Pending
<1>6. "render" \in Locations \ {"emplaced", "erased"} /\ requests' \in 0..MaxRequests
  BY <1>3 DEF Locations, MetricsInv, TypeOK
<1> QED
  BY <1>2, <1>3, <1>4, <1>5, <1>6, QuietStep

\* What render() writes, at whatever moment after the gauge was read.
LEMMA PageRendered ==
    ASSUME MetricsInv, NEW active \in Nat, active <= created
    PROVE  LET page == render(active)
           IN  /\ page \in Page
               /\ page.active <= page.created
               /\ TerminatedTotal(page.terminated) <= page.created
               /\ InvocationsTotal(page.invocations, TRUE) <= page.created
               /\ \A b \in BOOLEAN :
                    /\ page.histograms[b].count = InvocationsTotal(page.invocations, b)
                    /\ page.histograms[b].count > 0 =>
                        \A i, j \in Buckets : i <= j =>
                            /\ page.histograms[b].bucket_counts[i]
                                    <= page.histograms[b].bucket_counts[j]
                            /\ page.histograms[b].bucket_counts[j] <= page.histograms[b].count
<1> USE DEF MetricsInv
<1> DEFINE page == render(active)
<1>1. page \in Page
  BY DEF render, Page, TypeOK
<1>2. /\ page.active = active /\ page.created = created /\ page.terminated = terminated
      /\ page.invocations = invocation_counts /\ page.histograms = duration_histograms
  BY DEF render
<1>3. /\ TerminatedTotal(terminated) \in Nat /\ Cardinality(runtimes) \in Nat
      /\ Cardinality(ColdPending) \in Nat /\ created \in Nat
  BY FiniteTable, OneMoreOneLess, TotalsType DEF TypeOK
<1>4. TerminatedTotal(terminated) <= created
  <2>1. CASE \E t \in Threads : pc[t] = "emplaced"
    <3>1. PICK t \in Threads : pc[t] = "emplaced"
      BY <2>1
    <3>2. created + 1 = TerminatedTotal(terminated) + Cardinality(runtimes)
      BY <3>1 DEF TableInv, Actors
    <3>3. Cardinality(runtimes) > 0
      BY <3>1, FiniteTable, OneMoreOneLess DEF LockInv
    <3> QED
      BY <1>3, <3>2, <3>3
  <2>2. CASE \E a \in Actors : pc[a] = "erased"
    <3>1. created = TerminatedTotal(terminated) + Cardinality(runtimes) + 1
      BY <2>2 DEF TableInv
    <3> QED
      BY <1>3, <3>1
  <2>3. CASE /\ \A t \in Threads : pc[t] # "emplaced"
             /\ \A a \in Actors : pc[a] # "erased"
    <3>1. mutex = Null \/ (mutex = Reaper /\ pc[Reaper] = "out")
      BY <2>3, MetricsAssumption DEF LockInv, TypeOK, Actors
    <3>2. created = TerminatedTotal(terminated) + Cardinality(runtimes)
      BY <3>1, NobodyBetween
    <3> QED
      BY <1>3, <3>2
  <2> QED
    BY <2>1, <2>2, <2>3
<1>5. InvocationsTotal(invocation_counts, TRUE) <= created
  <2> DEFINE total == InvocationsTotal(invocation_counts, TRUE)
             pending == Cardinality(ColdPending)
  <2>1. total \in Nat
    BY TotalsType, Zenon DEF TypeOK
  <2>2. created = total + pending /\ pending \in Nat
    BY <1>3, Zenon DEF ColdInv
  <2> HIDE DEF total, pending
  <2>3. total <= created
    BY <2>1, <2>2
  <2> QED
    BY <2>3 DEF total
<1>6. ASSUME NEW b \in BOOLEAN
      PROVE  duration_histograms[b].count = InvocationsTotal(invocation_counts, b)
  BY DEF CountInv
<1>7. ASSUME NEW b \in BOOLEAN, duration_histograms[b].count > 0,
             NEW i \in Buckets, NEW j \in Buckets, i <= j
      PROVE  /\ duration_histograms[b].bucket_counts[i] <= duration_histograms[b].bucket_counts[j]
             /\ duration_histograms[b].bucket_counts[j] <= duration_histograms[b].count
  <2>1. kBucketsMs[i] \in Nat /\ kBucketsMs[j] \in Nat /\ kBucketsMs[i] <= kBucketsMs[j]
    BY <1>7, MetricsAssumption DEF Buckets
  <2>2. log[b] \in Seq(Durations)
    BY DEF TypeOK
  <2>3. /\ Cardinality(UpTo(log[b], kBucketsMs[i])) <= Cardinality(UpTo(log[b], kBucketsMs[j]))
        /\ Cardinality(UpTo(log[b], kBucketsMs[j])) <= Len(log[b])
    BY <2>1, <2>2, UpToMonotone
  <2> QED
    BY <1>7, <2>3 DEF HistogramExact
<1> HIDE DEF page
<1> QED
  BY <1>1, <1>2, <1>4, <1>5, <1>6, <1>7 DEF page

\* A scrape renders its page.
LEMMA RenderStep ==
    ASSUME MetricsInv, NEW t \in Threads, Render(t)
    PROVE  MetricsInv'
<1> DEFINE page == render(call[t].active)
           l == [Idle EXCEPT !.page = page]
<1>0. t \in Actors /\ pc[t] = "render" /\ call[t].active \in Nat /\ call[t].active <= created
  BY DEF MetricsInv, TypeOK, Actors, Call, GaugeInv, Render
<1>1. /\ page \in Page
      /\ page.active <= page.created
      /\ TerminatedTotal(page.terminated) <= page.created
      /\ InvocationsTotal(page.invocations, TRUE) <= page.created
      /\ \A b \in BOOLEAN :
           /\ page.histograms[b].count = InvocationsTotal(page.invocations, b)
           /\ page.histograms[b].count > 0 =>
               \A i, j \in Buckets : i <= j =>
                   /\ page.histograms[b].bucket_counts[i] <= page.histograms[b].bucket_counts[j]
                   /\ page.histograms[b].bucket_counts[j] <= page.histograms[b].count
  BY <1>0, PageRendered
<1>2. Move(t, "respond", l) /\ UNCHANGED <<runtimes, mutex, requests, registry>>
  BY DEF Render
<1> HIDE DEF page
<1>3. l \in Call /\ l.page = page
  BY <1>1 DEF Idle, Call
<1> HIDE DEF l
<1>4. "respond" \in Locations \ {"emplaced", "erased"} /\ requests' \in 0..MaxRequests
  BY <1>2 DEF Locations, MetricsInv, TypeOK
<1>5. LocalsInv("respond", l) /\ ~Pending("respond", l) /\ ~Pending(pc[t], call[t])
  BY <1>0, <1>1, <1>3 DEF LocalsInv, Pending
<1>6. \A u \in Threads : pc'[u] = "respond" =>
            call'[u].page = page \/ (pc[u] = "respond" /\ call'[u] = call[u])
  BY <1>0, <1>2, <1>3, <1>4, MoveFacts DEF MetricsInv, Actors
<1>7. ScrapeConsistent'
  BY <1>1, <1>6 DEF MetricsInv, ScrapeConsistent
<1>8. HistogramsCumulative'
  BY <1>1, <1>6 DEF MetricsInv, HistogramsCumulative
<1> QED
  BY <1>0, <1>2, <1>3, <1>4, <1>5, <1>7, <1>8, QuietStep

\* The initial state.
LEMMA MetricsInit == Init => MetricsInv
<1> SUFFICES ASSUME Init PROVE MetricsInv
  OBVIOUS
<1> USE DEF Init
<1>1. TypeOK
  <2>1. /\ pc \in [Actors -> Locations] /\ call \in [Actors -> Call]
        /\ requests \in 0..MaxRequests
    BY IdleLocals, MetricsAssumption DEF Locations
  <2>2. /\ duration_histograms \in [BOOLEAN -> Histogram]
        /\ log \in [BOOLEAN -> Seq(Durations)]
    BY DEF Histogram
  <2> QED
    BY <2>1, <2>2 DEF TypeOK
<1>2. LockInv
  <2>1. Null \notin Threads /\ Reaper \in Actors /\ Threads \subseteq Actors
    BY MetricsAssumption DEF Actors
  <2>2. \A a \in Actors : pc[a] = "out" /\ call[a] = Idle
    OBVIOUS
  <2> QED
    BY <2>1, <2>2, IdleLocals DEF LockInv
<1>3. TableInv
  <2>1. Cardinality(runtimes) = 0
    BY FS_EmptySet
  <2>2. TerminatedTotal(terminated) = 0
    BY DEF TerminatedTotal, Reasons
  <2>3. \A a \in Actors : pc[a] = "out"
    OBVIOUS
  <2> QED
    BY <2>1, <2>2, <2>3 DEF TableInv
<1>4. \A b \in BOOLEAN : InvocationsTotal(invocation_counts, b) = 0
  BY DEF InvocationsTotal, Statuses
<1>5. ColdInv
  <2>1. ColdPending = {}
    BY DEF ColdPending, Actors
  <2>2. Cardinality(ColdPending) = 0
    BY <2>1, FS_EmptySet
  <2>3. InvocationsTotal(invocation_counts, TRUE) = 0
    BY <1>4
  <2>4. created = 0 + 0
    OBVIOUS
  <2> QED
    BY <2>2, <2>3, <2>4, Zenon DEF ColdInv
<1>6. CountInv /\ HistogramExact
  BY <1>4 DEF CountInv, HistogramExact
<1>7. GaugeInv /\ ScrapeConsistent /\ HistogramsCumulative
  BY DEF GaugeInv, ScrapeConsistent, HistogramsCumulative, Actors
<1> QED
  BY <1>1, <1>2, <1>3, <1>5, <1>6, <1>7 DEF MetricsInv

\* The invariant is inductive.
LEMMA MetricsNext == MetricsInv /\ [Next]_vars => MetricsInv'
<1> SUFFICES ASSUME MetricsInv, [Next]_vars PROVE MetricsInv'
  OBVIOUS
<1>0. Reaper \in Actors /\ Threads \subseteq Actors /\ \A a \in Actors : call[a] \in Call
  BY DEF Actors, MetricsInv, TypeOK
<1>1. ASSUME NEW t \in Threads, NEW f \in Names, Invoke(t, f) PROVE MetricsInv'
  <2> DEFINE l == [Idle EXCEPT !.name = f]
  <2>1. l \in Call /\ LocalsInv("enter", l) /\ ~Pending("enter", l)
    BY DEF Idle, Call, LocalsInv, Pending
  <2>2. pc[t] = "out" /\ Move(t, "enter", l) /\ UNCHANGED <<runtimes, mutex, registry>>
    BY <1>1 DEF Invoke
  <2> HIDE DEF l
  <2>3. requests' \in 0..MaxRequests
    BY <1>1, MetricsAssumption DEF Invoke, MetricsInv, TypeOK
  <2>4. "enter" \in Locations \ {"emplaced", "erased"} /\ ~Pending(pc[t], call[t])
    BY <2>2 DEF Locations, Pending
  <2> QED
    BY <2>1, <2>2, <2>3, <2>4, QuietStep
<1>2. ASSUME NEW t \in Threads, NEW f \in Names, Terminate(t, f) PROVE MetricsInv'
  <2> DEFINE l == [Idle EXCEPT !.reason = "deleted"]
  <2>1. /\ l \in Call /\ LocalsInv("erased", l) /\ ~Pending("erased", l)
        /\ l.reason \in Reasons
    BY DEF Idle, Call, LocalsInv, Pending, Reasons
  <2>2. pc[t] = "out" /\ mutex = Null /\ f \in runtimes /\ Erase(t, f, l)
    BY <1>2 DEF Terminate
  <2> HIDE DEF l
  <2>3. ~Pending(pc[t], call[t])
    BY <2>2 DEF Pending
  <2> QED
    BY <1>0, <2>1, <2>2, <2>3, EraseStep
<1>3. ASSUME NEW t \in Threads, Reuse(t) PROVE MetricsInv'
  <2>1. pc[t] = "enter" /\ Move(t, "post", call[t])
        /\ UNCHANGED <<runtimes, mutex, requests, registry>>
    BY <1>3 DEF Reuse
  <2>2. call[t].name \in Names /\ ~call[t].cold_start
    BY <2>1 DEF MetricsInv, LockInv, LocalsInv
  <2>3. LocalsInv("post", call[t]) /\ ~Pending("post", call[t]) /\ ~Pending(pc[t], call[t])
    BY <2>1, <2>2 DEF LocalsInv, Pending
  <2>4. "post" \in Locations \ {"emplaced", "erased"} /\ requests' \in 0..MaxRequests
    BY <2>1 DEF Locations, MetricsInv, TypeOK
  <2> QED
    BY <1>0, <2>1, <2>3, <2>4, QuietStep
<1>4. ASSUME NEW t \in Threads, StartFails(t) PROVE MetricsInv'
  <2> DEFINE l == [call[t] EXCEPT !.status = "infra_error"]
  <2>1. pc[t] = "enter" /\ Move(t, "record", l)
        /\ UNCHANGED <<runtimes, mutex, requests, registry>>
    BY <1>4 DEF StartFails
  <2>2. ~call[t].cold_start /\ call[t] \in Call
    BY <1>0, <2>1 DEF MetricsInv, LockInv, LocalsInv
  <2>3. l \in Call /\ l.status \in Statuses /\ ~l.cold_start
    BY <2>2 DEF Call, Statuses
  <2> HIDE DEF l
  <2>4. LocalsInv("record", l) /\ ~Pending("record", l) /\ ~Pending(pc[t], call[t])
    BY <2>1, <2>3 DEF LocalsInv, Pending
  <2>5. "record" \in Locations \ {"emplaced", "erased"} /\ requests' \in 0..MaxRequests
    BY <2>1 DEF Locations, MetricsInv, TypeOK
  <2> QED
    BY <2>1, <2>3, <2>4, <2>5, QuietStep
<1>5. ASSUME NEW t \in Threads, Reply(t) PROVE MetricsInv'
  <2>1. PICK s \in {"success", "error"} : Move(t, "record", [call[t] EXCEPT !.status = s])
    BY <1>5 DEF Reply
  <2> DEFINE l == [call[t] EXCEPT !.status = s]
  <2>2. pc[t] = "post" /\ Move(t, "record", l)
        /\ UNCHANGED <<runtimes, mutex, requests, registry>>
    BY <1>5, <2>1 DEF Reply
  <2>3. l \in Call /\ l.status \in Statuses /\ l.cold_start = call[t].cold_start
    BY <1>0 DEF Call, Statuses
  <2> HIDE DEF l
  <2>4. LocalsInv("record", l) /\ (Pending("record", l) <=> Pending(pc[t], call[t]))
    BY <2>2, <2>3 DEF LocalsInv, Pending
  <2>5. "record" \in Locations \ {"emplaced", "erased"} /\ requests' \in 0..MaxRequests
    BY <2>2 DEF Locations, MetricsInv, TypeOK
  <2> QED
    BY <2>2, <2>3, <2>4, <2>5, QuietStep
<1>6. ASSUME NEW t \in Threads, RecordTerminated(t) PROVE MetricsInv'
  <2>1. /\ pc[t] = "erased" /\ record_runtime_terminated(call[t].reason) /\ mutex' = Null
        /\ UNCHANGED <<runtimes, requests>> /\ t \in Actors /\ t # Reaper
        /\ call[t] \in Call
    BY <1>0, <1>6, MetricsAssumption DEF RecordTerminated
  <2>2. LocalsInv("erased", call[t])
    BY <2>1 DEF MetricsInv, LockInv
  <2>3. Pending(pc[t], call[t]) <=> call[t].cold_start
    BY <2>1 DEF Pending
  <2>4. CASE call[t].reason = "deleted"
    <3>1. ~call[t].cold_start /\ call[t].reason \in Reasons
      BY <2>2, <2>4 DEF LocalsInv
    <3>2. Move(t, "out", Idle)
      BY <1>6, <2>4 DEF RecordTerminated
    <3> QED
      BY <2>1, <2>3, <3>1, <3>2, IdleLocals, CountStep
  <2>5. CASE call[t].reason # "deleted"
    <3>1. /\ call[t].reason \in Reasons /\ call[t].name \in Names
          /\ call[t].status \in Statuses
      BY <2>2, <2>5 DEF LocalsInv
    <3>2. AfterFailure(t, call[t])
      BY <1>6, <2>5 DEF RecordTerminated
    <3>3. PICK to \in {"enter", "record"}, l \in Call :
              Move(t, to, l) /\ LocalsInv(to, l) /\ (Pending(to, l) <=> call[t].cold_start)
      BY <2>1, <3>1, <3>2, AfterFailureLocals
    <3> QED
      BY <2>1, <2>3, <3>1, <3>3, CountStep
  <2> QED
    BY <2>4, <2>5
<1>7. ASSUME NEW t \in Threads, Respond(t) PROVE MetricsInv'
  <2>1. pc[t] = "respond" /\ Move(t, "out", Idle)
        /\ UNCHANGED <<runtimes, mutex, requests, registry>>
    BY <1>7 DEF Respond
  <2>2. "out" \in Locations \ {"emplaced", "erased"} /\ requests' \in 0..MaxRequests
        /\ ~Pending(pc[t], call[t])
    BY <2>1 DEF Locations, MetricsInv, TypeOK, Pending
  <2> QED
    BY <2>1, <2>2, IdleLocals, QuietStep
<1>8. ASSUME NEW f \in Names, Reap(f) PROVE MetricsInv'
  <2> DEFINE l == [Idle EXCEPT !.reason = "idle_timeout"]
  <2>1. l \in Call /\ l.reason \in Reasons
    BY DEF Idle, Call, Reasons
  <2>2. pc[Reaper] = "out" /\ mutex \in {Null, Reaper} /\ f \in runtimes /\ Erase(Reaper, f, l)
    BY <1>8 DEF Reap
  <2> HIDE DEF l
  <2> QED
    BY <1>0, <2>1, <2>2, EraseStep, MetricsAssumption
<1>9. CASE ReapRecord
  <2>1. /\ pc[Reaper] = "erased" /\ record_runtime_terminated(call[Reaper].reason)
        /\ Move(Reaper, "out", Idle) /\ UNCHANGED <<runtimes, mutex, requests>>
    BY <1>9 DEF ReapRecord
  <2>2. call[Reaper].reason \in Reasons /\ Reaper \notin Threads
    BY <2>1, MetricsAssumption DEF MetricsInv, LockInv
  <2> QED
    BY <1>0, <2>1, <2>2, IdleLocals, CountStep
<1>10. CASE ReapUnlock
  <2>1. /\ pc[Reaper] = "out" /\ mutex = Reaper /\ mutex' = Null
        /\ UNCHANGED <<runtimes, pc, call, requests>>
        /\ created' = created /\ terminated' = terminated
        /\ invocation_counts' = invocation_counts /\ log' = log
        /\ duration_histograms' = duration_histograms
    BY <1>10 DEF ReapUnlock, registry
  <2>2. \A a \in Actors : pc[a] \notin {"emplaced", "erased"}
    BY <2>1, NobodyBetween
  <2>3. TypeOK'
    BY <2>1 DEF MetricsInv, TypeOK
  <2>4. LockInv'
    BY <1>0, <2>1, <2>2, MetricsAssumption DEF MetricsInv, LockInv
  <2>5. TableInv'
    BY <2>1, <2>2 DEF MetricsInv, TableInv
  <2>6. ColdInv' /\ GaugeInv' /\ CountInv'
    BY <2>1 DEF MetricsInv, ColdInv, ColdPending, GaugeInv, CountInv
  <2>7. ScrapeConsistent' /\ HistogramsCumulative' /\ HistogramExact'
    BY <2>1 DEF MetricsInv, ScrapeConsistent, HistogramsCumulative, HistogramExact
  <2> QED
    BY <2>3, <2>4, <2>5, <2>6, <2>7 DEF MetricsInv
<1>11. CASE UNCHANGED vars
  BY <1>11 DEF vars, registry, MetricsInv, TypeOK, LockInv, TableInv, ColdInv, ColdPending,
               GaugeInv, CountInv, ScrapeConsistent, HistogramsCumulative, HistogramExact
<1> QED
  BY <1>1, <1>2, <1>3, <1>4, <1>5, <1>6, <1>7, <1>8, <1>9, <1>10, <1>11, EmplaceStep,
     CreatedStep, FailStep, InvocationStep, GaugeStep, RenderStep DEF Next, ThreadStep

-----------------------------------------------------------------------------
\* MetricsInv holds in every reachable state, whatever the numbers of
\* functions, threads, requests and buckets.
THEOREM MetricsInvariant == Spec => []MetricsInv
<1> QED
  BY MetricsInit, MetricsNext, PTL DEF Spec

\* GET /metrics reads the table under mutex_ and the registry later under the
\* registry's own mutex; no interleaving makes its page contradict itself.
THEOREM ScrapesConsistent == Spec => []ScrapeConsistent
<1>1. MetricsInv => ScrapeConsistent
  BY DEF MetricsInv
<1> QED
  BY <1>1, MetricsInvariant, PTL

\* Every scraped histogram is cumulative and agrees with the counter of the
\* same label.
THEOREM ScrapedHistograms == Spec => []HistogramsCumulative
<1>1. MetricsInv => HistogramsCumulative
  BY DEF MetricsInv
<1> QED
  BY <1>1, MetricsInvariant, PTL

\* The buckets that record_invocation updates in place hold what a count over
\* all recorded durations would give.
THEOREM HistogramsExact == Spec => []HistogramExact
<1>1. MetricsInv => HistogramExact
  BY DEF MetricsInv
<1> QED
  BY <1>1, MetricsInvariant, PTL
=============================================================================
