---------------------------- MODULE RoutingProofs ----------------------------
(***************************************************************************)
(* The request table answers as its reference says, for every set of words *)
(* and every length of a path.  split_path is a loop over the path, so     *)
(* what it returns is proved by induction on the position; the induction   *)
(* rule is derived here from the least element of a set of naturals.       *)
(***************************************************************************)
EXTENDS Routing, WellFoundedInduction, FiniteSetTheorems, TLAPS

-----------------------------------------------------------------------------
\* Induction over the naturals, as a statement about sets.

\* A set of naturals has a least element.
LEMMA LeastElement ==
    ASSUME NEW T, T \subseteq Nat, T # {}
    PROVE  \E m \in T : \A k \in T : m <= k
<1>1. IsWellFoundedOn(OpToRel(<, Nat), Nat)
  BY NatLessThanWellFounded
<1>2. PICK m \in T : \A k \in T : <<k, m>> \notin OpToRel(<, Nat)
  <2>. HIDE DEF OpToRel
  <2>. QED
    BY <1>1, WFMin
<1>3. \A k \in T : ~(k < m)
  BY <1>2 DEF OpToRel
<1>4. m \in T
  OBVIOUS
<1>. QED
  BY <1>3, <1>4

\* A set that has 0, and n + 1 whenever it has n, has every natural.
LEMMA SetInduction ==
    ASSUME NEW S, 0 \in S, \A n \in Nat : n \in S => n + 1 \in S
    PROVE  Nat \subseteq S
<1>. DEFINE T == Nat \ S
<1>. SUFFICES ASSUME T # {} PROVE FALSE
  OBVIOUS
<1>1. PICK m \in T : \A k \in T : m <= k
  BY LeastElement
<1>2. m \in Nat /\ m # 0
  BY <1>1
<1>3. m - 1 \in Nat /\ m - 1 \in S
  BY <1>1, <1>2
<1>. QED
  BY <1>1, <1>2, <1>3

\* Min, as SelectInSeq uses it.
LEMMA MinIsLeast ==
    ASSUME NEW T, T \subseteq Nat, T # {}
    PROVE  Min(T) \in T /\ \A k \in T : Min(T) <= k
BY LeastElement DEF Min

-----------------------------------------------------------------------------
\* split_path.

\* Its loop up to a position.
Loop(path, end, segments) ==
    segments = [i \in 0..end |->
        IF i = 0 THEN <<>>
        ELSE IF path[i] = "/" THEN segments[i - 1] ELSE Append(segments[i - 1], path[i])]

\* The loop has a result at every position.
LEMMA LoopExists ==
    ASSUME NEW path
    PROVE  \A n \in Nat : \E g : Loop(path, n, g)
<1>. DEFINE S == {n \in Nat : \E g : Loop(path, n, g)}
<1>1. 0 \in S
  <2>1. Loop(path, 0, [i \in 0..0 |-> <<>>])
    BY DEF Loop
  <2>. QED
    BY <2>1
<1>2. ASSUME NEW n \in Nat, n \in S PROVE n + 1 \in S
  <2>1. PICK g : Loop(path, n, g)
    BY <1>2
  <2>. DEFINE next == IF path[n + 1] = "/" THEN g[n] ELSE Append(g[n], path[n + 1])
              h == [i \in 0..(n + 1) |-> IF i = n + 1 THEN next ELSE g[i]]
  <2>2. \A i \in 0..n : g[i] = IF i = 0 THEN <<>> ELSE IF path[i] = "/" THEN g[i - 1]
                               ELSE Append(g[i - 1], path[i])
    BY <2>1 DEF Loop
  <2>3. \A i \in 0..n : h[i] = g[i]
    OBVIOUS
  <2>4. h[n + 1] = next
    OBVIOUS
  <2>5. h = [i \in 0..(n + 1) |-> h[i]]
    OBVIOUS
  <2>. HIDE DEF h
  <2>6. \A i \in 0..(n + 1) : h[i] = IF i = 0 THEN <<>> ELSE IF path[i] = "/" THEN h[i - 1]
                                     ELSE Append(h[i - 1], path[i])
    <3>. TAKE i \in 0..(n + 1)
    <3>1. CASE i = n + 1
      BY <2>3, <2>4, <3>1
    <3>2. CASE i \in 0..n
      BY <2>2, <2>3, <3>2
    <3>. QED
      BY <3>1, <3>2
  <2>7. Loop(path, n + 1, h)
    BY <2>5, <2>6 DEF Loop
  <2>. QED
    BY <2>7
<1>3. Nat \subseteq S
  <2>. HIDE DEF S
  <2>. QED
    BY <1>1, <1>2, SetInduction
<1>. QED
  BY <1>3

\* The loop ends at the first "?", or with the path.
LEMMA SplitLoop ==
    ASSUME NEW path, Len(path) \in Nat
    PROVE  \E end \in 0..Len(path) : \E g :
             /\ Loop(path, end, g)
             /\ split_path(path) = g[end]
             /\ \A i \in 1..end : path[i] # "?"
             /\ end = Len(path) \/ path[end + 1] = "?"
<1>. DEFINE I == {i \in 1..Len(path) : path[i] = "?"}
            query == IF I # {} THEN Min(I) ELSE 0
            end == IF query = 0 THEN Len(path) ELSE query - 1
            g == CHOOSE g : Loop(path, end, g)
<1>1. /\ end \in 0..Len(path)
      /\ \A i \in 1..end : path[i] # "?"
      /\ end = Len(path) \/ path[end + 1] = "?"
  <2>1. CASE I = {}
    BY <2>1
  <2>2. CASE I # {}
    <3>1. I \subseteq Nat
      OBVIOUS
    <3>2. Min(I) \in I /\ \A k \in I : Min(I) <= k
      BY <2>2, <3>1, MinIsLeast
    <3>3. Min(I) \in 1..Len(path) /\ path[Min(I)] = "?" /\ end = Min(I) - 1
      BY <2>2, <3>2
    <3>4. ASSUME NEW i \in 1..end PROVE path[i] # "?"
      <4>1. i \in 1..Len(path) /\ i \notin I
        BY <3>2, <3>3
      <4>. QED
        BY <4>1
    <3>5. path[end + 1] = "?" /\ end \in 0..Len(path)
      <4>. HIDE DEF I, end
      <4>. QED
        BY <3>3
    <3>. QED
      BY <3>4, <3>5
  <2>. QED
    BY <2>1, <2>2
<1>2. split_path(path) = g[end]
  BY Zenon DEF split_path, SelectInSeq, Loop
<1>. HIDE DEF end
<1>3. Loop(path, end, g)
  BY <1>1, LoopExists
<1>. QED
  BY <1>1, <1>2, <1>3

\* A path of segments with a "/" before each, whatever slashes and query follow.
LEMMA SplitAlternating ==
    ASSUME NEW S, NEW segments \in Seq(S), NEW path, Len(path) \in Nat,
           NEW end \in (2 * Len(segments))..Len(path),
           \A k \in 1..Len(segments) : /\ path[2 * k - 1] = "/"
                                       /\ path[2 * k] = segments[k]
                                       /\ segments[k] \notin {"/", "?"},
           \A j \in (2 * Len(segments) + 1)..end : path[j] = "/",
           end = Len(path) \/ path[end + 1] = "?"
    PROVE  split_path(path) = segments
<1>. DEFINE n == Len(segments)
<1>1. n \in Nat /\ end \in Nat /\ 2 * n <= end /\ end <= Len(path)
  OBVIOUS
<1>0. PICK e \in 0..Len(path) : \E g :
             /\ Loop(path, e, g)
             /\ split_path(path) = g[e]
             /\ \A i \in 1..e : path[i] # "?"
             /\ e = Len(path) \/ path[e + 1] = "?"
  BY SplitLoop
<1>2. PICK g :
             /\ Loop(path, e, g)
             /\ split_path(path) = g[e]
             /\ \A i \in 1..e : path[i] # "?"
             /\ e = Len(path) \/ path[e + 1] = "?"
  BY <1>0
<1>3. \A i \in 1..end : path[i] # "?"
  <2>. TAKE i \in 1..end
  <2>1. CASE i > 2 * n
    BY <1>1, <2>1
  <2>2. CASE i <= 2 * n
    <3>1. PICK k \in 1..n : i = 2 * k - 1 \/ i = 2 * k
      <4>1. (i + 1) \div 2 \in 1..n /\ (i = 2 * ((i + 1) \div 2) - 1 \/ i = 2 * ((i + 1) \div 2))
        BY <1>1, <2>2
      <4>. QED
        BY <4>1
    <3>. QED
      BY <3>1
  <2>. QED
    BY <1>1, <2>1, <2>2
<1>4. e = end
  BY <1>1, <1>2, <1>3
<1>5. /\ g[0] = <<>>
      /\ \A i \in 1..end : /\ path[i] = "/" => g[i] = g[i - 1]
                           /\ path[i] # "/" => g[i] = Append(g[i - 1], path[i])
  <2>1. \A i \in 0..end : g[i] = IF i = 0 THEN <<>>
                                 ELSE IF path[i] = "/" THEN g[i - 1]
                                 ELSE Append(g[i - 1], path[i])
    BY <1>2, <1>4 DEF Loop
  <2>2. 0 \in 0..end /\ \A i \in 1..end : i \in 0..end /\ i # 0
    BY <1>1
  <2>. QED
    BY <2>1, <2>2
<1>6. ASSUME NEW k \in 0..n
      PROVE  g[2 * k] \in Seq(S) /\ Len(g[2 * k]) = k /\ \A j \in 1..k : g[2 * k][j] = segments[j]
  <2>. DEFINE P(m) == /\ g[2 * m] \in Seq(S) /\ Len(g[2 * m]) = m
                      /\ \A j \in 1..m : g[2 * m][j] = segments[j]
              Q == {m \in Nat : m <= n => P(m)}
  <2>1. 0 \in Q
    <3>1. 2 * 0 = 0 /\ <<>> \in Seq(S) /\ Len(<<>>) = 0 /\ \A j \in 1..0 : FALSE
      OBVIOUS
    <3>2. g[2 * 0] = <<>>
      BY <1>5, <3>1
    <3>3. P(0)
      BY <3>1, <3>2
    <3>. HIDE DEF P
    <3>. QED
      BY <3>3
  <2>2. ASSUME NEW i \in Nat, i \in Q PROVE i + 1 \in Q
    <3>. SUFFICES ASSUME i + 1 <= n PROVE P(i + 1)
      <4>. HIDE DEF P, n
      <4>. QED
        OBVIOUS
    <3>1. P(i)
      <4>. HIDE DEF P
      <4>. QED
        BY <2>2, <1>1
    <3>2. g[2 * i + 1] = g[2 * i]
      <4>1. 2 * i + 1 \in 1..end /\ i + 1 \in 1..n /\ 2 * (i + 1) - 1 = 2 * i + 1
        BY <1>1
      <4>2. path[2 * i + 1] = "/"
        BY <4>1
      <4>3. (2 * i + 1) - 1 = 2 * i
        OBVIOUS
      <4>. QED
        BY <1>5, <4>1, <4>2, <4>3
    <3>3. g[2 * (i + 1)] = Append(g[2 * i], segments[i + 1])
      <4>1. 2 * (i + 1) \in 1..end /\ i + 1 \in 1..n /\ 2 * (i + 1) - 1 = 2 * i + 1
        BY <1>1
      <4>2. path[2 * (i + 1)] = segments[i + 1] /\ path[2 * (i + 1)] # "/"
        BY <4>1
      <4>3. g[2 * (i + 1)] = Append(g[2 * (i + 1) - 1], path[2 * (i + 1)])
        BY <1>5, <4>1, <4>2
      <4>. QED
        BY <4>1, <4>2, <4>3, <3>2
    <3>4. segments[i + 1] \in S
      BY <1>1
    <3>. HIDE DEF n
    <3>. QED
      BY <3>1, <3>3, <3>4
  <2>3. Nat \subseteq Q
    <3>. HIDE DEF Q
    <3>. QED
      BY <2>1, <2>2, SetInduction
  <2>. QED
    BY <1>1, <2>3
<1>7. g[2 * n] = segments
  BY <1>1, <1>6
<1>8. ASSUME NEW j \in Nat, 2 * n + j <= end PROVE g[2 * n + j] = segments
  <2>. DEFINE Q == {i \in Nat : 2 * n + i <= end => g[2 * n + i] = segments}
  <2>1. 0 \in Q
    BY <1>1, <1>7
  <2>2. ASSUME NEW i \in Nat, i \in Q PROVE i + 1 \in Q
    <3>. SUFFICES ASSUME 2 * n + (i + 1) <= end PROVE g[2 * n + (i + 1)] = segments
      OBVIOUS
    <3>1. /\ 2 * n + (i + 1) \in 1..end /\ 2 * n + (i + 1) \in (2 * n + 1)..end
          /\ (2 * n + (i + 1)) - 1 = 2 * n + i /\ 2 * n + i <= end
      BY <1>1
    <3>2. path[2 * n + (i + 1)] = "/" /\ g[2 * n + i] = segments
      BY <2>2, <3>1
    <3>. QED
      BY <1>5, <3>1, <3>2
  <2>3. Nat \subseteq Q
    <3>. HIDE DEF Q
    <3>. QED
      BY <2>1, <2>2, SetInduction
  <2>. QED
    BY <1>8, <2>3
<1>9. PICK j \in Nat : 2 * n + j = end
  <2>1. end - 2 * n \in Nat /\ 2 * n + (end - 2 * n) = end
    BY <1>1
  <2>. QED
    BY <2>1
<1>10. g[end] = segments
  <2>1. 2 * n + j <= end
    BY <1>1, <1>9
  <2>2. g[2 * n + j] = segments
    BY <2>1, <1>8
  <2>. QED
    BY <1>9, <2>2
<1>. QED
  BY <1>2, <1>4, <1>10

\* The same without anything behind the segments.
LEMMA SplitExact ==
    ASSUME NEW S, NEW segments \in Seq(S), NEW path, Len(path) = 2 * Len(segments),
           \A k \in 1..Len(segments) : /\ path[2 * k - 1] = "/"
                                       /\ path[2 * k] = segments[k]
                                       /\ segments[k] \notin {"/", "?"}
    PROVE  split_path(path) = segments
<1>. DEFINE end == Len(path)
<1>1. Len(path) \in Nat /\ end \in (2 * Len(segments))..Len(path)
  OBVIOUS
<1>2. \A j \in (2 * Len(segments) + 1)..end : path[j] = "/"
  OBVIOUS
<1>3. end = Len(path)
  OBVIOUS
<1>. HIDE DEF end
<1>. QED
  BY <1>1, <1>2, <1>3, SplitAlternating

\* Paths of one, two and three segments.
LEMMA SplitOne ==
    ASSUME NEW a, a # "/", a # "?"
    PROVE  split_path(<<"/", a>>) = <<a>>
<1>. DEFINE path == <<"/", a>>
            segments == <<a>>
<1>1. segments \in Seq({a}) /\ Len(segments) = 1 /\ Len(path) = 2
  OBVIOUS
<1>2. ASSUME NEW k \in 1..1
      PROVE  /\ path[2 * k - 1] = "/" /\ path[2 * k] = segments[k]
             /\ segments[k] \notin {"/", "?"}
  <2>1. k = 1
    OBVIOUS
  <2>2. 2 * 1 - 1 = 1 /\ 2 * 1 = 2
    OBVIOUS
  <2>. QED
    BY <2>1, <2>2
<1>. HIDE DEF path, segments
<1>3. /\ Len(path) = 2 * Len(segments)
      /\ \A k \in 1..Len(segments) : /\ path[2 * k - 1] = "/"
                                     /\ path[2 * k] = segments[k]
                                     /\ segments[k] \notin {"/", "?"}
  BY <1>1, <1>2
<1>4. split_path(path) = segments
  BY <1>1, <1>3, SplitExact
<1>. QED
  BY <1>4 DEF path, segments

\* A path of two words.
LEMMA SplitTwo ==
    ASSUME NEW a, NEW b, a # "/", a # "?", b # "/", b # "?"
    PROVE  split_path(<<"/", a, "/", b>>) = <<a, b>>
<1>. DEFINE path == <<"/", a, "/", b>>
            segments == <<a, b>>
<1>1. segments \in Seq({a, b}) /\ Len(segments) = 2 /\ Len(path) = 4
  OBVIOUS
<1>2. ASSUME NEW k \in 1..2
      PROVE  /\ path[2 * k - 1] = "/" /\ path[2 * k] = segments[k]
             /\ segments[k] \notin {"/", "?"}
  <2>1. k = 1 \/ k = 2
    OBVIOUS
  <2>2. 2 * 1 - 1 = 1 /\ 2 * 1 = 2 /\ 2 * 2 - 1 = 3 /\ 2 * 2 = 4
    OBVIOUS
  <2>. QED
    BY <2>1, <2>2
<1>. HIDE DEF path, segments
<1>3. /\ Len(path) = 2 * Len(segments)
      /\ \A k \in 1..Len(segments) : /\ path[2 * k - 1] = "/"
                                     /\ path[2 * k] = segments[k]
                                     /\ segments[k] \notin {"/", "?"}
  BY <1>1, <1>2
<1>4. split_path(path) = segments
  BY <1>1, <1>3, SplitExact
<1>. QED
  BY <1>4 DEF path, segments

\* A path of three words.
LEMMA SplitThree ==
    ASSUME NEW a, NEW b, NEW c, a # "/", a # "?", b # "/", b # "?", c # "/", c # "?"
    PROVE  split_path(<<"/", a, "/", b, "/", c>>) = <<a, b, c>>
<1>. DEFINE path == <<"/", a, "/", b, "/", c>>
            segments == <<a, b, c>>
<1>1. segments \in Seq({a, b, c}) /\ Len(segments) = 3 /\ Len(path) = 6
  OBVIOUS
<1>2. ASSUME NEW k \in 1..3
      PROVE  /\ path[2 * k - 1] = "/" /\ path[2 * k] = segments[k]
             /\ segments[k] \notin {"/", "?"}
  <2>1. k = 1 \/ k = 2 \/ k = 3
    OBVIOUS
  <2>2. 2 * 1 - 1 = 1 /\ 2 * 1 = 2 /\ 2 * 2 - 1 = 3 /\ 2 * 2 = 4 /\ 2 * 3 - 1 = 5 /\ 2 * 3 = 6
    OBVIOUS
  <2>. QED
    BY <2>1, <2>2
<1>. HIDE DEF path, segments
<1>3. /\ Len(path) = 2 * Len(segments)
      /\ \A k \in 1..Len(segments) : /\ path[2 * k - 1] = "/"
                                     /\ path[2 * k] = segments[k]
                                     /\ segments[k] \notin {"/", "?"}
  BY <1>1, <1>2
<1>4. split_path(path) = segments
  BY <1>1, <1>3, SplitExact
<1>. QED
  BY <1>4 DEF path, segments

-----------------------------------------------------------------------------
\* The routes of main.cpp.

Pattern(method, segments) == [method |-> method, segments |-> segments]

\* The table, with the patterns split.
LEMMA RouteTable ==
    routes_ = << Pattern("GET",    <<"health">>),
                 Pattern("POST",   <<"functions">>),
                 Pattern("GET",    <<"functions", Param>>),
                 Pattern("DELETE", <<"functions", Param>>),
                 Pattern("POST",   <<"functions", Param, "invoke">>),
                 Pattern("GET",    <<"functions", Param, "runtime">>),
                 Pattern("GET",    <<"runtimes">>),
                 Pattern("GET",    <<"metrics">>),
                 Pattern("GET",    <<"invocations", Param>>) >>
<1>1. /\ split_path(<<"/", "health">>) = <<"health">>
      /\ split_path(<<"/", "functions">>) = <<"functions">>
      /\ split_path(<<"/", "runtimes">>) = <<"runtimes">>
      /\ split_path(<<"/", "metrics">>) = <<"metrics">>
  BY SplitOne
<1>2. /\ split_path(<<"/", "functions", "/", Param>>) = <<"functions", Param>>
      /\ split_path(<<"/", "invocations", "/", Param>>) = <<"invocations", Param>>
  BY SplitTwo DEF Param
<1>3. /\ split_path(<<"/", "functions", "/", Param, "/", "invoke">>) = <<"functions", Param, "invoke">>
      /\ split_path(<<"/", "functions", "/", Param, "/", "runtime">>) = <<"functions", Param, "runtime">>
  BY SplitThree DEF Param
<1>. QED
  BY <1>1, <1>2, <1>3 DEF routes_, route, Pattern

\* The table, entry by entry.
LEMMA RouteFields ==
    /\ Len(routes_) = 9
    /\ routes_[1] = Pattern("GET", <<"health">>)
    /\ routes_[2] = Pattern("POST", <<"functions">>)
    /\ routes_[3] = Pattern("GET", <<"functions", Param>>)
    /\ routes_[4] = Pattern("DELETE", <<"functions", Param>>)
    /\ routes_[5] = Pattern("POST", <<"functions", Param, "invoke">>)
    /\ routes_[6] = Pattern("GET", <<"functions", Param, "runtime">>)
    /\ routes_[7] = Pattern("GET", <<"runtimes">>)
    /\ routes_[8] = Pattern("GET", <<"metrics">>)
    /\ routes_[9] = Pattern("GET", <<"invocations", Param>>)
BY RouteTable

\* The segments of each entry.
LEMMA RouteParts ==
    /\ Len(routes_[1].segments) = 1 /\ routes_[1].segments[1] = "health"
    /\ Len(routes_[2].segments) = 1 /\ routes_[2].segments[1] = "functions"
    /\ Len(routes_[3].segments) = 2 /\ routes_[3].segments[1] = "functions" /\ routes_[3].segments[2] = Param
    /\ Len(routes_[4].segments) = 2 /\ routes_[4].segments[1] = "functions" /\ routes_[4].segments[2] = Param
    /\ Len(routes_[5].segments) = 3 /\ routes_[5].segments[1] = "functions" /\ routes_[5].segments[2] = Param /\ routes_[5].segments[3] = "invoke"
    /\ Len(routes_[6].segments) = 3 /\ routes_[6].segments[1] = "functions" /\ routes_[6].segments[2] = Param /\ routes_[6].segments[3] = "runtime"
    /\ Len(routes_[7].segments) = 1 /\ routes_[7].segments[1] = "runtimes"
    /\ Len(routes_[8].segments) = 1 /\ routes_[8].segments[1] = "metrics"
    /\ Len(routes_[9].segments) = 2 /\ routes_[9].segments[1] = "invocations" /\ routes_[9].segments[2] = Param
BY RouteFields DEF Pattern

\* What a route that fits says about the segments.
LEMMA MatchSays ==
    ASSUME NEW segments, NEW i \in 1..9, match(routes_[i], segments)
    PROVE  /\ i \in {1, 2, 7, 8} => Len(segments) = 1
           /\ i \in {3, 4, 9} => Len(segments) = 2
           /\ i \in {5, 6} => Len(segments) = 3
           /\ i = 1 => segments[1] = "health"
           /\ i \in {2, 3, 4, 5, 6} => segments[1] = "functions"
           /\ i = 7 => segments[1] = "runtimes"
           /\ i = 8 => segments[1] = "metrics"
           /\ i = 9 => segments[1] = "invocations"
           /\ i = 5 => segments[3] = "invoke"
           /\ i = 6 => segments[3] = "runtime"
<1>1. /\ Len(routes_[i].segments) = Len(segments)
      /\ \A k \in 1..Len(segments) : \/ routes_[i].segments[k] = Param
                                     \/ routes_[i].segments[k] = segments[k]
  BY Zenon DEF match
<1>2. /\ Len(segments) = 1 => 1 \in 1..Len(segments)
      /\ Len(segments) = 2 => 1 \in 1..Len(segments)
      /\ Len(segments) = 3 => 1 \in 1..Len(segments) /\ 3 \in 1..Len(segments)
  OBVIOUS
<1>3. i = 1 => Len(segments) = 1 /\ segments[1] = "health"
  BY <1>1, <1>2, RouteParts, Zenon DEF Param
<1>4. i = 2 => Len(segments) = 1 /\ segments[1] = "functions"
  BY <1>1, <1>2, RouteParts, Zenon DEF Param
<1>5. i = 3 => Len(segments) = 2 /\ segments[1] = "functions"
  BY <1>1, <1>2, RouteParts, Zenon DEF Param
<1>6. i = 4 => Len(segments) = 2 /\ segments[1] = "functions"
  BY <1>1, <1>2, RouteParts, Zenon DEF Param
<1>7. i = 5 => Len(segments) = 3 /\ segments[1] = "functions" /\ segments[3] = "invoke"
  BY <1>1, <1>2, RouteParts, Zenon DEF Param
<1>8. i = 6 => Len(segments) = 3 /\ segments[1] = "functions" /\ segments[3] = "runtime"
  BY <1>1, <1>2, RouteParts, Zenon DEF Param
<1>9. i = 7 => Len(segments) = 1 /\ segments[1] = "runtimes"
  BY <1>1, <1>2, RouteParts, Zenon DEF Param
<1>10. i = 8 => Len(segments) = 1 /\ segments[1] = "metrics"
  BY <1>1, <1>2, RouteParts, Zenon DEF Param
<1>11. i = 9 => Len(segments) = 2 /\ segments[1] = "invocations"
  BY <1>1, <1>2, RouteParts, Zenon DEF Param
<1>. QED
  BY <1>3, <1>4, <1>5, <1>6, <1>7, <1>8, <1>9, <1>10, <1>11

\* No two routes of one method fit the same segments.
LEMMA RoutesApart ==
    ASSUME NEW segments, NEW i \in 1..9, NEW j \in 1..9,
           match(routes_[i], segments), match(routes_[j], segments),
           routes_[i].method = routes_[j].method
    PROVE  i = j
<1>1. /\ routes_[1].method = "GET" /\ routes_[2].method = "POST" /\ routes_[3].method = "GET"
      /\ routes_[4].method = "DELETE" /\ routes_[5].method = "POST" /\ routes_[6].method = "GET"
      /\ routes_[7].method = "GET" /\ routes_[8].method = "GET" /\ routes_[9].method = "GET"
  BY RouteFields DEF Pattern
<1>2. ASSUME NEW k \in 1..9, match(routes_[k], segments)
      PROVE  /\ Len(segments) = 1 => k \in {1, 2, 7, 8}
             /\ Len(segments) = 2 => k \in {3, 4, 9}
             /\ Len(segments) = 3 => k \in {5, 6}
             /\ Len(segments) \in {1, 2, 3}
  <2>1. k \in {1, 2, 7, 8} \/ k \in {3, 4, 9} \/ k \in {5, 6}
    OBVIOUS
  <2>2. /\ k \in {1, 2, 7, 8} => Len(segments) = 1
        /\ k \in {3, 4, 9} => Len(segments) = 2
        /\ k \in {5, 6} => Len(segments) = 3
    BY <1>2, MatchSays
  <2>. QED
    BY <2>1, <2>2
<1>3. CASE Len(segments) = 1
  <2>1. i \in {1, 2, 7, 8} /\ j \in {1, 2, 7, 8}
    BY <1>2, <1>3
  <2>2. /\ i = 1 => segments[1] = "health"
        /\ i = 2 => segments[1] = "functions"
        /\ i = 7 => segments[1] = "runtimes"
        /\ i = 8 => segments[1] = "metrics"
    BY MatchSays
  <2>3. /\ j = 1 => segments[1] = "health"
        /\ j = 2 => segments[1] = "functions"
        /\ j = 7 => segments[1] = "runtimes"
        /\ j = 8 => segments[1] = "metrics"
    BY MatchSays
  <2>. QED
    BY <2>1, <2>2, <2>3, Zenon
<1>4. CASE Len(segments) = 2
  <2>1. i \in {3, 4, 9} /\ j \in {3, 4, 9}
    BY <1>2, <1>4
  <2>2. (i = 3 => segments[1] = "functions") /\ (i = 9 => segments[1] = "invocations")
    BY MatchSays
  <2>3. (j = 3 => segments[1] = "functions") /\ (j = 9 => segments[1] = "invocations")
    BY MatchSays
  <2>. QED
    BY <1>1, <2>1, <2>2, <2>3
<1>5. CASE Len(segments) = 3
  <2>1. i \in {5, 6} /\ j \in {5, 6}
    BY <1>2, <1>5
  <2>. QED
    BY <1>1, <2>1
<1>. QED
  BY <1>2, <1>3, <1>4, <1>5

Fits(segments) == {i \in 1..9 : match(routes_[i], segments)}

\* What the search over the routes finds.
LEMMA DispatchFinds ==
    ASSUME NEW method, NEW path
    PROVE  LET d == Dispatch(method, path)
           IN  /\ d.route # 0 => /\ d.route \in Fits(split_path(path))
                                 /\ routes_[d.route].method = method
                                 /\ d.params = params(routes_[d.route], split_path(path))
               /\ d.route = 0 => /\ \A i \in Fits(split_path(path)) : routes_[i].method # method
                                 /\ d.status = IF Fits(split_path(path)) = {} THEN 404 ELSE 405
<1>. DEFINE d == Dispatch(method, path)
            s == split_path(path)
            fits == Fits(s)
            fit == {i \in 1..Len(routes_) : match(routes_[i], s)}
            mine == {i \in 1..Len(routes_) : match(routes_[i], s) /\ routes_[i].method = method}
            first == IF mine # {} THEN Min(mine) ELSE 0
            any == IF fit # {} THEN Min(fit) ELSE 0
<1>1. d = IF first # 0
          THEN [status |-> 0, route |-> first, params |-> params(routes_[first], s)]
          ELSE [status |-> IF any # 0 THEN 405 ELSE 404, route |-> 0, params |-> <<>>]
  BY Zenon DEF Dispatch, SelectInSeq
<1>2. mine \subseteq fit /\ fit = fits
  BY RouteFields DEF Fits
<1>3. \A i \in fit : i \in mine <=> routes_[i].method = method
  OBVIOUS
<1>4. fit \subseteq 1..9 /\ 1..9 \subseteq Nat /\ 0 \notin 1..9
  <2>1. fit \subseteq 1..9
    BY <1>2, Zenon DEF Fits
  <2>2. 1..9 \subseteq Nat /\ 0 \notin 1..9
    OBVIOUS
  <2>. QED
    BY <2>1, <2>2, Zenon
<1>5. /\ mine # {} => first \in mine /\ first # 0
      /\ fit # {} <=> any # 0
  <2>. HIDE DEF mine, fit
  <2>1. fit \subseteq Nat /\ 0 \notin fit /\ mine \subseteq Nat /\ 0 \notin mine
    <3>1. \A S, T : S \subseteq T => (T \subseteq Nat => S \subseteq Nat) /\ (0 \notin T => 0 \notin S)
      OBVIOUS
    <3>2. mine \subseteq fit
      BY <1>2
    <3>3. fit \subseteq 1..9 /\ 1..9 \subseteq Nat /\ 0 \notin 1..9
      BY <1>4
    <3>. QED
      BY <3>1, <3>2, <3>3, Zenon
  <2>2. mine # {} => Min(mine) \in mine
    BY <2>1, MinIsLeast
  <2>3. fit # {} => Min(fit) \in fit
    BY <2>1, MinIsLeast
  <2>. QED
    BY <2>1, <2>2, <2>3
<1>6. mine = {} => first = 0
  OBVIOUS
<1>. HIDE DEF d, fits, fit, mine, first, any
<1>7. CASE mine # {}
  <2>1. d.route = first /\ d.params = params(routes_[first], s)
    BY <1>1, <1>5, <1>7
  <2>. QED
    BY <1>2, <1>3, <1>5, <1>7, <2>1 DEF d, fits
<1>8. CASE mine = {}
  <2>1. d.route = 0 /\ d.status = IF any # 0 THEN 405 ELSE 404
    BY <1>1, <1>6, <1>8
  <2>. QED
    BY <1>2, <1>3, <1>5, <1>8, <2>1 DEF d, fits
<1>. QED
  BY <1>7, <1>8

-----------------------------------------------------------------------------
\* The reference of TableAgrees.

Captured(segments) == {i \in 1..Len(segments) : segments[i] = Param}

\* An interval determines its end.
LEMMA SameInterval ==
    ASSUME NEW m \in Nat, NEW n \in Nat, 1..m = 1..n
    PROVE  m = n
OBVIOUS

\* A pattern without a "{name}".
LEMMA FillNone ==
    ASSUME NEW r, Captured(r.segments) = {}, Len(r.segments) \in Nat,
           NEW segments \in Seq(Words), r.segments = [i \in 1..Len(r.segments) |-> r.segments[i]],
           NEW w
    PROVE  (w \in [1..ParamCount(r) -> Words] /\ Fill(r.segments, w) = segments)
             <=> (match(r, segments) /\ w = params(r, segments))
<1>1. ParamCount(r) = 0 /\ Cardinality(Captured(r.segments)) = 0
  BY FS_EmptySet DEF ParamCount, Captured
<1>2. \A i \in 1..Len(r.segments) : r.segments[i] # Param
  BY DEF Captured
<1>3. Fill(r.segments, w) = r.segments
  BY <1>2 DEF Fill
<1>4. match(r, segments) <=> r.segments = segments
  <2>1. match(r, segments) <=> /\ Len(r.segments) = Len(segments)
                               /\ \A i \in 1..Len(segments) : r.segments[i] = segments[i]
    BY <1>2 DEF match
  <2>2. segments = [i \in 1..Len(segments) |-> segments[i]]
    OBVIOUS
  <2>. QED
    BY <2>1, <2>2
<1>5. w \in [1..0 -> Words] <=> w = params(r, segments)
  <2>1. params(r, segments) = [k \in 1..0 |-> segments[CHOOSE i \in Captured(r.segments) :
                                                 Cardinality(Captured(r.segments) \cap 1..i) = k]]
    BY <1>1, Zenon DEF params, Captured
  <2>2. \A k \in 1..0 : FALSE
    OBVIOUS
  <2>. QED
    BY <2>1, <2>2
<1>. QED
  BY <1>1, <1>3, <1>4, <1>5

CapturesSecond(r, segments) == params(r, segments) = [k \in 1..1 |-> segments[2]]

\* A pattern with its only "{name}" in second place captures the second segment.
LEMMA SecondCaptured ==
    ASSUME NEW r, Captured(r.segments) = {2}, NEW segments
    PROVE  CapturesSecond(r, segments)
<1>1. Cardinality(Captured(r.segments)) = 1 /\ Cardinality({2}) = 1
  BY FS_Singleton
<1>2. params(r, segments) = [k \in 1..Cardinality(Captured(r.segments)) |->
                               segments[CHOOSE i \in Captured(r.segments) :
                                          Cardinality(Captured(r.segments) \cap 1..i) = k]]
  BY Zenon DEF params, Captured
<1>3. params(r, segments) = [k \in 1..1 |-> segments[CHOOSE i \in {2} :
                                               Cardinality({2} \cap 1..i) = k]]
  BY <1>1, <1>2
<1>4. Cardinality({2} \cap 1..2) = 1
  <2>1. {2} \cap 1..2 = {2}
    OBVIOUS
  <2>. QED
    BY <1>1, <2>1
<1>5. (CHOOSE i \in {2} : Cardinality({2} \cap 1..i) = 1) = 2
  BY <1>4
<1>6. \A k \in 1..1 : k = 1
  OBVIOUS
<1>7. \A k \in 1..1 : segments[CHOOSE i \in {2} : Cardinality({2} \cap 1..i) = k] = segments[2]
  BY <1>5, <1>6
<1>. QED
  BY <1>3, <1>7, Zenon DEF CapturesSecond

\* A pattern whose second segment is its only "{name}".
LEMMA FillSecond ==
    ASSUME NEW r, Captured(r.segments) = {2}, Len(r.segments) \in {2, 3},
           NEW segments \in Seq(Words), r.segments = [i \in 1..Len(r.segments) |-> r.segments[i]],
           NEW w
    PROVE  (w \in [1..ParamCount(r) -> Words] /\ Fill(r.segments, w) = segments)
             <=> (match(r, segments) /\ w = params(r, segments))
<1>1. ParamCount(r) = 1 /\ Cardinality(Captured(r.segments)) = 1 /\ Cardinality({2}) = 1
  BY FS_Singleton DEF ParamCount, Captured
<1>2. \A i \in 1..Len(r.segments) : r.segments[i] = Param <=> i = 2
  BY DEF Captured
<1>3. Fill(r.segments, w) = [i \in 1..Len(r.segments) |-> IF i = 2 THEN w[1] ELSE r.segments[i]]
  <2>1. {j \in 1..2 : r.segments[j] = Param} = {2}
    BY <1>2
  <2>2. Cardinality({j \in 1..2 : r.segments[j] = Param}) = 1
    BY <1>1, <2>1
  <2>. QED
    BY <1>2, <2>2 DEF Fill
<1>4. match(r, segments) <=> /\ Len(r.segments) = Len(segments)
                             /\ \A i \in 1..Len(segments) : i # 2 => r.segments[i] = segments[i]
  BY <1>2 DEF match
<1>5. params(r, segments) = [k \in 1..1 |-> segments[2]]
  <2>1. CapturesSecond(r, segments)
    BY SecondCaptured
  <2>. QED
    BY <2>1 DEF CapturesSecond
<1>6. ASSUME w \in [1..1 -> Words], Fill(r.segments, w) = segments
      PROVE  match(r, segments) /\ w = params(r, segments)
  <2>1. Len(segments) = Len(r.segments) /\ 2 \in 1..Len(segments)
    <3>1. DOMAIN segments = 1..Len(segments) /\ Len(segments) \in Nat
      OBVIOUS
    <3>2. DOMAIN segments = 1..Len(r.segments)
      BY <1>3, <1>6
    <3>3. Len(segments) = Len(r.segments)
      BY <3>1, <3>2, SameInterval
    <3>4. \A n \in {2, 3} : 2 \in 1..n
      OBVIOUS
    <3>. QED
      BY <3>3, <3>4, Zenon
  <2>2. \A i \in 1..Len(segments) : segments[i] = IF i = 2 THEN w[1] ELSE r.segments[i]
    BY <1>3, <1>6, <2>1
  <2>3. match(r, segments)
    BY <1>4, <2>1, <2>2
  <2>4. w[1] = segments[2] /\ w = [k \in 1..1 |-> w[k]]
    BY <1>6, <2>1, <2>2
  <2>5. w = [k \in 1..1 |-> segments[2]]
    BY <2>4
  <2>. QED
    BY <1>5, <2>3, <2>5
<1>7. ASSUME match(r, segments), w = params(r, segments)
      PROVE  w \in [1..1 -> Words] /\ Fill(r.segments, w) = segments
  <2>1. Len(segments) = Len(r.segments) /\ 2 \in 1..Len(segments)
    BY <1>4, <1>7
  <2>2. segments[2] \in Words /\ segments = [i \in 1..Len(segments) |-> segments[i]]
    BY <2>1
  <2>3. w \in [1..1 -> Words] /\ w[1] = segments[2]
    BY <1>5, <1>7, <2>2
  <2>. QED
    BY <1>3, <1>4, <1>7, <2>1, <2>2, <2>3
<1>. QED
  BY <1>1, <1>6, <1>7

\* Every route has none or its second segment.
LEMMA RouteCaptures ==
    ASSUME NEW i \in 1..9
    PROVE  LET s == routes_[i].segments
           IN  /\ s = [k \in 1..Len(s) |-> s[k]]
               /\ \/ Captured(s) = {} /\ Len(s) \in Nat
                  \/ Captured(s) = {2} /\ Len(s) \in {2, 3}
<1>. DEFINE s == routes_[i].segments
<1>1. s = [k \in 1..Len(s) |-> s[k]]
  <2>1. CASE i \in {1, 2, 7, 8}
    <3>1. s = <<s[1]>>
      BY <2>1, RouteFields DEF Pattern
    <3>. QED
      BY <3>1
  <2>2. CASE i \in {3, 4, 9}
    <3>1. s = <<s[1], s[2]>>
      BY <2>2, RouteFields DEF Pattern
    <3>. QED
      BY <3>1
  <2>3. CASE i \in {5, 6}
    <3>1. s = <<s[1], s[2], s[3]>>
      BY <2>3, RouteFields DEF Pattern
    <3>. QED
      BY <3>1
  <2>. QED
    BY <2>1, <2>2, <2>3
<1>2. /\ i \in {1, 2, 7, 8} => Len(s) = 1 /\ s[1] # Param
      /\ i \in {3, 4, 9} => Len(s) = 2 /\ s[1] # Param /\ s[2] = Param
      /\ i \in {5, 6} => Len(s) = 3 /\ s[1] # Param /\ s[2] = Param /\ s[3] # Param
  BY RouteParts DEF Param
<1>. HIDE DEF s
<1>3. CASE i \in {1, 2, 7, 8}
  <2>1. \A k \in 1..1 : k = 1
    OBVIOUS
  <2>2. Captured(s) = {} /\ Len(s) \in Nat
    BY <1>2, <1>3, <2>1 DEF Captured
  <2>. QED
    BY <1>1, <2>2 DEF s
<1>4. CASE i \in {3, 4, 9}
  <2>1. 2 \in 1..2 /\ \A k \in 1..2 : k = 1 \/ k = 2
    OBVIOUS
  <2>2. Captured(s) = {2} /\ Len(s) \in {2, 3}
    BY <1>2, <1>4, <2>1 DEF Captured
  <2>. QED
    BY <1>1, <2>2 DEF s
<1>5. CASE i \in {5, 6}
  <2>1. 2 \in 1..3 /\ \A k \in 1..3 : k = 1 \/ k = 2 \/ k = 3
    OBVIOUS
  <2>2. Captured(s) = {2} /\ Len(s) \in {2, 3}
    BY <1>2, <1>5, <2>1 DEF Captured
  <2>. QED
    BY <1>1, <2>2 DEF s
<1>. QED
  BY <1>3, <1>4, <1>5

\* The reference has exactly the routes that fit, with the captured segments.
LEMMA FillingsAreMatches ==
    ASSUME NEW segments \in Seq(Words)
    PROVE  \A f : f \in Fillings(segments)
                    <=> \E i \in 1..9 : /\ match(routes_[i], segments)
                                        /\ f = <<i, params(routes_[i], segments)>>
<1>1. ASSUME NEW i \in 1..9, NEW w
      PROVE  (w \in [1..ParamCount(routes_[i]) -> Words] /\ Fill(routes_[i].segments, w) = segments)
               <=> (match(routes_[i], segments) /\ w = params(routes_[i], segments))
  <2>. DEFINE r == routes_[i]
  <2>1. /\ r.segments = [k \in 1..Len(r.segments) |-> r.segments[k]]
        /\ \/ Captured(r.segments) = {} /\ Len(r.segments) \in Nat
           \/ Captured(r.segments) = {2} /\ Len(r.segments) \in {2, 3}
    BY RouteCaptures
  <2>. HIDE DEF r
  <2>2. (w \in [1..ParamCount(r) -> Words] /\ Fill(r.segments, w) = segments)
           <=> (match(r, segments) /\ w = params(r, segments))
    BY <2>1, FillNone, FillSecond
  <2>. QED
    BY <2>2 DEF r
<1>2. ASSUME NEW f
      PROVE  f \in Fillings(segments)
               <=> \E i \in 1..9 : \E w \in [1..ParamCount(routes_[i]) -> Words] :
                       Fill(routes_[i].segments, w) = segments /\ f = <<i, w>>
  <2>1. Len(routes_) = 9
    BY RouteFields
  <2>2. f \in Fillings(segments)
          <=> \E i \in 1..Len(routes_) :
                f \in {<<i, v>> : v \in {w \in [1..ParamCount(routes_[i]) -> Words] :
                                           Fill(routes_[i].segments, w) = segments}}
    BY Zenon DEF Fillings
  <2>. QED
    BY <2>1, <2>2, Zenon
<1>. QED
  BY <1>1, <1>2, Zenon

-----------------------------------------------------------------------------
\* What split_path makes of the paths of TableAgrees.

\* A tail is slashes up to its end or to a "?".
LEMMA TailsEnd ==
    ASSUME NEW tail \in Tails
    PROVE  /\ tail \in Seq({"/", "?", "x"})
           /\ \E s \in 0..Len(tail) : /\ \A j \in 1..s : tail[j] = "/"
                                      /\ s = Len(tail) \/ tail[s + 1] = "?"
<1>1. CASE tail = <<>>
  <2>1. Len(tail) = 0 /\ 0 \in 0..0 /\ \A j \in 1..0 : FALSE
    BY <1>1
  <2>. QED
    BY <1>1, <2>1
<1>2. CASE tail \in {<<"?">>, <<"?", "x">>}
  <2>1. Len(tail) \in {1, 2} /\ tail[1] = "?" /\ tail \in Seq({"/", "?", "x"})
    <3>1. CASE tail = <<"?">>
      BY <3>1
    <3>2. CASE tail = <<"?", "x">>
      BY <3>2
    <3>. QED
      BY <1>2, <3>1, <3>2
  <2>2. 0 \in 0..Len(tail) /\ (\A j \in 1..0 : FALSE) /\ 0 + 1 = 1
    BY <2>1
  <2>. QED
    BY <2>1, <2>2
<1>3. CASE tail = <<"/">>
  <2>1. Len(tail) = 1 /\ tail[1] = "/" /\ tail \in Seq({"/", "?", "x"})
    BY <1>3
  <2>2. 1 \in 0..1 /\ \A j \in 1..1 : j = 1
    OBVIOUS
  <2>. QED
    BY <2>1, <2>2
<1>4. CASE tail = <<"/", "/">>
  <2>1. Len(tail) = 2 /\ tail[1] = "/" /\ tail[2] = "/" /\ tail \in Seq({"/", "?", "x"})
    BY <1>4
  <2>2. 2 \in 0..2 /\ \A j \in 1..2 : j = 1 \/ j = 2
    OBVIOUS
  <2>. QED
    BY <2>1, <2>2
<1>5. CASE tail = <<"/", "?", "x", "/", "x">>
  <2>1. Len(tail) = 5 /\ tail[1] = "/" /\ tail[2] = "?" /\ tail \in Seq({"/", "?", "x"})
    BY <1>5
  <2>2. 1 \in 0..5 /\ (\A j \in 1..1 : j = 1) /\ 1 + 1 = 2
    OBVIOUS
  <2>. QED
    BY <2>1, <2>2
<1>. QED
  BY <1>1, <1>2, <1>3, <1>4, <1>5, Zenon DEF Tails

\* Splitting a written path gives its words back, whatever follows it.
LEMMA SplitWritten ==
    ASSUME NEW segments \in Seq(Words), NEW tail \in Tails
    PROVE  split_path(Written(segments) \o tail) = segments
<1>. DEFINE n == Len(segments)
            path == Written(segments) \o tail
<1>1. n \in Nat /\ Len(tail) \in Nat /\ tail \in Seq({"/", "?", "x"})
  BY TailsEnd
<1>2. \A k \in 1..n : segments[k] \in Words /\ segments[k] \notin {"/", "?"}
  BY RoutingAssumption
<1>3. Written(segments) \in Seq(Words \cup {"/"}) /\ Len(Written(segments)) = 2 * n
  <2>1. \A i \in 1..(2 * n) : i % 2 # 1 => i \div 2 \in 1..n
    BY <1>1
  <2>2. \A i \in 1..(2 * n) : (IF i % 2 = 1 THEN "/" ELSE segments[i \div 2]) \in Words \cup {"/"}
    BY <1>2, <2>1
  <2>3. 2 * n \in Nat
    BY <1>1
  <2>. QED
    BY <2>2, <2>3 DEF Written
<1>4. /\ Len(path) = 2 * n + Len(tail)
      /\ \A i \in 1..(2 * n) : path[i] = Written(segments)[i]
      /\ \A j \in 1..Len(tail) : path[2 * n + j] = tail[j]
  <2>. DEFINE u == Written(segments)
              S == Words \cup {"/", "?", "x"}
  <2>1. u \in Seq(S) /\ tail \in Seq(S) /\ Len(u) = 2 * n
    BY <1>1, <1>3
  <2>. HIDE DEF u, S, n
  <2>2. /\ Len(u \o tail) = Len(u) + Len(tail)
        /\ \A i \in 1..Len(u) : (u \o tail)[i] = u[i]
        /\ \A j \in 1..Len(tail) : (u \o tail)[Len(u) + j] = tail[j]
    BY <2>1
  <2>. QED
    BY <2>1, <2>2 DEF u
<1>5. \A k \in 1..n : path[2 * k - 1] = "/" /\ path[2 * k] = segments[k]
  <2>. TAKE k \in 1..n
  <2>1. /\ 2 * k - 1 \in 1..(2 * n) /\ 2 * k \in 1..(2 * n)
        /\ (2 * k - 1) % 2 = 1 /\ (2 * k) % 2 = 0 /\ (2 * k) \div 2 = k
    BY <1>1
  <2>2. \A i \in 1..(2 * n) : Written(segments)[i] = IF i % 2 = 1 THEN "/" ELSE segments[i \div 2]
    BY DEF Written
  <2>. HIDE DEF path
  <2>. QED
    BY <1>4, <2>1, <2>2
<1>6. PICK s \in 0..Len(tail) : /\ \A j \in 1..s : tail[j] = "/"
                                /\ s = Len(tail) \/ tail[s + 1] = "?"
  BY TailsEnd
<1>. DEFINE end == 2 * n + s
<1>. HIDE DEF path
<1>7. /\ Len(path) \in Nat /\ end \in (2 * Len(segments))..Len(path)
      /\ \A j \in (2 * Len(segments) + 1)..end : path[j] = "/"
      /\ end = Len(path) \/ path[end + 1] = "?"
  <2>1. Len(path) \in Nat /\ end \in (2 * Len(segments))..Len(path)
    BY <1>1, <1>4
  <2>2. ASSUME NEW j \in (2 * n + 1)..end PROVE path[j] = "/"
    <3>1. j - 2 * n \in 1..s /\ j - 2 * n \in 1..Len(tail) /\ 2 * n + (j - 2 * n) = j
      BY <1>1
    <3>2. path[2 * n + (j - 2 * n)] = tail[j - 2 * n]
      BY <1>4, <3>1
    <3>. QED
      BY <1>6, <3>1, <3>2
  <2>3. s = Len(tail) => end = Len(path)
    BY <1>4
  <2>4. ASSUME s # Len(tail) PROVE path[end + 1] = "?"
    <3>1. s + 1 \in 1..Len(tail) /\ 2 * n + (s + 1) = end + 1
      BY <1>1, <2>4
    <3>2. path[2 * n + (s + 1)] = tail[s + 1]
      BY <1>4, <3>1
    <3>. QED
      BY <1>6, <2>4, <3>1, <3>2
  <2>. QED
    BY <2>1, <2>2, <2>3, <2>4
<1>. HIDE DEF end, n
<1>8. \A k \in 1..Len(segments) : /\ path[2 * k - 1] = "/"
                                  /\ path[2 * k] = segments[k]
                                  /\ segments[k] \notin {"/", "?"}
  BY <1>2, <1>5 DEF n
<1>9. split_path(path) = segments
  BY <1>7, <1>8, SplitAlternating
<1>. QED
  BY <1>9 DEF path

-----------------------------------------------------------------------------
\* The requests of the client.

DispatchesTo(method, path, k) ==
    /\ Dispatch(method, path).route = k
    /\ Dispatch(method, path).params = params(routes_[k], split_path(path))

\* The route whose pattern and method fit is the one that is dispatched to.
LEMMA DispatchTo ==
    ASSUME NEW method, NEW path, NEW k \in 1..9,
           match(routes_[k], split_path(path)), routes_[k].method = method
    PROVE  DispatchesTo(method, path, k)
<1>. DEFINE d == Dispatch(method, path)
            s == split_path(path)
<1>1. k \in Fits(s) /\ Fits(s) = {i \in 1..9 : match(routes_[i], s)}
  BY DEF Fits
<1>2. /\ d.route # 0 => /\ d.route \in Fits(s) /\ routes_[d.route].method = method
                        /\ d.params = params(routes_[d.route], s)
      /\ d.route = 0 => \A i \in Fits(s) : routes_[i].method # method
  BY DispatchFinds
<1>. HIDE DEF d, s
<1>3. d.route # 0
  BY <1>1, <1>2
<1>4. d.route \in 1..9 /\ match(routes_[d.route], s) /\ routes_[d.route].method = routes_[k].method
  BY <1>1, <1>2, <1>3
<1>5. match(routes_[k], s)
  BY DEF s
<1>6. d.route = k
  BY <1>4, <1>5, RoutesApart
<1>. QED
  BY <1>2, <1>3, <1>6 DEF d, s, DispatchesTo

\* Where the requests for one function go.
LEMMA FunctionRoutes ==
    ASSUME NEW w, w # "/", w # "?"
    PROVE  /\ Dispatch("POST", <<"/", "functions">>).route = 2
           /\ Dispatch("GET", <<"/", "functions", "/", w>>).route = 3
           /\ Dispatch("GET", <<"/", "functions", "/", w>>).params[1] = w
           /\ Dispatch("DELETE", <<"/", "functions", "/", w>>).route = 4
           /\ Dispatch("DELETE", <<"/", "functions", "/", w>>).params[1] = w
           /\ Dispatch("POST", <<"/", "functions", "/", w, "/", "invoke">>).route = 5
           /\ Dispatch("POST", <<"/", "functions", "/", w, "/", "invoke">>).params[1] = w
<1>. DEFINE one == <<"functions">>
            two == <<"functions", w>>
            three == <<"functions", w, "invoke">>
<1>1. /\ split_path(<<"/", "functions">>) = one
      /\ split_path(<<"/", "functions", "/", w>>) = two
      /\ split_path(<<"/", "functions", "/", w, "/", "invoke">>) = three
  BY SplitOne, SplitTwo, SplitThree
<1>2. /\ routes_[2].method = "POST" /\ routes_[3].method = "GET" /\ routes_[4].method = "DELETE"
      /\ routes_[5].method = "POST"
  BY RouteFields DEF Pattern
<1>3. /\ Len(one) = 1 /\ one[1] = "functions"
      /\ Len(two) = 2 /\ two[1] = "functions" /\ two[2] = w
      /\ Len(three) = 3 /\ three[1] = "functions" /\ three[2] = w /\ three[3] = "invoke"
  OBVIOUS
<1>. HIDE DEF one, two, three
<1>4. match(routes_[2], one) /\ match(routes_[3], two) /\ match(routes_[4], two) /\ match(routes_[5], three)
  <2>1. match(routes_[2], one)
    BY <1>3, RouteParts DEF match
  <2>2. match(routes_[3], two) /\ match(routes_[4], two)
    BY <1>3, RouteParts DEF match
  <2>3. match(routes_[5], three)
    BY <1>3, RouteParts DEF match
  <2>. QED
    BY <2>1, <2>2, <2>3
<1>5. params(routes_[3], two)[1] = w /\ params(routes_[4], two)[1] = w /\ params(routes_[5], three)[1] = w
  <2>1. "functions" # Param /\ "invoke" # Param
    BY DEF Param
  <2>2. Captured(routes_[3].segments) = {2} /\ Captured(routes_[4].segments) = {2}
    BY <2>1, RouteParts DEF Captured
  <2>3. Captured(routes_[5].segments) = {2}
    BY <2>1, RouteParts DEF Captured
  <2>4. /\ CapturesSecond(routes_[3], two) /\ CapturesSecond(routes_[4], two)
        /\ CapturesSecond(routes_[5], three)
    BY <2>2, <2>3, SecondCaptured, Zenon
  <2>. QED
    BY <1>3, <2>4 DEF CapturesSecond
<1>6. 2 \in 1..9 /\ 3 \in 1..9 /\ 4 \in 1..9 /\ 5 \in 1..9
  OBVIOUS
<1>7. /\ Dispatch("POST", <<"/", "functions">>).route = 2
  <2>. DEFINE p == <<"/", "functions">>
  <2>1. split_path(p) = one
    BY <1>1
  <2>. HIDE DEF p, DispatchesTo
  <2>2. match(routes_[2], split_path(p)) /\ routes_[2].method = "POST"
    BY <1>2, <1>4, <2>1, Zenon
  <2>3. DispatchesTo("POST", p, 2)
    BY <1>6, <2>2, DispatchTo, Zenon
  <2>. QED
    BY <1>5, <2>1, <2>3 DEF p, DispatchesTo
<1>8. /\ Dispatch("GET", <<"/", "functions", "/", w>>).route = 3
      /\ Dispatch("GET", <<"/", "functions", "/", w>>).params[1] = w
      /\ Dispatch("DELETE", <<"/", "functions", "/", w>>).route = 4
      /\ Dispatch("DELETE", <<"/", "functions", "/", w>>).params[1] = w
  <2>. DEFINE p == <<"/", "functions", "/", w>>
  <2>1. split_path(p) = two
    BY <1>1
  <2>. HIDE DEF p, DispatchesTo
  <2>2. match(routes_[3], split_path(p)) /\ routes_[3].method = "GET"
    BY <1>2, <1>4, <2>1, Zenon
  <2>3. DispatchesTo("GET", p, 3)
    BY <1>6, <2>2, DispatchTo, Zenon
  <2>4. match(routes_[4], split_path(p)) /\ routes_[4].method = "DELETE"
    BY <1>2, <1>4, <2>1, Zenon
  <2>5. DispatchesTo("DELETE", p, 4)
    BY <1>6, <2>4, DispatchTo, Zenon
  <2>. QED
    BY <1>5, <2>1, <2>3, <2>5 DEF p, DispatchesTo
<1>9. /\ Dispatch("POST", <<"/", "functions", "/", w, "/", "invoke">>).route = 5
      /\ Dispatch("POST", <<"/", "functions", "/", w, "/", "invoke">>).params[1] = w
  <2>. DEFINE p == <<"/", "functions", "/", w, "/", "invoke">>
  <2>1. split_path(p) = three
    BY <1>1
  <2>. HIDE DEF p, DispatchesTo
  <2>2. match(routes_[5], split_path(p)) /\ routes_[5].method = "POST"
    BY <1>2, <1>4, <2>1, Zenon
  <2>3. DispatchesTo("POST", p, 5)
    BY <1>6, <2>2, DispatchTo, Zenon
  <2>. QED
    BY <1>5, <2>1, <2>3 DEF p, DispatchesTo
<1>. QED
  BY <1>7, <1>8, <1>9

\* No two entries of the table are the same.
LEMMA RoutesDiffer ==
    ASSUME NEW i \in 1..9, NEW j \in 1..9, routes_[i] = routes_[j]
    PROVE  i = j
<1>1. /\ routes_[1].method = "GET" /\ routes_[2].method = "POST" /\ routes_[3].method = "GET"
      /\ routes_[4].method = "DELETE" /\ routes_[5].method = "POST" /\ routes_[6].method = "GET"
      /\ routes_[7].method = "GET" /\ routes_[8].method = "GET" /\ routes_[9].method = "GET"
  BY RouteFields DEF Pattern
<1>. DEFINE s == routes_[i].segments
<1>2. /\ i \in {1, 2, 7, 8} => Len(s) = 1
      /\ i \in {3, 4, 9} => Len(s) = 2
      /\ i \in {5, 6} => Len(s) = 3
      /\ j \in {1, 2, 7, 8} => Len(s) = 1
      /\ j \in {3, 4, 9} => Len(s) = 2
      /\ j \in {5, 6} => Len(s) = 3
  BY RouteParts
<1>3. /\ i = 1 => s[1] = "health"
      /\ i = 7 => s[1] = "runtimes"
      /\ i = 8 => s[1] = "metrics"
      /\ i = 9 => s[1] = "invocations"
      /\ i \in {2, 3, 4, 5, 6} => s[1] = "functions"
      /\ i = 5 => s[3] = "invoke"
      /\ i = 6 => s[3] = "runtime"
      /\ j = 1 => s[1] = "health"
      /\ j = 7 => s[1] = "runtimes"
      /\ j = 8 => s[1] = "metrics"
      /\ j = 9 => s[1] = "invocations"
      /\ j \in {2, 3, 4, 5, 6} => s[1] = "functions"
      /\ j = 5 => s[3] = "invoke"
      /\ j = 6 => s[3] = "runtime"
  BY RouteParts
<1>. HIDE DEF s
<1>4. routes_[i].method = routes_[j].method
  OBVIOUS
<1>5. CASE i \in {1, 2, 7, 8}
  BY <1>1, <1>2, <1>3, <1>4, <1>5
<1>6. CASE i \in {3, 4, 9}
  BY <1>1, <1>2, <1>3, <1>4, <1>6
<1>7. CASE i \in {5, 6}
  BY <1>1, <1>2, <1>3, <1>4, <1>7
<1>. QED
  BY <1>5, <1>6, <1>7

-----------------------------------------------------------------------------
\* For every set of words and every length: dispatch() gives a request to the
\* one route whose pattern becomes the request's path, with the words that
\* stand for its "{name}"s, and answers 405 exactly when the path fits another
\* method's pattern and 404 when it fits none.
THEOREM RoutesFollowPatterns == TableAgrees
<1>. SUFFICES ASSUME NEW segments \in SeqOf(Words, MaxSegments),
                     NEW method \in Methods, NEW tail \in Tails
              PROVE  LET any  == Fillings(segments)
                         mine == {f \in any : routes_[f[1]].method = method}
                         d    == Dispatch(method, Written(segments) \o tail)
                     IN  /\ d.route # 0 => mine = {<<d.route, d.params>>}
                         /\ d.route = 0 => mine = {} /\ d.status = IF any = {} THEN 404 ELSE 405
  BY Zenon DEF TableAgrees
<1>. DEFINE any  == Fillings(segments)
            mine == {f \in any : routes_[f[1]].method = method}
            path == Written(segments) \o tail
            d    == Dispatch(method, path)
            fit  == Fits(segments)
<1>1. segments \in Seq(Words)
  BY RoutingAssumption DEF SeqOf
<1>2. split_path(path) = segments
  BY <1>1, SplitWritten
<1>3. /\ d.route # 0 => /\ d.route \in fit
                        /\ routes_[d.route].method = method
                        /\ d.params = params(routes_[d.route], segments)
      /\ d.route = 0 => /\ \A i \in fit : routes_[i].method # method
                        /\ d.status = IF fit = {} THEN 404 ELSE 405
  <2>. HIDE DEF path
  <2>. QED
    BY <1>2, DispatchFinds
<1>4. \A f : f \in any <=> \E i \in fit : f = <<i, params(routes_[i], segments)>>
  BY <1>1, FillingsAreMatches DEF Fits
<1>5. \A i \in fit, j \in fit : routes_[i].method = routes_[j].method => i = j
  BY RoutesApart DEF Fits
<1>. HIDE DEF any, d, fit
<1>6. any = {} <=> fit = {}
  BY <1>4
<1>7. CASE d.route # 0
  <2>1. <<d.route, d.params>> \in mine
    BY <1>3, <1>4, <1>7
  <2>2. ASSUME NEW f \in mine PROVE f = <<d.route, d.params>>
    <3>1. PICK i \in fit : f = <<i, params(routes_[i], segments)>>
      BY <1>4
    <3>2. f[1] = i
      BY <3>1
    <3>3. i = d.route
      BY <1>3, <1>5, <1>7, <3>2
    <3>. QED
      BY <1>3, <1>7, <3>1, <3>3
  <2>. QED
    BY <1>7, <2>1, <2>2 DEF any, d
<1>8. CASE d.route = 0
  <2>1. mine = {}
    <3>1. ASSUME NEW f \in mine PROVE FALSE
      <4>1. PICK i \in fit : f = <<i, params(routes_[i], segments)>>
        BY <1>4
      <4>2. f[1] = i
        BY <4>1
      <4>. QED
        BY <1>3, <1>8, <4>2
    <3>. QED
      BY <3>1
  <2>. QED
    BY <1>3, <1>6, <1>8, <2>1 DEF any, d
<1>. QED
  BY <1>7, <1>8
=============================================================================
