------------------------------ MODULE Routing ------------------------------
(***************************************************************************)
(* How the server (common/src/http_server.cpp) picks the handler of a      *)
(* request, and the routes that main.cpp registers.                        *)
(*                                                                         *)
(* A path is a sequence of tokens: "/", "?" and the words between them.    *)
(***************************************************************************)
EXTENDS Naturals, FiniteSets, SequencesExt

CONSTANTS Words,       \* what may stand between two slashes of a request's path
          MaxSegments  \* bound: words in a path

ASSUME RoutingAssumption == MaxSegments \in Nat /\ Words \cap {"/", "?"} = {}

\* A "{name}" segment of a pattern.
Param == "{}"

\* The words before the query; empty ones do not count.
split_path(path) ==
    LET query == SelectInSeq(path, LAMBDA tok : tok = "?")
        end   == IF query = 0 THEN Len(path) ELSE query - 1
        segments[i \in 0..end] ==
            IF i = 0 THEN <<>>
            ELSE IF path[i] = "/" THEN segments[i - 1] ELSE Append(segments[i - 1], path[i])
    IN  segments[end]

route(method, pattern) == [method |-> method, segments |-> split_path(pattern)]

routes_ == <<
    route("GET",    <<"/", "health">>),
    route("POST",   <<"/", "functions">>),
    route("GET",    <<"/", "functions", "/", Param>>),
    route("DELETE", <<"/", "functions", "/", Param>>),
    route("POST",   <<"/", "functions", "/", Param, "/", "invoke">>),
    route("GET",    <<"/", "functions", "/", Param, "/", "runtime">>),
    route("GET",    <<"/", "runtimes">>),
    route("GET",    <<"/", "metrics">>),
    route("GET",    <<"/", "invocations", "/", Param>>) >>

match_Prefix(r, segments) ==
    /\ Len(r.segments) <= Len(segments)
    /\ \A i \in 1..Len(r.segments) : r.segments[i] \in {Param, segments[i]}

match(r, segments) ==
    /\ Len(r.segments) = Len(segments)
    /\ \A i \in 1..Len(segments) : r.segments[i] \in {Param, segments[i]}

\* The segments that "{name}" captured, in their order.
params(r, segments) ==
    LET captured == {i \in 1..Len(r.segments) : r.segments[i] = Param}
    IN  [k \in 1..Cardinality(captured) |->
            segments[CHOOSE i \in captured : Cardinality(captured \cap 1..i) = k]]

\* The first registered route that fits has the request; status is 0 until its
\* handler has decided.  A path that fits only for other methods gives 405.
Dispatch(method, path) ==
    LET segments == split_path(path)
        fits(r)  == match(r, segments)
        first    == SelectInSeq(routes_, LAMBDA r : fits(r) /\ r.method = method)
    IN  IF first # 0
        THEN [status |-> 0, route |-> first, params |-> params(routes_[first], segments)]
        ELSE [status |-> IF SelectInSeq(routes_, fits) # 0 THEN 405 ELSE 404,
              route |-> 0, params |-> <<>>]

-----------------------------------------------------------------------------
\* The reference: a route serves exactly the paths that its pattern becomes
\* when every "{name}" is replaced by a word.

Methods == {"GET", "POST", "DELETE", "PUT"}

Fill(segments, values) ==
    [i \in 1..Len(segments) |->
        IF segments[i] = Param
        THEN values[Cardinality({j \in 1..i : segments[j] = Param})] ELSE segments[i]]

ParamCount(r) == Cardinality({i \in 1..Len(r.segments) : r.segments[i] = Param})

\* <<route, values>> for every way in which a route becomes the given words.
Fillings(segments) ==
    UNION {{<<i, v>> : v \in {w \in [1..ParamCount(routes_[i]) -> Words] :
                                Fill(routes_[i].segments, w) = segments}} :
           i \in 1..Len(routes_)}

Written(segments) ==
    [i \in 1..(2 * Len(segments)) |-> IF i % 2 = 1 THEN "/" ELSE segments[i \div 2]]

\* What may follow a path without changing its meaning.
Tails == {<<>>, <<"/">>, <<"?">>, <<"/", "/">>, <<"?", "x">>, <<"/", "?", "x", "/", "x">>}

\* Dispatch and the reference agree on every path and method.
TableAgrees ==
    \A segments \in SeqOf(Words, MaxSegments) :
        LET any == Fillings(segments) IN
        \A method \in Methods, tail \in Tails :
            LET mine == {f \in any : routes_[f[1]].method = method}
                d    == Dispatch(method, Written(segments) \o tail)
            IN  /\ d.route # 0 => mine = {<<d.route, d.params>>}
                /\ d.route = 0 => mine = {} /\ d.status = IF any = {} THEN 404 ELSE 405
=============================================================================
