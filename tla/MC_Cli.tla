------------------------------- MODULE MC_Cli -------------------------------
(***************************************************************************)
(* Instance of Cli for TLC.  The first run deploys with every short list   *)
(* of further arguments, or does anything else with two; the second uses   *)
(* the function meanwhile or deploys another version of it.  With ints of  *)
(* 18 bits "2m" fits and "200s" does not.  The platform's idle timeout is  *)
(* not the 60000 that the client sends for an empty flag.                  *)
(***************************************************************************)
EXTENDS Cli

Text(key, text)   == Arg(key, text, Null, Null, "", Null)
Flag(key)         == Text(key, <<key>>)
Word(w)           == Text(Null, <<w>>)
Dec(n, real, unit) == Arg(Null, <<"n">>, n, real, unit, Null)
Num(n, unit)      == Dec(n, 10 * n, unit)

Line(command, argv) == [command |-> command, argv |-> argv]

F       == Word("f")
Queried == Text(Null, <<"f", "?", "x">>)
Query   == Text(Null, <<"?">>)
Nested  == Text(Null, <<"f", "/", "runtime">>)
Again   == Text(Null, <<"f", "/", "invoke", "?">>)

\* A function as JSON, with a number that is no int of this size.
Function == Arg(Null, <<"json">>, Null, Null, "",
                [name |-> <<"g">>, image |-> <<"v3">>,
                 settings |-> [key \in Settings |->
                                CASE key \in {"timeout", "idle-timeout"} -> 300000
                                  [] key = "memory"                      -> 64
                                  [] OTHER                               -> Null]])

Basic == <<F, Flag("image"), Word("v1")>>

Extra == {F, Flag("image"), Flag("timeout"), Flag("memory"), Num(5, "s"), Num(200, "s"),
          Num(1, "Gi"), Empty}

Values == {Flag("timeout"), Flag("cpu"), Flag("concurrency"), Flag("idle-timeout"),
           Num(2, "m"), Num(7, "ms"), Num(3, ""), Num(200000, ""), Num(1, "h"), Num(64, "Mi"),
           Dec(0, 5, ""), Dec(1, 15, "s")}

Deploys == {Line("deploy", Basic \o tail) : tail \in SeqOf(Extra, 3) \cup SeqOf(Values, 2)}
           \cup {Line("deploy", argv) : argv \in SeqOf({F, Flag("image"), Word("v1")}, 3)}

Others == {Line(command, argv) : command \in (Commands \ {"deploy"}) \cup {"unknown"},
               argv \in SeqOf({F, Queried, Query, Nested, Again, Flag("data"), Empty}, 2)}

Documented == {Line("invoke", <<word, Flag("data"), Function>>) : word \in {F, Query, Queried}}

Second == {Line("deploy", <<Flag("image"), Word("v2"), F>>), Line("invoke", <<F>>),
           Line("delete", <<F>>), Line("describe", <<F>>)}

TwoRuns == <<Deploys \cup Others \cup Documented, Second>>
=============================================================================
